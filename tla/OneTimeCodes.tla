---------------------------- MODULE OneTimeCodes ----------------------------
(***************************************************************************)
(* The one-time codes of one recipient: RequestOTP and VerifyOTP of the    *)
(* identity service, one step per statement, with the rows of              *)
(* payments_otptoken in the order of their ids.                            *)
(*                                                                         *)
(* A code is identified with its row: two codes of six random digits are   *)
(* taken to differ.  Time passes by Expire (ten minutes) and Age (an hour).*)
(***************************************************************************)
EXTENDS Integers, Sequences, FiniteSets

CONSTANTS
    Requests,        \* slots for running RequestOTP calls
    Verifications,   \* slots for running VerifyOTP calls
    otpMaxPerHour,   \* 5 in the code
    otpMaxAttempts,  \* 5 in the code
    MaxCodes,        \* bound: rows
    MaxFailures      \* bound: statements, deliveries and signatures that fail

ASSUME CodesAssumption ==
    /\ IsFiniteSet(Requests) /\ Requests # {}
    /\ IsFiniteSet(Verifications) /\ Verifications # {}
    /\ otpMaxPerHour \in Nat \ {0} /\ otpMaxAttempts \in Nat \ {0}
    /\ MaxCodes \in Nat /\ MaxFailures \in Nat

VARIABLES
    table,     \* rows of payments_otptoken, oldest first
    asking,    \* local state of each RequestOTP
    checking,  \* local state of each VerifyOTP
    tokens,    \* tokens[i]: identity tokens minted for the code of row i
    failures

vars == <<table, asking, checking, tokens, failures>>

Row == [consumed: BOOLEAN, attempts: Nat, expired: BOOLEAN, recent: BOOLEAN]
NewRow == [consumed |-> FALSE, attempts |-> 0, expired |-> FALSE, recent |-> TRUE]

AskingStep == {"idle", "counted", "invalidated", "stored"}
NoCheck == [pc |-> "idle", row |-> 0]
Check == [pc: {"idle", "mismatched", "matched", "consumed"}, row: Nat]

TypeOK ==
    /\ table \in Seq(Row) /\ Len(table) <= MaxCodes
    /\ asking \in [Requests -> AskingStep]
    /\ checking \in [Verifications -> Check]
    /\ \A v \in Verifications : checking[v].row \in 0..Len(table)
    /\ \A v \in Verifications : checking[v].pc # "idle" => checking[v].row # 0
    /\ tokens \in [1..MaxCodes -> Nat]
    /\ failures \in 0..MaxFailures

Init ==
    /\ table = <<>>
    /\ asking = [q \in Requests |-> "idle"]
    /\ checking = [v \in Verifications |-> NoCheck]
    /\ tokens = [i \in 1..MaxCodes |-> 0]
    /\ failures = 0

\* Codes that consumed_at IS NULL selects, and codes of the last hour.
Live == {i \in DOMAIN table : ~table[i].consumed}
Recent == {i \in DOMAIN table : table[i].recent}

Fails == failures < MaxFailures /\ failures' = failures + 1

-----------------------------------------------------------------------------
(* RequestOTP.                                                             *)

\* Mutant: the codes of the last hour are counted after the limit was compared.
CountSkipped(q) ==
    /\ asking[q] = "idle"
    /\ asking' = [asking EXCEPT ![q] = "counted"]
    /\ UNCHANGED <<table, checking, tokens, failures>>

\* The rate limit: a request over it ends with the time until the oldest code
\* leaves the hour, and changes nothing.
Count(q) ==
    /\ asking[q] = "idle"
    /\ Cardinality(Recent) < otpMaxPerHour
    /\ asking' = [asking EXCEPT ![q] = "counted"]
    /\ UNCHANGED <<table, checking, tokens, failures>>

\* Mutant: the older codes stay.
InvalidateSkipped(q) ==
    /\ asking[q] = "counted"
    /\ asking' = [asking EXCEPT ![q] = "invalidated"]
    /\ UNCHANGED <<table, checking, tokens, failures>>

\* Every live code of the recipient is consumed.
Invalidate(q) ==
    /\ asking[q] = "counted"
    /\ table' = [i \in DOMAIN table |-> [table[i] EXCEPT !.consumed = TRUE]]
    /\ asking' = [asking EXCEPT ![q] = "invalidated"]
    /\ UNCHANGED <<checking, tokens, failures>>

Store(q) ==
    /\ asking[q] = "invalidated"
    /\ Len(table) < MaxCodes
    /\ table' = Append(table, NewRow)
    /\ asking' = [asking EXCEPT ![q] = "stored"]
    /\ UNCHANGED <<checking, tokens, failures>>

\* The SMS or the mail is sent; a failed delivery leaves its row.
Deliver(q) ==
    /\ asking[q] = "stored"
    /\ asking' = [asking EXCEPT ![q] = "idle"]
    /\ Fails \/ UNCHANGED failures
    /\ UNCHANGED <<table, checking, tokens>>

\* A statement fails: what the earlier ones wrote stays.
RequestFails(q) ==
    /\ asking[q] \in {"counted", "invalidated"}
    /\ asking' = [asking EXCEPT ![q] = "idle"]
    /\ Fails
    /\ UNCHANGED <<table, checking, tokens>>

-----------------------------------------------------------------------------
(* VerifyOTP.                                                              *)

\* The newest live row is the only one a code is compared with.
Newest(i) == i \in Live /\ \A j \in Live : j <= i

\* Mutant: the attempts of the row are not looked at.
LookUpUnlimited(v, i, right) ==
    /\ checking[v].pc = "idle"
    /\ Newest(i)
    /\ checking' = [checking EXCEPT ![v] =
                      [pc |-> IF right THEN "matched" ELSE "mismatched", row |-> i]]
    /\ UNCHANGED <<table, asking, tokens, failures>>

\* The row is read, its attempts are compared, then the hashes.  Without a
\* live row, or after too many attempts, the call ends and changes nothing.
LookUp(v, i, right) ==
    /\ checking[v].pc = "idle"
    /\ Newest(i)
    /\ table[i].attempts < otpMaxAttempts
    /\ checking' = [checking EXCEPT ![v] =
                      [pc |-> IF right THEN "matched" ELSE "mismatched", row |-> i]]
    /\ UNCHANGED <<table, asking, tokens, failures>>

\* Mutant: the column counts the attempts left, from the zero it starts with.
CountDown(v) ==
    /\ checking[v].pc = "mismatched"
    /\ table' = [table EXCEPT ![checking[v].row].attempts = @ - 1]
    /\ checking' = [checking EXCEPT ![v] = NoCheck]
    /\ UNCHANGED <<asking, tokens, failures>>

\* A wrong code costs an attempt; an error of that statement is discarded.
CountFailure(v) ==
    /\ checking[v].pc = "mismatched"
    /\ \/ /\ table' = [table EXCEPT ![checking[v].row].attempts = @ + 1]
          /\ UNCHANGED failures
       \/ Fails /\ UNCHANGED table
    /\ checking' = [checking EXCEPT ![v] = NoCheck]
    /\ UNCHANGED <<asking, tokens>>

\* Mutant: the UPDATE has lost its condition on consumed_at.
ConsumeAgain(v) ==
    LET i == checking[v].row
    IN  /\ checking[v].pc = "matched"
        /\ \/ /\ ~table[i].expired
              /\ table' = [table EXCEPT ![i].consumed = TRUE]
              /\ checking' = [checking EXCEPT ![v].pc = "consumed"]
           \/ /\ table[i].expired
              /\ checking' = [checking EXCEPT ![v] = NoCheck]
              /\ UNCHANGED table
        /\ UNCHANGED <<asking, tokens, failures>>

\* The conditional UPDATE; no row affected is answered as an expired code.
Consume(v) ==
    LET i == checking[v].row
        usable == ~table[i].consumed /\ ~table[i].expired
    IN  /\ checking[v].pc = "matched"
        /\ \/ /\ usable
              /\ table' = [table EXCEPT ![i].consumed = TRUE]
              /\ checking' = [checking EXCEPT ![v].pc = "consumed"]
           \/ /\ ~usable
              /\ checking' = [checking EXCEPT ![v] = NoCheck]
              /\ UNCHANGED table
        /\ UNCHANGED <<asking, tokens, failures>>

\* The token is signed and the contact registered (module IdentityLinks).
SignIn(v) ==
    /\ checking[v].pc = "consumed"
    /\ tokens' = [tokens EXCEPT ![checking[v].row] = @ + 1]
    /\ checking' = [checking EXCEPT ![v] = NoCheck]
    /\ UNCHANGED <<table, asking, failures>>

\* The consuming statement or the signature fails, or the process dies here.
VerifyFails(v) ==
    /\ checking[v].pc \in {"matched", "consumed"}
    /\ checking' = [checking EXCEPT ![v] = NoCheck]
    /\ Fails
    /\ UNCHANGED <<table, asking, tokens>>

-----------------------------------------------------------------------------
(* Time, and the process.                                                  *)

\* expires_at passes: it is fixed before the row is stored, so two requests
\* at once may expire in either order.
Expire(i) ==
    /\ ~table[i].expired
    /\ table' = [table EXCEPT ![i].expired = TRUE]
    /\ UNCHANGED <<asking, checking, tokens, failures>>

\* created_at leaves the hour, oldest first and long after the code expired.
Age(i) ==
    /\ table[i].recent /\ table[i].expired
    /\ \A j \in Recent : i <= j
    /\ table' = [table EXCEPT ![i].recent = FALSE]
    /\ UNCHANGED <<asking, checking, tokens, failures>>

\* The process dies with every call in it.
Crash ==
    /\ Fails
    /\ asking' = [q \in Requests |-> "idle"]
    /\ checking' = [v \in Verifications |-> NoCheck]
    /\ UNCHANGED <<table, tokens>>

RequestOTP(q) == Count(q) \/ Invalidate(q) \/ Store(q) \/ Deliver(q) \/ RequestFails(q)

VerifyOTP(v) ==
    \/ \E i \in DOMAIN table, right \in BOOLEAN : LookUp(v, i, right)
    \/ CountFailure(v) \/ Consume(v) \/ SignIn(v) \/ VerifyFails(v)

Next ==
    \/ \E q \in Requests : RequestOTP(q)
    \/ \E v \in Verifications : VerifyOTP(v)
    \/ \E i \in DOMAIN table : Expire(i) \/ Age(i)
    \/ Crash

Spec == Init /\ [][Next]_vars

-----------------------------------------------------------------------------
(* Properties.                                                             *)

\* However many verifications of a code run at once, it signs in once.
CodeSignsInOnce == \A i \in 1..MaxCodes : tokens[i] <= 1

\* RequestOTP invalidates the previous codes: more than one is live only
\* while as many requests overlapped between their two statements.
LiveCodesOverlapped ==
    Cardinality(Live) <= Cardinality(Requests)

\* The attempts of a code exceed their limit only by verifications that read
\* the row at the same time.
AttemptsAreLimited ==
    \A i \in DOMAIN table :
        table[i].attempts < otpMaxAttempts + Cardinality(Verifications)

\* The codes of an hour exceed their limit only by requests that counted at
\* the same time, whether they were delivered or not.
CodesPerHourAreLimited ==
    Cardinality(Recent) < otpMaxPerHour + Cardinality(Requests)

-----------------------------------------------------------------------------
(* The inductive invariants behind the proofs.                             *)

\* Requests past their invalidation, past their count, and verifications that
\* will add an attempt to row i.
Storing == {q \in Requests : asking[q] = "invalidated"}
Counted == {q \in Requests : asking[q] \in {"counted", "invalidated"}}
Mismatching(i) == {v \in Verifications : checking[v] = [pc |-> "mismatched", row |-> i]}

LiveInv == Cardinality(Live) + Cardinality(Storing) <= Cardinality(Requests)
HourInv == Cardinality(Recent) + Cardinality(Counted) < otpMaxPerHour + Cardinality(Requests)
AttemptInv ==
    \A i \in DOMAIN table :
        table[i].attempts + Cardinality(Mismatching(i))
            < otpMaxAttempts + Cardinality(Verifications)

\* A minted or about-to-be-minted code is consumed, and only one call holds it.
ConsumedInv ==
    /\ \A v \in Verifications : checking[v].pc = "consumed" =>
          table[checking[v].row].consumed /\ tokens[checking[v].row] = 0
    /\ \A v, w \in Verifications :
          checking[v].pc = "consumed" /\ checking[w] = checking[v] => v = w
    /\ \A i \in 1..MaxCodes : tokens[i] > 0 => i \in DOMAIN table /\ table[i].consumed
    /\ \A i \in 1..MaxCodes : tokens[i] <= 1
=============================================================================
