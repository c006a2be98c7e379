-------------------------- MODULE PasswordSessions --------------------------
(***************************************************************************)
(* The password account of one customer and the sessions it opens:         *)
(* LoginWithPassword, ChangePassword and ResetPassword (also behind        *)
(* register), one step per statement, over the tokens of IdentityTokens.   *)
(*                                                                         *)
(* A password is right or wrong for the hash a call loaded; the lock of    *)
(* fifteen minutes ends by Elapse.                                         *)
(***************************************************************************)
EXTENDS IdentityTokens

CONSTANTS
    Logins,             \* slots for running logins
    Owner,              \* the slot of the customer, who keeps trying
    Setters,            \* slots for running changes and resets
    passwordLockAfter,  \* 5 in the code
    MaxUncounted,       \* bound: wrong passwords of changes between two resets
    MaxSets,            \* bound: passwords set
    MaxFailures         \* bound: statements that fail, crashes

ASSUME SessionsAssumption ==
    /\ IsFiniteSet(Logins) /\ Owner \in Logins /\ IsFiniteSet(Setters)
    /\ passwordLockAfter \in Nat \ {0, 1}
    /\ MaxUncounted \in Nat /\ MaxSets \in Nat /\ MaxFailures \in Nat

VARIABLES
    hasAccount,  \* the customer has a row in payments_identity_account
    failed,      \* failed_attempts, followed up to passwordLockAfter
    lock,        \* locked_until: NULL, in the future, or in the past
    logins,      \* local state of each login
    setters,     \* local state of each change or reset
    tested,      \* wrong passwords compared since failed_attempts was last reset,
                 \* until the account was first locked
    uncounted,   \* those of them that ChangePassword compared
    sets,
    failures

accountVars == <<hasAccount, failed, lock>>
callVars == <<logins, setters>>
ghostVars == <<tested, uncounted, sets, failures>>
vars == <<tokenVars, accountVars, callVars, ghostVars>>

LoginStep == {"idle", "mismatched", "matched", "minted"}

TypeOK ==
    /\ TokensTypeOK
    /\ hasAccount \in BOOLEAN /\ failed \in 0..passwordLockAfter
    /\ lock \in {"none", "active", "elapsed"}
    /\ logins \in [Logins -> LoginStep]
    /\ setters \in [Setters -> {"idle", "allowed"}]
    /\ tested \in Nat /\ uncounted \in 0..MaxUncounted
    /\ sets \in 0..MaxSets /\ failures \in 0..MaxFailures

Init ==
    /\ TokensInit
    /\ hasAccount \in BOOLEAN /\ failed = 0 /\ lock = "none"
    /\ logins = [l \in Logins |-> "idle"]
    /\ setters = [s \in Setters |-> "idle"]
    /\ tested = 0 /\ uncounted = 0 /\ sets = 0 /\ failures = 0

\* Logins that compared a wrong password and did not count it yet.
Mismatching == {l \in Logins : logins[l] = "mismatched"}

OneMoreTested == IF lock = "none" THEN tested + 1 ELSE tested

\* The increment of failed_attempts.
OneMoreFailed == IF failed < passwordLockAfter THEN failed + 1 ELSE failed

Fails == failures < MaxFailures /\ failures' = failures + 1

-----------------------------------------------------------------------------
(* LoginWithPassword.                                                      *)

\* Mutant: a lock counts until a password is set.
LoadUnlessLocked(l, right) ==
    /\ logins[l] = "idle"
    /\ hasAccount /\ lock = "none"
    /\ tested' = IF right THEN tested ELSE OneMoreTested
    /\ logins' = [logins EXCEPT ![l] = IF right THEN "matched" ELSE "mismatched"]
    /\ UNCHANGED <<tokenVars, accountVars, setters, uncounted, sets, failures>>

\* The row is read, a lock in the future refuses, the hash is compared.
Load(l, right) ==
    /\ logins[l] = "idle"
    /\ hasAccount /\ lock # "active"
    /\ tested' = IF right THEN tested ELSE OneMoreTested
    /\ logins' = [logins EXCEPT ![l] = IF right THEN "matched" ELSE "mismatched"]
    /\ UNCHANGED <<tokenVars, accountVars, setters, uncounted, sets, failures>>

\* Mutant: the count is read and written back, so of two failures at once one
\* is lost.
CountFailureClobbered(l) ==
    LET counted == IF Cardinality(Mismatching) > 1 THEN failed ELSE OneMoreFailed
    IN  /\ logins[l] = "mismatched"
        /\ failed' = counted
        /\ lock' = IF counted + 1 >= passwordLockAfter THEN "active" ELSE lock
        /\ logins' = [logins EXCEPT ![l] = "idle"]
        /\ UNCHANGED <<tokenVars, hasAccount, setters, ghostVars>>

\* One UPDATE of the row's own value.  MySQL evaluates its assignments from left
\* to right: the CASE that locks adds one to the count just incremented.  The
\* row is read again only to word the answer.
CountFailure(l) ==
    /\ logins[l] = "mismatched"
    /\ failed' = OneMoreFailed
    /\ lock' = IF failed' + 1 >= passwordLockAfter THEN "active" ELSE lock
    /\ logins' = [logins EXCEPT ![l] = "idle"]
    /\ UNCHANGED <<tokenVars, hasAccount, setters, ghostVars>>

SignIn(l) ==
    /\ logins[l] = "matched"
    /\ Mint
    /\ logins' = [logins EXCEPT ![l] = "minted"]
    /\ UNCHANGED <<clock, revokedAt, primary, previous, accountVars, setters, ghostVars>>

\* failed_attempts = 0, locked_until = NULL; an error of it is discarded, and
\* the contact is registered (module IdentityLinks).
ClearFailures(l) ==
    /\ logins[l] = "minted"
    /\ \/ failed' = 0 /\ lock' = "none"
          /\ tested' = 0 /\ uncounted' = 0 /\ UNCHANGED failures
       \/ Fails /\ UNCHANGED <<failed, lock, tested, uncounted>>
    /\ logins' = [logins EXCEPT ![l] = "idle"]
    /\ UNCHANGED <<tokenVars, hasAccount, setters, sets>>

-----------------------------------------------------------------------------
(* ChangePassword and ResetPassword.                                       *)

\* The bearer is accepted and the current password compared with the stored
\* hash; neither the lock nor the failures are looked at.
AllowChange(s) ==
    /\ setters[s] = "idle" /\ sets < MaxSets
    /\ hasAccount /\ Bearers # {}
    /\ setters' = [setters EXCEPT ![s] = "allowed"]
    /\ UNCHANGED <<tokenVars, accountVars, logins, ghostVars>>

\* A wrong current password is refused and counted nowhere (once the account was
\* locked, nothing that is followed changes).
RefuseChange(s) ==
    /\ setters[s] = "idle" /\ uncounted < MaxUncounted
    /\ hasAccount /\ Bearers # {} /\ lock = "none"
    /\ tested' = tested + 1 /\ uncounted' = uncounted + 1
    /\ UNCHANGED <<tokenVars, accountVars, callVars, sets, failures>>

\* Register and reset: a bearer minted a moment ago stands for the password.
AllowReset(s) ==
    /\ setters[s] = "idle" /\ sets < MaxSets
    /\ FreshBearers # {}
    /\ setters' = [setters EXCEPT ![s] = "allowed"]
    /\ UNCHANGED <<tokenVars, accountVars, logins, ghostVars>>

\* Inserts or replaces the row, with no condition on what it held.
SetPassword(s) ==
    /\ setters[s] = "allowed" /\ sets < MaxSets
    /\ hasAccount' = TRUE /\ failed' = 0 /\ lock' = "none"
    /\ tested' = 0 /\ uncounted' = 0 /\ sets' = sets + 1
    /\ setters' = [setters EXCEPT ![s] = "idle"]
    /\ UNCHANGED <<tokenVars, logins, failures>>

-----------------------------------------------------------------------------
(* The surroundings.                                                       *)

\* A code or a Google account is verified and its token minted.
VerifyContact ==
    /\ Len(tokens) < MaxTokens
    /\ Mint
    /\ UNCHANGED <<clock, revokedAt, primary, previous, accountVars, callVars, ghostVars>>

Elapse ==
    /\ lock = "active" /\ lock' = "elapsed"
    /\ UNCHANGED <<tokenVars, hasAccount, failed, callVars, ghostVars>>

\* A statement fails, or the process dies with the call.
LoginFails(l) ==
    /\ logins[l] # "idle"
    /\ logins' = [logins EXCEPT ![l] = "idle"] /\ Fails
    /\ UNCHANGED <<tokenVars, accountVars, setters, tested, uncounted, sets>>

SetFails(s) ==
    /\ setters[s] # "idle"
    /\ setters' = [setters EXCEPT ![s] = "idle"] /\ Fails
    /\ UNCHANGED <<tokenVars, accountVars, logins, tested, uncounted, sets>>

Others == UNCHANGED <<accountVars, callVars, ghostVars>>

LoginWithPassword(l) ==
    \/ \E right \in BOOLEAN : Load(l, right)
    \/ CountFailure(l) \/ SignIn(l) \/ ClearFailures(l) \/ LoginFails(l)

Next ==
    \/ \E l \in Logins : LoginWithPassword(l)
    \/ \E s \in Setters :
          \/ AllowChange(s) \/ RefuseChange(s) \/ AllowReset(s)
          \/ SetPassword(s) \/ SetFails(s)
    \/ VerifyContact \/ Elapse
    \/ Others /\ (RevokeIdentity \/ Rotate \/ Retire \/ Tick)

\* The clock of the lock runs; the owner sends the right password again and
\* again, and a call that runs ends.
Fairness ==
    /\ WF_vars(Elapse)
    /\ WF_vars(Load(Owner, TRUE)) /\ WF_vars(SignIn(Owner))
    /\ \A l \in Logins : WF_vars(CountFailure(l)) /\ WF_vars(ClearFailures(l))

Spec == Init /\ [][Next]_vars /\ Fairness

-----------------------------------------------------------------------------
(* Properties.                                                             *)

\* Concurrent guesses: until the account is locked, the wrong passwords compared
\* since the last reset stay one below the limit -- the lock comes with the last
\* but one -- except for those whose increment is on its way or failed and those
\* that ChangePassword compares.
GuessesBeforeLock ==
    lock = "none" =>
        tested + 1 < passwordLockAfter + Cardinality(Mismatching) + failures + uncounted

\* A lock ends by itself: the owner gets in again and again, unless somebody
\* keeps having wrong passwords counted.  The count stays at the limit when a
\* lock ends, so one wrong password then locks the account again.
OwnerGetsIn ==
    \/ hasAccount ~> (logins[Owner] = "minted")
    \/ []<><<\E l \in Logins : CountFailure(l)>>_vars

\* The inductive invariant of GuessesBeforeLock.
GuessInv ==
    lock = "none" =>
        /\ tested <= failed + Cardinality(Mismatching) + failures + uncounted
        /\ failed + 1 < passwordLockAfter
=============================================================================
