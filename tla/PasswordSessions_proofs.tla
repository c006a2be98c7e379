----------------------- MODULE PasswordSessions_proofs -----------------------
(***************************************************************************)
(* Proofs about PasswordSessions and the IdentityTokens it extends, for    *)
(* any number of logins, tokens, revocations and secrets and any limits.   *)
(***************************************************************************)
EXTENDS PasswordSessions, FiniteSetTheorems, SequenceTheorems, TLAPS

-----------------------------------------------------------------------------
(* Tokens.                                                                 *)

\* What a step of the system does to the tokens and what they are checked by.
MintStep == Mint /\ UNCHANGED <<clock, revokedAt, primary, previous>>
TokenStep ==
  \/ UNCHANGED tokenVars \/ MintStep
  \/ RevokeIdentity \/ Rotate \/ Retire \/ Tick

LEMMA NextTokens == [Next]_vars => TokenStep
BY DEF Next, vars, TokenStep, MintStep, LoginWithPassword, Load, CountFailure, SignIn,
       ClearFailures, LoginFails, AllowChange, RefuseChange, AllowReset, SetPassword, SetFails,
       VerifyContact, Elapse

LEMMA TokenFields ==
  ASSUME NEW t \in Token
  PROVE  /\ t.at \in 0..MaxClock /\ t.key \in 1..MaxKeys
         /\ t.iat \in BOOLEAN /\ t.kid \in BOOLEAN
         /\ t.at \in Nat /\ t.key \in Nat
BY TokensAssumption DEF Token

\* Tokens keep their places, and every token is one.
LEMMA TokensListed ==
  ASSUME TokensTypeOK
  PROVE  /\ Len(tokens) \in Nat /\ DOMAIN tokens = 1..Len(tokens)
         /\ \A i \in DOMAIN tokens : tokens[i] \in Token
BY LenProperties DEF TokensTypeOK

LEMMA ClockType ==
  ASSUME TokensTypeOK
  PROVE  /\ clock \in Nat /\ primary \in Nat
         /\ \A r \in revokedAt : r \in Nat
BY TokensAssumption DEF TokensTypeOK

\* Minting appends a token of the primary secret, or (past the bound) nothing.
LEMMA Minted ==
  ASSUME TokensTypeOK, Mint
  PROVE  /\ tokens' \in Seq(Token) /\ Len(tokens') <= MaxTokens
         /\ DOMAIN tokens \subseteq DOMAIN tokens'
         /\ \A i \in DOMAIN tokens : tokens'[i] = tokens[i]
         /\ \A i \in DOMAIN tokens' : i \notin DOMAIN tokens => tokens'[i].key = primary
<1>1. tokens \in Seq(Token) /\ Len(tokens) \in Nat /\ Len(tokens) <= MaxTokens
  BY TokensListed DEF TokensTypeOK
<1>2. CASE Len(tokens) < MaxTokens
  <2>. DEFINE t == [at |-> clock, key |-> primary, iat |-> TRUE, kid |-> TRUE]
  <2>1. t \in Token /\ t.key = primary
    BY DEF Token, TokensTypeOK
  <2>2. tokens' = Append(tokens, t)
    BY <1>2 DEF Mint
  <2>. HIDE DEF t
  <2>3. /\ tokens' \in Seq(Token) /\ Len(tokens') = Len(tokens) + 1
        /\ \A i \in 1..Len(tokens) : tokens'[i] = tokens[i]
        /\ tokens'[Len(tokens) + 1] = t
    BY <1>1, <2>1, <2>2
  <2>4. DOMAIN tokens = 1..Len(tokens) /\ DOMAIN tokens' = 1..(Len(tokens) + 1)
    BY <1>1, <2>3, LenProperties
  <2>5. /\ 1..Len(tokens) \subseteq 1..(Len(tokens) + 1)
        /\ \A i \in 1..(Len(tokens) + 1) : i \notin 1..Len(tokens) => i = Len(tokens) + 1
    BY <1>1
  <2>6. Len(tokens) + 1 <= MaxTokens
    BY <1>1, <1>2, TokensAssumption
  <2>. QED BY <2>1, <2>3, <2>4, <2>5, <2>6
<1>3. CASE tokens' = tokens
  BY <1>1, <1>3
<1>. QED BY <1>2, <1>3 DEF Mint

\* No token was signed by a secret that is still to be configured.
KeysInv == \A i \in DOMAIN tokens : tokens[i].key <= primary

LEMMA TokensStart == TokensInit => TokensTypeOK /\ KeysInv
<1>. SUFFICES ASSUME TokensInit PROVE TokensTypeOK /\ KeysInv
  OBVIOUS
<1>. DEFINE t(iat) == [at |-> 0, key |-> 1, iat |-> iat, kid |-> FALSE]
<1>1. \A iat \in BOOLEAN : t(iat) \in Token /\ t(iat).key = 1
  BY TokensAssumption DEF Token
<1>2. tokens = <<>> \/ \E iat \in BOOLEAN : tokens = <<t(iat)>>
  BY DEF TokensInit
<1>. HIDE DEF t
<1>3. /\ clock \in 0..MaxClock /\ revokedAt \subseteq 0..MaxClock
      /\ primary = 1 /\ primary \in 1..MaxKeys /\ previous \subseteq 1..MaxKeys
  BY TokensAssumption DEF TokensInit
<1>4. CASE tokens = <<>>
  <2>1. tokens \in Seq(Token) /\ Len(tokens) = 0 /\ DOMAIN tokens = {}
    BY <1>4, EmptySeq
  <2>2. Len(tokens) <= MaxTokens
    BY <2>1, TokensAssumption
  <2>. QED BY <1>3, <2>1, <2>2 DEF TokensTypeOK, KeysInv
<1>5. ASSUME NEW iat \in BOOLEAN, tokens = <<t(iat)>> PROVE TokensTypeOK /\ KeysInv
  <2>1. tokens \in Seq(Token) /\ Len(tokens) = 1 /\ tokens[1] = t(iat)
    BY <1>1, <1>5
  <2>2. DOMAIN tokens = {1}
    BY <2>1, LenProperties
  <2>3. Len(tokens) <= MaxTokens
    BY <2>1, TokensAssumption
  <2>4. \A i \in DOMAIN tokens : tokens[i].key <= primary
    BY <1>1, <1>3, <2>1, <2>2
  <2>. QED BY <1>3, <2>1, <2>3, <2>4 DEF TokensTypeOK, KeysInv
<1>. QED BY <1>2, <1>4, <1>5

LEMMA TokensKept == TokensTypeOK /\ KeysInv /\ TokenStep => TokensTypeOK' /\ KeysInv'
<1>. SUFFICES ASSUME TokensTypeOK, KeysInv, TokenStep PROVE TokensTypeOK' /\ KeysInv'
  OBVIOUS
<1>. DEFINE Frame == /\ clock \in 0..MaxClock /\ revokedAt \subseteq 0..MaxClock
                     /\ primary \in 1..MaxKeys /\ previous \subseteq 1..MaxKeys
<1>1. Frame
  BY DEF TokensTypeOK
<1>2. ASSUME UNCHANGED tokens, Frame', primary <= primary' PROVE TokensTypeOK' /\ KeysInv'
  <2>1. TokensTypeOK'
    BY <1>2 DEF TokensTypeOK
  <2>2. \A i \in DOMAIN tokens : tokens[i].key \in Nat /\ tokens[i].key <= primary
    BY TokensListed, TokenFields DEF KeysInv
  <2>3. primary \in Nat /\ primary' \in Nat
    BY <1>1, <1>2, TokensAssumption
  <2>4. \A i \in DOMAIN tokens : tokens[i].key <= primary'
    BY <1>2, <2>2, <2>3
  <2>. QED BY <1>2, <2>1, <2>4 DEF KeysInv
<1>3. CASE MintStep
  <2>1. TokensTypeOK'
    BY <1>3, Minted DEF MintStep, TokensTypeOK
  <2>2. \A i \in DOMAIN tokens' : tokens'[i].key <= primary
    <3>1. primary <= primary
      BY <1>1, TokensAssumption
    <3>. QED BY <1>3, <3>1, Minted DEF MintStep, KeysInv
  <2>. QED BY <1>3, <2>1, <2>2 DEF MintStep, KeysInv
<1>4. primary <= primary
  BY <1>1, TokensAssumption
<1>5. CASE UNCHANGED tokenVars
  BY <1>1, <1>2, <1>4, <1>5 DEF tokenVars
<1>6. CASE RevokeIdentity
  BY <1>1, <1>2, <1>4, <1>6 DEF RevokeIdentity
<1>7. CASE Rotate
  <2>1. primary' \in 1..MaxKeys /\ primary <= primary'
    BY <1>1, <1>7, TokensAssumption DEF Rotate
  <2>. QED BY <1>1, <1>2, <1>7, <2>1 DEF Rotate
<1>8. CASE Retire
  BY <1>1, <1>2, <1>4, <1>8 DEF Retire
<1>9. CASE Tick
  <2>1. clock' \in 0..MaxClock
    BY <1>1, <1>9, TokensAssumption DEF Tick
  <2>. QED BY <1>1, <1>2, <1>4, <1>9, <2>1 DEF Tick
<1>. QED BY <1>3, <1>5, <1>6, <1>7, <1>8, <1>9 DEF TokenStep

\* An instant lies in its second.
LEMMA SecondBounds ==
  ASSUME NEW t \in Nat
  PROVE  Second(t) \in Nat /\ 2 * Second(t) <= t /\ t <= 2 * Second(t) + 1
BY DEF Second

LEMMA SecondGrows ==
  ASSUME NEW s \in Nat, NEW t \in Nat, s <= t
  PROVE  Second(s) <= Second(t)
BY DEF Second

\* A token minted before a revocation is refused from that instant on
\* (IdentityRevoked compares revoked_at with the token's whole second).
LEMMA RevokedRefused == TokensTypeOK => RevokedTokensAreRefused
<1>. SUFFICES ASSUME TokensTypeOK, NEW i \in DOMAIN tokens,
                     NEW r \in revokedAt, tokens[i].at < r
              PROVE  i \notin Bearers
  BY DEF RevokedTokensAreRefused
<1>1. tokens[i].at \in Nat /\ r \in Nat
  BY TokensListed, TokenFields, ClockType
<1>2. r > 2 * Second(tokens[i].at)
  <2>1. /\ Second(tokens[i].at) \in Nat
        /\ 2 * Second(tokens[i].at) <= tokens[i].at
    BY <1>1, SecondBounds
  <2>. QED BY <1>1, <2>1
<1>3. Revoked(tokens[i])
  BY <1>2 DEF Revoked
<1>. QED BY <1>3 DEF Bearers, Accepted

-----------------------------------------------------------------------------
(* Acceptance ends once.                                                   *)

\* Acceptance depends on the clock, the registry and the secrets only.
LEMMA AcceptedSame ==
  ASSUME NEW t, UNCHANGED <<clock, revokedAt, primary, previous>>
  PROVE  Accepted(t)' = Accepted(t)
BY DEF Accepted, SecretKnown, Unexpired, Revoked

\* What each step does to the acceptance of one token.
LEMMA AcceptanceStep ==
  ASSUME TokensTypeOK, KeysInv, TokenStep, NEW i \in DOMAIN tokens, NEW t \in Token,
         t = tokens[i]
  PROVE  /\ Accepted(t)' => Accepted(t)
         /\ Accepted(t) /\ ~Accepted(t)' => Ends(t)
<1>1. t.at \in Nat /\ t.key \in Nat /\ t.kid \in BOOLEAN /\ clock \in Nat /\ primary \in Nat
  BY TokenFields, ClockType
<1>2. t.key <= primary
  BY DEF KeysInv
<1>3. CASE UNCHANGED <<clock, revokedAt, primary, previous>>
  BY <1>3, AcceptedSame
<1>4. CASE RevokeIdentity
  <2>1. UNCHANGED <<clock, primary, previous>> /\ revokedAt \subseteq revokedAt'
    BY <1>4 DEF RevokeIdentity
  <2>2. Revoked(t) => Revoked(t)'
    BY <2>1 DEF Revoked
  <2>3. SecretKnown(t)' = SecretKnown(t) /\ Unexpired(t)' = Unexpired(t)
    BY <2>1 DEF SecretKnown, Unexpired
  <2>4. CASE revokedAt' = revokedAt
    BY <2>1, <2>4, AcceptedSame
  <2>5. CASE revokedAt' # revokedAt
    BY <2>2, <2>3, <2>5 DEF Accepted, Ends
  <2>. QED BY <2>4, <2>5
<1>5. CASE Rotate
  <2>1. UNCHANGED <<clock, revokedAt>> /\ primary' = primary + 1 /\ previous' = {primary}
    BY <1>5 DEF Rotate
  <2>2. Unexpired(t)' = Unexpired(t) /\ Revoked(t)' = Revoked(t)
    BY <2>1 DEF Unexpired, Revoked
  <2>3. primary' # primary /\ t.key # primary'
    BY <1>1, <1>2, <2>1
  <2>4. SecretKnown(t)' <=> t.kid /\ t.key = primary
    BY <2>1, <2>3 DEF SecretKnown
  <2>5. SecretKnown(t)' => SecretKnown(t)
    BY <2>4 DEF SecretKnown
  <2>6. ~SecretKnown(t)' => Ends(t)
    BY <2>3, <2>4 DEF Ends
  <2>. QED BY <2>2, <2>5, <2>6 DEF Accepted
<1>6. CASE Retire
  <2>1. UNCHANGED <<clock, revokedAt, primary>> /\ previous' = {} /\ previous # {}
    BY <1>6 DEF Retire
  <2>2. Unexpired(t)' = Unexpired(t) /\ Revoked(t)' = Revoked(t)
    BY <2>1 DEF Unexpired, Revoked
  <2>3. SecretKnown(t)' => SecretKnown(t)
    BY <2>1 DEF SecretKnown
  <2>4. Ends(t)
    BY <2>1 DEF Ends
  <2>. QED BY <2>2, <2>3, <2>4 DEF Accepted
<1>7. CASE Tick
  <2>1. UNCHANGED <<revokedAt, primary, previous>> /\ clock' = clock + 1
    BY <1>7 DEF Tick
  <2>2. SecretKnown(t)' = SecretKnown(t) /\ Revoked(t)' = Revoked(t)
    BY <2>1 DEF SecretKnown, Revoked
  <2>3. Unexpired(t)' => Unexpired(t)
    <3>1. clock' \in Nat /\ clock <= clock'
      BY <1>1, <2>1
    <3>2. Second(clock) <= Second(clock')
      BY <1>1, <3>1, SecondGrows
    <3>3. Second(clock) \in Nat /\ Second(clock') \in Nat /\ Second(t.at) \in Nat
      BY <1>1, <3>1, SecondBounds
    <3>4. identityTokenTTL \in Nat
      BY TokensAssumption
    <3>. HIDE DEF Second
    <3>. QED BY <3>2, <3>3, <3>4 DEF Unexpired
  <2>4. ~Unexpired(t)' => Ends(t)
    BY DEF Ends
  <2>. QED BY <2>2, <2>3, <2>4 DEF Accepted
<1>. QED BY <1>3, <1>4, <1>5, <1>6, <1>7 DEF TokenStep, tokenVars, MintStep

LEMMA AcceptanceEnds ==
  ASSUME TokensTypeOK, KeysInv, TokenStep
  PROVE  \A i \in DOMAIN tokens :
            (i \in Bearers) # (i \in Bearers)' => i \in Bearers /\ Ends(tokens[i])
<1>. SUFFICES ASSUME NEW i \in DOMAIN tokens, (i \in Bearers) # (i \in Bearers)'
              PROVE  i \in Bearers /\ Ends(tokens[i])
  OBVIOUS
<1>. PICK t \in Token : t = tokens[i]
  BY TokensListed
<1>1. i \in DOMAIN tokens' /\ tokens'[i] = t
  BY Minted DEF TokenStep, MintStep, tokenVars, RevokeIdentity, Rotate, Retire, Tick
<1>2. i \in Bearers <=> Accepted(t)
  BY DEF Bearers
<1>3. (i \in Bearers)' <=> Accepted(t)'
  BY <1>1 DEF Bearers, Accepted, SecretKnown, Unexpired, Revoked
<1>4. /\ Accepted(t)' => Accepted(t)
      /\ Accepted(t) /\ ~Accepted(t)' => Ends(t)
  BY AcceptanceStep
<1>5. Accepted(t) /\ Ends(t)
  BY <1>2, <1>3, <1>4
<1>6. Ends(tokens[i])
  BY <1>1, <1>5 DEF Ends, Unexpired
<1>. QED BY <1>2, <1>5, <1>6

-----------------------------------------------------------------------------
(* Guesses.                                                                *)

\* What each variable of the account and its calls may hold.
CountInv ==
  /\ hasAccount \in BOOLEAN /\ failed \in 0..passwordLockAfter
  /\ lock \in {"none", "active", "elapsed"}
  /\ logins \in [Logins -> LoginStep]
  /\ setters \in [Setters -> {"idle", "allowed"}]
  /\ tested \in Nat /\ uncounted \in 0..MaxUncounted
  /\ sets \in 0..MaxSets /\ failures \in 0..MaxFailures

LEMMA MismatchingFinite ==
  /\ IsFiniteSet(Mismatching) /\ Cardinality(Mismatching) \in Nat
<1>1. Mismatching \subseteq Logins
  BY DEF Mismatching
<1>. QED BY <1>1, SessionsAssumption, FS_Subset, FS_CardinalityType

\* A login that compares a wrong password joins Mismatching; one that ends or
\* goes on leaves it.
LEMMA MismatchingGrows ==
  ASSUME logins \in [Logins -> LoginStep], NEW l \in Logins, l \notin Mismatching,
         logins' = [logins EXCEPT ![l] = "mismatched"]
  PROVE  Cardinality(Mismatching') = Cardinality(Mismatching) + 1
<1>1. \A k \in Logins : logins'[k] = IF k = l THEN "mismatched" ELSE logins[k]
  OBVIOUS
<1>2. Mismatching' = Mismatching \cup {l}
  BY <1>1 DEF Mismatching
<1>. QED BY <1>2, MismatchingFinite, FS_AddElement

LEMMA MismatchingLeft ==
  ASSUME logins \in [Logins -> LoginStep], NEW l \in Logins,
         NEW s \in LoginStep \ {"mismatched"}, logins' = [logins EXCEPT ![l] = s]
  PROVE  Cardinality(Mismatching') =
            IF l \in Mismatching THEN Cardinality(Mismatching) - 1
                                 ELSE Cardinality(Mismatching)
<1>1. \A k \in Logins : logins'[k] = IF k = l THEN s ELSE logins[k]
  OBVIOUS
<1>2. Mismatching' = Mismatching \ {l}
  BY <1>1 DEF Mismatching
<1>3. l \notin Mismatching => Mismatching \ {l} = Mismatching
  OBVIOUS
<1>. QED BY <1>2, <1>3, MismatchingFinite, FS_RemoveElement

\* The steps that leave it.
LEMMA LeavingSteps ==
  /\ "idle" \in LoginStep \ {"mismatched"}
  /\ "matched" \in LoginStep \ {"mismatched"}
  /\ "minted" \in LoginStep \ {"mismatched"}
BY DEF LoginStep

Counters == CountInv /\ GuessInv

LEMMA CountersStart == Init => Counters
<1>. SUFFICES ASSUME Init PROVE Counters
  OBVIOUS
<1>1. Mismatching = {}
  BY DEF Init, Mismatching
<1>2. Cardinality(Mismatching) = 0
  BY <1>1, FS_EmptySet
<1>3. /\ failed = 0 /\ tested = 0 /\ uncounted = 0 /\ sets = 0 /\ failures = 0 /\ lock = "none"
      /\ hasAccount \in BOOLEAN
  BY DEF Init
<1>4. logins \in [Logins -> LoginStep] /\ setters \in [Setters -> {"idle", "allowed"}]
  BY DEF Init, LoginStep
<1>5. CountInv
  BY <1>2, <1>3, <1>4, SessionsAssumption DEF CountInv
<1>6. GuessInv
  BY <1>2, <1>3, SessionsAssumption DEF GuessInv
<1>. QED BY <1>5, <1>6 DEF Counters

LEMMA CountersStep == Counters /\ [Next]_vars => Counters'
<1>. SUFFICES ASSUME CountInv, GuessInv, [Next]_vars PROVE Counters'
  BY DEF Counters
<1>. DEFINE m == Cardinality(Mismatching)
<1>1. /\ m \in Nat /\ failed \in Nat /\ tested \in Nat /\ uncounted \in Nat
      /\ failures \in Nat /\ sets \in Nat
      /\ passwordLockAfter \in Nat /\ 1 < passwordLockAfter
      /\ MaxUncounted \in Nat /\ MaxSets \in Nat /\ MaxFailures \in Nat
  BY MismatchingFinite, SessionsAssumption DEF CountInv
<1>. DEFINE Sorts == /\ hasAccount \in BOOLEAN /\ lock \in {"none", "active", "elapsed"}
                     /\ logins \in [Logins -> LoginStep]
                     /\ setters \in [Setters -> {"idle", "allowed"}]
            Numbers == /\ failed \in 0..passwordLockAfter
                       /\ tested \in Nat /\ uncounted \in 0..MaxUncounted
                       /\ sets \in 0..MaxSets /\ failures \in 0..MaxFailures
            Charged == lock = "none" => tested <= failed + m + failures + uncounted
            Below == lock = "none" => failed + 1 < passwordLockAfter
<1>3. Sorts /\ Numbers /\ Charged /\ Below
  BY DEF CountInv, GuessInv
<1>4. Sorts' /\ Numbers' /\ Charged' /\ Below' => Counters'
  BY DEF Counters, CountInv, GuessInv
<1>5. UNCHANGED logins => m' = m
  BY DEF Mismatching
<1>6. ASSUME NEW l \in Logins, Load(l, TRUE) PROVE Counters'
  <2>1. logins' = [logins EXCEPT ![l] = "matched"] /\ l \notin Mismatching
    BY <1>6 DEF Load, Mismatching
  <2>2. m' = m
    BY <1>3, <2>1, LeavingSteps, MismatchingLeft
  <2>3. Sorts'
    BY <1>3, <1>6, <2>1 DEF Load, accountVars, LoginStep
  <2>4. UNCHANGED <<failed, lock, tested, uncounted, sets, failures>>
    BY <1>6 DEF Load, accountVars
  <2>. HIDE DEF m
  <2>. QED BY <1>3, <1>4, <2>2, <2>3, <2>4
<1>7. ASSUME NEW l \in Logins, Load(l, FALSE) PROVE Counters'
  <2>1. logins' = [logins EXCEPT ![l] = "mismatched"] /\ l \notin Mismatching
    BY <1>7 DEF Load, Mismatching
  <2>2. m' = m + 1
    BY <1>3, <2>1, MismatchingGrows
  <2>3. Sorts'
    BY <1>3, <1>7, <2>1 DEF Load, accountVars, LoginStep
  <2>4. /\ UNCHANGED <<failed, lock, uncounted, sets, failures>>
        /\ tested' = IF lock = "none" THEN tested + 1 ELSE tested
    BY <1>7 DEF Load, accountVars, OneMoreTested
  <2>. HIDE DEF m
  <2>5. Numbers' /\ Below'
    BY <1>1, <1>3, <2>4
  <2>6. Charged'
    BY <1>1, <1>3, <2>2, <2>4
  <2>. QED BY <1>4, <2>3, <2>5, <2>6
<1>8. ASSUME NEW l \in Logins, CountFailure(l) PROVE Counters'
  <2>1. logins' = [logins EXCEPT ![l] = "idle"] /\ l \in Mismatching
    BY <1>8 DEF CountFailure, Mismatching
  <2>2. m' = m - 1
    BY <1>3, <2>1, LeavingSteps, MismatchingLeft
  <2>3. /\ failed' = (IF failed < passwordLockAfter THEN failed + 1 ELSE failed)
        /\ UNCHANGED <<tested, uncounted, sets, failures>>
        /\ lock' = IF failed' + 1 >= passwordLockAfter THEN "active" ELSE lock
    BY <1>8 DEF CountFailure, OneMoreFailed, ghostVars
  <2>4. Sorts'
    BY <1>3, <1>8, <2>1, <2>3 DEF CountFailure, LoginStep
  <2>. HIDE DEF m
  <2>5. Numbers' /\ failed' \in Nat
    BY <1>1, <1>3, <2>3
  <2>6. lock' = "none" => lock = "none" /\ failed' + 1 < passwordLockAfter
    BY <1>1, <2>3, <2>5
  <2>7. Charged'
    BY <1>1, <1>3, <2>2, <2>3, <2>6
  <2>. QED BY <1>4, <2>4, <2>5, <2>6, <2>7
<1>9. ASSUME NEW l \in Logins, SignIn(l) PROVE Counters'
  <2>1. logins' = [logins EXCEPT ![l] = "minted"] /\ l \notin Mismatching
    BY <1>9 DEF SignIn, Mismatching
  <2>2. m' = m
    BY <1>3, <2>1, LeavingSteps, MismatchingLeft
  <2>3. Sorts'
    BY <1>3, <1>9, <2>1 DEF SignIn, accountVars, LoginStep
  <2>4. UNCHANGED <<failed, lock, tested, uncounted, sets, failures>>
    BY <1>9 DEF SignIn, accountVars, ghostVars
  <2>. HIDE DEF m
  <2>. QED BY <1>3, <1>4, <2>2, <2>3, <2>4
<1>10. ASSUME NEW l \in Logins, ClearFailures(l) PROVE Counters'
  <2>1. logins' = [logins EXCEPT ![l] = "idle"] /\ l \notin Mismatching
    BY <1>10 DEF ClearFailures, Mismatching
  <2>2. m' = m
    BY <1>3, <2>1, LeavingSteps, MismatchingLeft
  <2>3. UNCHANGED <<hasAccount, setters, sets>>
    BY <1>10 DEF ClearFailures
  <2>4. CASE /\ failed' = 0 /\ lock' = "none"
             /\ tested' = 0 /\ uncounted' = 0 /\ UNCHANGED failures
    <3>1. Sorts'
      BY <1>3, <2>1, <2>3, <2>4 DEF LoginStep
    <3>. HIDE DEF m
    <3>2. Numbers' /\ Charged' /\ Below'
      BY <1>1, <1>3, <2>2, <2>3, <2>4
    <3>. QED BY <1>4, <3>1, <3>2
  <2>5. CASE /\ failures < MaxFailures /\ failures' = failures + 1
             /\ UNCHANGED <<failed, lock, tested, uncounted>>
    <3>1. Sorts'
      BY <1>3, <2>1, <2>3, <2>5 DEF LoginStep
    <3>. HIDE DEF m
    <3>2. Numbers' /\ Charged' /\ Below'
      BY <1>1, <1>3, <2>2, <2>3, <2>5
    <3>. QED BY <1>4, <3>1, <3>2
  <2>. QED BY <1>10, <2>4, <2>5 DEF ClearFailures, Fails
<1>11. ASSUME NEW l \in Logins, LoginFails(l) PROVE Counters'
  <2>1. logins' = [logins EXCEPT ![l] = "idle"]
    BY <1>11 DEF LoginFails
  <2>2. m' = m \/ m' = m - 1
    BY <1>3, <2>1, LeavingSteps, MismatchingLeft
  <2>3. Sorts'
    BY <1>3, <1>11, <2>1 DEF LoginFails, accountVars, LoginStep
  <2>4. /\ UNCHANGED <<failed, lock, tested, uncounted, sets>>
        /\ failures < MaxFailures /\ failures' = failures + 1
    BY <1>11 DEF LoginFails, accountVars, Fails
  <2>. HIDE DEF m
  <2>5. Numbers' /\ Charged' /\ Below'
    BY <1>1, <1>3, <2>2, <2>4
  <2>. QED BY <1>4, <2>3, <2>5
<1>12. ASSUME NEW s \in Setters, AllowChange(s) \/ AllowReset(s) PROVE Counters'
  <2>1. setters' = [setters EXCEPT ![s] = "allowed"] /\ UNCHANGED <<accountVars, logins, ghostVars>>
    BY <1>12 DEF AllowChange, AllowReset
  <2>2. Sorts'
    BY <1>3, <2>1 DEF accountVars
  <2>3. m' = m
    BY <1>5, <2>1
  <2>. HIDE DEF m
  <2>. QED BY <1>3, <1>4, <2>1, <2>2, <2>3 DEF accountVars, ghostVars
<1>13. ASSUME NEW s \in Setters, RefuseChange(s) PROVE Counters'
  <2>1. /\ UNCHANGED <<failed, lock, hasAccount, callVars, sets, failures>>
        /\ uncounted < MaxUncounted /\ tested' = tested + 1 /\ uncounted' = uncounted + 1
    BY <1>13 DEF RefuseChange, accountVars
  <2>2. Sorts'
    BY <1>3, <2>1 DEF callVars
  <2>3. m' = m
    BY <1>5, <2>1 DEF callVars
  <2>. HIDE DEF m
  <2>4. Numbers' /\ Charged' /\ Below'
    BY <1>1, <1>3, <2>1, <2>3
  <2>. QED BY <1>4, <2>2, <2>4
<1>14. ASSUME NEW s \in Setters, SetPassword(s) PROVE Counters'
  <2>1. /\ hasAccount' = TRUE /\ failed' = 0 /\ lock' = "none"
        /\ tested' = 0 /\ uncounted' = 0
        /\ sets < MaxSets /\ sets' = sets + 1 /\ UNCHANGED <<logins, failures>>
    BY <1>14 DEF SetPassword
  <2>2. Sorts'
    BY <1>3, <1>14, <2>1 DEF SetPassword
  <2>3. m' = m
    BY <1>5, <2>1
  <2>. HIDE DEF m
  <2>4. Numbers' /\ Charged' /\ Below'
    BY <1>1, <1>3, <2>1, <2>3
  <2>. QED BY <1>4, <2>2, <2>4
<1>15. ASSUME NEW s \in Setters, SetFails(s) PROVE Counters'
  <2>1. /\ UNCHANGED <<failed, lock, hasAccount, logins, tested, uncounted, sets>>
        /\ failures < MaxFailures /\ failures' = failures + 1
        /\ setters' = [setters EXCEPT ![s] = "idle"]
    BY <1>15 DEF SetFails, accountVars, Fails
  <2>2. Sorts'
    BY <1>3, <2>1
  <2>3. m' = m
    BY <1>5, <2>1
  <2>. HIDE DEF m
  <2>4. Numbers' /\ Charged' /\ Below'
    BY <1>1, <1>3, <2>1, <2>3
  <2>. QED BY <1>4, <2>2, <2>4
<1>16. ASSUME Elapse PROVE Counters'
  <2>1. /\ lock' = "elapsed" /\ UNCHANGED <<hasAccount, failed, callVars, ghostVars>>
    BY <1>16 DEF Elapse
  <2>2. Sorts'
    BY <1>3, <2>1 DEF callVars
  <2>. HIDE DEF m
  <2>. QED BY <1>3, <1>4, <2>1, <2>2 DEF ghostVars
<1>17. ASSUME UNCHANGED <<accountVars, callVars, ghostVars>> PROVE Counters'
  <2>1. m' = m
    BY <1>5, <1>17 DEF callVars
  <2>. HIDE DEF m
  <2>. QED BY <1>3, <1>4, <1>17, <2>1 DEF accountVars, callVars, ghostVars
<1>18. ASSUME VerifyContact \/ Others \/ UNCHANGED vars PROVE Counters'
  BY <1>17, <1>18 DEF VerifyContact, Others, vars
<1>19. ASSUME NEW l \in Logins, NEW right \in BOOLEAN, Load(l, right) PROVE Counters'
  <2>1. right = TRUE \/ right = FALSE
    OBVIOUS
  <2>. QED BY <1>6, <1>7, <1>19, <2>1
<1>. QED
  BY <1>8, <1>9, <1>10, <1>11, <1>12, <1>13, <1>14, <1>15, <1>16, <1>18, <1>19
  DEF Next, LoginWithPassword

-----------------------------------------------------------------------------
(* Theorems.                                                               *)

\* The invariant of the account and of the tokens.
SessionsInv == TokensTypeOK /\ KeysInv /\ Counters

LEMMA SessionsInvariant == Spec => []SessionsInv
<1>1. Init => SessionsInv
  BY TokensStart, CountersStart DEF Init, SessionsInv
<1>2. SessionsInv /\ [Next]_vars => SessionsInv'
  BY NextTokens, TokensKept, CountersStep DEF SessionsInv
<1>. QED BY <1>1, <1>2, PTL DEF Spec

\* Every reachable state of the account, its calls and its tokens is well
\* typed (identity/password.go, token.go, revocation.go).
THEOREM TypeCorrect == Spec => []TypeOK
<1>1. SessionsInv => TypeOK
  BY DEF SessionsInv, Counters, CountInv, TypeOK
<1>. QED BY <1>1, SessionsInvariant, PTL

\* Once a revocation is in the registry, no token minted before it is a bearer
\* (IdentityRevoked), however logins, rotations and resets interleave with it.
THEOREM RevocationHolds == Spec => []RevokedTokensAreRefused
<1>1. SessionsInv => RevokedTokensAreRefused
  BY RevokedRefused DEF SessionsInv
<1>. QED BY <1>1, SessionsInvariant, PTL

\* Until it is locked, an account has had fewer wrong passwords compared than
\* one below the limit, but for those whose increment is on its way or failed
\* (LoginWithPassword) and those ChangePassword compared.
THEOREM GuessesLimited == Spec => []GuessesBeforeLock
<1>1. SessionsInv => GuessesBeforeLock
  <2>. SUFFICES ASSUME CountInv, GuessInv, lock = "none"
                PROVE  tested + 1 < passwordLockAfter + Cardinality(Mismatching)
                                      + failures + uncounted
    BY DEF SessionsInv, Counters, GuessesBeforeLock
  <2>1. /\ Cardinality(Mismatching) \in Nat /\ failed \in Nat /\ tested \in Nat
        /\ failures \in Nat /\ uncounted \in Nat /\ passwordLockAfter \in Nat
    BY MismatchingFinite, SessionsAssumption DEF CountInv
  <2>2. /\ failed + 1 < passwordLockAfter
        /\ tested <= failed + Cardinality(Mismatching) + failures + uncounted
    BY DEF GuessInv
  <2>. QED BY <2>1, <2>2
<1>. QED BY <1>1, SessionsInvariant, PTL

\* A bearer stays accepted until it expires, is revoked or loses its secret,
\* and is never accepted again (ValidateTokenFull, IdentityRevoked).
THEOREM AcceptanceEndsForGood == Spec => AcceptanceEndsOnce
<1>1. SessionsInv /\ [Next]_vars =>
        [\A i \in DOMAIN tokens :
            (i \in Bearers) # (i \in Bearers)' => i \in Bearers /\ Ends(tokens[i])]_tokenVars
  BY NextTokens, AcceptanceEnds DEF SessionsInv
<1>. QED BY <1>1, SessionsInvariant, PTL DEF Spec, AcceptanceEndsOnce
=============================================================================
