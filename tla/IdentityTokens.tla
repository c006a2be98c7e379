--------------------------- MODULE IdentityTokens ---------------------------
(***************************************************************************)
(* The identity tokens of one contact: IssueToken, ValidateTokenFull, the  *)
(* revocation registry and the rotation of the HMAC secret.                *)
(*                                                                         *)
(* A clock of two instants a second stands for time: a token carries its   *)
(* second, a revocation (NOW(3)) its instant.  The first MaxTokens tokens  *)
(* are followed.                                                           *)
(***************************************************************************)
EXTENDS Integers, Sequences, FiniteSets

CONSTANTS
    identityTokenTTL,   \* seconds a token is valid (30 days)
    resetFreshness,     \* seconds a token may set a password (15 minutes)
    MaxClock,           \* bound: the last instant
    MaxTokens,          \* bound: tokens followed
    MaxRevocations,     \* bound
    MaxKeys             \* bound: secrets ever configured

ASSUME TokensAssumption ==
    /\ identityTokenTTL \in Nat \ {0} /\ resetFreshness \in Nat
    /\ MaxClock \in Nat /\ MaxTokens \in Nat \ {0}
    /\ MaxRevocations \in Nat /\ MaxKeys \in Nat \ {0}

VARIABLES
    clock,      \* instants, two a second
    tokens,     \* tokens followed, in the order they were minted
    revokedAt,  \* instants of payments_identity_revocation's rows
    primary,    \* the generation of IDENTITY_HMAC_SECRET
    previous    \* {} or {the generation of IDENTITY_HMAC_SECRET_PREVIOUS}

tokenVars == <<clock, tokens, revokedAt, primary, previous>>

Second(t) == t \div 2

\* The secret a token was signed under, when it was minted (its whole second is
\* the token's iat), and what it carries: a token of an earlier version has no
\* key id (kid) and may have no iat.
Token == [at: 0..MaxClock, key: 1..MaxKeys, iat: BOOLEAN, kid: BOOLEAN]

TokensTypeOK ==
    /\ clock \in 0..MaxClock
    /\ tokens \in Seq(Token) /\ Len(tokens) <= MaxTokens
    /\ revokedAt \subseteq 0..MaxClock
    /\ primary \in 1..MaxKeys /\ previous \subseteq 1..MaxKeys

TokensInit ==
    /\ clock = 0
    /\ \/ tokens = <<>>
       \/ \E iat \in BOOLEAN :
             tokens = <<[at |-> 0, key |-> 1, iat |-> iat, kid |-> FALSE]>>
    /\ revokedAt = {} /\ primary = 1 /\ previous = {}

-----------------------------------------------------------------------------
(* What a bearer is checked for.                                           *)

\* A token without a key id is compared under the primary secret only.
SecretKnown(t) == t.key = primary \/ (t.kid /\ t.key \in previous)

Unexpired(t) == Second(clock) <= Second(t.at) + identityTokenTTL

\* Mutant: the registry keeps whole seconds.
RevokedToTheSecond(t) ==
    \E r \in revokedAt : ~t.iat \/ Second(r) > Second(t.at)

\* Any row refuses a token without iat; others compare the row's instant with
\* the token's second, so a token of the row's own second is refused too.
Revoked(t) == \E r \in revokedAt : ~t.iat \/ r > 2 * Second(t.at)

Accepted(t) == SecretKnown(t) /\ Unexpired(t) /\ ~Revoked(t)

\* ResetPassword's freshness; a token without iat is never fresh.
Fresh(t) == t.iat /\ clock - 2 * Second(t.at) <= 2 * resetFreshness

Bearers == {i \in DOMAIN tokens : Accepted(tokens[i])}
FreshBearers == {i \in Bearers : Fresh(tokens[i])}

-----------------------------------------------------------------------------
(* Operations.                                                             *)

\* Mutant: a service without a primary secret signs.
MintUnkeyed ==
    tokens' = IF Len(tokens) < MaxTokens
                THEN Append(tokens, [at |-> clock, key |-> 0, iat |-> TRUE, kid |-> TRUE])
                ELSE tokens

\* IssueToken, after a verified code, a Google sign-in or a password.
Mint ==
    tokens' = IF Len(tokens) < MaxTokens
                THEN Append(tokens, [at |-> clock, key |-> primary, iat |-> TRUE, kid |-> TRUE])
                ELSE tokens

RevokeIdentity ==
    /\ Cardinality(revokedAt) < MaxRevocations
    /\ revokedAt' = revokedAt \cup {clock}
    /\ UNCHANGED <<clock, tokens, primary, previous>>

\* Mutant: the old secret is not handed over.
RotateAtOnce ==
    /\ primary < MaxKeys
    /\ primary' = primary + 1 /\ previous' = {}
    /\ UNCHANGED <<clock, tokens, revokedAt>>

\* A new secret is configured and the old one becomes the previous secret.
Rotate ==
    /\ primary < MaxKeys
    /\ primary' = primary + 1 /\ previous' = {primary}
    /\ UNCHANGED <<clock, tokens, revokedAt>>

Retire ==
    /\ previous # {} /\ previous' = {}
    /\ UNCHANGED <<clock, tokens, revokedAt, primary>>

Tick ==
    /\ clock < MaxClock /\ clock' = clock + 1
    /\ UNCHANGED <<tokens, revokedAt, primary, previous>>

-----------------------------------------------------------------------------
(* Properties.                                                             *)

\* Self-service recovery and its limit: a token minted before a revocation of
\* its contact is refused from that instant, whatever part of the second it is.
RevokedTokensAreRefused ==
    \A i \in DOMAIN tokens :
        (\E r \in revokedAt : tokens[i].at < r) => i \notin Bearers

\* A bearer that is accepted stays accepted until it expires, its contact is
\* revoked or its secret is retired -- a rotation ends only tokens without key
\* id and tokens of an older secret -- and one that is refused stays refused.
Ends(t) ==
    \/ ~Unexpired(t)'
    \/ revokedAt' # revokedAt
    \/ primary' = primary /\ previous' # previous
    \/ primary' # primary /\ (~t.kid \/ t.key # primary)

AcceptanceEndsOnce ==
    [][\A i \in DOMAIN tokens :
          (i \in Bearers) # (i \in Bearers)' => i \in Bearers /\ Ends(tokens[i])]_tokenVars
=============================================================================
