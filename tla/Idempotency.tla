---------------------------- MODULE Idempotency ----------------------------
(***************************************************************************)
(* Initiate's idempotency keys (internal/payments/idempotency.go and       *)
(* Service.Initiate): clients that send a payment request again, with the  *)
(* same key, until they get an answer.  The key is stored by one statement *)
(* and the transaction row by a later one; in between anything may happen. *)
(*                                                                         *)
(* A request is compared by a hash of what Initiate was called with, and   *)
(* that is not only the client's body: the handler stamps it with what it  *)
(* derives, anew for every request, from the bearer token: nothing, the    *)
(* verified contact, or the customer linked to it.                         *)
(***************************************************************************)
EXTENDS Naturals

CONSTANTS
    Clients,         \* clients, each with one payment to make
    Keys,            \* idempotency keys
    NoKey,           \* the empty key: the client sent none
    Bodies,          \* request bodies
    NoHash,          \* key not stored
    Owners,          \* what the handler may stamp: "none", "contacts", "customer"
    MaxCrashes,      \* bound: process crashes
    MaxFailures,     \* bound: failing database statements
    MaxKeyless,      \* bound: rows without a key
    UniqueKeyColumn  \* the row's idempotency_key column has a UNIQUE index

ASSUME IdempotencyAssumption ==
    /\ NoKey \notin Keys
    /\ "none" \in Owners /\ Owners \subseteq {"none", "contacts", "customer"}
    /\ NoHash \notin [body: Bodies, owner: Owners]
    /\ MaxCrashes \in Nat /\ MaxFailures \in Nat /\ MaxKeyless \in Nat
    /\ UniqueKeyColumn \in BOOLEAN

VARIABLES
    stored,    \* payments_idempotency_key: key |-> request_hash
    rows,      \* transaction rows, per key
    rowBody,   \* the body the key's row was made of (any body, if no row)
    charges,   \* gateway.Initiate calls, per key
    owner,     \* owner[c]: what the handler can derive from c's token now
    client,    \* local state of each client and of its running request
    crashes, failures

bounds == <<crashes, failures>>
vars == <<stored, rows, rowBody, charges, owner, client, bounds>>

AllKeys == Keys \cup {NoKey}

Hashes == [body: Bodies, owner: Owners]

\* Mutant: only the client's body is hashed.
RequestHashOfBody(body, stamped) == [body |-> body]

\* ComputeRequestHash, of the request Initiate was called with.
RequestHash(body, stamped) == [body |-> body, owner |-> stamped]

\* idle: nothing sent; unanswered: an error, or no answer; `why` is the error.
Requests ==
    [pc: {"idle", "storing", "duplicate", "fresh", "created", "unanswered", "answered"},
     key: AllKeys, hash: Hashes,
     why: {"none", "lost", "in progress", "conflict", "duplicate entry"}]

TypeOK ==
    /\ stored \in [Keys -> Hashes \cup {NoHash}]
    /\ rows \in [AllKeys -> Nat]
    /\ rowBody \in [Keys -> Bodies]
    /\ charges \in [AllKeys -> Nat]
    /\ owner \in [Clients -> Owners]
    /\ client \in [Clients -> Requests]
    /\ crashes \in 0..MaxCrashes
    /\ failures \in 0..MaxFailures

Init ==
    /\ stored = [k \in Keys |-> NoHash]
    /\ rows = [k \in AllKeys |-> 0]
    /\ rowBody \in [Keys -> Bodies]
    /\ charges = [k \in AllKeys |-> 0]
    /\ owner \in [Clients -> Owners]
    /\ client \in [Clients -> {r \in Requests :
                    r.pc = "idle" /\ r.why = "none" /\ r.hash.owner = "none"}]
    /\ crashes = 0 /\ failures = 0

OneFailure == failures < MaxFailures /\ failures' = failures + 1 /\ UNCHANGED crashes

Step(c, label) == client' = [client EXCEPT ![c].pc = label]
Unanswered(c, why) ==
    client' = [client EXCEPT ![c].pc = "unanswered", ![c].why = why]

-----------------------------------------------------------------------------

\* The client sends its request, for the first time or again: same key, same
\* body.  The handler adds the owner it derives now, or less when the lookup
\* of the revocation, or of the linked customers, fails.  Without a key the
\* request goes straight on.
Send(c) ==
    /\ client[c].pc \in {"idle", "unanswered"}
    /\ client[c].key = NoKey => rows[NoKey] < MaxKeyless
    /\ \E o \in Owners :
          /\ client' = [client EXCEPT
                ![c].pc = IF client[c].key = NoKey THEN "fresh" ELSE "storing",
                ![c].hash = RequestHash(client[c].hash.body, o)]
          /\ \/ o = owner[c] /\ UNCHANGED bounds
             \/ owner[c] # "none" /\ o # "customer" /\ OneFailure
    /\ UNCHANGED <<stored, rows, rowBody, charges, owner>>

\* Mutant: a duplicate key counts as a new one.
StoreKeyAgain(c) ==
    LET k == client[c].key
    IN  /\ client[c].pc = "storing"
        /\ stored' = [stored EXCEPT ![k] = IF @ = NoHash THEN client[c].hash ELSE @]
        /\ Step(c, "fresh")
        /\ UNCHANGED <<rows, rowBody, charges, owner, bounds>>

\* CheckAndStore, its INSERT ... ON DUPLICATE KEY UPDATE: one row affected
\* for a new key, none for a known one.
StoreKey(c) ==
    LET k == client[c].key
    IN  /\ client[c].pc = "storing"
        /\ IF stored[k] = NoHash
           THEN stored' = [stored EXCEPT ![k] = client[c].hash] /\ Step(c, "fresh")
           ELSE UNCHANGED stored /\ Step(c, "duplicate")
        /\ UNCHANGED <<rows, rowBody, charges, owner, bounds>>

\* That statement fails, or its answer is lost after it was executed.
StoreKeyFails(c) ==
    LET k == client[c].key
    IN  /\ client[c].pc = "storing"
        /\ OneFailure
        /\ \/ UNCHANGED stored
           \/ stored[k] = NoHash /\ stored' = [stored EXCEPT ![k] = client[c].hash]
        /\ Unanswered(c, "lost")
        /\ UNCHANGED <<rows, rowBody, charges, owner>>

\* Mutant: the stored hash is not compared.
LookUpUnchecked(c) ==
    /\ client[c].pc = "duplicate"
    /\ IF rows[client[c].key] = 0 THEN Unanswered(c, "in progress") ELSE Step(c, "answered")
    /\ UNCHANGED <<stored, rows, rowBody, charges, owner, bounds>>

\* Mutant: the comparison of the hashes is inverted.
LookUpInverted(c) ==
    LET k == client[c].key
    IN  /\ client[c].pc = "duplicate"
        /\ IF rows[k] = 0 THEN Unanswered(c, "in progress")
           ELSE IF stored[k] = client[c].hash THEN Unanswered(c, "conflict")
           ELSE Step(c, "answered")
        /\ UNCHANGED <<stored, rows, rowBody, charges, owner, bounds>>

\* CheckAndStore, its SELECT: a key without a row joins to a NULL id, which
\* cannot be scanned; a key with another hash is a conflict; else the request
\* is answered with the row (getInitiateResponse).
LookUp(c) ==
    LET k == client[c].key
    IN  /\ client[c].pc = "duplicate"
        /\ IF rows[k] = 0 THEN Unanswered(c, "in progress")
           ELSE IF stored[k] # client[c].hash THEN Unanswered(c, "conflict")
           ELSE Step(c, "answered")
        /\ UNCHANGED <<stored, rows, rowBody, charges, owner, bounds>>

InsertRow(c) ==
    LET k == client[c].key
    IN  /\ rows' = [rows EXCEPT ![k] = @ + 1]
        /\ rowBody' = [j \in Keys |-> IF j = k THEN client[c].hash.body ELSE rowBody[j]]

\* Initiate's INSERT of the row.
CreateRow(c) ==
    LET k == client[c].key
    IN  /\ client[c].pc = "fresh"
        /\ IF UniqueKeyColumn /\ rows[k] > 0
           THEN Unanswered(c, "duplicate entry") /\ UNCHANGED <<rows, rowBody>>
           ELSE InsertRow(c) /\ Step(c, "created")
        /\ UNCHANGED <<stored, charges, owner, bounds>>

\* Any statement up to that INSERT fails, or it inserts nothing because the
\* gateway has no such payment method; or the row is inserted and the answer,
\* or the query for its id, is lost.  The key stays.
CreateRowFails(c) ==
    LET k == client[c].key
    IN  /\ client[c].pc = "fresh"
        /\ OneFailure
        /\ Unanswered(c, "lost")
        /\ \/ UNCHANGED <<rows, rowBody>>
           \/ ~(UniqueKeyColumn /\ rows[k] > 0) /\ InsertRow(c)
        /\ UNCHANGED <<stored, charges, owner>>

\* gateway.Initiate, and the answer; or an error, after which the row is
\* `failed` and is what the next request with this key is answered with.
ChargeAndAnswer(c) ==
    /\ client[c].pc = "created"
    /\ charges' = [charges EXCEPT ![client[c].key] = @ + 1]
    /\ Step(c, "answered") \/ Unanswered(c, "lost")
    /\ UNCHANGED <<stored, rows, rowBody, owner, bounds>>

-----------------------------------------------------------------------------

\* The client signs in, its token expires or is revoked; or a fulfillment, or
\* a sign-in elsewhere, links its contact to a customer.
OwnerChanges(c) ==
    /\ \E o \in Owners \ {owner[c]} : owner' = [owner EXCEPT ![c] = o]
    /\ UNCHANGED <<stored, rows, rowBody, charges, client, bounds>>

\* The process dies: running requests are never answered.
Crash ==
    /\ crashes < MaxCrashes
    /\ crashes' = crashes + 1
    /\ client' = [c \in Clients |->
          IF client[c].pc \in {"idle", "unanswered", "answered"} THEN client[c]
          ELSE [client[c] EXCEPT !.pc = "unanswered", !.why = "lost"]]
    /\ UNCHANGED <<stored, rows, rowBody, charges, owner, failures>>

ClientNext(c) ==
    \/ Send(c) \/ StoreKey(c) \/ StoreKeyFails(c) \/ LookUp(c)
    \/ CreateRow(c) \/ CreateRowFails(c) \/ ChargeAndAnswer(c) \/ OwnerChanges(c)

Next == (\E c \in Clients : ClientNext(c)) \/ Crash

Spec == Init /\ [][Next]_vars

\* The server serves, and a client without an answer tries again.
Fairness ==
    \A c \in Clients :
        WF_vars(Send(c) \/ StoreKey(c) \/ LookUp(c) \/ CreateRow(c) \/ ChargeAndAnswer(c))
FairSpec == Spec /\ Fairness
-----------------------------------------------------------------------------
(* Properties.                                                             *)

\* However often and however concurrently a request is sent, whatever fails
\* in between, the gateway is called at most once for its key.
OneChargePerKey == \A k \in Keys : charges[k] <= 1

\* A request with a key is answered with a payment for what it asked for: a
\* key used again for another body is never answered with the first one's.
AnswersMatchRequest ==
    \A c \in Clients :
        client[c].pc = "answered" /\ client[c].key \in Keys =>
            /\ rows[client[c].key] > 0
            /\ rowBody[client[c].key] = client[c].hash.body

\* The key is stored for another body: the client's own mistake.
KeyTaken(c) ==
    LET k == client[c].key
    IN  k \in Keys /\ stored[k] # NoHash /\ stored[k].body # client[c].hash.body

\* A request that got past the key table and has not finished.
HoldsKey(c) == client[c].pc \in {"fresh", "created"} /\ client[c].key \in Keys

\* The key is stored, but a crash or a failed statement left it without a row.
Orphaned(k) ==
    /\ k \in Keys /\ stored[k] # NoHash /\ rows[k] = 0
    /\ \A c \in Clients : ~(HoldsKey(c) /\ client[c].key = k)

\* The key is stored with another owner than the handler derives now.
OwnerDiffers(c) ==
    LET k == client[c].key
    IN  k \in Keys /\ stored[k] # NoHash /\ stored[k].owner # owner[c]

\* A client that keeps sending its request, with a key of its own, is answered
\* in the end, even when its first retries overtake the row's INSERT or fail to
\* identify it; unless the key lost its row, or the owner it was stored with is
\* not the one the handler derives now.
RetriesAreAnswered ==
    \A c \in Clients :
        client[c].key \in Keys /\ client[c].pc = "unanswered"
            ~> \/ client[c].pc = "answered" \/ KeyTaken(c)
               \/ Orphaned(client[c].key) \/ OwnerDiffers(c)

\* What CheckAndStore promises, without the exceptions: for a known key the
\* existing transaction is returned.
KnownKeysAreAnswered ==
    \A c \in Clients :
        client[c].key \in Keys /\ client[c].pc = "unanswered"
            ~> client[c].pc = "answered" \/ KeyTaken(c)
-----------------------------------------------------------------------------
(* The inductive invariant behind the proofs: of the requests with one key *)
(* only the one that stored it gets past the key table.                    *)

\* It stored the key, and nobody has been charged; the row is its own.
Holder(c) ==
    /\ stored[client[c].key] = client[c].hash
    /\ charges[client[c].key] = 0
    /\ client[c].pc = "fresh" <=> rows[client[c].key] = 0
    /\ client[c].pc = "created" => rowBody[client[c].key] = client[c].hash.body

OneHolder ==
    \A c, d \in Clients :
        HoldsKey(c) /\ HoldsKey(d) /\ client[c].key = client[d].key => c = d

KeyRow(k) ==
    /\ charges[k] <= 1
    /\ stored[k] = NoHash => rows[k] = 0
    /\ rows[k] = 0 => charges[k] = 0
    /\ rows[k] > 0 => stored[k].body = rowBody[k]

KeyInv ==
    /\ \A c \in Clients : HoldsKey(c) => Holder(c)
    /\ OneHolder
    /\ \A k \in Keys : KeyRow(k)
    /\ AnswersMatchRequest
=============================================================================
