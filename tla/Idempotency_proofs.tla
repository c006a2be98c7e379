------------------------- MODULE Idempotency_proofs -------------------------
(***************************************************************************)
(* Proofs about Idempotency, for any number of clients, keys, crashes and  *)
(* failures, with or without the UNIQUE index on the row's own column.     *)
(***************************************************************************)
EXTENDS Idempotency, TLAPS

\* A request that moves on, with or without an error, stays a request.
LEMMA RequestType ==
  ASSUME NEW r \in Requests,
         NEW pc \in {"idle", "storing", "duplicate", "fresh", "created", "unanswered", "answered"},
         NEW why \in {"none", "lost", "in progress", "conflict", "duplicate entry"},
         NEW hash \in Hashes
  PROVE  /\ [r EXCEPT !.pc = pc] \in Requests
         /\ [r EXCEPT !.pc = pc, !.why = why] \in Requests
         /\ [r EXCEPT !.pc = pc, !.hash = hash] \in Requests
         /\ r.key \in AllKeys /\ r.hash \in Hashes /\ r.hash.body \in Bodies
BY DEF Requests, Hashes

\* The initial state is well formed.
LEMMA TypeInit == Init => TypeOK
<1> SUFFICES ASSUME Init PROVE TypeOK
  OBVIOUS
<1>1. client \in [Clients -> Requests]
  BY DEF Init
<1>2. crashes \in 0..MaxCrashes /\ failures \in 0..MaxFailures
  BY IdempotencyAssumption DEF Init
<1>3. stored \in [Keys -> Hashes \cup {NoHash}]
  BY DEF Init
<1>4. rows \in [AllKeys -> Nat] /\ charges \in [AllKeys -> Nat]
  BY DEF Init
<1> QED BY <1>1, <1>2, <1>3, <1>4 DEF Init, TypeOK

\* Every step keeps the state well formed.
LEMMA TypeStep == TypeOK /\ [Next]_vars => TypeOK'
<1> SUFFICES ASSUME TypeOK, [Next]_vars PROVE TypeOK'
  OBVIOUS
<1> USE DEF TypeOK
<1>1. ASSUME NEW c \in Clients, ClientNext(c) PROVE TypeOK'
  <2> DEFINE r == client[c]
  <2>0. /\ r \in Requests /\ r.key \in AllKeys /\ r.hash \in Hashes /\ r.hash.body \in Bodies
        /\ r.key = NoKey \/ r.key \in Keys
    <3>1. r \in Requests
      OBVIOUS
    <3>2. r.key \in AllKeys /\ r.hash \in Hashes /\ r.hash.body \in Bodies
      BY <3>1, Zenon DEF Requests, Hashes
    <3> QED BY <3>1, <3>2 DEF AllKeys
  <2>1. CASE Send(c)
    <3>1. \A o \in Owners : RequestHash(r.hash.body, o) \in Hashes
      BY <2>0 DEF RequestHash, Hashes
    <3>2. \A o \in Owners : \A pc \in {"fresh", "storing"} :
             [r EXCEPT !.pc = pc, !.hash = RequestHash(r.hash.body, o)] \in Requests
      BY <2>0, <3>1 DEF Requests
    <3>3. client' \in [Clients -> Requests]
      BY <2>1, <3>2 DEF Send
    <3>4. failures' \in 0..MaxFailures /\ crashes' = crashes
      BY <2>1, IdempotencyAssumption DEF Send, OneFailure, bounds
    <3> QED BY <2>1, <3>3, <3>4 DEF Send
  <2>2. CASE StoreKey(c)
    <3>0. Step(c, "fresh") \/ Step(c, "duplicate")
      BY <2>2 DEF StoreKey
    <3>r. [r EXCEPT !.pc = "fresh"] \in Requests /\ [r EXCEPT !.pc = "duplicate"] \in Requests
      BY <2>0 DEF Requests
    <3>1. client' \in [Clients -> Requests]
      BY <3>0, <3>r DEF Step
    <3>2. stored' \in [Keys -> Hashes \cup {NoHash}]
      BY <2>0, <2>2 DEF StoreKey
    <3> QED BY <2>2, <3>1, <3>2 DEF StoreKey, bounds
  <2>3. CASE StoreKeyFails(c)
    <3>0. Unanswered(c, "lost")
      BY <2>3 DEF StoreKeyFails
    <3>r. [r EXCEPT !.pc = "unanswered", !.why = "lost"] \in Requests
      BY <2>0 DEF Requests
    <3>1. client' \in [Clients -> Requests]
      BY <3>0, <3>r DEF Unanswered
    <3>2. stored' \in [Keys -> Hashes \cup {NoHash}]
      BY <2>0, <2>3 DEF StoreKeyFails
    <3>3. failures' \in 0..MaxFailures /\ crashes' = crashes
      BY <2>3, IdempotencyAssumption DEF StoreKeyFails, OneFailure
    <3> QED BY <2>3, <3>1, <3>2, <3>3 DEF StoreKeyFails
  <2>4. CASE LookUp(c)
    <3>0. \/ \E why \in {"in progress", "conflict"} : Unanswered(c, why)
          \/ Step(c, "answered")
      BY <2>4 DEF LookUp
    <3>r. /\ \A why \in {"in progress", "conflict"} :
                [r EXCEPT !.pc = "unanswered", !.why = why] \in Requests
          /\ [r EXCEPT !.pc = "answered"] \in Requests
      BY <2>0 DEF Requests
    <3>1. client' \in [Clients -> Requests]
      BY <3>0, <3>r DEF Step, Unanswered
    <3> QED BY <2>4, <3>1 DEF LookUp, bounds
  <2>5. CASE CreateRow(c)
    <3>0. Step(c, "created") \/ Unanswered(c, "duplicate entry")
      BY <2>5 DEF CreateRow
    <3>r. /\ [r EXCEPT !.pc = "created"] \in Requests
          /\ [r EXCEPT !.pc = "unanswered", !.why = "duplicate entry"] \in Requests
      BY <2>0 DEF Requests
    <3>1. client' \in [Clients -> Requests]
      BY <3>0, <3>r DEF Step, Unanswered
    <3>2. rows' \in [AllKeys -> Nat]
      <4>1. rows[r.key] + 1 \in Nat
        BY <2>0
      <4> QED BY <2>0, <2>5, <4>1 DEF CreateRow, InsertRow
    <3>3. rowBody' \in [Keys -> Bodies]
      BY <2>0, <2>5 DEF CreateRow, InsertRow
    <3> QED BY <2>5, <3>1, <3>2, <3>3 DEF CreateRow, bounds
  <2>6. CASE CreateRowFails(c)
    <3>1. client' \in [Clients -> Requests]
      BY <2>0, <2>6, RequestType DEF CreateRowFails, Unanswered
    <3>2. failures' \in 0..MaxFailures /\ crashes' = crashes
      BY <2>6, IdempotencyAssumption DEF CreateRowFails, OneFailure
    <3>3. rows' \in [AllKeys -> Nat]
      <4>1. rows[r.key] + 1 \in Nat
        BY <2>0
      <4> QED BY <2>0, <2>6, <4>1 DEF CreateRowFails, InsertRow
    <3>4. rowBody' \in [Keys -> Bodies]
      BY <2>0, <2>6 DEF CreateRowFails, InsertRow
    <3> QED BY <2>6, <3>1, <3>2, <3>3, <3>4 DEF CreateRowFails
  <2>7. CASE ChargeAndAnswer(c)
    <3>1. client' \in [Clients -> Requests]
      BY <2>0, <2>7, RequestType DEF ChargeAndAnswer, Step, Unanswered
    <3>2. charges' \in [AllKeys -> Nat]
      BY <2>0, <2>7 DEF ChargeAndAnswer
    <3> QED BY <2>7, <3>1, <3>2 DEF ChargeAndAnswer, bounds
  <2>8. CASE OwnerChanges(c)
    BY <2>8 DEF OwnerChanges, bounds
  <2> QED BY <1>1, <2>1, <2>2, <2>3, <2>4, <2>5, <2>6, <2>7, <2>8 DEF ClientNext
<1>2. CASE Crash
  <2>1. client' \in [Clients -> Requests]
    <3>1. ASSUME NEW c \in Clients
          PROVE  [client[c] EXCEPT !.pc = "unanswered", !.why = "lost"] \in Requests
      BY DEF Requests
    <3> QED BY <1>2, <3>1 DEF Crash
  <2>2. crashes' \in 0..MaxCrashes
    <3>1. crashes < MaxCrashes /\ crashes' = crashes + 1
      BY <1>2 DEF Crash
    <3>2. MaxCrashes \in Nat
      BY IdempotencyAssumption
    <3> QED BY <3>1, <3>2
  <2> QED BY <1>2, <2>1, <2>2 DEF Crash
<1>3. CASE UNCHANGED vars
  BY <1>3 DEF vars, bounds
<1> QED BY <1>1, <1>2, <1>3 DEF Next

\* The key table, the rows and every request are always well formed.
THEOREM TypeCorrect == Spec => []TypeOK
<1> QED BY TypeInit, TypeStep, PTL DEF Spec

\* The parts of a request.
LEMMA RequestParts ==
  ASSUME NEW r \in Requests
  PROVE  r.key \in AllKeys /\ (r.key = NoKey \/ r.key \in Keys) /\ r.hash \in Hashes
BY DEF Requests, AllKeys

\* A request that moves on keeps its key and its hash; the others stay.
LEMMA RequestMoves ==
  ASSUME client \in [Clients -> Requests], NEW c \in Clients, NEW label, NEW why,
         Step(c, label) \/ (label = "unanswered" /\ Unanswered(c, why))
  PROVE  /\ \A d \in Clients : d # c => client'[d] = client[d]
         /\ client'[c].key = client[c].key
         /\ client'[c].hash = client[c].hash
         /\ client'[c].pc = label
<1>1. client[c] \in Requests
  OBVIOUS
<1>2. CASE Step(c, label)
  <2>1. client'[c] = [client[c] EXCEPT !.pc = label]
    BY <1>2 DEF Step
  <2> QED BY <1>1, <1>2, <2>1 DEF Step, Requests
<1>3. CASE label = "unanswered" /\ Unanswered(c, why)
  <2>1. client'[c] = [client[c] EXCEPT !.pc = "unanswered", !.why = why]
    BY <1>3 DEF Unanswered
  <2> QED BY <1>1, <1>3, <2>1 DEF Unanswered, Requests
<1> QED BY <1>2, <1>3

\* Nothing is stored, inserted or charged at first, and nobody is answered.
LEMMA KeyInit == Init => KeyInv
<1> SUFFICES ASSUME Init PROVE KeyInv
  OBVIOUS
<1>1. \A c \in Clients : client[c].pc = "idle"
  BY DEF Init
<1>2. \A k \in Keys : stored[k] = NoHash /\ rows[k] = 0 /\ charges[k] = 0
  BY DEF Init, AllKeys
<1> QED BY <1>1, <1>2
    DEF KeyInv, Holder, OneHolder, KeyRow, AnswersMatchRequest, HoldsKey

\* Every step keeps one holder per key, and its row and charge consistent.
LEMMA KeyStep == TypeOK /\ KeyInv /\ [Next]_vars => KeyInv'
<1> SUFFICES ASSUME TypeOK, KeyInv, [Next]_vars PROVE KeyInv'
  OBVIOUS
<1>t. /\ stored \in [Keys -> Hashes \cup {NoHash}]
      /\ rows \in [AllKeys -> Nat] /\ charges \in [AllKeys -> Nat]
      /\ rowBody \in [Keys -> Bodies]
      /\ client \in [Clients -> Requests]
  BY DEF TypeOK
<1>k. NoKey \notin Keys /\ NoHash \notin Hashes /\ Keys \subseteq AllKeys
  BY IdempotencyAssumption DEF AllKeys, Hashes
<1>1. ASSUME NEW c \in Clients, ClientNext(c) PROVE KeyInv'
  <2> DEFINE r == client[c]
             k == r.key
  <2>0. /\ r \in Requests /\ k \in AllKeys /\ r.hash \in Hashes
        /\ k = NoKey \/ k \in Keys
    BY <1>t, RequestParts
  <2>r. \A d \in Clients : client[d] \in Requests /\ client[d].hash \in Hashes
    BY <1>t, RequestParts
  <2>1. CASE Send(c)
    <3>0. PICK o \in Owners :
             client' = [client EXCEPT
                ![c].pc = IF client[c].key = NoKey THEN "fresh" ELSE "storing",
                ![c].hash = RequestHash(client[c].hash.body, o)]
      BY <2>1 DEF Send
    <3>1. /\ UNCHANGED <<stored, rows, rowBody, charges>>
          /\ \A d \in Clients : d # c => client'[d] = client[d]
          /\ client'[c].key = k
          /\ client'[c].pc = IF k = NoKey THEN "fresh" ELSE "storing"
      BY <1>t, <2>0, <2>1, <3>0 DEF Send, Requests
    <3> QED BY <3>1, <1>k
        DEF KeyInv, Holder, OneHolder, KeyRow, AnswersMatchRequest, HoldsKey
  <2>2. CASE StoreKey(c)
    <3>0. Step(c, "fresh") \/ Step(c, "duplicate")
      BY <2>2 DEF StoreKey
    <3>m. /\ \A d \in Clients : d # c => client'[d] = client[d]
          /\ client'[c].key = k /\ client'[c].hash = r.hash
      BY <1>t, <3>0, RequestMoves
    <3>1. /\ UNCHANGED <<rows, rowBody, charges>>
          /\ \A d \in Clients : d # c => client'[d] = client[d]
          /\ client'[c].key = k /\ client'[c].hash = r.hash
          /\ r.pc = "storing"
      BY <2>2, <3>m DEF StoreKey
    <3>2. CASE stored[k] = NoHash
      <4>1. stored' = [stored EXCEPT ![k] = r.hash] /\ client'[c].pc = "fresh"
        <5>1. stored' = [stored EXCEPT ![k] = r.hash] /\ Step(c, "fresh")
          BY <2>2, <3>2 DEF StoreKey
        <5> QED BY <1>t, <5>1, RequestMoves
      <4>2. CASE k \in Keys
        <5>1. \A d \in Clients : HoldsKey(d) => client[d].key # k
          BY <2>r, <3>2, <1>k
              DEF KeyInv, Holder, OneHolder, KeyRow, AnswersMatchRequest, HoldsKey
        <5>2. rows[k] = 0 /\ charges[k] = 0
          BY <3>2, <4>2
              DEF KeyInv, Holder, OneHolder, KeyRow, AnswersMatchRequest, HoldsKey
        <5> QED BY <1>t, <3>1, <4>1, <4>2, <5>1, <5>2
            DEF KeyInv, Holder, OneHolder, KeyRow, AnswersMatchRequest, HoldsKey
      <4> QED BY <1>t, <1>k, <2>0, <3>1, <4>1, <4>2
          DEF KeyInv, Holder, OneHolder, KeyRow, AnswersMatchRequest, HoldsKey
    <3>3. CASE stored[k] # NoHash
      <4>1. UNCHANGED stored /\ client'[c].pc = "duplicate"
        <5>1. UNCHANGED stored /\ Step(c, "duplicate")
          BY <2>2, <3>3 DEF StoreKey
        <5> QED BY <1>t, <5>1, RequestMoves
      <4> QED BY <3>1, <4>1
          DEF KeyInv, Holder, OneHolder, KeyRow, AnswersMatchRequest, HoldsKey
    <3> QED BY <3>2, <3>3
  <2>3. CASE StoreKeyFails(c)
    <3>1. /\ UNCHANGED <<rows, rowBody, charges>>
          /\ \A d \in Clients : d # c => client'[d] = client[d]
          /\ client'[c].pc = "unanswered"
      BY <1>t, <2>0, <2>3 DEF StoreKeyFails, Unanswered, Requests
    <3>2. CASE UNCHANGED stored
      BY <3>1, <3>2 DEF KeyInv, Holder, OneHolder, KeyRow, AnswersMatchRequest, HoldsKey
    <3>3. CASE stored[k] = NoHash /\ stored' = [stored EXCEPT ![k] = r.hash]
      <4>1. \A d \in Clients : HoldsKey(d) => client[d].key # k
        BY <2>r, <3>3, <1>k
            DEF KeyInv, Holder, OneHolder, KeyRow, AnswersMatchRequest, HoldsKey
      <4> QED BY <1>t, <1>k, <2>0, <3>1, <3>3, <4>1
          DEF KeyInv, Holder, OneHolder, KeyRow, AnswersMatchRequest, HoldsKey
    <3> QED BY <2>3, <3>2, <3>3 DEF StoreKeyFails
  <2>4. CASE LookUp(c)
    <3>0. UNCHANGED <<stored, rows, rowBody, charges>>
      BY <2>4 DEF LookUp
    <3>1. \/ \E why \in {"in progress", "conflict"} : Unanswered(c, why)
          \/ rows[k] # 0 /\ stored[k] = r.hash /\ Step(c, "answered")
      BY <2>4 DEF LookUp
    <3>2. ASSUME NEW why, Unanswered(c, why) PROVE KeyInv'
      <4>1. /\ \A d \in Clients : d # c => client'[d] = client[d]
            /\ client'[c].pc = "unanswered"
        BY <1>t, <3>2, RequestMoves
      <4> QED BY <3>0, <4>1
          DEF KeyInv, Holder, OneHolder, KeyRow, AnswersMatchRequest, HoldsKey
    <3>3. CASE rows[k] # 0 /\ stored[k] = r.hash /\ Step(c, "answered")
      <4>1. /\ \A d \in Clients : d # c => client'[d] = client[d]
            /\ client'[c].key = k /\ client'[c].hash = r.hash
            /\ client'[c].pc = "answered"
        BY <1>t, <3>3, RequestMoves
      <4>2. rows[k] \in Nat
        BY <1>t, <2>0
      <4> QED BY <3>0, <3>3, <4>1, <4>2
          DEF KeyInv, Holder, OneHolder, KeyRow, AnswersMatchRequest, HoldsKey
    <3> QED BY <3>1, <3>2, <3>3
  <2>5. CASE CreateRow(c)
    <3>1. /\ UNCHANGED <<stored, charges>>
          /\ \A d \in Clients : d # c => client'[d] = client[d]
          /\ client'[c].key = k /\ client'[c].hash = r.hash /\ r.pc = "fresh"
      <4>1. /\ UNCHANGED <<stored, charges>> /\ r.pc = "fresh"
            /\ Step(c, "created") \/ Unanswered(c, "duplicate entry")
        BY <2>5 DEF CreateRow
      <4>2. CASE Step(c, "created")
        BY <1>t, <4>1, <4>2, RequestMoves
      <4>3. CASE Unanswered(c, "duplicate entry")
        BY <1>t, <4>1, <4>3, RequestMoves
      <4> QED BY <4>1, <4>2, <4>3
    <3>2. CASE UniqueKeyColumn /\ rows[k] > 0
      <4>1. UNCHANGED <<rows, rowBody>> /\ client'[c].pc = "unanswered"
        <5>1. UNCHANGED <<rows, rowBody>> /\ Unanswered(c, "duplicate entry")
          BY <2>5, <3>2 DEF CreateRow
        <5> QED BY <1>t, <5>1, RequestMoves
      <4> QED BY <3>1, <4>1
          DEF KeyInv, Holder, OneHolder, KeyRow, AnswersMatchRequest, HoldsKey
    <3>3. CASE ~(UniqueKeyColumn /\ rows[k] > 0)
      <4>1. /\ rows' = [rows EXCEPT ![k] = @ + 1]
            /\ rowBody' = [j \in Keys |-> IF j = k THEN r.hash.body ELSE rowBody[j]]
            /\ client'[c].pc = "created"
        <5>1. /\ rows' = [rows EXCEPT ![k] = @ + 1]
              /\ rowBody' = [j \in Keys |-> IF j = k THEN r.hash.body ELSE rowBody[j]]
              /\ Step(c, "created")
          BY <2>5, <3>3, Zenon DEF CreateRow, InsertRow
        <5> QED BY <1>t, <5>1, RequestMoves
      <4>2. CASE k \in Keys
        <5>1. /\ HoldsKey(c) /\ rows[k] = 0 /\ rows'[k] = 1 /\ charges[k] = 0
              /\ stored[k] = r.hash
          BY <1>t, <2>0, <3>1, <4>1, <4>2
              DEF KeyInv, Holder, OneHolder, KeyRow, AnswersMatchRequest, HoldsKey
        <5>2. \A j \in Keys : j # k => rows'[j] = rows[j] /\ rowBody'[j] = rowBody[j]
          BY <1>t, <1>k, <4>1
              DEF KeyInv, Holder, OneHolder, KeyRow, AnswersMatchRequest, HoldsKey
        <5>3. rowBody'[k] = r.hash.body
          BY <4>1, <4>2
              DEF KeyInv, Holder, OneHolder, KeyRow, AnswersMatchRequest, HoldsKey
        <5>4. \A d \in Clients : d # c /\ HoldsKey(d) => client[d].key # k
          BY <5>1 DEF KeyInv, Holder, OneHolder, KeyRow, AnswersMatchRequest, HoldsKey
        <5>5. \A d \in Clients : client[d].pc = "answered" => client[d].key # k
          BY <4>2, <5>1
              DEF KeyInv, Holder, OneHolder, KeyRow, AnswersMatchRequest, HoldsKey
        <5>6. stored[k] # NoHash
          BY <5>1, <2>0, <1>k
              DEF KeyInv, Holder, OneHolder, KeyRow, AnswersMatchRequest, HoldsKey
        <5>7. (\A d \in Clients : HoldsKey(d) => Holder(d))'
          BY <3>1, <4>1, <4>2, <5>1, <5>2, <5>3, <5>4 DEF KeyInv, Holder, HoldsKey
        <5>8. OneHolder'
          BY <3>1, <4>1, <5>4 DEF KeyInv, OneHolder, HoldsKey
        <5>9. (\A j \in Keys : KeyRow(j))'
          BY <3>1, <4>1, <4>2, <5>1, <5>2, <5>3, <5>6 DEF KeyInv, KeyRow
        <5>10. AnswersMatchRequest'
          BY <3>1, <4>1, <4>2, <5>1, <5>2, <5>5 DEF KeyInv, AnswersMatchRequest
        <5> QED BY <5>7, <5>8, <5>9, <5>10 DEF KeyInv
      <4>3. CASE k \notin Keys
        <5>1. \A j \in Keys : rows'[j] = rows[j] /\ rowBody'[j] = rowBody[j]
          BY <1>t, <1>k, <4>1, <4>3
              DEF KeyInv, Holder, OneHolder, KeyRow, AnswersMatchRequest, HoldsKey
        <5> QED BY <3>1, <4>1, <4>3, <5>1
            DEF KeyInv, Holder, OneHolder, KeyRow, AnswersMatchRequest, HoldsKey
      <4> QED BY <4>2, <4>3
    <3> QED BY <3>2, <3>3
  <2>6. CASE CreateRowFails(c)
    <3>1. /\ UNCHANGED <<stored, charges>> /\ r.pc = "fresh"
          /\ \A d \in Clients : d # c => client'[d] = client[d]
          /\ client'[c].pc = "unanswered"
      BY <1>t, <2>0, <2>6 DEF CreateRowFails, Unanswered, Requests
    <3>2. CASE UNCHANGED <<rows, rowBody>>
      BY <3>1, <3>2 DEF KeyInv, Holder, OneHolder, KeyRow, AnswersMatchRequest, HoldsKey
    <3>3. CASE InsertRow(c)
      <4>1. /\ rows' = [rows EXCEPT ![k] = @ + 1]
            /\ rowBody' = [j \in Keys |-> IF j = k THEN r.hash.body ELSE rowBody[j]]
        BY <3>3, Zenon DEF InsertRow
      <4>2. CASE k \in Keys
        <5>1. /\ HoldsKey(c) /\ rows[k] = 0 /\ rows'[k] = 1 /\ charges[k] = 0
              /\ stored[k] = r.hash
          BY <1>t, <2>0, <3>1, <4>1, <4>2 DEF KeyInv, Holder, HoldsKey
        <5>2. \A j \in Keys : j # k => rows'[j] = rows[j] /\ rowBody'[j] = rowBody[j]
          BY <1>t, <1>k, <4>1
        <5>3. rowBody'[k] = r.hash.body
          BY <4>1, <4>2
        <5>4. \A d \in Clients : d # c /\ HoldsKey(d) => client[d].key # k
          BY <5>1 DEF KeyInv, OneHolder, HoldsKey
        <5>5. \A d \in Clients : client[d].pc = "answered" => client[d].key # k
          BY <4>2, <5>1 DEF KeyInv, AnswersMatchRequest
        <5>6. stored[k] # NoHash
          BY <5>1, <2>0, <1>k
        <5>7. (\A d \in Clients : HoldsKey(d) => Holder(d))'
          BY <3>1, <5>2, <5>4 DEF KeyInv, Holder, HoldsKey
        <5>8. OneHolder'
          BY <3>1 DEF KeyInv, OneHolder, HoldsKey
        <5>9. (\A j \in Keys : KeyRow(j))'
          BY <3>1, <4>2, <5>1, <5>2, <5>3, <5>6 DEF KeyInv, KeyRow
        <5>10. AnswersMatchRequest'
          BY <3>1, <5>1, <5>2, <5>5 DEF KeyInv, AnswersMatchRequest
        <5> QED BY <5>7, <5>8, <5>9, <5>10 DEF KeyInv
      <4>3. CASE k \notin Keys
        <5>1. \A j \in Keys : rows'[j] = rows[j] /\ rowBody'[j] = rowBody[j]
          BY <1>t, <1>k, <4>1, <4>3
        <5> QED BY <3>1, <5>1
            DEF KeyInv, Holder, OneHolder, KeyRow, AnswersMatchRequest, HoldsKey
      <4> QED BY <4>2, <4>3
    <3> QED BY <2>6, <3>2, <3>3 DEF CreateRowFails
  <2>7. CASE ChargeAndAnswer(c)
    <3>1. /\ UNCHANGED <<stored, rows, rowBody>>
          /\ \A d \in Clients : d # c => client'[d] = client[d]
          /\ client'[c].key = k /\ client'[c].hash = r.hash /\ r.pc = "created"
          /\ client'[c].pc \in {"answered", "unanswered"}
          /\ charges' = [charges EXCEPT ![k] = @ + 1]
      <4>1. /\ UNCHANGED <<stored, rows, rowBody>> /\ r.pc = "created"
            /\ charges' = [charges EXCEPT ![k] = @ + 1]
            /\ Step(c, "answered") \/ Unanswered(c, "lost")
        BY <2>7 DEF ChargeAndAnswer
      <4>2. CASE Step(c, "answered")
        BY <1>t, <4>1, <4>2, RequestMoves
      <4>3. CASE Unanswered(c, "lost")
        BY <1>t, <4>1, <4>3, RequestMoves
      <4> QED BY <4>1, <4>2, <4>3
    <3>2. CASE k \in Keys
      <4>1. /\ HoldsKey(c) /\ rows[k] # 0 /\ rows[k] \in Nat /\ charges'[k] = 1
            /\ rowBody[k] = r.hash.body /\ stored[k] # NoHash
        BY <1>t, <1>k, <2>0, <3>1, <3>2
            DEF KeyInv, Holder, OneHolder, KeyRow, AnswersMatchRequest, HoldsKey
      <4>2. \A j \in Keys : j # k => charges'[j] = charges[j]
        BY <1>t, <1>k, <3>1
            DEF KeyInv, Holder, OneHolder, KeyRow, AnswersMatchRequest, HoldsKey
      <4>3. \A d \in Clients : d # c /\ HoldsKey(d) => client[d].key # k
        BY <4>1 DEF KeyInv, Holder, OneHolder, KeyRow, AnswersMatchRequest, HoldsKey
      <4> QED BY <3>1, <3>2, <4>1, <4>2, <4>3
          DEF KeyInv, Holder, OneHolder, KeyRow, AnswersMatchRequest, HoldsKey
    <3>3. CASE k \notin Keys
      <4>1. \A j \in Keys : charges'[j] = charges[j]
        BY <1>t, <1>k, <3>1, <3>3
            DEF KeyInv, Holder, OneHolder, KeyRow, AnswersMatchRequest, HoldsKey
      <4> QED BY <3>1, <3>3, <4>1
          DEF KeyInv, Holder, OneHolder, KeyRow, AnswersMatchRequest, HoldsKey
    <3> QED BY <3>2, <3>3
  <2>8. CASE OwnerChanges(c)
    BY <2>8 DEF OwnerChanges, KeyInv, Holder, OneHolder, KeyRow, AnswersMatchRequest, HoldsKey
  <2> QED BY <1>1, <2>1, <2>2, <2>3, <2>4, <2>5, <2>6, <2>7, <2>8 DEF ClientNext
<1>2. CASE Crash
  <2>1. /\ UNCHANGED <<stored, rows, rowBody, charges>>
        /\ \A d \in Clients :
              \/ client'[d] = client[d] /\ client[d].pc \notin {"fresh", "created"}
              \/ client'[d].pc = "unanswered"
    BY <1>t, <1>2 DEF Crash, Requests
  <2> QED BY <2>1 DEF KeyInv, Holder, OneHolder, KeyRow, AnswersMatchRequest, HoldsKey
<1>3. CASE UNCHANGED vars
  BY <1>3 DEF vars, bounds, KeyInv, Holder, OneHolder, KeyRow, AnswersMatchRequest, HoldsKey
<1> QED BY <1>1, <1>2, <1>3 DEF Next

\* A payment is charged at most once per key, and answers match requests:
\* for any number of clients, retries, crashes and failures, and by the key
\* table alone (the UNIQUE index on the row is not needed).
THEOREM KeysProtect == Spec => [](OneChargePerKey /\ AnswersMatchRequest)
<1>1. KeyInv => OneChargePerKey /\ AnswersMatchRequest
  BY DEF KeyInv, KeyRow, OneChargePerKey
<1> QED BY <1>1, TypeInit, TypeStep, KeyInit, KeyStep, PTL DEF Spec

\* The body hash binds a key to its request: whatever replays, conflicts and
\* failures a client goes through, an answer it gets is the payment of the
\* body it sent, never that of another request under the same key.
THEOREM AnswersAreForTheRequest == Spec => []AnswersMatchRequest
<1>1. OneChargePerKey /\ AnswersMatchRequest => AnswersMatchRequest
  OBVIOUS
<1> QED BY <1>1, KeysProtect, PTL
=============================================================================
