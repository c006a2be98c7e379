------------------------- MODULE Notifications_proofs -------------------------
(***************************************************************************)
(* Proofs about Notifications, for any number of fulfillments, connections *)
(* and messages, any batch and any number of retries.                      *)
(***************************************************************************)
EXTENDS Notifications, FiniteSetTheorems, SequenceTheorems, TLAPS

-----------------------------------------------------------------------------
(* The shape of the local states.                                          *)

Steps == {"idle", "claimed", "inserted", "disable", "complete"}
SenderShape == [pc: Steps, row: Nat, result: Outcomes]
AttemptShape == [channel: {"sms", "push"}, linked: BOOLEAN,
                 status: {"pending", "sent", "failed"}, retries: Nat, due: BOOLEAN]

\* A claim is a fulfillment's, and the worker's state is a record.
ShapeInv ==
  /\ senders \in [Senders -> SenderShape]
  /\ \A s \in Senders : senders[s].pc = "claimed" => s \in Fulfillments
  /\ worker = [pc |-> worker.pc, batch |-> worker.batch, result |-> worker.result]
  /\ attempts \in Seq(AttemptShape)

LEMMA IdleShape == IdleSender \in SenderShape /\ IdleSender.pc = "idle"
BY DEF IdleSender, SenderShape, Steps, Outcomes

\* What a call may become.
LEMMA SenderFields ==
  ASSUME NEW c \in SenderShape, NEW p \in Steps, NEW r \in Outcomes
  PROVE  /\ c.pc \in Steps
         /\ [c EXCEPT !.pc = p] \in SenderShape /\ [c EXCEPT !.pc = p].pc = p
         /\ [c EXCEPT !.result = r, !.pc = p] \in SenderShape
         /\ [c EXCEPT !.result = r, !.pc = p].pc = p
BY DEF SenderShape

\* One call moves to another state.
LEMMA SendersMove ==
  ASSUME ShapeInv, NEW s \in Senders, NEW c \in SenderShape,
         senders' = [senders EXCEPT ![s] = c]
  PROVE  /\ senders' \in [Senders -> SenderShape]
         /\ senders'[s] = c
         /\ \A x \in Senders : x # s => senders'[x] = senders[x]
BY DEF ShapeInv

\* A call's step, as far as its connection and the device's row matter: the
\* call s moves to c, and every claim is a fulfillment's.
Moves(s, c) ==
  /\ c \in SenderShape /\ senders' = [senders EXCEPT ![s] = c]
  /\ c.pc = "claimed" => s \in Fulfillments

LEMMA ClaimMoves ==
  ASSUME ShapeInv, NEW s \in Senders, Claim(s)
  PROVE  \E c : /\ Moves(s, c) /\ c # IdleSender /\ c.pc # "disable"
                /\ senders[s] = IdleSender /\ s \in Fulfillments
<1>. DEFINE c == [senders[s] EXCEPT !.pc = "claimed"]
<1>1. senders[s] \in SenderShape /\ "claimed" \in Steps
  BY DEF ShapeInv, Steps
<1>2. c \in SenderShape /\ c.pc = "claimed"
  BY <1>1 DEF SenderShape
<1>3. senders' = [senders EXCEPT ![s] = c] /\ s \in Fulfillments /\ senders[s] = IdleSender
  BY DEF Claim
<1>. HIDE DEF c
<1>4. c # IdleSender
  BY <1>2, IdleShape
<1>. QED BY <1>2, <1>3, <1>4 DEF Moves

LEMMA InsertMoves ==
  ASSUME ShapeInv, NEW s \in Senders, NEW channel, InsertAttempt(s, channel)
  PROVE  \E c : /\ Moves(s, c) /\ c # IdleSender /\ c.pc # "disable"
                /\ s \in Fulfillments => senders[s] # IdleSender
<1>. PICK n \in Nat : n = Len(attempts) + 1
  BY DEF ShapeInv
<1>. DEFINE c == [pc |-> "inserted", row |-> n, result |-> "sent"]
<1>1. c \in SenderShape /\ c.pc = "inserted"
  BY DEF SenderShape, Steps, Outcomes
<1>2. senders' = [senders EXCEPT ![s] = c]
  BY DEF InsertAttempt
<1>3. s \in Fulfillments => senders[s].pc = "claimed"
  BY DEF InsertAttempt
<1>. HIDE DEF c
<1>4. c # IdleSender /\ (s \in Fulfillments => senders[s] # IdleSender)
  BY <1>1, <1>3, IdleShape
<1>. QED BY <1>1, <1>2, <1>4 DEF Moves

LEMMA SendMoves ==
  ASSUME ShapeInv, NEW s \in Senders, NEW result \in Outcomes, Send(s, result)
  PROVE  \E c : /\ Moves(s, c) /\ c # IdleSender /\ senders[s] # IdleSender
                /\ c.pc = "disable" => ~installed
<1>. PICK p \in Steps :
        /\ p = IF result = "unregistered" THEN "disable" ELSE "complete"
        /\ p \in {"disable", "complete"}
  BY DEF Steps
<1>. DEFINE c == [senders[s] EXCEPT !.result = result, !.pc = p]
<1>1. senders[s] \in SenderShape
  BY DEF ShapeInv
<1>2. c \in SenderShape /\ c.pc = p
  BY <1>1 DEF SenderShape
<1>3. senders' = [senders EXCEPT ![s] = c] /\ senders[s].pc = "inserted"
  BY DEF Send
<1>4. p = "disable" => ~installed
  BY DEF Send, Answers
<1>. HIDE DEF c
<1>5. c # IdleSender /\ senders[s] # IdleSender
  BY <1>2, <1>3, IdleShape
<1>. QED BY <1>2, <1>3, <1>4, <1>5 DEF Moves

LEMMA DisableMoves ==
  ASSUME ShapeInv, NEW s \in Senders, DisablePushDevice(s)
  PROVE  \E c : /\ Moves(s, c) /\ c # IdleSender /\ senders[s] # IdleSender
                /\ c.pc # "disable"
<1>. DEFINE c == [senders[s] EXCEPT !.pc = "complete"]
<1>1. senders[s] \in SenderShape /\ "complete" \in Steps
  BY DEF ShapeInv, Steps
<1>2. c \in SenderShape /\ c.pc = "complete"
  BY <1>1 DEF SenderShape
<1>3. senders' = [senders EXCEPT ![s] = c] /\ senders[s].pc = "disable"
  BY DEF DisablePushDevice
<1>. HIDE DEF c
<1>4. c # IdleSender /\ senders[s] # IdleSender
  BY <1>2, <1>3, IdleShape
<1>. QED BY <1>2, <1>3, <1>4 DEF Moves

LEMMA CompleteMoves ==
  ASSUME ShapeInv, NEW s \in Senders, Complete(s)
  PROVE  \E c : /\ Moves(s, c) /\ senders[s] # IdleSender /\ c.pc # "disable"
                /\ s \in Fulfillments => c # IdleSender
<1>1. senders[s].pc = "complete"
  BY DEF Complete
<1>2. senders[s] # IdleSender
  BY <1>1, IdleShape
<1>3. CASE s \in Fulfillments
  <2>. DEFINE c == [IdleSender EXCEPT !.pc = "claimed"]
  <2>1. c \in SenderShape /\ c.pc = "claimed"
    BY IdleShape DEF SenderShape, Steps
  <2>2. senders' = [senders EXCEPT ![s] = c]
    BY <1>3 DEF Complete
  <2>. HIDE DEF c
  <2>3. c # IdleSender
    BY <2>1, IdleShape
  <2>. QED BY <1>2, <1>3, <2>1, <2>2, <2>3 DEF Moves
<1>4. CASE s \notin Fulfillments
  <2>1. senders' = [senders EXCEPT ![s] = IdleSender]
    BY <1>4 DEF Complete
  <2>. QED BY <1>2, <1>4, <2>1, IdleShape DEF Moves
<1>. QED BY <1>3, <1>4

LEMMA ReleaseMoves ==
  ASSUME ShapeInv, NEW s \in Senders, Release(s)
  PROVE  /\ Moves(s, IdleSender) /\ senders[s] # IdleSender
         /\ s \in Fulfillments /\ busy' = busy - 1
<1>1. senders[s].pc = "claimed" /\ senders' = [senders EXCEPT ![s] = IdleSender]
  BY DEF Release
<1>2. s \in Fulfillments
  BY <1>1 DEF ShapeInv
<1>3. busy' = busy - 1
  BY DEF Release
<1>. QED BY <1>1, <1>2, <1>3, IdleShape DEF Moves

\* A message keeps its shape, whatever an UPDATE writes into it.
LEMMA MessageChanges ==
  ASSUME ShapeInv, NEW i, NEW m, i \in DOMAIN attempts => m \in AttemptShape,
         attempts' = [attempts EXCEPT ![i] = m]
  PROVE  attempts' \in Seq(AttemptShape)
<1>1. attempts \in Seq(AttemptShape) /\ DOMAIN attempts = 1..Len(attempts)
  BY DEF ShapeInv
<1>2. CASE i \in 1..Len(attempts)
  BY <1>1, <1>2, ExceptSeq
<1>3. CASE i \notin 1..Len(attempts)
  <2>1. [attempts EXCEPT ![i] = m] = attempts
    <3>. DEFINE f == [attempts EXCEPT ![i] = m]
    <3>1. DOMAIN f = DOMAIN attempts /\ \A j \in DOMAIN attempts : f[j] = attempts[j]
      BY <1>1, <1>3
    <3>2. attempts \in [DOMAIN attempts -> AttemptShape]
      BY <1>1, LenProperties
    <3>3. f \in [DOMAIN attempts -> AttemptShape]
      BY <1>1, <1>3, <3>2
    <3>. HIDE DEF f
    <3>4. f = attempts
      BY <3>1, <3>2, <3>3
    <3>. QED BY <3>4 DEF f
  <2>. QED BY <1>1, <2>1
<1>. QED BY <1>2, <1>3

LEMMA InsertMessages ==
  ASSUME ShapeInv, NEW s \in Senders, NEW channel \in {"sms", "push"}, InsertAttempt(s, channel)
  PROVE  attempts' \in Seq(AttemptShape)
<1>0. (s \in Fulfillments) \in BOOLEAN
  OBVIOUS
<1>. PICK linked \in BOOLEAN : linked = (s \in Fulfillments)
  BY <1>0
<1>. DEFINE m == [channel |-> channel, linked |-> linked, status |-> "pending",
                  retries |-> 0, due |-> TRUE]
<1>1. attempts' = Append(attempts, m)
  BY DEF InsertAttempt
<1>2. m \in AttemptShape
  BY DEF AttemptShape
<1>. HIDE DEF m
<1>. QED BY <1>1, <1>2 DEF ShapeInv

LEMMA CompleteMessages ==
  ASSUME ShapeInv, NEW s \in Senders, Complete(s)
  PROVE  attempts' \in Seq(AttemptShape)
<1>. PICK i, status : i = senders[s].row /\ status = StatusOfSend(senders[s].result)
  OBVIOUS
<1>1. status \in {"sent", "failed"}
  BY DEF StatusOfSend
<1>. DEFINE m == [attempts[i] EXCEPT !.status = status]
<1>2. UNCHANGED attempts \/ attempts' = [attempts EXCEPT ![i] = m]
  BY DEF Complete
<1>3. i \in DOMAIN attempts => m \in AttemptShape
  <2>. SUFFICES ASSUME i \in DOMAIN attempts PROVE m \in AttemptShape
    OBVIOUS
  <2>1. attempts[i] \in AttemptShape
    BY DEF ShapeInv
  <2>. QED BY <1>1, <2>1 DEF AttemptShape
<1>. HIDE DEF m
<1>. QED BY <1>2, <1>3, MessageChanges DEF ShapeInv

LEMMA UpdateMessages ==
  ASSUME ShapeInv, Update
  PROVE  attempts' \in Seq(AttemptShape)
<1>. PICK i, status : i = Head(worker.batch) /\ status = StatusOfSend(worker.result)
  OBVIOUS
<1>1. status \in {"sent", "failed"}
  BY DEF StatusOfSend
<1>. DEFINE m == [attempts[i] EXCEPT !.status = status, !.due = FALSE, !.retries = @ + 1]
<1>2. UNCHANGED attempts \/ attempts' = [attempts EXCEPT ![i] = m]
  BY DEF Update
<1>3. i \in DOMAIN attempts => m \in AttemptShape
  <2>. SUFFICES ASSUME i \in DOMAIN attempts PROVE m \in AttemptShape
    OBVIOUS
  <2>1. attempts[i] \in AttemptShape
    BY DEF ShapeInv
  <2>2. PICK n \in Nat : n = attempts[i].retries + 1
    BY <2>1 DEF AttemptShape
  <2>3. m = [attempts[i] EXCEPT !.status = status, !.due = FALSE, !.retries = n]
    BY <2>2
  <2>4. [attempts[i] EXCEPT !.status = status, !.due = FALSE, !.retries = n] \in AttemptShape
    BY <1>1, <2>1, <2>2 DEF AttemptShape
  <2>. QED BY <2>3, <2>4
<1>. HIDE DEF m
<1>. QED BY <1>2, <1>3, MessageChanges DEF ShapeInv

\* What a step of a call does: it moves to a state c, and its connection, its
\* message and the device change as c says.
CallStep(s, c) ==
  /\ Moves(s, c)
  /\ \/ /\ s \in Fulfillments /\ senders[s] = IdleSender /\ c # IdleSender
        /\ busy' = busy + 1
     \/ /\ s \in Fulfillments /\ senders[s] # IdleSender /\ c = IdleSender
        /\ busy' = busy - 1
     \/ /\ s \in Fulfillments => senders[s] # IdleSender /\ c # IdleSender
        /\ busy' = busy
  /\ c.pc = "disable" => ~installed
  /\ enabled' = enabled \/ senders[s].pc = "disable"
  /\ UNCHANGED <<worker, installed, overtaken>>
  /\ attempts' \in Seq(AttemptShape)

LEMMA CallSteps ==
  ASSUME ShapeInv, NEW s \in Senders, SenderStep(s)
  PROVE  \E c : CallStep(s, c)
<1>0. attempts \in Seq(AttemptShape)
  BY DEF ShapeInv
<1>1. CASE Claim(s)
  <2>1. PICK c : /\ Moves(s, c) /\ c # IdleSender /\ c.pc # "disable"
                 /\ senders[s] = IdleSender /\ s \in Fulfillments
    BY <1>1, ClaimMoves
  <2>2. /\ busy' = busy + 1 /\ UNCHANGED <<attempts, worker, enabled, installed, overtaken>>
    BY <1>1 DEF Claim, Device
  <2>. QED BY <1>0, <2>1, <2>2 DEF CallStep
<1>2. CASE Release(s)
  <2>1. UNCHANGED <<attempts, worker, enabled, installed, overtaken>>
    BY <1>2 DEF Release, Device
  <2>. QED BY <1>0, <1>2, <2>1, ReleaseMoves, IdleShape DEF CallStep
<1>3. ASSUME NEW channel \in {"sms", "push"}, InsertAttempt(s, channel)
      PROVE  \E c : CallStep(s, c)
  <2>1. PICK c : /\ Moves(s, c) /\ c # IdleSender /\ c.pc # "disable"
                 /\ s \in Fulfillments => senders[s] # IdleSender
    BY <1>3, InsertMoves
  <2>2. UNCHANGED <<busy, worker, enabled, installed, overtaken>>
    BY <1>3 DEF InsertAttempt, Device
  <2>3. attempts' \in Seq(AttemptShape)
    BY <1>3, InsertMessages
  <2>. QED BY <2>1, <2>2, <2>3 DEF CallStep
<1>4. ASSUME NEW result \in Outcomes, Send(s, result)
      PROVE  \E c : CallStep(s, c)
  <2>1. PICK c : /\ Moves(s, c) /\ c # IdleSender /\ senders[s] # IdleSender
                 /\ c.pc = "disable" => ~installed
    BY <1>4, SendMoves
  <2>2. UNCHANGED <<attempts, busy, worker, enabled, installed, overtaken>>
    BY <1>4 DEF Send, Device
  <2>. QED BY <1>0, <2>1, <2>2 DEF CallStep
<1>5. CASE DisablePushDevice(s)
  <2>1. PICK c : /\ Moves(s, c) /\ c # IdleSender /\ senders[s] # IdleSender
                 /\ c.pc # "disable"
    BY <1>5, DisableMoves
  <2>2. /\ senders[s].pc = "disable"
        /\ UNCHANGED <<attempts, busy, worker, installed, overtaken>>
    BY <1>5 DEF DisablePushDevice
  <2>. QED BY <1>0, <2>1, <2>2 DEF CallStep
<1>6. CASE Complete(s)
  <2>1. PICK c : /\ Moves(s, c) /\ senders[s] # IdleSender /\ c.pc # "disable"
                 /\ s \in Fulfillments => c # IdleSender
    BY <1>6, CompleteMoves
  <2>2. UNCHANGED <<busy, worker, enabled, installed, overtaken>>
    BY <1>6 DEF Complete, Device
  <2>3. attempts' \in Seq(AttemptShape)
    BY <1>6, CompleteMessages
  <2>. QED BY <2>1, <2>2, <2>3 DEF CallStep
<1>. QED BY <1>1, <1>2, <1>3, <1>4, <1>5, <1>6 DEF SenderStep

\* What a step of the worker does to its connection.
WorkerMoves ==
  /\ UNCHANGED <<senders, enabled, installed, overtaken>>
  /\ worker' = [pc |-> worker'.pc, batch |-> worker'.batch, result |-> worker'.result]
  /\ attempts' \in Seq(AttemptShape)
  /\ \/ worker.pc = "idle" /\ worker'.pc # "idle" /\ busy' = busy + 1
     \/ worker.pc # "idle" /\ worker'.pc = "idle" /\ busy' = busy - 1
     \/ worker.pc # "idle" /\ worker'.pc # "idle" /\ busy' = busy

LEMMA WorkerSteps ==
  ASSUME ShapeInv, WorkerStep
  PROVE  WorkerMoves
<1>0. /\ attempts \in Seq(AttemptShape)
      /\ worker = [pc |-> worker.pc, batch |-> worker.batch, result |-> worker.result]
  BY DEF ShapeInv
<1>1. CASE Query
  <2>1. PICK batch : worker' = [worker EXCEPT !.pc = "open", !.batch = batch]
    BY <1>1 DEF Query
  <2>2. worker' = [pc |-> "open", batch |-> batch, result |-> worker.result]
    BY <1>0, <2>1
  <2>3. /\ worker.pc = "idle" /\ busy' = busy + 1
        /\ UNCHANGED <<attempts, senders, enabled, installed, overtaken>>
    BY <1>1 DEF Query, Device
  <2>. QED BY <1>0, <2>2, <2>3 DEF WorkerMoves
<1>2. CASE Skip
  <2>1. worker.pc = "open" /\ worker' = [worker EXCEPT !.batch = Tail(worker.batch)]
    BY <1>2 DEF Skip
  <2>2. worker' = [pc |-> "open", batch |-> Tail(worker.batch), result |-> worker.result]
    BY <1>0, <2>1
  <2>3. UNCHANGED <<attempts, senders, busy, enabled, installed, overtaken>>
    BY <1>2 DEF Skip, Device
  <2>. QED BY <1>0, <2>1, <2>2, <2>3 DEF WorkerMoves
<1>3. ASSUME NEW result \in Outcomes, SendAgain(result)
      PROVE  WorkerMoves
  <2>1. worker.pc = "open" /\ worker' = [worker EXCEPT !.pc = "update", !.result = result]
    BY <1>3 DEF SendAgain
  <2>2. worker' = [pc |-> "update", batch |-> worker.batch, result |-> result]
    BY <1>0, <2>1
  <2>3. UNCHANGED <<attempts, senders, busy, enabled, installed, overtaken>>
    BY <1>3 DEF SendAgain, Device
  <2>. QED BY <1>0, <2>1, <2>2, <2>3 DEF WorkerMoves
<1>4. CASE Update
  <2>1. /\ worker.pc = "update"
        /\ worker' = [pc |-> "open", batch |-> Tail(worker.batch), result |-> "sent"]
        /\ UNCHANGED <<senders, busy, enabled, installed, overtaken>>
    BY <1>4 DEF Update, Device
  <2>2. attempts' \in Seq(AttemptShape)
    BY <1>4, UpdateMessages
  <2>. QED BY <2>1, <2>2 DEF WorkerMoves
<1>5. CASE Close
  <2>1. /\ worker.pc = "open" /\ worker' = IdleWorker /\ busy' = busy - 1
        /\ UNCHANGED <<attempts, senders, enabled, installed, overtaken>>
    BY <1>5 DEF Close, Device
  <2>. QED BY <1>0, <2>1 DEF WorkerMoves, IdleWorker
<1>. QED BY <1>1, <1>2, <1>3, <1>4, <1>5 DEF WorkerStep

LEMMA DueMessages ==
  ASSUME ShapeInv, NEW i \in DOMAIN attempts, BecomesDue(i)
  PROVE  attempts' \in Seq(AttemptShape)
<1>. DEFINE m == [attempts[i] EXCEPT !.due = TRUE]
<1>1. attempts' = [attempts EXCEPT ![i] = m]
  BY DEF BecomesDue
<1>2. m \in AttemptShape
  <2>1. attempts[i] \in AttemptShape
    BY DEF ShapeInv
  <2>. QED BY <2>1 DEF AttemptShape
<1>. HIDE DEF m
<1>. QED BY <1>1, <1>2, MessageChanges

-----------------------------------------------------------------------------
(* The shape holds in every state.                                         *)

LEMMA ShapeInit == Init => ShapeInv
<1>. SUFFICES ASSUME Init PROVE ShapeInv
  OBVIOUS
<1>1. senders = [s \in Senders |-> IdleSender] /\ worker = IdleWorker /\ attempts = <<>>
  BY DEF Init
<1>. QED BY <1>1, IdleShape DEF ShapeInv, IdleWorker

LEMMA ShapeStep == ShapeInv /\ [Next]_vars => ShapeInv'
<1>. SUFFICES ASSUME ShapeInv, [Next]_vars PROVE ShapeInv'
  OBVIOUS
<1>1. ASSUME NEW s \in Senders, SenderStep(s) PROVE ShapeInv'
  <2>1. PICK c : CallStep(s, c)
    BY <1>1, CallSteps
  <2>2. /\ senders' \in [Senders -> SenderShape]
        /\ senders'[s] = c
        /\ \A x \in Senders : x # s => senders'[x] = senders[x]
    BY <2>1, SendersMove DEF CallStep, Moves
  <2>3. \A x \in Senders : senders'[x].pc = "claimed" => x \in Fulfillments
    BY <2>1, <2>2 DEF CallStep, Moves, ShapeInv
  <2>. QED BY <2>1, <2>2, <2>3 DEF CallStep, ShapeInv
<1>2. CASE WorkerStep
  BY <1>2, WorkerSteps DEF WorkerMoves, ShapeInv
<1>3. ASSUME NEW i \in DOMAIN attempts, BecomesDue(i) PROVE ShapeInv'
  <2>1. UNCHANGED <<senders, worker>>
    BY <1>3 DEF BecomesDue
  <2>. QED BY <1>3, <2>1, DueMessages DEF ShapeInv
<1>4. CASE UpsertPushDevice
  BY <1>4 DEF UpsertPushDevice, ShapeInv
<1>5. CASE Uninstall
  BY <1>5 DEF Uninstall, ShapeInv
<1>6. CASE Crash
  <2>1. /\ senders' = [s \in Senders |-> IdleSender]
        /\ worker' = IdleWorker /\ attempts' = attempts
    BY <1>6 DEF Crash
  <2>. QED BY <2>1, IdleShape DEF ShapeInv, IdleWorker
<1>7. CASE UNCHANGED vars
  BY <1>7 DEF vars, ShapeInv
<1>. QED BY <1>1, <1>2, <1>3, <1>4, <1>5, <1>6, <1>7 DEF Next

-----------------------------------------------------------------------------
(* Connections.                                                            *)

LEMMA HoldersFinite == IsFiniteSet(Holders) /\ Cardinality(Holders) \in Nat
<1>1. IsFiniteSet(Fulfillments) /\ Holders \subseteq Fulfillments
  BY NotificationsAssumption DEF Holders
<1>. QED BY <1>1, FS_Subset, FS_CardinalityType

LEMMA ConnInit == Init => ConnectionsReturn
<1>. SUFFICES ASSUME Init PROVE ConnectionsReturn
  OBVIOUS
<1>1. Holders = {}
  BY DEF Init, Holders, Senders
<1>2. busy = 0 /\ worker.pc = "idle"
  BY DEF Init, IdleWorker
<1>. QED BY <1>1, <1>2, FS_EmptySet DEF ConnectionsReturn

\* How a call's step changes the calls that hold a connection.
LEMMA HoldersMove ==
  ASSUME ShapeInv, NEW s \in Senders, NEW c, Moves(s, c)
  PROVE  /\ s \in Fulfillments /\ c # IdleSender => Holders' = Holders \cup {s}
         /\ s \in Fulfillments /\ c = IdleSender => Holders' = Holders \ {s}
         /\ s \notin Fulfillments => Holders' = Holders
<1>1. /\ senders'[s] = c
      /\ \A x \in Senders : x # s => senders'[x] = senders[x]
  BY SendersMove DEF Moves
<1>. QED BY <1>1 DEF Holders, Senders

LEMMA ConnStep == ShapeInv /\ ConnectionsReturn /\ [Next]_vars => ConnectionsReturn'
<1>. SUFFICES ASSUME ShapeInv, ConnectionsReturn, [Next]_vars PROVE ConnectionsReturn'
  OBVIOUS
<1>. PICK n \in Nat : n = Cardinality(Holders)
  BY HoldersFinite
<1>. PICK w \in {0, 1} : w = IF worker.pc = "idle" THEN 0 ELSE 1
  OBVIOUS
<1>0. busy = n + w
  BY DEF ConnectionsReturn
<1>1. ASSUME NEW s \in Senders, SenderStep(s) PROVE ConnectionsReturn'
  <2>1. PICK c : CallStep(s, c)
    BY <1>1, CallSteps
  <2>2. Moves(s, c) /\ UNCHANGED worker
    BY <2>1 DEF CallStep
  <2>3. CASE /\ s \in Fulfillments /\ senders[s] = IdleSender /\ c # IdleSender
             /\ busy' = busy + 1
    <3>1. Holders' = Holders \cup {s} /\ s \notin Holders
      BY <2>2, <2>3, HoldersMove DEF Holders
    <3>2. Cardinality(Holders') = n + 1
      BY <3>1, HoldersFinite, FS_AddElement
    <3>. QED BY <1>0, <2>2, <2>3, <3>2 DEF ConnectionsReturn
  <2>4. CASE /\ s \in Fulfillments /\ senders[s] # IdleSender /\ c = IdleSender
             /\ busy' = busy - 1
    <3>1. Holders' = Holders \ {s} /\ s \in Holders
      BY <2>2, <2>4, HoldersMove DEF Holders
    <3>2. Cardinality(Holders') = n - 1
      BY <3>1, HoldersFinite, FS_RemoveElement
    <3>. QED BY <1>0, <2>2, <2>4, <3>2 DEF ConnectionsReturn
  <2>5. CASE /\ s \in Fulfillments => senders[s] # IdleSender /\ c # IdleSender
             /\ busy' = busy
    <3>1. Holders' = Holders
      <4>1. s \in Fulfillments => s \in Holders /\ c # IdleSender
        BY <2>5 DEF Holders
      <4>. QED BY <2>2, <4>1, HoldersMove
    <3>. QED BY <2>2, <2>5, <3>1 DEF ConnectionsReturn
  <2>. QED BY <2>1, <2>3, <2>4, <2>5 DEF CallStep
<1>2. CASE WorkerStep
  <2>1. WorkerMoves
    BY <1>2, WorkerSteps
  <2>2. Holders' = Holders
    BY <2>1 DEF WorkerMoves, Holders
  <2>3. busy' = n + IF worker'.pc = "idle" THEN 0 ELSE 1
    BY <1>0, <2>1 DEF WorkerMoves
  <2>. QED BY <2>2, <2>3 DEF ConnectionsReturn
<1>3. ASSUME NEW i \in DOMAIN attempts, BecomesDue(i) PROVE ConnectionsReturn'
  BY <1>3 DEF BecomesDue, ConnectionsReturn, Holders
<1>4. CASE UpsertPushDevice
  BY <1>4 DEF UpsertPushDevice, ConnectionsReturn, Holders
<1>5. CASE Uninstall
  BY <1>5 DEF Uninstall, ConnectionsReturn, Holders
<1>6. CASE Crash
  <2>1. Holders' = {} /\ worker'.pc = "idle" /\ busy' = 0
    BY <1>6 DEF Crash, Holders, Senders, IdleWorker
  <2>. QED BY <2>1, FS_EmptySet DEF ConnectionsReturn
<1>7. CASE UNCHANGED vars
  BY <1>7 DEF vars, ConnectionsReturn, Holders
<1>. QED BY <1>1, <1>2, <1>3, <1>4, <1>5, <1>6, <1>7 DEF Next

\* Every connection of the pool that is out is held by a running claim or by
\* the worker's open result set: no way out of Fulfill or of the retry worker's
\* run keeps one.
THEOREM ConnectionsComeBack == Spec => []ConnectionsReturn
<1>1. Init => ShapeInv /\ ConnectionsReturn
  BY ShapeInit, ConnInit
<1>2. ShapeInv /\ ConnectionsReturn /\ [Next]_vars => (ShapeInv /\ ConnectionsReturn)'
  BY ShapeStep, ConnStep
<1>. QED BY <1>1, <1>2, PTL DEF Spec

-----------------------------------------------------------------------------
(* The device.                                                             *)

\* A call that is about to disable the device has an answer that was true when
\* it was given: if the device is there, it registered again since.
DeviceInv ==
  /\ LiveDevicesStayEnabled
  /\ installed /\ (\E s \in Senders : senders[s].pc = "disable") => overtaken

LEMMA DeviceInit == Init => DeviceInv
<1>. SUFFICES ASSUME Init PROVE DeviceInv
  OBVIOUS
<1>1. \A s \in Senders : senders[s].pc # "disable"
  BY IdleShape DEF Init
<1>. QED BY <1>1 DEF Init, DeviceInv, LiveDevicesStayEnabled

LEMMA DeviceStep == ShapeInv /\ DeviceInv /\ [Next]_vars => DeviceInv'
<1>. SUFFICES ASSUME ShapeInv, DeviceInv, [Next]_vars PROVE DeviceInv'
  OBVIOUS
<1>. USE DEF DeviceInv, LiveDevicesStayEnabled
<1>1. ASSUME NEW s \in Senders, SenderStep(s) PROVE DeviceInv'
  <2>1. PICK c : CallStep(s, c)
    BY <1>1, CallSteps
  <2>2. /\ senders'[s] = c
        /\ \A x \in Senders : x # s => senders'[x] = senders[x]
    BY <2>1, SendersMove DEF CallStep, Moves
  <2>3. /\ c.pc = "disable" => ~installed
        /\ enabled' = enabled \/ senders[s].pc = "disable"
        /\ installed' = installed /\ overtaken' = overtaken
    BY <2>1 DEF CallStep
  <2>. QED BY <2>2, <2>3
<1>2. CASE WorkerStep
  BY <1>2, WorkerSteps DEF WorkerMoves
<1>3. ASSUME NEW i \in DOMAIN attempts, BecomesDue(i) PROVE DeviceInv'
  BY <1>3 DEF BecomesDue, Device
<1>4. CASE UpsertPushDevice
  BY <1>4 DEF UpsertPushDevice
<1>5. CASE Uninstall
  BY <1>5 DEF Uninstall
<1>6. CASE Crash
  BY <1>6, IdleShape DEF Crash, Device
<1>7. CASE UNCHANGED vars
  BY <1>7 DEF vars
<1>. QED BY <1>1, <1>2, <1>3, <1>4, <1>5, <1>6, <1>7 DEF Next

\* DisablePushDevice never hits a device that the push service knows, except
\* one that registered again between the answer and the UPDATE.
THEOREM DisabledDevicesAreGone == Spec => []LiveDevicesStayEnabled
<1>1. Init => ShapeInv /\ DeviceInv
  BY ShapeInit, DeviceInit
<1>2. ShapeInv /\ DeviceInv /\ [Next]_vars => (ShapeInv /\ DeviceInv)'
  BY ShapeStep, DeviceStep
<1>3. DeviceInv => LiveDevicesStayEnabled
  BY DEF DeviceInv
<1>. QED BY <1>1, <1>2, <1>3, PTL DEF Spec

-----------------------------------------------------------------------------
(* The ranks of finite sets of numbers.                                    *)

\* A number of each rank from 1 to the size of the set.
LEMMA Ranks ==
  ASSUME NEW S, S \subseteq Nat, IsFiniteSet(S), NEW n \in 1..Cardinality(S)
  PROVE  \E i \in S : Cardinality({j \in S : j <= i}) = n
<1>. DEFINE Below(i) == {j \in S : j <= i}
            f == [i \in S |-> Cardinality(Below(i))]
            N == Cardinality(S)
<1>1. N \in Nat
  BY FS_CardinalityType
<1>2. ASSUME NEW i \in S PROVE IsFiniteSet(Below(i)) /\ Cardinality(Below(i)) \in 1..N
  <2>1. IsFiniteSet(Below(i)) /\ Cardinality(Below(i)) <= N
    BY FS_Subset
  <2>2. Cardinality(Below(i)) \in Nat /\ i \in Below(i)
    BY <2>1, FS_CardinalityType
  <2>3. Cardinality(Below(i)) # 0
    BY <2>1, <2>2, FS_EmptySet
  <2>. QED BY <1>1, <2>1, <2>2, <2>3
<1>3. ASSUME NEW i \in S, NEW k \in S, i < k PROVE Cardinality(Below(i)) # Cardinality(Below(k))
  <2>0. i \in Nat /\ k \in Nat /\ \A j \in S : j \in Nat
    OBVIOUS
  <2>1. k \in Below(k) /\ k \notin Below(i)
    BY <1>3, <2>0
  <2>2. Below(i) \subseteq Below(k)
    <3>. SUFFICES ASSUME NEW j \in S, j <= i PROVE j <= k
      OBVIOUS
    <3>. QED BY <1>3, <2>0
  <2>. HIDE DEF Below
  <2>. QED BY <1>2, <2>1, <2>2, FS_Subset
<1>4. f \in [S -> 1..N] /\ \A i \in S : f[i] = Cardinality(Below(i))
  BY <1>2
<1>5. IsFiniteSet(1..N) /\ Cardinality(1..N) = N
  BY <1>1, FS_Interval
<1>. HIDE DEF f, Below, N
<1>6. \A i, k \in S : f[i] = f[k] => i = k
  <2>. SUFFICES ASSUME NEW i \in S, NEW k \in S, f[i] = f[k], i # k PROVE FALSE
    OBVIOUS
  <2>1. i < k \/ k < i
    OBVIOUS
  <2>. QED BY <1>3, <1>4, <2>1
<1>7. f \in Injection(S, 1..N)
  BY <1>4, <1>6 DEF Injection, IsInjective
<1>8. f \in Surjection(S, 1..N)
  BY <1>5, <1>7, FS_Injection DEF N
<1>9. PICK i \in S : f[i] = n
  BY <1>8 DEF Surjection, N
<1>. QED BY <1>4, <1>9 DEF Below

\* No more numbers than the highest rank that is let in.
LEMMA OldestFit ==
  ASSUME NEW S, S \subseteq Nat, IsFiniteSet(S), NEW n \in Nat
  PROVE  Cardinality({i \in S : Cardinality({j \in S : j <= i}) <= n}) <= n
<1>. DEFINE T == {i \in S : Cardinality({j \in S : j <= i}) <= n}
<1>1. T \subseteq S /\ T \subseteq Nat /\ IsFiniteSet(T)
  BY FS_Subset
<1>2. Cardinality(T) \in Nat
  BY <1>1, FS_CardinalityType
<1>3. CASE Cardinality(T) = 0
  BY <1>3
<1>4. CASE Cardinality(T) # 0
  <2>1. Cardinality(T) \in 1..Cardinality(T)
    BY <1>2, <1>4
  <2>. PICK i \in T : Cardinality({j \in T : j <= i}) = Cardinality(T)
    BY <1>1, <2>1, Ranks
  <2>. PICK A, B : A = {j \in T : j <= i} /\ B = {j \in S : j <= i}
    OBVIOUS
  <2>2. A \subseteq B /\ B \subseteq S /\ Cardinality(B) <= n
    BY <1>1
  <2>3. IsFiniteSet(B)
    BY <2>2, FS_Subset
  <2>4. Cardinality(A) <= Cardinality(B) /\ Cardinality(B) \in Nat
    BY <2>2, <2>3, FS_Subset, FS_CardinalityType
  <2>. QED BY <1>2, <2>2, <2>4
<1>. QED BY <1>3, <1>4

-----------------------------------------------------------------------------
(* Deliveries.                                                             *)

Rows == DOMAIN attempts
Working(c) == c.pc \in {"inserted", "disable", "complete"}

\* A call that has written a row works on that row alone, which stays pending
\* until the call records the outcome.
CallsInv ==
  /\ \A s \in Senders : Working(senders[s]) =>
        /\ senders[s].row \in Rows /\ attempts[senders[s].row].status = "pending"
        /\ senders[s].pc = "inserted" => sends[senders[s].row] = 0
  /\ \A s, x \in Senders :
        Working(senders[s]) /\ Working(senders[x]) /\ senders[s].row = senders[x].row
            => s = x

\* The worker's batch holds failed rows, each of them once.
BatchOf(b) ==
  /\ b \in Seq(Nat)
  /\ \A k \in DOMAIN b : b[k] \in Rows /\ attempts[b[k]].status = "failed"
  /\ \A k, l \in DOMAIN b : b[k] = b[l] => k = l
BatchInv == BatchOf(worker.batch) /\ (worker.pc = "update" => worker.batch # <<>>)

\* The send that the worker has not recorded yet.
Again(i) == IF worker.pc = "update" /\ Head(worker.batch) = i THEN 1 ELSE 0
CountInv ==
  /\ sends \in [1..MaxRows -> Nat] /\ Len(attempts) <= MaxRows /\ failures \in Nat
  /\ \A i \in 1..MaxRows : i \notin Rows => sends[i] = 0
  /\ \A i \in Rows : sends[i] <= 1 + attempts[i].retries + failures + Again(i)

DeliveryInv == ShapeInv /\ CallsInv /\ BatchInv /\ CountInv

LEMMA RowFacts ==
  ASSUME ShapeInv
  PROVE  /\ Rows = 1..Len(attempts) /\ Len(attempts) \in Nat
         /\ \A i \in Rows : attempts[i] \in AttemptShape /\ attempts[i].retries \in Nat
<1>1. attempts \in Seq(AttemptShape)
  BY DEF ShapeInv
<1>2. /\ Rows = 1..Len(attempts) /\ Len(attempts) \in Nat
      /\ \A i \in Rows : attempts[i] \in AttemptShape
  BY <1>1 DEF Rows
<1>3. \A m \in AttemptShape : m.retries \in Nat
  BY DEF AttemptShape
<1>. QED BY <1>2, <1>3

LEMMA AgainType == \A i : Again(i) \in 0..1
BY DEF Again

\* The rows keep what counts.
RowsSame ==
  /\ DOMAIN attempts' = DOMAIN attempts
  /\ \A i \in Rows : /\ attempts'[i].status = attempts[i].status
                     /\ attempts'[i].retries = attempts[i].retries

\* No call begins to work, or has another row.
CallsQuiet ==
  \A s \in Senders : Working(senders'[s]) =>
      /\ Working(senders[s]) /\ senders'[s].row = senders[s].row
      /\ senders'[s].pc = "inserted" => senders[s].pc = "inserted"

LEMMA QuietCalls ==
  ASSUME CallsInv, CallsQuiet, RowsSame, UNCHANGED sends
  PROVE  CallsInv'
BY DEF CallsInv, CallsQuiet, RowsSame, Rows

LEMMA BatchKept ==
  ASSUME BatchInv, UNCHANGED worker, \A i \in Rows : i \in Rows' /\
             (attempts[i].status = "failed" => attempts'[i].status = "failed")
  PROVE  BatchInv'
BY DEF BatchInv, BatchOf

\* What a step adds to the counts: nothing.
LEMMA RowBound ==
  ASSUME ShapeInv, CountInv, NEW i \in Rows
  PROVE  i \in 1..MaxRows /\ sends[i] \in Nat /\ attempts[i].retries \in Nat
<1>1. i \in 1..MaxRows
  BY RowFacts, NotificationsAssumption DEF CountInv
<1>. QED BY <1>1, RowFacts DEF CountInv

\* The count of one row stays right when neither its sends nor its retries move.
LEMMA CountKept ==
  ASSUME ShapeInv, CountInv, NEW i \in Rows, failures' \in Nat,
         sends'[i] = sends[i], attempts'[i].retries = attempts[i].retries,
         failures + Again(i) <= failures' + Again(i)'
  PROVE  sends'[i] <= 1 + attempts'[i].retries + failures' + Again(i)'
<1>. PICK a \in 0..1, b \in 0..1 : a = Again(i) /\ b = Again(i)'
  BY DEF Again
<1>. PICK r \in Nat, n \in Nat : r = attempts[i].retries /\ n = sends[i]
  BY RowBound
<1>1. failures \in Nat /\ n <= 1 + r + failures + a
  BY DEF CountInv
<1>2. n <= 1 + r + failures' + b
  BY <1>1
<1>. QED BY <1>2

\* A step that sends nothing.
LEMMA CountStill ==
  ASSUME ShapeInv, CountInv, DOMAIN attempts' = DOMAIN attempts,
         Len(attempts') = Len(attempts), UNCHANGED sends, failures' \in Nat,
         \A i \in Rows : attempts'[i].retries = attempts[i].retries,
         \A i \in Rows : failures + Again(i) <= failures' + Again(i)'
  PROVE  CountInv'
<1>1. \A i \in Rows : sends'[i] <= 1 + attempts'[i].retries + failures' + Again(i)'
  BY CountKept
<1>. QED BY <1>1 DEF CountInv, Rows

LEMMA SameLength ==
  ASSUME ShapeInv, ShapeInv', DOMAIN attempts' = DOMAIN attempts
  PROVE  Len(attempts') = Len(attempts)
BY DEF ShapeInv

\* A step that touches neither rows nor sends nor the worker.
LEMMA StillStep ==
  ASSUME DeliveryInv, ShapeInv', RowsSame, CallsQuiet, UNCHANGED <<sends, worker>>,
         failures' \in Nat, failures <= failures'
  PROVE  DeliveryInv'
<1>1. CallsInv'
  BY QuietCalls DEF DeliveryInv
<1>2. BatchInv'
  BY BatchKept DEF DeliveryInv, RowsSame, Rows
<1>3. \A i \in Rows : failures + Again(i) <= failures' + Again(i)'
  <2>. SUFFICES ASSUME NEW i \in Rows
                PROVE  failures + Again(i) <= failures' + Again(i)'
    OBVIOUS
  <2>. PICK a \in 0..1 : a = Again(i)
    BY AgainType
  <2>1. Again(i)' = a
    BY DEF Again
  <2>2. failures \in Nat
    BY DEF DeliveryInv, CountInv
  <2>. QED BY <2>1, <2>2
<1>4. CountInv'
  BY <1>3, CountStill, SameLength DEF DeliveryInv, RowsSame
<1>. QED BY <1>1, <1>2, <1>4 DEF DeliveryInv

LEMMA FailsUp ==
  ASSUME CountInv, Fails \/ UNCHANGED failures
  PROVE  failures' \in Nat /\ failures <= failures'
BY DEF CountInv, Fails

\* Call s becomes c and works on no other row.
LEMMA QuietCall ==
  ASSUME ShapeInv, NEW s \in Senders, NEW c, senders' = [senders EXCEPT ![s] = c],
         Working(c) => /\ Working(senders[s]) /\ c.row = senders[s].row
                       /\ c.pc = "inserted" => senders[s].pc = "inserted"
  PROVE  CallsQuiet
BY DEF ShapeInv, CallsQuiet

LEMMA Unmoved == UNCHANGED attempts => RowsSame
BY DEF RowsSame

LEMMA ClaimDelivers ==
  ASSUME DeliveryInv, ShapeInv', NEW s \in Senders, Claim(s) \/ Release(s)
  PROVE  DeliveryInv'
<1>. PICK c : senders' = [senders EXCEPT ![s] = c] /\ c.pc \in {"claimed", "idle"}
  <2>1. CASE Claim(s)
    <3>. DEFINE c == [senders[s] EXCEPT !.pc = "claimed"]
    <3>1. c.pc = "claimed" /\ senders' = [senders EXCEPT ![s] = c]
      BY <2>1 DEF Claim, DeliveryInv, ShapeInv, SenderShape
    <3>. QED BY <3>1
  <2>2. CASE Release(s)
    BY <2>2, IdleShape DEF Release
  <2>. QED BY <2>1, <2>2
<1>1. UNCHANGED <<attempts, sends, worker, failures>>
  BY DEF Claim, Release
<1>2. CallsQuiet
  BY QuietCall DEF DeliveryInv, Working
<1>. QED BY <1>1, <1>2, Unmoved, StillStep, FailsUp DEF DeliveryInv

LEMMA DisableDelivers ==
  ASSUME DeliveryInv, ShapeInv', NEW s \in Senders, DisablePushDevice(s)
  PROVE  DeliveryInv'
<1>. DEFINE c == [senders[s] EXCEPT !.pc = "complete"]
<1>1. senders' = [senders EXCEPT ![s] = c] /\ Working(senders[s])
      /\ UNCHANGED <<attempts, sends, worker>> /\ (Fails \/ UNCHANGED failures)
  BY DEF DisablePushDevice, Working
<1>2. c.pc = "complete" /\ c.row = senders[s].row
  BY DEF DeliveryInv, ShapeInv, SenderShape
<1>. HIDE DEF c
<1>3. CallsQuiet
  BY <1>1, <1>2, QuietCall DEF DeliveryInv
<1>. QED BY <1>1, <1>3, Unmoved, StillStep, FailsUp DEF DeliveryInv

LEMMA InsertDelivers ==
  ASSUME DeliveryInv, ShapeInv', NEW s \in Senders, NEW channel \in {"sms", "push"},
         InsertAttempt(s, channel)
  PROVE  DeliveryInv'
<1>. PICK n \in Nat : n = Len(attempts) + 1
  BY DEF DeliveryInv, ShapeInv
<1>0. Rows = 1..(n - 1) /\ n \in 1..MaxRows
  BY RowFacts, NotificationsAssumption DEF DeliveryInv, InsertAttempt
<1>. DEFINE m == [channel |-> channel, linked |-> s \in Fulfillments, status |-> "pending",
                  retries |-> 0, due |-> TRUE]
            c == [pc |-> "inserted", row |-> n, result |-> "sent"]
<1>1. /\ attempts' = Append(attempts, m) /\ senders' = [senders EXCEPT ![s] = c]
      /\ UNCHANGED <<sends, worker, failures>>
  BY DEF InsertAttempt, Device
<1>2. m.status = "pending" /\ m.retries = 0 /\ c.pc = "inserted" /\ c.row = n
  OBVIOUS
<1>. HIDE DEF m, c
<1>3. /\ Rows' = 1..n /\ Len(attempts') = n /\ attempts'[n] = m
      /\ \A i \in Rows : attempts'[i] = attempts[i]
  BY <1>0, <1>1 DEF DeliveryInv, ShapeInv, Rows
<1>4. senders'[s] = c /\ \A x \in Senders : x # s => senders'[x] = senders[x]
  BY <1>1 DEF DeliveryInv, ShapeInv
<1>5. n \notin Rows /\ \A i \in Rows : i \in Rows'
  BY <1>0, <1>3
<1>6. sends'[n] = 0
  BY <1>0, <1>1, <1>5 DEF DeliveryInv, CountInv
<1>7. CallsInv'
  <2>1. \A x \in Senders : x # s /\ Working(senders'[x]) =>
            /\ senders'[x].row \in Rows' /\ attempts'[senders'[x].row].status = "pending"
            /\ senders'[x].pc = "inserted" => sends'[senders'[x].row] = 0
            /\ senders'[x].row # n
    BY <1>1, <1>3, <1>4, <1>5 DEF DeliveryInv, CallsInv
  <2>2. n \in Rows'
    BY <1>3
  <2>. QED BY <1>2, <1>3, <1>4, <1>6, <2>1, <2>2 DEF DeliveryInv, CallsInv
<1>8. BatchInv'
  BY <1>1, <1>3, <1>5, BatchKept DEF DeliveryInv
<1>9. CountInv'
  <2>0. failures' \in Nat /\ UNCHANGED failures
    BY <1>1 DEF DeliveryInv, CountInv
  <2>1. ASSUME NEW i \in Rows
        PROVE  sends'[i] <= 1 + attempts'[i].retries + failures' + Again(i)'
    <3>. PICK a \in 0..1 : a = Again(i)
      BY AgainType
    <3>1. Again(i)' = a
      BY <1>1 DEF Again
    <3>2. failures + Again(i) <= failures' + Again(i)'
      BY <2>0, <3>1
    <3>. QED BY <1>1, <1>3, <2>0, <2>1, <3>2, CountKept DEF DeliveryInv
  <2>2. sends'[n] <= 1 + attempts'[n].retries + failures' + Again(n)'
    <3>. PICK a \in 0..1 : a = Again(n)'
      BY DEF Again
    <3>. QED BY <1>2, <1>3, <1>6, <2>0
  <2>3. \A i \in Rows' : i \in Rows \/ i = n
    BY <1>0, <1>3
  <2>. QED BY <1>0, <1>1, <1>3, <2>0, <2>1, <2>2, <2>3 DEF DeliveryInv, CountInv
<1>. QED BY <1>7, <1>8, <1>9 DEF DeliveryInv

LEMMA AnswersUp ==
  ASSUME CountInv, NEW i, NEW result, Answers(i, result)
  PROVE  failures' \in Nat /\ failures <= failures'
BY FailsUp DEF Answers

LEMMA SendDelivers ==
  ASSUME DeliveryInv, ShapeInv', NEW s \in Senders, NEW result \in Outcomes, Send(s, result)
  PROVE  /\ DeliveryInv' /\ senders[s].row \in Rows
         /\ attempts[senders[s].row].status = "pending"
         /\ \A j \in 1..MaxRows : j # senders[s].row => sends'[j] = sends[j]
<1>. PICK i, p : i = senders[s].row /\ p = IF result = "unregistered" THEN "disable" ELSE "complete"
  OBVIOUS
<1>. DEFINE c == [senders[s] EXCEPT !.result = result, !.pc = p]
<1>1. /\ senders[s].pc = "inserted" /\ sends' = [sends EXCEPT ![i] = sends[i] + 1]
      /\ senders' = [senders EXCEPT ![s] = c] /\ UNCHANGED <<attempts, worker>>
  BY DEF Send
<1>2. c.pc = p /\ c.row = i /\ p \in {"disable", "complete"}
  BY DEF DeliveryInv, ShapeInv, SenderShape
<1>. HIDE DEF c
<1>3. senders'[s] = c /\ \A x \in Senders : x # s => senders'[x] = senders[x]
  BY <1>1 DEF DeliveryInv, ShapeInv
<1>4. Working(senders[s]) /\ i \in Rows /\ attempts[i].status = "pending" /\ sends[i] = 0
  BY <1>1 DEF DeliveryInv, CallsInv, Working
<1>5. failures' \in Nat /\ failures <= failures'
  BY AnswersUp DEF Send, DeliveryInv
<1>6. i \in 1..MaxRows
  BY <1>4, RowBound DEF DeliveryInv
<1>7. /\ sends' \in [1..MaxRows -> Nat] /\ sends'[i] = 1
      /\ \A j \in 1..MaxRows : j # i => sends'[j] = sends[j]
  BY <1>1, <1>4, <1>6 DEF DeliveryInv, CountInv
<1>8. CallsInv'
  <2>1. ASSUME NEW x \in Senders, x # s, Working(senders'[x])
        PROVE  /\ senders'[x].row \in Rows' /\ attempts'[senders'[x].row].status = "pending"
               /\ senders'[x].pc = "inserted" => sends'[senders'[x].row] = 0
               /\ senders'[x].row # i
    <3>. PICK y : y = senders[x]
      OBVIOUS
    <3>1. senders'[x] = y /\ Working(y) /\ y.row \in Rows /\ y.row # i
          /\ attempts[y.row].status = "pending" /\ (y.pc = "inserted" => sends[y.row] = 0)
      BY <1>3, <1>4, <2>1 DEF DeliveryInv, CallsInv
    <3>2. y.row \in 1..MaxRows
      BY <3>1, RowBound DEF DeliveryInv
    <3>. QED BY <1>1, <1>7, <3>1, <3>2 DEF Rows
  <2>2. i \in Rows' /\ attempts'[i].status = "pending" /\ c.pc # "inserted"
    BY <1>1, <1>2, <1>4 DEF Rows
  <2>. QED BY <1>2, <1>3, <2>1, <2>2 DEF DeliveryInv, CallsInv
<1>9. BatchInv'
  BY <1>1, BatchKept DEF DeliveryInv, Rows
<1>10. CountInv'
  <2>1. ASSUME NEW j \in Rows, j # i
        PROVE  sends'[j] <= 1 + attempts'[j].retries + failures' + Again(j)'
    <3>. PICK a \in 0..1 : a = Again(j)
      BY AgainType
    <3>1. Again(j)' = a /\ failures \in Nat
      BY <1>1 DEF Again, DeliveryInv, CountInv
    <3>2. failures + Again(j) <= failures' + Again(j)'
      BY <1>5, <3>1
    <3>3. j \in 1..MaxRows
      BY <2>1, RowBound DEF DeliveryInv
    <3>. QED BY <1>1, <1>5, <1>7, <2>1, <3>2, <3>3, CountKept DEF DeliveryInv
  <2>2. sends'[i] <= 1 + attempts'[i].retries + failures' + Again(i)'
    <3>. PICK a \in 0..1 : a = Again(i)'
      BY DEF Again
    <3>. PICK r \in Nat : r = attempts'[i].retries
      BY <1>1, <1>4, RowBound DEF DeliveryInv
    <3>. QED BY <1>5, <1>7
  <2>3. \A j \in 1..MaxRows : j \notin Rows' => sends'[j] = 0
    BY <1>1, <1>4, <1>7 DEF DeliveryInv, CountInv, Rows
  <2>. QED BY <1>1, <1>5, <1>7, <2>1, <2>2, <2>3 DEF DeliveryInv, CountInv, Rows
<1>. QED BY <1>4, <1>7, <1>8, <1>9, <1>10 DEF DeliveryInv

\* One row changes its status.
LEMMA RowChange ==
  ASSUME ShapeInv, NEW i \in Rows, NEW m, attempts' = [attempts EXCEPT ![i] = m]
  PROVE  /\ DOMAIN attempts' = DOMAIN attempts /\ Rows' = Rows /\ attempts'[i] = m
         /\ \A j \in Rows : j # i => attempts'[j] = attempts[j]
BY RowFacts DEF Rows, ShapeInv

LEMMA CompleteDelivers ==
  ASSUME DeliveryInv, ShapeInv', NEW s \in Senders, Complete(s)
  PROVE  DeliveryInv'
<1>. PICK i, status, c : /\ i = senders[s].row /\ status = StatusOfSend(senders[s].result)
                        /\ c = IF s \in Fulfillments THEN [IdleSender EXCEPT !.pc = "claimed"]
                                                     ELSE IdleSender
  OBVIOUS
<1>. DEFINE m == [attempts[i] EXCEPT !.status = status]
<1>1. /\ senders[s].pc = "complete" /\ senders' = [senders EXCEPT ![s] = c]
      /\ \/ attempts' = [attempts EXCEPT ![i] = m] /\ UNCHANGED failures
         \/ Fails /\ UNCHANGED attempts
      /\ UNCHANGED <<sends, worker>>
  BY DEF Complete
<1>2. c.pc \in {"claimed", "idle"}
  BY DEF IdleSender
<1>3. Working(senders[s]) /\ i \in Rows /\ attempts[i].status = "pending"
  BY <1>1 DEF DeliveryInv, CallsInv, Working
<1>4. attempts[i] \in AttemptShape
  BY <1>3, RowFacts DEF DeliveryInv
<1>5. m.retries = attempts[i].retries
  BY <1>4 DEF AttemptShape
<1>. HIDE DEF m
<1>6. failures' \in Nat /\ failures <= failures'
  BY <1>1, FailsUp DEF DeliveryInv
<1>7. CASE UNCHANGED attempts
  <2>1. CallsQuiet
    BY <1>1, <1>2, QuietCall DEF DeliveryInv, Working
  <2>. QED BY <1>1, <1>6, <1>7, <2>1, Unmoved, StillStep
<1>8. CASE attempts' = [attempts EXCEPT ![i] = m] /\ UNCHANGED failures
  <2>1. /\ DOMAIN attempts' = DOMAIN attempts /\ Rows' = Rows /\ attempts'[i] = m
        /\ \A j \in Rows : j # i => attempts'[j] = attempts[j]
    BY <1>3, <1>8, RowChange DEF DeliveryInv
  <2>2. senders'[s] = c /\ \A x \in Senders : x # s => senders'[x] = senders[x]
    BY <1>1 DEF DeliveryInv, ShapeInv
  <2>3. CallsInv'
    <3>1. ASSUME NEW x \in Senders, Working(senders'[x])
          PROVE  /\ x # s /\ senders'[x] = senders[x] /\ senders[x].row # i
                 /\ attempts'[senders[x].row].status = "pending"
      <4>1. x # s /\ senders'[x] = senders[x]
        BY <1>2, <2>2, <3>1 DEF Working
      <4>2. senders[x].row \in Rows /\ attempts[senders[x].row].status = "pending"
            /\ senders[x].row # i
        BY <1>3, <3>1, <4>1 DEF DeliveryInv, CallsInv
      <4>. QED BY <2>1, <4>1, <4>2
    <3>. QED BY <1>1, <2>1, <3>1 DEF DeliveryInv, CallsInv
  <2>4. BatchInv'
    BY <1>1, <1>3, <2>1, BatchKept DEF DeliveryInv
  <2>5. \A j \in Rows : attempts'[j].retries = attempts[j].retries
    BY <1>5, <2>1
  <2>6. ASSUME NEW j \in Rows PROVE failures + Again(j) <= failures' + Again(j)'
    <3>. PICK a \in 0..1 : a = Again(j)
      BY AgainType
    <3>1. Again(j)' = a /\ failures \in Nat
      BY <1>1 DEF Again, DeliveryInv, CountInv
    <3>. QED BY <1>6, <3>1
  <2>7. CountInv'
    BY <1>1, <1>6, <2>1, <2>5, <2>6, SameLength, CountStill DEF DeliveryInv
  <2>. QED BY <2>3, <2>4, <2>7 DEF DeliveryInv
<1>. QED BY <1>1, <1>7, <1>8

-----------------------------------------------------------------------------
(* The worker's batch.                                                     *)

LEMMA TailOf ==
  ASSUME NEW b \in Seq(Nat), b # <<>>
  PROVE  /\ Head(b) = b[1] /\ 1 \in DOMAIN b /\ Tail(b) \in Seq(Nat)
         /\ \A k \in DOMAIN Tail(b) : /\ k + 1 \in DOMAIN b /\ k + 1 # 1
                                      /\ Tail(b)[k] = b[k + 1]
OBVIOUS

LEMMA BatchHead ==
  ASSUME BatchInv, worker.batch # <<>>
  PROVE  Head(worker.batch) \in Rows /\ attempts[Head(worker.batch)].status = "failed"
BY TailOf DEF BatchInv, BatchOf

\* The rest of the batch is a batch, even if the row at its head changes.
LEMMA BatchTail ==
  ASSUME BatchInv, worker.batch # <<>>, worker'.batch = Tail(worker.batch),
         worker'.pc # "update",
         \A i \in Rows : i \in Rows' /\
             (i # Head(worker.batch) => attempts'[i].status = attempts[i].status)
  PROVE  BatchInv'
<1>. PICK b, t : b = worker.batch /\ t = Tail(b)
  OBVIOUS
<1>1. /\ b \in Seq(Nat) /\ \A k \in DOMAIN b : b[k] \in Rows /\ attempts[b[k]].status = "failed"
      /\ \A k, l \in DOMAIN b : b[k] = b[l] => k = l
  BY DEF BatchInv, BatchOf
<1>2. /\ Head(b) = b[1] /\ 1 \in DOMAIN b /\ t \in Seq(Nat)
      /\ \A k \in DOMAIN t : k + 1 \in DOMAIN b /\ k + 1 # 1 /\ t[k] = b[k + 1]
  BY <1>1, TailOf
<1>3. \A k \in DOMAIN t : t[k] \in Rows' /\ attempts'[t[k]].status = "failed"
  <2>. SUFFICES ASSUME NEW k \in DOMAIN t
                PROVE  t[k] \in Rows' /\ attempts'[t[k]].status = "failed"
    OBVIOUS
  <2>. PICK i : i = t[k]
    OBVIOUS
  <2>1. i = b[k + 1] /\ k + 1 \in DOMAIN b /\ k + 1 # 1
    BY <1>2
  <2>2. i \in Rows /\ attempts[i].status = "failed" /\ i # Head(b)
    BY <1>1, <1>2, <2>1
  <2>. QED BY <2>2
<1>4. \A k, l \in DOMAIN t : t[k] = t[l] => k = l
  <2>. SUFFICES ASSUME NEW k \in DOMAIN t, NEW l \in DOMAIN t, t[k] = t[l] PROVE k = l
    OBVIOUS
  <2>1. k + 1 = l + 1
    BY <1>1, <1>2
  <2>2. k \in Nat /\ l \in Nat
    BY <1>2
  <2>. QED BY <2>1, <2>2
<1>5. worker'.batch = t
  OBVIOUS
<1>. QED BY <1>2, <1>3, <1>4, <1>5 DEF BatchInv, BatchOf

LEMMA SameBounds ==
  ASSUME NEW m \in Nat, NEW n \in Nat, 1..m = 1..n
  PROVE  m = n
<1>1. m > n => m \in 1..m /\ m \notin 1..n
  OBVIOUS
<1>2. n > m => n \in 1..n /\ n \notin 1..m
  OBVIOUS
<1>. QED BY <1>1, <1>2

LEMMA QueryBatch ==
  ASSUME DeliveryInv, Query
  PROVE  /\ BatchInv' /\ Len(worker'.batch) <= BatchSize
         /\ \A k \in DOMAIN worker'.batch : Due(worker'.batch[k])
<1>. DEFINE due == {i \in DOMAIN attempts : Due(i)}
            oldest == {i \in due : Cardinality({j \in due : j <= i}) <= BatchSize}
            rank(n) == CHOOSE i \in oldest : Cardinality({j \in oldest : j <= i}) = n
            batch == [n \in 1..Cardinality(oldest) |-> rank(n)]
<1>1. worker' = [worker EXCEPT !.pc = "open", !.batch = batch] /\ UNCHANGED attempts
  BY DEF Query
<1>2. worker'.pc = "open" /\ worker'.batch = batch
  <2>. PICK b : b = batch
    OBVIOUS
  <2>1. worker' = [worker EXCEPT !.pc = "open", !.batch = b]
    BY <1>1
  <2>. QED BY <2>1 DEF DeliveryInv, ShapeInv
<1>3. due \subseteq Rows /\ oldest \subseteq Nat /\ IsFiniteSet(oldest)
      /\ Cardinality(oldest) <= BatchSize
      /\ \A i \in oldest : i \in Rows /\ attempts[i].status = "failed" /\ Due(i)
  <2>1. Rows = 1..Len(attempts) /\ Len(attempts) \in Nat
    BY RowFacts DEF DeliveryInv
  <2>2. IsFiniteSet(Rows)
    BY <2>1, FS_Interval
  <2>3. oldest \subseteq Rows
    BY DEF Rows
  <2>4. IsFiniteSet(oldest)
    BY <2>2, <2>3, FS_Subset
  <2>5. \A i \in oldest : attempts[i].status = "failed" /\ Due(i)
    BY DEF Due
  <2>6. due \subseteq Nat /\ IsFiniteSet(due)
    BY <2>1, <2>2, FS_Subset DEF Rows
  <2>7. Cardinality(oldest) <= BatchSize
    <3>1. BatchSize \in Nat
      BY NotificationsAssumption
    <3>. HIDE DEF due
    <3>. QED BY <2>6, <3>1, OldestFit
  <2>8. due \subseteq Rows
    BY DEF Rows
  <2>. HIDE DEF due, oldest
  <2>. QED BY <2>1, <2>3, <2>4, <2>5, <2>7, <2>8
<1>. HIDE DEF due, oldest
<1>4. Cardinality(oldest) \in Nat
  BY <1>3, FS_CardinalityType
<1>5. ASSUME NEW n \in 1..Cardinality(oldest)
      PROVE  rank(n) \in oldest /\ Cardinality({j \in oldest : j <= rank(n)}) = n
  <2>1. \E i \in oldest : Cardinality({j \in oldest : j <= i}) = n
    BY <1>3, Ranks
  <2>. QED BY <2>1
<1>. HIDE DEF rank
<1>6. batch \in Seq(Nat) /\ DOMAIN batch = 1..Cardinality(oldest)
  <2>1. \A n \in 1..Cardinality(oldest) : rank(n) \in Nat
    BY <1>3, <1>5
  <2>. QED BY <1>4, <2>1
<1>7. \A n \in DOMAIN batch : /\ batch[n] \in Rows /\ attempts[batch[n]].status = "failed"
                              /\ Due(batch[n])
  BY <1>3, <1>5
<1>8. \A k, l \in DOMAIN batch : batch[k] = batch[l] => k = l
  <2>. SUFFICES ASSUME NEW k \in 1..Cardinality(oldest), NEW l \in 1..Cardinality(oldest),
                       batch[k] = batch[l]
                PROVE  k = l
    BY <1>6
  <2>. PICK i, j : i = rank(k) /\ j = rank(l)
    OBVIOUS
  <2>1. i = j
    OBVIOUS
  <2>2. Cardinality({x \in oldest : x <= i}) = k /\ Cardinality({x \in oldest : x <= j}) = l
    BY <1>5
  <2>. QED BY <2>1, <2>2
<1>. HIDE DEF batch
<1>9. Len(batch) <= BatchSize
  <2>1. Len(batch) \in Nat /\ 1..Len(batch) = 1..Cardinality(oldest)
    BY <1>6
  <2>2. Len(batch) = Cardinality(oldest)
    BY <1>4, <2>1, SameBounds
  <2>3. Cardinality(oldest) <= BatchSize
    BY <1>3
  <2>. QED BY <2>2, <2>3
<1>10. BatchInv'
  BY <1>1, <1>2, <1>6, <1>7, <1>8 DEF BatchInv, BatchOf, Rows
<1>. QED BY <1>2, <1>7, <1>9, <1>10

\* A step of the worker that sends nothing and updates no row.
LEMMA WorkerStill ==
  ASSUME DeliveryInv, ShapeInv', BatchInv', UNCHANGED <<attempts, sends, senders>>,
         failures' \in Nat, \A i \in Rows : failures + Again(i) <= failures' + Again(i)'
  PROVE  DeliveryInv'
<1>1. CallsInv'
  BY DEF DeliveryInv, CallsInv, Rows
<1>2. CountInv'
  BY CountStill DEF DeliveryInv
<1>. QED BY <1>1, <1>2 DEF DeliveryInv

LEMMA NoneAgain ==
  ASSUME CountInv, worker.pc # "update", worker'.pc # "update", failures' \in Nat,
         failures <= failures'
  PROVE  \A i \in Rows : failures + Again(i) <= failures' + Again(i)'
<1>1. \A i : Again(i) = 0 /\ Again(i)' = 0
  BY DEF Again
<1>2. failures \in Nat
  BY DEF CountInv
<1>. QED BY <1>1, <1>2

LEMMA WorkerShape ==
  ASSUME ShapeInv
  PROVE  /\ \A p : [worker EXCEPT !.pc = p].pc = p /\ [worker EXCEPT !.pc = p].batch = worker.batch
         /\ \A b : [worker EXCEPT !.batch = b].batch = b /\ [worker EXCEPT !.batch = b].pc = worker.pc
         /\ \A p, r : /\ [worker EXCEPT !.pc = p, !.result = r].pc = p
                     /\ [worker EXCEPT !.pc = p, !.result = r].batch = worker.batch
BY DEF ShapeInv

LEMMA QuerySkipCloseDeliver ==
  ASSUME DeliveryInv, ShapeInv', Query \/ Skip \/ Close
  PROVE  DeliveryInv'
<1>1. /\ UNCHANGED <<attempts, sends, senders, failures>>
      /\ failures' \in Nat /\ failures <= failures'
  BY DEF Query, Skip, Close, DeliveryInv, CountInv
<1>2. worker.pc # "update" /\ worker'.pc # "update" /\ BatchInv'
  <2>1. CASE Query
    <3>1. worker.pc = "idle" /\ worker'.pc = "open"
      BY <2>1 DEF Query, DeliveryInv, ShapeInv
    <3>. QED BY <2>1, <3>1, QueryBatch
  <2>2. CASE Skip
    <3>1. /\ worker.pc = "open" /\ worker.batch # <<>>
          /\ worker' = [worker EXCEPT !.batch = Tail(worker.batch)]
      BY <2>2 DEF Skip
    <3>2. worker'.pc = "open" /\ worker'.batch = Tail(worker.batch)
      BY <3>1, WorkerShape DEF DeliveryInv
    <3>. QED BY <1>1, <3>1, <3>2, BatchTail DEF DeliveryInv, Rows
  <2>3. CASE Close
    <3>1. worker.pc = "open" /\ worker' = IdleWorker
      BY <2>3 DEF Close
    <3>2. worker'.pc = "idle" /\ worker'.batch = <<>>
      BY <3>1 DEF IdleWorker
    <3>3. BatchInv'
      BY <3>2 DEF BatchInv, BatchOf
    <3>. QED BY <3>1, <3>2, <3>3
  <2>. QED BY <2>1, <2>2, <2>3
<1>3. \A i \in Rows : failures + Again(i) <= failures' + Again(i)'
  BY <1>1, <1>2, NoneAgain DEF DeliveryInv
<1>. QED BY <1>1, <1>2, <1>3, WorkerStill

LEMMA SendAgainDelivers ==
  ASSUME DeliveryInv, ShapeInv', NEW result \in Outcomes, SendAgain(result)
  PROVE  /\ DeliveryInv' /\ Head(worker.batch) \in Rows
         /\ attempts[Head(worker.batch)].status = "failed"
         /\ \A j \in 1..MaxRows : j # Head(worker.batch) => sends'[j] = sends[j]
<1>. PICK i : i = Head(worker.batch)
  OBVIOUS
<1>1. /\ worker.pc = "open" /\ worker.batch # <<>>
      /\ worker' = [worker EXCEPT !.pc = "update", !.result = result]
      /\ sends' = [sends EXCEPT ![i] = sends[i] + 1] /\ UNCHANGED <<attempts, senders>>
  BY DEF SendAgain
<1>2. worker'.pc = "update" /\ worker'.batch = worker.batch
  BY <1>1, WorkerShape DEF DeliveryInv
<1>3. i \in Rows /\ attempts[i].status = "failed"
  BY <1>1, BatchHead DEF DeliveryInv
<1>4. failures' \in Nat /\ failures <= failures'
  BY AnswersUp DEF SendAgain, DeliveryInv
<1>5. i \in 1..MaxRows /\ sends[i] \in Nat
  BY <1>3, RowBound DEF DeliveryInv
<1>6. /\ sends' \in [1..MaxRows -> Nat] /\ sends'[i] = sends[i] + 1
      /\ \A j \in 1..MaxRows : j # i => sends'[j] = sends[j]
  BY <1>1, <1>5 DEF DeliveryInv, CountInv
<1>7. BatchInv'
  BY <1>1, <1>2 DEF DeliveryInv, BatchInv, BatchOf, Rows
<1>8. CallsInv'
  <2>1. ASSUME NEW x \in Senders, Working(senders[x])
        PROVE  sends'[senders[x].row] = sends[senders[x].row]
    <3>1. senders[x].row \in Rows /\ senders[x].row # i
      BY <1>3, <2>1 DEF DeliveryInv, CallsInv
    <3>2. senders[x].row \in 1..MaxRows
      BY <3>1, RowBound DEF DeliveryInv
    <3>. QED BY <1>6, <3>1, <3>2
  <2>. QED BY <1>1, <2>1 DEF DeliveryInv, CallsInv, Rows
<1>9. CountInv'
  <2>1. ASSUME NEW j \in Rows, j # i
        PROVE  sends'[j] <= 1 + attempts'[j].retries + failures' + Again(j)'
    <3>. PICK a \in 0..1 : a = Again(j)
      BY AgainType
    <3>1. Again(j)' = a /\ failures \in Nat
      BY <1>1, <1>2, <2>1 DEF Again, DeliveryInv, CountInv
    <3>2. failures + Again(j) <= failures' + Again(j)'
      BY <1>4, <3>1
    <3>3. j \in 1..MaxRows
      BY <2>1, RowBound DEF DeliveryInv
    <3>. QED BY <1>1, <1>4, <1>6, <2>1, <3>2, <3>3, CountKept DEF DeliveryInv
  <2>2. sends'[i] <= 1 + attempts'[i].retries + failures' + Again(i)'
    <3>1. Again(i) = 0 /\ Again(i)' = 1 /\ failures \in Nat
      BY <1>1, <1>2 DEF Again, DeliveryInv, CountInv
    <3>. PICK r \in Nat, n \in Nat : r = attempts[i].retries /\ n = sends[i]
      BY <1>3, <1>5, RowBound DEF DeliveryInv
    <3>2. n <= 1 + r + failures
      <4>1. n <= 1 + r + failures + Again(i)
        BY <1>3 DEF DeliveryInv, CountInv
      <4>. QED BY <3>1, <4>1
    <3>3. n + 1 <= 1 + r + failures' + 1
      BY <1>4, <3>1, <3>2
    <3>. QED BY <1>1, <1>6, <3>1, <3>3
  <2>3. \A j \in 1..MaxRows : j \notin Rows' => sends'[j] = 0
    BY <1>1, <1>3, <1>6 DEF DeliveryInv, CountInv, Rows
  <2>. QED BY <1>1, <1>4, <1>6, <2>1, <2>2, <2>3 DEF DeliveryInv, CountInv, Rows
<1>. QED BY <1>3, <1>6, <1>7, <1>8, <1>9 DEF DeliveryInv

LEMMA UpdateDelivers ==
  ASSUME DeliveryInv, ShapeInv', Update
  PROVE  DeliveryInv'
<1>. PICK i, status : i = Head(worker.batch) /\ status = StatusOfSend(worker.result)
  OBVIOUS
<1>. DEFINE m == [attempts[i] EXCEPT !.status = status, !.due = FALSE, !.retries = @ + 1]
<1>1. /\ worker.pc = "update" /\ worker' = [pc |-> "open", batch |-> Tail(worker.batch), result |-> "sent"]
      /\ \/ attempts' = [attempts EXCEPT ![i] = m] /\ UNCHANGED failures
         \/ Fails /\ UNCHANGED attempts
      /\ UNCHANGED <<sends, senders>>
  BY DEF Update
<1>2. worker.batch # <<>> /\ worker'.pc = "open" /\ worker'.batch = Tail(worker.batch)
  BY <1>1 DEF DeliveryInv, BatchInv
<1>3. i \in Rows /\ attempts[i].status = "failed"
  BY <1>2, BatchHead DEF DeliveryInv
<1>4. attempts[i] \in AttemptShape /\ attempts[i].retries \in Nat
  BY <1>3, RowFacts DEF DeliveryInv
<1>5. m.retries = attempts[i].retries + 1
  BY <1>4 DEF AttemptShape
<1>. HIDE DEF m
<1>6. failures' \in Nat /\ failures <= failures' /\ failures \in Nat
  BY <1>1, FailsUp DEF DeliveryInv, CountInv
<1>7. \A j : Again(j)' = 0 /\ (j # i => Again(j) = 0)
  BY <1>2 DEF Again
<1>8. CASE Fails /\ UNCHANGED attempts
  <2>1. failures' = failures + 1
    BY <1>8 DEF Fails
  <2>2. ASSUME NEW j \in Rows PROVE failures + Again(j) <= failures' + Again(j)'
    <3>. PICK a \in 0..1, b \in 0..1 : a = Again(j) /\ b = Again(j)'
      BY DEF Again
    <3>1. failures + a <= failures' + b
      BY <1>6, <2>1
    <3>. QED BY <3>1
  <2>3. BatchInv'
    BY <1>2, <1>8, BatchTail DEF DeliveryInv, Rows
  <2>. QED BY <1>1, <1>6, <1>8, <2>2, <2>3, WorkerStill
<1>9. CASE attempts' = [attempts EXCEPT ![i] = m] /\ UNCHANGED failures
  <2>1. /\ DOMAIN attempts' = DOMAIN attempts /\ Rows' = Rows /\ attempts'[i] = m
        /\ \A j \in Rows : j # i => attempts'[j] = attempts[j]
    BY <1>3, <1>9, RowChange DEF DeliveryInv
  <2>2. BatchInv'
    BY <1>2, <2>1, BatchTail DEF DeliveryInv
  <2>3. CallsInv'
    <3>1. ASSUME NEW x \in Senders, Working(senders[x])
          PROVE  senders[x].row \in Rows /\ attempts'[senders[x].row] = attempts[senders[x].row]
      <4>1. senders[x].row \in Rows /\ senders[x].row # i
        BY <1>3, <3>1 DEF DeliveryInv, CallsInv
      <4>. QED BY <2>1, <4>1
    <3>. QED BY <1>1, <2>1, <3>1 DEF DeliveryInv, CallsInv
  <2>4. ASSUME NEW j \in Rows, j # i
        PROVE  sends'[j] <= 1 + attempts'[j].retries + failures' + Again(j)'
    <3>1. failures + Again(j) <= failures' + Again(j)'
      BY <1>6, <1>7, <2>4
    <3>. QED BY <1>1, <1>6, <2>1, <2>4, <3>1, CountKept DEF DeliveryInv
  <2>5. sends'[i] <= 1 + attempts'[i].retries + failures' + Again(i)'
    <3>. PICK r \in Nat, n \in Nat : r = attempts[i].retries /\ n = sends[i]
      BY <1>3, RowBound DEF DeliveryInv
    <3>. PICK a \in 0..1 : a = Again(i)
      BY AgainType
    <3>1. n <= 1 + r + failures + a
      BY <1>3 DEF DeliveryInv, CountInv
    <3>2. n <= 1 + (r + 1) + failures'
      BY <1>6, <1>9, <3>1
    <3>3. attempts'[i].retries = r + 1 /\ sends'[i] = n /\ Again(i)' = 0
      BY <1>1, <1>5, <1>7, <2>1
    <3>. QED BY <1>6, <3>2, <3>3
  <2>6. Len(attempts') = Len(attempts)
    BY <2>1, SameLength DEF DeliveryInv
  <2>7. CountInv'
    BY <1>1, <1>6, <2>1, <2>4, <2>5, <2>6 DEF DeliveryInv, CountInv
  <2>. QED BY <2>2, <2>3, <2>7 DEF DeliveryInv
<1>. QED BY <1>1, <1>8, <1>9

LEMMA DueDelivers ==
  ASSUME DeliveryInv, ShapeInv', NEW i \in DOMAIN attempts, BecomesDue(i)
  PROVE  DeliveryInv'
<1>. DEFINE m == [attempts[i] EXCEPT !.due = TRUE]
<1>1. attempts' = [attempts EXCEPT ![i] = m] /\ UNCHANGED <<sends, senders, worker, failures>>
  BY DEF BecomesDue
<1>2. i \in Rows /\ attempts[i] \in AttemptShape
  BY RowFacts DEF DeliveryInv, Rows
<1>3. m.status = attempts[i].status /\ m.retries = attempts[i].retries
  BY <1>2 DEF AttemptShape
<1>. HIDE DEF m
<1>4. RowsSame
  BY <1>1, <1>2, <1>3, RowChange DEF DeliveryInv, RowsSame
<1>5. CallsQuiet
  BY <1>1 DEF CallsQuiet
<1>. QED BY <1>1, <1>4, <1>5, StillStep, FailsUp DEF DeliveryInv

LEMMA DeliveryStep == ASSUME DeliveryInv, [Next]_vars PROVE DeliveryInv'
<1>0. ShapeInv'
  BY ShapeStep DEF DeliveryInv
<1>1. ASSUME NEW s \in Senders, SenderStep(s) PROVE DeliveryInv'
  BY <1>0, <1>1, ClaimDelivers, InsertDelivers, SendDelivers, DisableDelivers, CompleteDelivers
     DEF SenderStep
<1>2. CASE WorkerStep
  BY <1>0, <1>2, QuerySkipCloseDeliver, SendAgainDelivers, UpdateDelivers DEF WorkerStep
<1>3. ASSUME NEW i \in DOMAIN attempts, BecomesDue(i) PROVE DeliveryInv'
  BY <1>0, <1>3, DueDelivers
<1>4. CASE UpsertPushDevice \/ Uninstall \/ UNCHANGED vars
  <2>1. UNCHANGED <<attempts, sends, senders, worker, failures>>
    BY <1>4 DEF UpsertPushDevice, Uninstall, vars
  <2>2. CallsQuiet
    BY <2>1 DEF CallsQuiet
  <2>. QED BY <1>0, <2>1, <2>2, Unmoved, StillStep, FailsUp DEF DeliveryInv
<1>5. CASE Crash
  <2>1. /\ senders' = [s \in Senders |-> IdleSender] /\ worker' = IdleWorker
        /\ failures' = failures + 1 /\ failures \in Nat /\ UNCHANGED <<attempts, sends>>
    BY <1>5 DEF Crash, Fails, Device, DeliveryInv, CountInv
  <2>2. CallsInv'
    <3>1. \A s \in Senders : ~Working(senders'[s])
      BY <2>1, IdleShape DEF Working
    <3>. QED BY <3>1 DEF CallsInv
  <2>3. worker'.pc = "idle" /\ worker'.batch = <<>>
    BY <2>1 DEF IdleWorker
  <2>4. BatchInv'
    BY <2>3 DEF BatchInv, BatchOf
  <2>5. ASSUME NEW i \in Rows PROVE failures + Again(i) <= failures' + Again(i)'
    <3>. PICK a \in 0..1 : a = Again(i)
      BY AgainType
    <3>1. Again(i)' = 0
      BY <2>3 DEF Again
    <3>. QED BY <2>1, <3>1
  <2>6. failures' \in Nat
    BY <2>1
  <2>7. CountInv'
    BY <2>1, <2>5, <2>6, CountStill DEF DeliveryInv
  <2>. QED BY <1>0, <2>2, <2>4, <2>7 DEF DeliveryInv
<1>. QED BY <1>1, <1>2, <1>3, <1>4, <1>5 DEF Next

LEMMA DeliveryInit == ASSUME Init PROVE DeliveryInv
<1>1. ShapeInv
  BY ShapeInit
<1>2. CallsInv
  <2>1. \A s \in Senders : ~Working(senders[s])
    BY IdleShape DEF Init, Working
  <2>. QED BY <2>1 DEF CallsInv
<1>3. BatchInv
  BY DEF Init, IdleWorker, BatchInv, BatchOf
<1>4. CountInv
  <2>1. attempts = <<>> /\ sends = [i \in 1..MaxRows |-> 0] /\ failures = 0
    BY DEF Init
  <2>2. Rows = {} /\ Len(attempts) = 0
    BY <2>1 DEF Rows
  <2>. QED BY <2>1, <2>2, NotificationsAssumption DEF CountInv
<1>. QED BY <1>1, <1>2, <1>3, <1>4 DEF DeliveryInv

LEMMA DeliveryAlways == Spec => []DeliveryInv
<1>1. DeliveryInv /\ [Next]_vars => DeliveryInv'
  BY DeliveryStep
<1>. QED BY <1>1, DeliveryInit, PTL DEF Spec

\* A message is handed to a provider once and once more for every retry that its
\* row counts (sendNotification, NotificationRetry.run), with any number of
\* calls, any batch and any limit of retries; only a failing UPDATE or a crash
\* between a send and its UPDATE can add to that.
THEOREM SendsAreCounted == Spec => []DeliveriesCounted
<1>1. DeliveryInv => DeliveriesCounted
  <2>. SUFFICES ASSUME DeliveryInv, NEW i \in DOMAIN attempts
                PROVE  sends[i] <= 1 + attempts[i].retries + failures
                                     + (IF Sending(i) THEN 1 ELSE 0)
    BY DEF DeliveriesCounted
  <2>. PICK e \in 0..1 : e = IF Sending(i) THEN 1 ELSE 0
    OBVIOUS
  <2>. PICK a \in 0..1 : a = Again(i)
    BY AgainType
  <2>1. a <= e
    BY DEF Again, Sending
  <2>. PICK n \in Nat, r \in Nat : n = sends[i] /\ r = attempts[i].retries
    BY RowBound DEF DeliveryInv, Rows
  <2>2. n <= 1 + r + failures + a /\ failures \in Nat
    BY DEF DeliveryInv, CountInv, Rows
  <2>3. n <= 1 + r + failures + e
    BY <2>1, <2>2
  <2>. QED BY <2>3
<1>. QED BY <1>1, DeliveryAlways, PTL

\* A message recorded as sent is never handed to a provider again, neither by
\* the call that wrote its row nor by a worker that selected it before.
THEOREM SentStaysSent == Spec => SentMessagesRest
<1>1. ASSUME DeliveryInv, [Next]_vars
      PROVE  \A i \in DOMAIN attempts : attempts[i].status = "sent" => sends'[i] = sends[i]
  <2>. SUFFICES ASSUME NEW i \in DOMAIN attempts, attempts[i].status = "sent"
                PROVE  sends'[i] = sends[i]
    OBVIOUS
  <2>0. ShapeInv' /\ i \in 1..MaxRows
    BY <1>1, ShapeStep, RowBound DEF DeliveryInv, Rows
  <2>1. ASSUME NEW s \in Senders, SenderStep(s) PROVE sends'[i] = sends[i]
    <3>1. ASSUME NEW result \in Outcomes, Send(s, result) PROVE sends'[i] = sends[i]
      BY <1>1, <2>0, <3>1, SendDelivers
    <3>2. CASE ~\E result \in Outcomes : Send(s, result)
      BY <2>1, <3>2 DEF SenderStep, Claim, Release, InsertAttempt, DisablePushDevice, Complete
    <3>. QED BY <3>1, <3>2
  <2>2. CASE WorkerStep
    <3>1. ASSUME NEW result \in Outcomes, SendAgain(result) PROVE sends'[i] = sends[i]
      BY <1>1, <2>0, <3>1, SendAgainDelivers
    <3>2. CASE Query \/ Skip \/ Update \/ Close
      BY <3>2 DEF Query, Skip, Update, Close
    <3>. QED BY <2>2, <3>1, <3>2 DEF WorkerStep
  <2>3. CASE \E j \in DOMAIN attempts : BecomesDue(j)
    BY <2>3 DEF BecomesDue
  <2>4. CASE UpsertPushDevice \/ Uninstall \/ Crash \/ UNCHANGED vars
    BY <2>4 DEF UpsertPushDevice, Uninstall, Crash, vars
  <2>. QED BY <1>1, <2>1, <2>2, <2>3, <2>4 DEF Next
<1>. QED BY <1>1, DeliveryAlways, PTL DEF Spec, SentMessagesRest

-----------------------------------------------------------------------------
(* Limits: retries, the batch, the pool.                                   *)

\* Only rows with a retry left are in the worker's batch.
RetryInv ==
  /\ \A i \in Rows : attempts[i].retries <= maxNotificationRetries
  /\ \A k \in DOMAIN worker.batch :
        attempts[worker.batch[k]].retries < maxNotificationRetries
  /\ Len(worker.batch) <= BatchSize

\* A step that counts no retry; a row it adds has none.
RetriesKept ==
  /\ \A i \in Rows : i \in Rows' /\ attempts'[i].retries = attempts[i].retries
  /\ \A i \in Rows' : i \in Rows \/ attempts'[i].retries = 0

LEMMA Limits ==
  /\ maxNotificationRetries \in Nat /\ MaxRows \in Nat /\ MaxFailures \in Nat
  /\ BatchSize \in Nat /\ Conns \in Nat
BY NotificationsAssumption

LEMMA RetriesStand ==
  ASSUME BatchInv, RetryInv, RetriesKept, worker'.batch = worker.batch
  PROVE  RetryInv'
<1>1. \A k \in DOMAIN worker.batch : worker.batch[k] \in Rows
  BY DEF BatchInv, BatchOf
<1>2. \A i \in Rows' : attempts'[i].retries <= maxNotificationRetries
  <2>1. 0 <= maxNotificationRetries
    BY Limits
  <2>. QED BY <2>1 DEF RetryInv, RetriesKept
<1>. QED BY <1>1, <1>2 DEF RetryInv, RetriesKept

LEMMA Unwritten ==
  ASSUME UNCHANGED attempts
  PROVE  RetriesKept
BY DEF RetriesKept, Rows

\* One row is written, with the retries it had.
LEMMA RowWritten ==
  ASSUME ShapeInv, NEW i, NEW m, i \in Rows => m.retries = attempts[i].retries,
         attempts' = [attempts EXCEPT ![i] = m]
  PROVE  RetriesKept
<1>1. Rows' = Rows
  BY DEF Rows
<1>2. CASE i \in Rows
  BY <1>1, <1>2, RowChange DEF RetriesKept
<1>3. CASE i \notin Rows
  BY <1>1, <1>3 DEF RetriesKept, Rows
<1>. QED BY <1>2, <1>3

LEMMA CallsRetries ==
  ASSUME DeliveryInv, NEW s \in Senders, SenderStep(s)
  PROVE  RetriesKept /\ UNCHANGED worker
<1>0. ShapeInv
  BY DEF DeliveryInv
<1>1. CASE Claim(s) \/ Release(s) \/ (\E result \in Outcomes : Send(s, result))
             \/ DisablePushDevice(s)
  BY <1>1, Unwritten DEF Claim, Release, Send, DisablePushDevice
<1>2. ASSUME NEW channel \in {"sms", "push"}, InsertAttempt(s, channel)
      PROVE  RetriesKept /\ UNCHANGED worker
  <2>. DEFINE m == [channel |-> channel, linked |-> s \in Fulfillments, status |-> "pending",
                    retries |-> 0, due |-> TRUE]
  <2>1. attempts' = Append(attempts, m) /\ UNCHANGED worker
    BY <1>2 DEF InsertAttempt
  <2>2. m.retries = 0
    OBVIOUS
  <2>. HIDE DEF m
  <2>. PICK n \in Nat : n = Len(attempts) /\ Rows = 1..n
    BY <1>0, RowFacts
  <2>. PICK k \in Nat : k = n + 1
    OBVIOUS
  <2>3. /\ Rows' = 1..k /\ attempts'[k] = m
        /\ \A i \in 1..n : attempts'[i] = attempts[i]
    BY <1>0, <2>1 DEF ShapeInv, Rows
  <2>4. \A i \in 1..k : i \in 1..n \/ i = k
    OBVIOUS
  <2>5. \A i \in 1..n : i \in 1..k
    OBVIOUS
  <2>. QED BY <2>1, <2>2, <2>3, <2>4, <2>5 DEF RetriesKept
<1>3. CASE Complete(s)
  <2>. PICK i, status : i = senders[s].row /\ status = StatusOfSend(senders[s].result)
    OBVIOUS
  <2>. DEFINE m == [attempts[i] EXCEPT !.status = status]
  <2>1. (attempts' = [attempts EXCEPT ![i] = m] \/ UNCHANGED attempts) /\ UNCHANGED worker
    BY <1>3 DEF Complete
  <2>2. i \in Rows => m.retries = attempts[i].retries
    BY <1>0, RowFacts DEF AttemptShape
  <2>. HIDE DEF m
  <2>. QED BY <1>0, <2>1, <2>2, RowWritten, Unwritten
<1>. QED BY <1>1, <1>2, <1>3 DEF SenderStep

\* The rest of a batch still has its retries, whatever its head has.
LEMMA RestOfBatch ==
  ASSUME BatchInv, RetryInv, worker.batch # <<>>, worker'.batch = Tail(worker.batch),
         \A i \in Rows : i # Head(worker.batch) => attempts'[i].retries = attempts[i].retries
  PROVE  /\ \A k \in DOMAIN worker'.batch :
               attempts'[worker'.batch[k]].retries < maxNotificationRetries
         /\ Len(worker'.batch) <= BatchSize
<1>. PICK b, t : b = worker.batch /\ t = Tail(b)
  OBVIOUS
<1>1. /\ b \in Seq(Nat) /\ \A k \in DOMAIN b : b[k] \in Rows
      /\ \A k, l \in DOMAIN b : b[k] = b[l] => k = l
  BY DEF BatchInv, BatchOf
<1>2. /\ Head(b) = b[1] /\ 1 \in DOMAIN b
      /\ \A k \in DOMAIN t : k + 1 \in DOMAIN b /\ k + 1 # 1 /\ t[k] = b[k + 1]
  BY <1>1, TailOf
<1>3. \A k \in DOMAIN b : attempts[b[k]].retries < maxNotificationRetries
  BY DEF RetryInv
<1>4. ASSUME NEW k \in DOMAIN t
      PROVE  attempts'[t[k]].retries < maxNotificationRetries
  <2>. PICK l : l = k + 1
    OBVIOUS
  <2>. PICK i : i = b[l]
    OBVIOUS
  <2>1. l \in DOMAIN b /\ l # 1 /\ t[k] = i
    BY <1>2
  <2>2. i \in Rows /\ i # Head(b) /\ attempts[i].retries < maxNotificationRetries
    BY <1>1, <1>2, <1>3, <2>1
  <2>. QED BY <2>1, <2>2
<1>5. Len(t) <= BatchSize
  <2>1. Len(b) <= BatchSize
    BY DEF RetryInv
  <2>2. Len(b) \in Nat /\ Len(t) = Len(b) - 1
    BY <1>1
  <2>. QED BY <2>1, <2>2, Limits
<1>. QED BY <1>4, <1>5

LEMMA UpdateRetries ==
  ASSUME DeliveryInv, RetryInv, Update
  PROVE  RetryInv'
<1>0. ShapeInv /\ BatchInv
  BY DEF DeliveryInv
<1>. PICK i, status : i = Head(worker.batch) /\ status = StatusOfSend(worker.result)
  OBVIOUS
<1>. DEFINE m == [attempts[i] EXCEPT !.status = status, !.due = FALSE, !.retries = @ + 1]
<1>1. /\ worker.pc = "update"
      /\ worker' = [pc |-> "open", batch |-> Tail(worker.batch), result |-> "sent"]
      /\ attempts' = [attempts EXCEPT ![i] = m] \/ UNCHANGED attempts
  BY DEF Update
<1>2. worker.batch # <<>> /\ worker'.batch = Tail(worker.batch)
  BY <1>0, <1>1 DEF BatchInv
<1>3. i \in Rows /\ attempts[i].retries < maxNotificationRetries
  <2>1. worker.batch \in Seq(Nat)
    BY <1>0 DEF BatchInv, BatchOf
  <2>2. i = worker.batch[1] /\ 1 \in DOMAIN worker.batch
    BY <1>2, <2>1, TailOf
  <2>. QED BY <1>0, <1>2, <2>2, BatchHead DEF RetryInv
<1>. PICK r \in Nat : r = attempts[i].retries
  BY <1>0, <1>3, RowFacts
<1>4. m.retries = r + 1 /\ r + 1 <= maxNotificationRetries
  <2>1. attempts[i] \in AttemptShape
    BY <1>0, <1>3, RowFacts
  <2>2. m.retries = r + 1
    BY <2>1 DEF AttemptShape
  <2>. HIDE DEF m
  <2>3. r < maxNotificationRetries
    BY <1>3
  <2>. QED BY <2>2, <2>3, Limits
<1>. HIDE DEF m
<1>5. /\ Rows' = Rows /\ \A j \in Rows : j # i => attempts'[j].retries = attempts[j].retries
      /\ attempts'[i].retries <= maxNotificationRetries
  <2>1. CASE UNCHANGED attempts
    BY <1>3, <2>1 DEF Rows, RetryInv
  <2>2. CASE attempts' = [attempts EXCEPT ![i] = m]
    <3>1. /\ Rows' = Rows /\ attempts'[i] = m
          /\ \A j \in Rows : j # i => attempts'[j] = attempts[j]
      BY <1>0, <1>3, <2>2, RowChange
    <3>. QED BY <1>4, <3>1
  <2>. QED BY <1>1, <2>1, <2>2
<1>6. \A j \in Rows' : attempts'[j].retries <= maxNotificationRetries
  BY <1>5 DEF RetryInv
<1>7. /\ \A k \in DOMAIN worker'.batch :
            attempts'[worker'.batch[k]].retries < maxNotificationRetries
      /\ Len(worker'.batch) <= BatchSize
  BY <1>0, <1>2, <1>5, RestOfBatch
<1>. QED BY <1>6, <1>7 DEF RetryInv

LEMMA RetryStep ==
  ASSUME DeliveryInv, RetryInv, [Next]_vars
  PROVE  RetryInv' /\ Rows \subseteq Rows'
<1>0. ShapeInv /\ BatchInv
  BY DEF DeliveryInv
<1>1. ASSUME RetriesKept, worker'.batch = worker.batch
      PROVE  RetryInv' /\ Rows \subseteq Rows'
  BY <1>0, <1>1, RetriesStand DEF RetriesKept
<1>2. ASSUME NEW s \in Senders, SenderStep(s) PROVE RetryInv' /\ Rows \subseteq Rows'
  <2>1. RetriesKept /\ UNCHANGED worker
    BY <1>2, CallsRetries
  <2>. QED BY <1>1, <2>1
<1>3. CASE Query
  <2>1. UNCHANGED attempts
    BY <1>3 DEF Query
  <2>2. /\ Len(worker'.batch) <= BatchSize
        /\ \A k \in DOMAIN worker'.batch :
              attempts[worker'.batch[k]].retries < maxNotificationRetries
    BY <1>3, QueryBatch DEF Due
  <2>. QED BY <2>1, <2>2 DEF RetryInv, Rows
<1>4. CASE Skip
  <2>1. /\ worker.batch # <<>> /\ UNCHANGED attempts
        /\ worker' = [worker EXCEPT !.batch = Tail(worker.batch)]
    BY <1>4 DEF Skip
  <2>2. worker'.batch = Tail(worker.batch)
    BY <1>0, <2>1, WorkerShape
  <2>3. /\ \A k \in DOMAIN worker'.batch :
              attempts'[worker'.batch[k]].retries < maxNotificationRetries
        /\ Len(worker'.batch) <= BatchSize
    BY <1>0, <2>1, <2>2, RestOfBatch
  <2>. QED BY <2>1, <2>3 DEF RetryInv, Rows
<1>5. ASSUME NEW result \in Outcomes, SendAgain(result)
      PROVE  RetryInv' /\ Rows \subseteq Rows'
  <2>1. UNCHANGED attempts /\ worker' = [worker EXCEPT !.pc = "update", !.result = result]
    BY <1>5 DEF SendAgain
  <2>2. worker'.batch = worker.batch
    BY <1>0, <2>1, WorkerShape
  <2>. QED BY <1>1, <2>1, <2>2, Unwritten
<1>6. CASE Update
  <2>1. Rows' = Rows
    BY <1>6 DEF Update, Rows
  <2>. QED BY <1>6, <2>1, UpdateRetries
<1>7. ASSUME UNCHANGED attempts, worker' = IdleWorker
      PROVE  RetryInv' /\ Rows \subseteq Rows'
  <2>1. worker'.batch = <<>> /\ Len(<<>>) <= BatchSize
    BY <1>7, Limits DEF IdleWorker
  <2>. QED BY <1>7, <2>1 DEF RetryInv, Rows
<1>8. CASE Close \/ Crash
  BY <1>7, <1>8 DEF Close, Crash
<1>9. ASSUME NEW i \in DOMAIN attempts, BecomesDue(i)
      PROVE  RetryInv' /\ Rows \subseteq Rows'
  <2>. DEFINE m == [attempts[i] EXCEPT !.due = TRUE]
  <2>1. attempts' = [attempts EXCEPT ![i] = m] /\ UNCHANGED worker
    BY <1>9 DEF BecomesDue
  <2>2. m.retries = attempts[i].retries
    BY <1>0, <1>9, RowFacts DEF AttemptShape, Rows
  <2>. HIDE DEF m
  <2>3. RetriesKept
    BY <1>0, <2>1, <2>2, RowWritten
  <2>. QED BY <1>1, <2>1, <2>3
<1>10. CASE UpsertPushDevice \/ Uninstall \/ UNCHANGED vars
  BY <1>1, <1>10, Unwritten DEF UpsertPushDevice, Uninstall, vars
<1>. QED BY <1>2, <1>3, <1>4, <1>5, <1>6, <1>8, <1>9, <1>10 DEF Next, WorkerStep

\* A call remembers its own row.
SenderRows == \A s \in Senders : senders[s].row \in Rows \cup {0}

LEMMA SenderRowsStep ==
  ASSUME DeliveryInv, RetryInv, SenderRows, [Next]_vars
  PROVE  SenderRows'
<1>0. ShapeInv /\ Rows \subseteq Rows'
  BY RetryStep DEF DeliveryInv
<1>1. ASSUME NEW s \in Senders, NEW c, senders' = [senders EXCEPT ![s] = c],
             c.row \in Rows' \cup {0}
      PROVE  SenderRows'
  <2>1. \A x \in Senders : senders'[x] = IF x = s THEN c ELSE senders[x]
    BY <1>0, <1>1 DEF ShapeInv
  <2>. QED BY <1>0, <1>1, <2>1 DEF SenderRows
<1>2. ASSUME NEW s \in Senders, SenderStep(s) PROVE SenderRows'
  <2>1. /\ senders[s].row \in Rows' \cup {0} /\ IdleSender.row = 0
        /\ \A p : [senders[s] EXCEPT !.pc = p].row = senders[s].row
        /\ \A p, r : [senders[s] EXCEPT !.result = r, !.pc = p].row = senders[s].row
        /\ [IdleSender EXCEPT !.pc = "claimed"].row = 0
    BY <1>0 DEF SenderRows, ShapeInv, SenderShape, IdleSender
  <2>2. CASE Claim(s) \/ DisablePushDevice(s)
    <3>1. \E p : senders' = [senders EXCEPT ![s] = [senders[s] EXCEPT !.pc = p]]
      BY <2>2 DEF Claim, DisablePushDevice
    <3>. QED BY <1>1, <2>1, <3>1
  <2>3. CASE Release(s)
    BY <1>1, <2>1, <2>3 DEF Release
  <2>4. ASSUME NEW channel \in {"sms", "push"}, InsertAttempt(s, channel)
        PROVE  SenderRows'
    <3>. PICK n \in Nat : n = Len(attempts) + 1
      BY <1>0 DEF ShapeInv
    <3>1. senders' = [senders EXCEPT ![s] = [pc |-> "inserted", row |-> n, result |-> "sent"]]
      BY <2>4 DEF InsertAttempt
    <3>2. n \in Rows'
      <4>1. \E m : attempts' = Append(attempts, m)
        BY <2>4 DEF InsertAttempt
      <4>. QED BY <1>0, <4>1 DEF ShapeInv, Rows
    <3>. PICK c : c = [pc |-> "inserted", row |-> n, result |-> "sent"]
      OBVIOUS
    <3>3. c.row = n
      OBVIOUS
    <3>. QED BY <1>1, <3>1, <3>2, <3>3
  <2>5. ASSUME NEW result \in Outcomes, Send(s, result) PROVE SenderRows'
    <3>1. \E p, r : senders' = [senders EXCEPT ![s] = [senders[s] EXCEPT !.result = r, !.pc = p]]
      BY <2>5 DEF Send
    <3>. QED BY <1>1, <2>1, <3>1
  <2>6. CASE Complete(s)
    <3>1. \/ senders' = [senders EXCEPT ![s] = [IdleSender EXCEPT !.pc = "claimed"]]
          \/ senders' = [senders EXCEPT ![s] = IdleSender]
      BY <2>6 DEF Complete
    <3>. QED BY <1>1, <2>1, <3>1
  <2>. QED BY <1>2, <2>2, <2>3, <2>4, <2>5, <2>6 DEF SenderStep
<1>3. CASE UNCHANGED senders
  BY <1>0, <1>3 DEF SenderRows
<1>4. CASE WorkerStep \/ (\E i \in DOMAIN attempts : BecomesDue(i)) \/ UpsertPushDevice
             \/ Uninstall \/ UNCHANGED vars
  BY <1>3, <1>4 DEF WorkerStep, Query, Skip, SendAgain, Update, Close, BecomesDue,
                    UpsertPushDevice, Uninstall, vars
<1>5. CASE Crash
  BY <1>5 DEF Crash, SenderRows, IdleSender
<1>. QED BY <1>2, <1>4, <1>5 DEF Next

\* The rest of the state.
ScalarsInv ==
  /\ worker.pc \in {"idle", "open", "update"} /\ worker.result \in Outcomes
  /\ busy \in 0..Conns /\ failures \in 0..MaxFailures
  /\ enabled \in BOOLEAN /\ installed \in BOOLEAN /\ overtaken \in BOOLEAN

LEMMA FailuresStay ==
  ASSUME failures \in 0..MaxFailures, Fails \/ UNCHANGED failures
  PROVE  failures' \in 0..MaxFailures
BY Limits DEF Fails

\* The pool lends what it has.
LEMMA BusyStays ==
  ASSUME busy \in 0..Conns, ConnectionsReturn', Conns \in Nat,
         UNCHANGED busy \/ (Free /\ busy' = busy + 1) \/ busy' = busy - 1 \/ busy' = 0
  PROVE  busy' \in 0..Conns
<1>1. busy' \in Nat
  <2>1. Cardinality(Holders)' \in Nat
    <3>1. IsFiniteSet(Fulfillments) /\ Holders' \subseteq Fulfillments
      BY NotificationsAssumption DEF Holders
    <3>. QED BY <3>1, FS_Subset, FS_CardinalityType
  <2>. PICK n \in Nat, w \in {0, 1} :
          n = Cardinality(Holders)' /\ w = IF worker'.pc = "idle" THEN 0 ELSE 1
    BY <2>1
  <2>2. busy' = n + w
    BY DEF ConnectionsReturn
  <2>. QED BY <2>2
<1>2. busy' <= Conns
  BY DEF Free
<1>. QED BY <1>1, <1>2

LEMMA ScalarsStep ==
  ASSUME ShapeInv, ScalarsInv, ConnectionsReturn', [Next]_vars
  PROVE  ScalarsInv'
<1>0. /\ busy \in 0..Conns /\ failures \in 0..MaxFailures /\ Conns \in Nat
      /\ enabled \in BOOLEAN /\ installed \in BOOLEAN /\ overtaken \in BOOLEAN
      /\ worker.pc \in {"idle", "open", "update"} /\ worker.result \in Outcomes
  BY Limits DEF ScalarsInv
<1>1. failures' \in 0..MaxFailures
  <2>1. Fails \/ UNCHANGED failures
    <3>1. ASSUME NEW s \in Senders, SenderStep(s) PROVE Fails \/ UNCHANGED failures
      BY <3>1 DEF SenderStep, Claim, Release, InsertAttempt, Send, Answers, DisablePushDevice,
                  Complete
    <3>2. CASE WorkerStep
      BY <3>2 DEF WorkerStep, Query, Skip, SendAgain, Answers, Update, Close
    <3>3. CASE (\E i \in DOMAIN attempts : BecomesDue(i)) \/ UpsertPushDevice \/ Uninstall
                 \/ Crash \/ UNCHANGED vars
      BY <3>3 DEF BecomesDue, UpsertPushDevice, Uninstall, Crash, vars
    <3>. QED BY <3>1, <3>2, <3>3 DEF Next
  <2>. QED BY <1>0, <2>1, FailuresStay
<1>2. busy' \in 0..Conns
  <2>1. UNCHANGED busy \/ (Free /\ busy' = busy + 1) \/ busy' = busy - 1 \/ busy' = 0
    <3>1. ASSUME NEW s \in Senders, SenderStep(s)
          PROVE  UNCHANGED busy \/ (Free /\ busy' = busy + 1) \/ busy' = busy - 1
      BY <3>1 DEF SenderStep, Claim, Release, InsertAttempt, Send, DisablePushDevice, Complete
    <3>2. CASE WorkerStep
      BY <3>2 DEF WorkerStep, Query, Skip, SendAgain, Update, Close
    <3>3. CASE (\E i \in DOMAIN attempts : BecomesDue(i)) \/ UpsertPushDevice \/ Uninstall
                 \/ Crash \/ UNCHANGED vars
      BY <3>3 DEF BecomesDue, UpsertPushDevice, Uninstall, Crash, vars
    <3>. QED BY <3>1, <3>2, <3>3 DEF Next
  <2>. QED BY <1>0, <2>1, BusyStays
<1>3. enabled' \in BOOLEAN /\ installed' \in BOOLEAN /\ overtaken' \in BOOLEAN
  <2>1. ASSUME NEW s \in Senders, SenderStep(s)
        PROVE  enabled' \in BOOLEAN /\ UNCHANGED <<installed, overtaken>>
    BY <1>0, <2>1 DEF SenderStep, Claim, Release, InsertAttempt, Send, DisablePushDevice,
                      Complete, Device
  <2>2. CASE WorkerStep
    BY <1>0, <2>2 DEF WorkerStep, Query, Skip, SendAgain, Update, Close, Device
  <2>3. CASE (\E i \in DOMAIN attempts : BecomesDue(i)) \/ UpsertPushDevice \/ Uninstall
               \/ Crash \/ UNCHANGED vars
    BY <1>0, <2>3 DEF BecomesDue, UpsertPushDevice, Uninstall, Crash, vars, Device
  <2>. QED BY <1>0, <2>1, <2>2, <2>3 DEF Next
<1>4. worker'.pc \in {"idle", "open", "update"} /\ worker'.result \in Outcomes
  <2>0. /\ \A b : /\ [worker EXCEPT !.pc = "open", !.batch = b].pc = "open"
                  /\ [worker EXCEPT !.pc = "open", !.batch = b].result = worker.result
                  /\ [worker EXCEPT !.batch = b].pc = worker.pc
                  /\ [worker EXCEPT !.batch = b].result = worker.result
        /\ \A r : /\ [worker EXCEPT !.pc = "update", !.result = r].pc = "update"
                  /\ [worker EXCEPT !.pc = "update", !.result = r].result = r
    BY DEF ShapeInv
  <2>1. CASE Query
    <3>1. \E b : worker' = [worker EXCEPT !.pc = "open", !.batch = b]
      BY <2>1 DEF Query
    <3>. QED BY <1>0, <2>0, <3>1
  <2>2. CASE Skip
    BY <1>0, <2>0, <2>2 DEF Skip
  <2>3. ASSUME NEW result \in Outcomes, SendAgain(result)
        PROVE  worker'.pc = "update" /\ worker'.result = result
    BY <2>0, <2>3 DEF SendAgain
  <2>4. CASE Update
    <3>1. worker' = [pc |-> "open", batch |-> Tail(worker.batch), result |-> "sent"]
      BY <2>4 DEF Update
    <3>. QED BY <3>1 DEF Outcomes
  <2>5. CASE Close \/ Crash
    BY <2>5 DEF Close, Crash, IdleWorker, Outcomes
  <2>6. ASSUME NEW s \in Senders, SenderStep(s) PROVE UNCHANGED worker
    BY <2>6 DEF SenderStep, Claim, Release, InsertAttempt, Send, DisablePushDevice, Complete
  <2>7. CASE (\E i \in DOMAIN attempts : BecomesDue(i)) \/ UpsertPushDevice \/ Uninstall
               \/ UNCHANGED vars
    BY <1>0, <2>7 DEF BecomesDue, UpsertPushDevice, Uninstall, vars
  <2>. QED BY <1>0, <2>1, <2>2, <2>3, <2>4, <2>5, <2>6, <2>7 DEF Next, WorkerStep
<1>. QED BY <1>1, <1>2, <1>3, <1>4 DEF ScalarsInv

LimitsInv == DeliveryInv /\ ConnectionsReturn /\ RetryInv /\ SenderRows /\ ScalarsInv

LEMMA LimitsInit == Init => LimitsInv
<1>. SUFFICES ASSUME Init PROVE LimitsInv
  OBVIOUS
<1>0. /\ attempts = <<>> /\ senders = [s \in Senders |-> IdleSender] /\ worker = IdleWorker
      /\ busy = 0 /\ failures = 0 /\ enabled \in BOOLEAN /\ installed \in BOOLEAN
      /\ overtaken \in BOOLEAN
  BY DEF Init
<1>1. RetryInv
  <2>1. Rows = {} /\ worker.batch = <<>> /\ Len(<<>>) <= BatchSize
    BY <1>0, Limits DEF Rows, IdleWorker
  <2>. QED BY <2>1 DEF RetryInv
<1>2. SenderRows
  BY <1>0 DEF SenderRows, IdleSender
<1>3. ScalarsInv
  BY <1>0, Limits DEF ScalarsInv, IdleWorker, Outcomes
<1>. QED BY <1>1, <1>2, <1>3, DeliveryInit, ConnInit DEF LimitsInv

LEMMA LimitsStep == LimitsInv /\ [Next]_vars => LimitsInv'
<1>. SUFFICES ASSUME LimitsInv, [Next]_vars PROVE LimitsInv'
  OBVIOUS
<1>1. DeliveryInv /\ ShapeInv /\ ConnectionsReturn /\ RetryInv /\ SenderRows /\ ScalarsInv
  BY DEF LimitsInv, DeliveryInv
<1>2. ConnectionsReturn'
  BY <1>1, ConnStep
<1>. QED BY <1>1, <1>2, DeliveryStep, RetryStep, SenderRowsStep, ScalarsStep DEF LimitsInv

\* The retry worker counts no row past its retries, however calls and sweeps mix
\* (NotificationRetry.run selects only rows with a retry left, each once), reads no
\* more rows than its LIMIT, and the pool never lends more connections than it has.
THEOREM TypeCorrect == Spec => []TypeOK
<1>1. LimitsInv => TypeOK
  <2>. SUFFICES ASSUME LimitsInv PROVE TypeOK
    OBVIOUS
  <2>0. ShapeInv /\ BatchInv /\ CountInv /\ RetryInv /\ SenderRows /\ ScalarsInv
    BY DEF LimitsInv, DeliveryInv
  <2>. PICK n \in Nat : n = Len(attempts) /\ Rows = 1..n
    BY <2>0, RowFacts
  <2>1. n <= MaxRows /\ sends \in [1..MaxRows -> Nat]
    BY <2>0 DEF CountInv
  <2>2. attempts \in Seq(Attempt)
    <3>1. attempts \in Seq(AttemptShape) /\ DOMAIN attempts = 1..n
      BY <2>0 DEF ShapeInv
    <3>2. ASSUME NEW i \in 1..n PROVE attempts[i] \in Attempt
      <4>. PICK m : m = attempts[i]
        OBVIOUS
      <4>1. m \in AttemptShape /\ m.retries \in Nat /\ m.retries <= maxNotificationRetries
        BY <2>0, RowFacts DEF RetryInv
      <4>2. m.retries \in 0..maxNotificationRetries
        BY <4>1, Limits
      <4>. QED BY <4>1, <4>2 DEF AttemptShape, Attempt
    <3>. QED BY <3>1, <3>2
  <2>3. ASSUME NEW s \in Senders
        PROVE  senders[s] \in Sender /\ senders[s].row <= n
    <3>. PICK c : c = senders[s]
      OBVIOUS
    <3>1. c \in SenderShape /\ c.row \in 1..n \cup {0}
      BY <2>0 DEF ShapeInv, SenderRows
    <3>2. c.row \in 0..MaxRows /\ c.row <= n
      BY <2>1, <3>1, Limits
    <3>. QED BY <3>1, <3>2 DEF SenderShape, Steps, Sender
  <2>4. senders \in [Senders -> Sender]
    BY <2>0, <2>3 DEF ShapeInv
  <2>5. worker.batch \in Seq(1..n) /\ Len(worker.batch) <= BatchSize
    <3>1. worker.batch \in Seq(Nat) /\ \A k \in DOMAIN worker.batch : worker.batch[k] \in 1..n
      BY <2>0 DEF BatchInv, BatchOf
    <3>. QED BY <2>0, <3>1 DEF RetryInv
  <2>. QED BY <2>0, <2>1, <2>2, <2>3, <2>4, <2>5 DEF TypeOK, ScalarsInv
<1>. QED BY <1>1, LimitsInit, LimitsStep, PTL DEF Spec
=============================================================================
