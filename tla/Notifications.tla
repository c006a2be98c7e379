---------------------------- MODULE Notifications ----------------------------
(***************************************************************************)
(* Messages to customers: the rows of notification_attempts, the calls     *)
(* that write and send them, the worker that sends failed ones again, one  *)
(* push device, and the connections of the pool they all need.             *)
(*                                                                         *)
(* A fulfillment holds the connection of its claim and the worker that of  *)
(* its open result set, while each of their statements needs another one.  *)
(***************************************************************************)
EXTENDS Integers, Sequences, FiniteSets

CONSTANTS
    Fulfillments,            \* slots for running Fulfill calls
    Admins,                  \* slots for running PushNotification calls
    Conns,                   \* SetMaxOpenConns, 25 in the code
    BatchSize,               \* the worker's LIMIT, 100 in the code
    maxNotificationRetries,  \* 5 in the code
    PushSender,              \* whether push is configured
    MaxRows,                 \* bound: messages
    MaxFailures              \* bound: statements and sends that fail, crashes

Senders == Fulfillments \cup Admins

ASSUME NotificationsAssumption ==
    /\ IsFiniteSet(Fulfillments) /\ IsFiniteSet(Admins)
    /\ Fulfillments \intersect Admins = {}
    /\ Conns \in Nat \ {0} /\ BatchSize \in Nat \ {0}
    /\ maxNotificationRetries \in Nat /\ PushSender \in BOOLEAN
    /\ MaxRows \in Nat /\ MaxFailures \in Nat

VARIABLES
    attempts,   \* rows of notification_attempts in the order of attempted_at
    sends,      \* sends[i]: how often the message of row i was handed to a provider
    senders,    \* local state of each call
    worker,     \* local state of the retry worker
    busy,       \* connections taken out of the pool between statements
    enabled,    \* the device's row says that it may be pushed to
    installed,  \* the push service knows the device
    overtaken,  \* the device registered again before it was disabled
    failures

vars == <<attempts, sends, senders, worker, busy, enabled, installed, overtaken, failures>>

Attempt == [channel: {"sms", "push"}, linked: BOOLEAN,
            status: {"pending", "sent", "failed"},
            retries: 0..maxNotificationRetries, due: BOOLEAN]
Outcomes == {"sent", "failed", "unregistered"}

IdleSender == [pc |-> "idle", row |-> 0, result |-> "sent"]
Sender == [pc: {"idle", "claimed", "inserted", "disable", "complete"},
           row: 0..MaxRows, result: Outcomes]
IdleWorker == [pc |-> "idle", batch |-> <<>>, result |-> "sent"]

TypeOK ==
    /\ attempts \in Seq(Attempt) /\ Len(attempts) <= MaxRows
    /\ sends \in [1..MaxRows -> Nat]
    /\ senders \in [Senders -> Sender]
    /\ \A s \in Senders : senders[s].row <= Len(attempts)
    /\ worker.pc \in {"idle", "open", "update"} /\ worker.result \in Outcomes
    /\ worker.batch \in Seq(1..Len(attempts)) /\ Len(worker.batch) <= BatchSize
    /\ busy \in 0..Conns
    /\ enabled \in BOOLEAN /\ installed \in BOOLEAN /\ overtaken \in BOOLEAN
    /\ failures \in 0..MaxFailures

Init ==
    /\ attempts = <<>> /\ sends = [i \in 1..MaxRows |-> 0]
    /\ senders = [s \in Senders |-> IdleSender]
    /\ worker = IdleWorker /\ busy = 0
    /\ enabled \in BOOLEAN /\ installed = enabled /\ overtaken = FALSE
    /\ failures = 0

Free == busy < Conns
Fails == failures < MaxFailures /\ failures' = failures + 1
Device == <<enabled, installed, overtaken>>

-----------------------------------------------------------------------------
(* sendNotification, sendPushForPhone (from a Fulfill) and PushNotification. *)

\* The claim takes a connection of its own and keeps it.
Claim(s) ==
    /\ senders[s] = IdleSender /\ s \in Fulfillments
    /\ Len(attempts) < MaxRows
    /\ Free /\ busy' = busy + 1
    /\ senders' = [senders EXCEPT ![s].pc = "claimed"]
    /\ UNCHANGED <<attempts, sends, worker, Device, failures>>

\* The lock is not granted, or there is nothing (more) to say.
Release(s) ==
    /\ senders[s].pc = "claimed"
    /\ senders' = [senders EXCEPT ![s] = IdleSender] /\ busy' = busy - 1
    /\ UNCHANGED <<attempts, sends, worker, Device, failures>>

\* The pending row is written first, with the transaction of a fulfillment or,
\* for a push of an administrator, with NULL; a push needs an enabled device.
InsertAttempt(s, channel) ==
    /\ IF s \in Fulfillments THEN senders[s].pc = "claimed"
                             ELSE senders[s] = IdleSender /\ channel = "push"
    /\ channel = "push" => PushSender /\ enabled
    /\ Len(attempts) < MaxRows /\ Free
    /\ attempts' = Append(attempts,
          [channel |-> channel, linked |-> s \in Fulfillments, status |-> "pending",
           retries |-> 0, due |-> TRUE])
    /\ senders' = [senders EXCEPT ![s] =
                      [pc |-> "inserted", row |-> Len(attempts) + 1, result |-> "sent"]]
    /\ UNCHANGED <<sends, worker, busy, Device, failures>>

\* What a provider may answer for row i; only the push service knows devices.
Answers(i, result) ==
    /\ result = "unregistered" => attempts[i].channel = "push" /\ ~installed
    /\ result = "sent" /\ attempts[i].channel = "push" => installed
    /\ IF result = "failed" THEN Fails ELSE UNCHANGED failures

\* Mutant: any error of the push service disables the device.
SendAndDisable(s, result) ==
    LET i == senders[s].row
    IN  /\ senders[s].pc = "inserted"
        /\ Answers(i, result)
        /\ sends' = [sends EXCEPT ![i] = @ + 1]
        /\ senders' = [senders EXCEPT ![s].result = result,
              ![s].pc = IF result # "sent" THEN "disable" ELSE "complete"]
        /\ UNCHANGED <<attempts, worker, busy, Device>>

Send(s, result) ==
    LET i == senders[s].row
    IN  /\ senders[s].pc = "inserted"
        /\ Answers(i, result)
        /\ sends' = [sends EXCEPT ![i] = @ + 1]
        /\ senders' = [senders EXCEPT ![s].result = result,
              ![s].pc = IF result = "unregistered" THEN "disable" ELSE "complete"]
        /\ UNCHANGED <<attempts, worker, busy, Device>>

\* By the token alone: a registration since the send is undone.
DisablePushDevice(s) ==
    /\ senders[s].pc = "disable" /\ Free
    /\ \/ enabled' = FALSE /\ UNCHANGED failures
       \/ Fails /\ UNCHANGED enabled
    /\ senders' = [senders EXCEPT ![s].pc = "complete"]
    /\ UNCHANGED <<attempts, sends, worker, busy, installed, overtaken>>

StatusOfSend(result) == IF result = "sent" THEN "sent" ELSE "failed"

\* An error of this UPDATE is discarded: the row stays pending.
Complete(s) ==
    /\ senders[s].pc = "complete" /\ Free
    /\ \/ /\ attempts' = [attempts EXCEPT ![senders[s].row].status =
                             StatusOfSend(senders[s].result)]
          /\ UNCHANGED failures
       \/ Fails /\ UNCHANGED attempts
    /\ senders' = [senders EXCEPT ![s] =
          IF s \in Fulfillments THEN [IdleSender EXCEPT !.pc = "claimed"] ELSE IdleSender]
    /\ UNCHANGED <<sends, worker, busy, Device>>

-----------------------------------------------------------------------------
(* NotificationRetry.run.                                                  *)

\* Mutant: every row whose time has come is selected.
DueWhateverStatus(i) ==
    attempts[i].retries < maxNotificationRetries /\ attempts[i].due

\* Mutant: one retry more than allowed.
DueOnceMore(i) ==
    /\ attempts[i].status = "failed"
    /\ attempts[i].retries <= maxNotificationRetries /\ attempts[i].due

Due(i) ==
    /\ attempts[i].status = "failed"
    /\ attempts[i].retries < maxNotificationRetries /\ attempts[i].due

\* Rows the worker passes over: a NULL transaction does not scan, and a push
\* waits for a worker that has a sender.
Skipped(i) == ~attempts[i].linked \/ (attempts[i].channel = "push" /\ ~PushSender)

\* The oldest rows first, at most BatchSize, read over a connection that stays
\* out of the pool until the last row is done.
Query ==
    LET due == {i \in DOMAIN attempts : Due(i)}
        oldest == {i \in due : Cardinality({j \in due : j <= i}) <= BatchSize}
        batch == [n \in 1..Cardinality(oldest) |->
                     CHOOSE i \in oldest : Cardinality({j \in oldest : j <= i}) = n]
    IN  /\ worker.pc = "idle" /\ Free
        /\ due # {}
        /\ worker' = [worker EXCEPT !.pc = "open", !.batch = batch]
        /\ busy' = busy + 1
        /\ UNCHANGED <<attempts, sends, senders, Device, failures>>

Skip ==
    /\ worker.pc = "open" /\ worker.batch # <<>>
    /\ Skipped(Head(worker.batch))
    /\ worker' = [worker EXCEPT !.batch = Tail(@)]
    /\ UNCHANGED <<attempts, sends, senders, busy, Device, failures>>

SendAgain(result) ==
    LET i == Head(worker.batch)
    IN  /\ worker.pc = "open" /\ worker.batch # <<>>
        /\ ~Skipped(i) /\ Answers(i, result)
        /\ sends' = [sends EXCEPT ![i] = @ + 1]
        /\ worker' = [worker EXCEPT !.pc = "update", !.result = result]
        /\ UNCHANGED <<attempts, senders, busy, Device>>

\* Mutant: only successful retries are counted.
UpdateUncounted ==
    LET i == Head(worker.batch)
    IN  /\ worker.pc = "update" /\ Free
        /\ attempts' = [attempts EXCEPT
              ![i].status = StatusOfSend(worker.result), ![i].due = FALSE,
              ![i].retries = IF worker.result = "sent" THEN @ + 1 ELSE @]
        /\ worker' = [pc |-> "open", batch |-> Tail(worker.batch), result |-> "sent"]
        /\ UNCHANGED <<sends, senders, busy, Device, failures>>

\* Mutant: a message that failed again is left as it was written first.
UpdateOnce ==
    LET i == Head(worker.batch)
    IN  /\ worker.pc = "update" /\ Free
        /\ attempts' = [attempts EXCEPT
              ![i].status = IF worker.result = "sent" THEN "sent" ELSE "pending",
              ![i].due = FALSE, ![i].retries = @ + 1]
        /\ worker' = [pc |-> "open", batch |-> Tail(worker.batch), result |-> "sent"]
        /\ UNCHANGED <<sends, senders, busy, Device, failures>>

\* The outcome and the count in one statement; its error is only logged.
Update ==
    LET i == Head(worker.batch)
    IN  /\ worker.pc = "update" /\ Free
        /\ \/ /\ attempts' = [attempts EXCEPT
                    ![i].status = StatusOfSend(worker.result), ![i].due = FALSE,
                    ![i].retries = @ + 1]
              /\ UNCHANGED failures
           \/ Fails /\ UNCHANGED attempts
        /\ worker' = [pc |-> "open", batch |-> Tail(worker.batch), result |-> "sent"]
        /\ UNCHANGED <<sends, senders, busy, Device>>

Close ==
    /\ worker.pc = "open" /\ worker.batch = <<>>
    /\ worker' = IdleWorker /\ busy' = busy - 1
    /\ UNCHANGED <<attempts, sends, senders, Device, failures>>

\* next_retry_at passes.
BecomesDue(i) ==
    /\ ~attempts[i].due
    /\ attempts' = [attempts EXCEPT ![i].due = TRUE]
    /\ UNCHANGED <<sends, senders, worker, busy, Device, failures>>

-----------------------------------------------------------------------------
(* The device, and the process.                                            *)

\* UpsertPushDevice: registering enables the device again.
UpsertPushDevice ==
    /\ Free /\ PushSender
    /\ enabled' = TRUE /\ installed' = TRUE
    /\ overtaken' = (overtaken \/ \E s \in Senders : senders[s].pc = "disable")
    /\ UNCHANGED <<attempts, sends, senders, worker, busy, failures>>

Uninstall ==
    /\ installed /\ installed' = FALSE
    /\ UNCHANGED <<attempts, sends, senders, worker, busy, enabled, overtaken, failures>>

Crash ==
    /\ Fails
    /\ senders' = [s \in Senders |-> IdleSender]
    /\ worker' = IdleWorker /\ busy' = 0
    /\ UNCHANGED <<attempts, sends, Device>>

SenderStep(s) ==
    \/ Claim(s) \/ Release(s)
    \/ \E channel \in {"sms", "push"} : InsertAttempt(s, channel)
    \/ \E result \in Outcomes : Send(s, result)
    \/ DisablePushDevice(s) \/ Complete(s)

WorkerStep ==
    \/ Query \/ Skip \/ (\E result \in Outcomes : SendAgain(result)) \/ Update \/ Close

Next ==
    \/ \E s \in Senders : SenderStep(s)
    \/ WorkerStep \/ (\E i \in DOMAIN attempts : BecomesDue(i))
    \/ UpsertPushDevice \/ Uninstall \/ Crash

\* The worker's ticker and a running call go on, and a connection that is put
\* back goes to a request that waits for one; the next retry becomes due.
Fairness ==
    /\ SF_vars(WorkerStep)
    /\ \A i \in 1..MaxRows : WF_vars(i \in DOMAIN attempts /\ BecomesDue(i))
    /\ \A s \in Senders : SF_vars(SenderStep(s) /\ senders[s] # IdleSender)

Spec == Init /\ [][Next]_vars /\ Fairness

-----------------------------------------------------------------------------
(* Properties.                                                             *)

\* A message is handed to the provider once, and once more for every counted
\* retry; only a failing UPDATE or a crash after a send adds to that.
Sending(i) ==
    \/ \E s \in Senders : senders[s].row = i /\ senders[s].pc \in {"disable", "complete"}
    \/ worker.pc = "update" /\ Head(worker.batch) = i
DeliveriesCounted ==
    \A i \in DOMAIN attempts :
        sends[i] <= 1 + attempts[i].retries + failures + (IF Sending(i) THEN 1 ELSE 0)

\* A message that is recorded as sent is not sent again.
SentMessagesRest ==
    [][\A i \in DOMAIN attempts :
          attempts[i].status = "sent" => sends'[i] = sends[i]]_vars

\* The connections in use are those a claim or an open result set holds: no
\* way out of them keeps one.
Holders == {s \in Fulfillments : senders[s] # IdleSender}
ConnectionsReturn ==
    busy = Cardinality(Holders) + (IF worker.pc = "idle" THEN 0 ELSE 1)

\* A device is disabled only when the push service has forgotten it, or when
\* it registered again between the answer and the UPDATE.
LiveDevicesStayEnabled == installed /\ ~enabled => overtaken

\* A failed message of a transaction is sent or given up after its retries,
\* unless rows that the worker passes over fill its batch, or every connection
\* is held, for good, by a call that waits for another one.
Exhausted == busy = Conns
Clogged == Cardinality({i \in DOMAIN attempts : Due(i) /\ Skipped(i)}) >= BatchSize
Resolved(i) ==
    attempts[i].status = "sent" \/ attempts[i].retries = maxNotificationRetries
FailedIsRetried ==
    \A i \in 1..MaxRows :
        (i \in DOMAIN attempts /\ attempts[i].status = "failed" /\ ~Skipped(i))
            ~> ((i \in DOMAIN attempts /\ Resolved(i)) \/ Clogged \/ []Exhausted)
=============================================================================
