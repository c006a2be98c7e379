# Verification of payments-api

TLA+ modules, TLC configurations and machine-checked proofs for the payment
gateway API: the Go service that charges a customer through Paynow, EcoCash or
a mock gateway and, once the money is captured, issues a hotspot voucher or a
subscription.  Paths below are relative to `src/internal/` unless they start
with `src/`.

    tlc -workers 2 -config lifecycle_mock.cfg MCPaymentLifecycle.tla
    tlapm PaymentLifecycle_proofs.tla

## 1. The system

| Component | State | Operations | Talks to |
|---|---|---|---|
| State machine (`payments/statemachine.go`) | the row's `state`, `completed_at` | `Transition`: SERIALIZABLE transaction, `SELECT ... FOR UPDATE`, compare, write | database |
| Payment service (`payments/service.go`) | transaction rows | `Initiate`, `ProcessWebhook`, `PollStatus`, `Cancel`, `Refund`, `triggerFulfillment`, quotes and listings | gateways, state machine, fulfillment, idempotency and replay stores, Django |
| Idempotency and replay stores (`payments/idempotency.go`) | two tables | `CheckAndStore`, `CheckAndLog` | database |
| Poller (`workers/poller.go`) | its batch; `last_polled_at` | every 30 s: look up open rows, re-trigger unfulfilled ones, time old ones out | gateways, state machine, payment service |
| Fulfillment (`fulfillment/`) | radcheck/radreply, vouchers, subscriptions, customers, `voucher_pin` | `Fulfill` under an advisory lock, `Rollback`, adjustments, SMS and push | database, notification providers |
| Gateway adapters (`gateways/`) | poll URLs (Paynow), MSISDN and correlator cache (EcoCash), transaction table (mock): all in memory | `Initiate`, `Status`, `VerifyWebhook`, `Refund`, `PreloadStatusData` | the gateways |
| HTTP layer (`httpapi/`) | none | one goroutine per request; webhooks are always answered 200 | all of the above |
| Identity (`identity/`) | one-time codes, password rows, links, devices, revocations; the HMAC secrets | OTP, password, Google sign-in, tokens, contacts, push devices | notification providers, customer rows of fulfillment |
| Notification retry (`workers/notification_retry.go`) | attempt rows | resend failed messages | notification providers |
| Reconciler (`workers/reconciler.go`) | report rows | not started by the server | gateways |

All goroutines share one MySQL database and nothing else but the adapters'
memory.  What makes the code hard:

* **Interleaving.**  A capture reaches the row through Initiate's synchronous
  answer, any number of webhook requests, the status endpoint and the poller,
  at the same time; each reads the row, does something slow (a gateway call,
  three statements) and then acts on what it read.
* **Several statements that belong together**: idempotency key and row, replay
  log and transition, gateway refund and transition, transition and fulfillment.
* **Crashes** lose every goroutine (pending fulfillments, a running Initiate)
  and the adapters' memory; the poller's sweep and timeout must make up for it.
* **Unreliable gateways**: webhooks lost, late, repeated, reordered or under an
reference; lookups that fail; refunds declined politely; COMMITs and refunds
  that take effect while their answer is lost.
* **Locks on connections**: the fulfillment claim is a `GET_LOCK` on one
  connection while the work is committed on another, out of one small pool.
* **Two sides that recompute**: what a plan change costs is quoted by the
  payment service and checked again, days later, by fulfillment.

What makes each component correct:

* life cycle: a row is completed only for its own captured charge, a capture
  spawns one fulfillment or leaves it to the sweep, terminal rows stay terminal, every payment is
  closed in the end;
* fulfillment: one grant per captured payment, none lost, none revoked unless the
  gateway acknowledged a refund;
* idempotency: one charge per key, the right answer for every retry;
* plan changes: no dearer plan without its price, one purchase per payment, RADIUS
  rows and live session in step;
* identity: a code signs in once, limits are passed by overlapping calls only,
  revoked tokens are refused, claims on contacts do not get lost, and sign-ins
  and purchases of one phone meet at one customer;
* notifications: sends are counted, sent messages rest, failed ones are retried,
  connections return to the pool.

## 2. Modules

| Module | Models | State and actions |
|---|---|---|
| `PaymentStates` | transition table, `TransitionOutcome` | operators only |
| `GatewayEvents` | what each adapter reports for a charge: lookups, webhooks, Initiate's answers | operators only; the gateways are external |
| `PaymentRow` | **abstract**: how a row may move and when a fulfillment is spawned | `state`, `completedAt`, `triggers`; Insert, Transition, TransitionUnacknowledged, TimeOut, InitiateWrite, InitiateWriteLost, Restart |
| `PaymentLifecycle` | Initiate, ProcessWebhook, PollStatus, Cancel, poller, timeout, crash | rows, charges, adapter memory, webhooks sent, replay log, one program counter per request and one for the poller; one action per statement or gateway call |
| `VoucherContract` | **abstract**: what payer and operator are promised | sets `paid`, `granted`, `acknowledged`, `access`, and how often each payment was `returned` |
| `Fulfillment` | triggerFulfillment with retries, claim, marker, commit, sweep, Refund; the row moves as `PaymentRow` allows | row, marker, grants, lock, money returned, one program counter per fulfillment and per refund |
| `Idempotency` | CheckAndStore, the row's INSERT, the charge, retrying clients | key table, rows and charges per key, the owner derived for each client, one program counter per client |
| `PlanChange` | quote, payment and fulfillment of a plan change, the free change, purchases of subscriptions, CoA pushes | subscriptions, payments with their quotes, audit rows, RADIUS group, live session, one program counter per goroutine or request; `strayed` is a goroutine whose claim was lost |
| `Notifications` | attempt rows, the calls that write and send them, retry worker, one push device, connection pool | rows, sends per row, busy connections, device, one program counter per call and one for the worker |
| `OneTimeCodes` | RequestOTP, VerifyOTP | rows of payments_otptoken in order, one program counter per request and verification |
| `IdentityTokens` | IssueToken, ValidateTokenFull, IdentityRevoked, RevokeIdentity, rotation of the secret | clock, tokens (with or without key id and issue time), revocations, primary and previous secret |
| `PasswordSessions` | login, change, reset and registration of a password, over `IdentityTokens` | failure counter and lock, wrong passwords compared, one program counter per call |
| `IdentityLinks` | RegisterVerifiedContact, EnsureSelfCustomer, EnsureBuyerCustomer, AddContact, PromoteContact, legacy upgrade | customers, links, the customer each purchase is attached to, one local state per call |
| `*_proofs` | theorems about the module of that name | |
| `MC*` | constants and symmetry for TLC | |

How they fit together: `PaymentLifecycle` implements `PaymentRow` (checked by
TLC, proved by TLAPS), and `Fulfillment` is built on `PaymentRow`'s actions, so
that fulfillment is checked against every way the life cycle may move a row
without multiplying the two state spaces.  `Fulfillment` implements
`VoucherContract`.  `Idempotency` stands in front of Initiate.  `PlanChange` is
what a fulfillment of the kinds subscription and subscription_adjustment
commits, `Notifications` what Fulfill does between its claim and its release,
`IdentityLinks` who the buyer is and what a sign-in registers once
`OneTimeCodes` or `PasswordSessions` has let it in; `PasswordSessions` extends
`IdentityTokens`.

Abstractions, module by module:

* **Amounts** are `amountOk` or not (the webhook's amount equals the row's).
* **A webhook** is a transaction, a state, an event type, whether its amount
  fits, and whether its reference is the one Initiate stored (EcoCash may use
  another).  `inbox` is the set of webhooks ever sent: delivering one does not
  remove it, so every webhook may come any number of times, in any order, or
  never.  Two webhooks with the same body are one event to the replay log.
* **A charge** is the gateway's own truth.  `captured` means what the adapter
  recognises as paid; an EcoCash success without a wallet reference counts as
  `declined`, as `mapEcoCashTxnState` counts it.  An EcoCash charge response is
  pending, successful or failed, not yet cancelled or reversed.
* **Transactions** of one `PaymentLifecycle` instance share gateway and price.
  Each has a phone and a correlator (`PhoneOf`, `CorrelatorOf`): EcoCash's
  correlator is the idempotency key, or the Unix second of a keyless payment
  (`gateways/ecocash/adapter.go:153-157`), and is looked up without the phone.
* **`Transition`** is one atomic step (one SERIALIZABLE transaction with a row
  lock).  It may fail and change nothing, or take effect while the answer to its
  COMMIT is lost (`payments/statemachine.go:179`): then the row is moved and
  stamped and the caller, which sees an error, spawns nothing.
* **A refund** at the gateway may be accepted any number of times (the mock's
  table is lost at a restart, `gateways/mock/adapter.go:268-293`), be refused, be
  declined with an answer that reads as success (EcoCash), or send the money and
  lose the answer.  `returned` counts the times the money went back,
  `acknowledged` says that Refund saw a success.
* **A fulfillment's commit** is one step: what a voucher, a subscription or an
  adjustment writes is one database transaction ending in `voucher_pin`.
  `IssueUnacknowledged` is the commit whose answer is lost.
* **`access`** says whether the credentials of a grant are in radcheck.
* **Money of plan changes** is in minor units; `Lossy` are the amounts that
  `int64(amount*100)` makes one unit smaller, and proration is integer
  arithmetic that rounds halves away from zero, as `math.Round` does.
* **Days** pass by an action that takes one from every subscription; a new
  subscription has one whole day less than its period, as hours divided by 24.
* **`disturbed`** (`PlanChange`, `IdentityLinks`) records that something came in
  between which the code answers for later (a failed push, an overlapping
  call, a link that was not written); the property is about the executions where nothing did.
* **One-time codes** are their rows: two random codes are taken to differ.  Ten
  minutes and an hour pass by `Expire` and `Age`.
* **Tokens** carry a second while a clock of two instants per second runs, since
  `revoked_at` is finer than `iat`; only the first `MaxTokens` are followed.
* **A phone** is one line, stored in local or international form; the
  trailing-nine rule relates the two, an equality of columns does not.
* **A provider** sends, fails, or (push) has forgotten the device.
* **The request hash** is the body and the owner the handler stamped on the
  request: nothing, the verified contact, or the customer linked to it.  The
  handler derives it anew for every request (`httpapi/handlers.go:123-149`), so it
  varies with the token, the links and the failures of its lookups.
* **MySQL** evaluates the assignments of an UPDATE from left to right: the `CASE`
  of `identity/password.go:297-302` reads the incremented `failed_attempts`.

## 3. Runs

Passing (every one also checks that the other questions are about reachable,
well-typed states, where its list begins with `TypeOK`):

| Run | Question | Instance |
|---|---|---|
| `lifecycle_mock` | does one capture spawn one fulfillment only (`OneTriggerPerCapture`) or leave it to the sweep (`CompletionsAreSeen`), is every step one of `PaymentRow` (`ImplementsRow`)? | 1 payment, 2 requests, poller, 1 crash, 2 webhooks |
| `lifecycle_paynow` | is a completed row a captured charge (`CompletedMeansCaptured`), is every payment closed (`EventuallySettled`)? | 1 payment, 1 request, poller, 1 crash, 2 webhooks |
| `lifecycle_ecocash` | with fallback matching, does a completed row follow the capture of a payment it can be taken for (`CompletionsFollowCaptures`)? | 2 of 3 payments (1 and 2 of one correlator, 1 and 3 of one phone, 2 and 3 unrelated), 1 request, 1 webhook, any number of times; no poller, no crash |
| `fulfillment_vouchers` | is one voucher issued (`OneVoucherPerPayment`), is `VoucherContract` kept (`ImplementsContract`), how often does the money go back (`RefundsAreExplained`)? | 1 voucher, 2 fulfillments, 2 administrators, money back up to 4 times, 2 pending triggers, 1 crash, 2 failing calls |
| `fulfillment_liveness` | is a stamped debt paid (`StampedDebtIsPaid`)? | 1 subscription, 1 crash, 3 failing calls, 1 lost lock |
| `idempotency_keys` | one charge per key (`OneChargePerKey`), right answers (`AnswersMatchRequest`), every retry answered (`RetriesAreAnswered`) | 2 clients, 1 key, 2 bodies, owner stamped or not, 1 crash, 2 failing statements or lookups |
| `plan_change` | is every dearer plan paid for (`ChangesArePaid`), does a payment buy once (`OnePurchasePerPayment`), does the session follow the plan (`SessionFollowsPlan`), why is a paid quote refused (`UnderpaidIsExplained`)? | 2 subscriptions, 2 plans (12 for 4 days, 100 for 3), 1 payment, 2 goroutines, 2 free requests, 2 of them at a time, 2 changes, 1 failure, crash or lost claim |
| `notifications` | are sends counted (`DeliveriesCounted`), do sent messages rest (`SentMessagesRest`), are failed ones retried (`FailedIsRetried`), do live devices stay enabled (`LiveDevicesStayEnabled`)? | 2 fulfillments, 1 administrator, 2 connections, batch of 1, 2 retries, 2 messages, 2 failures or crashes |
| `one_time_codes` | does a code sign in once (`CodeSignsInOnce`), who passes the limits (`LiveCodesOverlapped`, `AttemptsAreLimited`, `CodesPerHourAreLimited`)? | 2 requests, 2 verifications, 1 code an hour, 2 attempts, 3 rows, 1 failure or crash |
| `password_sessions` | are revoked tokens refused (`RevokedTokensAreRefused`), guesses counted (`GuessesBeforeLock`), does acceptance end once (`AcceptanceEndsOnce`), does the owner get in (`OwnerGetsIn`)? | 2 logins, 1 change or reset, `passwordLockAfter` 3, any number of wrong logins, 1 uncounted wrong password, 1 token followed, 1 revocation, 2 secrets, 3 half seconds, 1 failure |
| `identity_links` | do claims stand (`ClaimsStand`), do tiers rise (`TiersRise`), does one phone have one customer (`OneCustomerPerPhone`)? | 3 calls, 2 at a time, 1 e-mail, 1 phone in 2 forms, 2 purchases, 3 customers |

One run shows a disagreement between the code and what a comment says of it
(`PROJECT.json` quotes the line): `fulfillment_sync_lost` refutes `DebtIsPaid`.
A payment that Initiate completes synchronously has `completed_at` NULL, so the
sweep never selects it, and a crash before its fulfillment commits loses it.

What the passing runs do not promise.  Where a bullet names a run, changing the
constant or adding the property in its cfg makes TLC show it; the others are
what the statement of the named property leaves room for:

* `lifecycle_mock` with `Gateway = "ecocash"`: `ImplementsRow` and
  `OneTriggerPerCapture` are violated.  Initiate's unconditional UPDATE
  (`payments/service.go:368`) reopens a row that a webhook matched by phone has
  closed meanwhile; and a synchronous completion whose UPDATE failed has spawned
  a fulfillment when such a webhook spawns the second.
* `lifecycle_ecocash` with `CompletedMeansCaptured`: violated.  A webhook about a
  closed payment completes the open one of the same phone
  (`payments/service.go:941`), or of another phone whose keyless payment was placed
  in the same second (`payments/service.go:896-911`).
* A completed row need not have its fulfillment spawned, before any restart: a
  `Transition` whose COMMIT answer was lost leaves it to the sweep.
  `CompletionsAreSeen` says that it is stamped, so that the sweep selects it.
* `lifecycle_paynow` with `CompletedEventsAreGuarded`: Paynow's "awaiting
  delivery" completes a row past the amount guard (`payments/service.go:1008`).
* `lifecycle_mock` with `LoggedWebhookTookEffect`: after a crash between replay
  log and transition the gateway's retry is dropped (`payments/idempotency.go:154`).
* `fulfillment_vouchers` with `RefundedIsRevoked`: a refunded webhook that
  overtakes Refund leaves the voucher usable (`payments/service.go:1936`).
* `fulfillment_vouchers` with `MaxLockLosses = 1`: `OneVoucherPerPayment` is
  violated.  The claim's connection is lost, its owner does not notice
  (`fulfillment/service.go:117`), and two goroutines issue.
* A payment may be sent back twice, and more often: Refund calls the gateway
  before any lock or transition (`payments/service.go:1927`), so two
  administrators, or one who asks again after a crash or an error, each reach it.
  `RefundsAreExplained` bounds the number of times; nothing bounds it to one.
* A refund that EcoCash declines with HTTP 200 and `failed` counts as one
  (Refund discards the state) and revokes the voucher without money going
  back; `VoucherContract` asks for an acknowledged refund only.
* `plan_change`: a goroutine whose claim's connection was lost goes on, and the
  payment may buy twice.  `OnePurchasePerPayment` allows one purchase more for
  each lost claim; the insert does not read the marker again
  (`fulfillment/service.go:126-139`).
* `fulfillment_liveness` with `KindOf <- Adjustments`: `StampedDebtIsPaid` is
  violated, since the sweep (`workers/poller.go:152`) leaves that kind out.
* `idempotency_keys` with the property `KnownKeysAreAnswered`: a key whose row
  was not written fails every retry; and without any crash or failure a retry
  is refused for good because the buyer was linked to a customer, or the token
  expired, in between (`payments/service.go:147`, `httpapi/handlers.go:123-149`).
* The account locks one wrong password before the "5 failures" of the comment
  (`identity/password.go:241`): `GuessesBeforeLock` has the limit of the UPDATE.
  ChangePassword compares wrong current passwords without counting or limiting
  them (`identity/password.go:362`); they are `uncounted`.
* "Higher tiers supersede lower ones" and "a newer OTP-verified claim always
  wins" (`identity/contacts.go:7`, `:60-61`) are not what a sign-in does:
  linkContact leaves another customer's self-added, unverified claim where it is,
  and only AddContact takes a claim over.  `ClaimsStand` states the code's rule.
* Two payments without a key collide when `idempotency_key` is UNIQUE
  (`UniqueKeyColumn`), as `testutil/db.go:292` declares it, since Initiate
  stores `''`; the production schema is the Django project's.

Exceptions that a property itself names, because the code has them:

* `UnderpaidIsExplained`: quote and guard take different billing periods
  (`payments/service.go:2214`, `fulfillment/adjustment.go:182`) although the
  comment above the quote says that they recompute the same, the plan changed
  since the quote, or the amount lost a unit as a binary fraction.
* `FailedIsRetried`: rows of an administrator's push have a NULL transaction
  that does not scan, so they are never retried and take places in the batch
  (`Clogged`); and fulfillments that hold every connection wait for each other
  for good (`[]Exhausted`).
* `LiveDevicesStayEnabled`: a device that registers again between the push
  service's answer and the UPDATE is disabled (`overtaken`).
* `RetriesAreAnswered`: the key lost its row (`Orphaned`), or was stored with
  another owner than the handler derives now (`OwnerDiffers`).
* `OwnerGetsIn`: wrong passwords are counted for ever.  The counter stays at its
  limit when the lock elapses, so one wrong password every 15 minutes locks the
  account again and keeps the owner out (`identity/password.go:297-302`).
* `SessionFollowsPlan`: a failed or missing push (no Django client), overlapping
  changes and the purchase of a
  further subscription leave the session with other speeds until its next login.
* `OneCustomerPerPhone`: calls that overlap or fail (a best-effort link whose
  error is only logged is such a failure), contacts that were self-added or
  promoted, and rows older than the links may leave two customers; and a
  logged-in buyer's purchase goes to the buyer's own customer, whatever contact
  was typed (`fulfillment/voucher.go:126-133`).
* The limits of `OneTimeCodes` and `GuessesBeforeLock` are exact up to the
  calls that overlap; increments that fail are not made up for.

### Bounds

Every bound is a constant with a guard.  `MaxCrashes`: a crash resets all local
state, so one puts a restart between any two steps; `MaxFailures` lets every
retry be needed; `MaxWebhooks` counts *different* webhooks (each is delivered
without limit): two suffice for a capture and a reversal, or a capture reported
in two ways; two request goroutines make every pair of handlers race, with the
poller and Initiate as third and fourth party.  One transaction per instance
suffices except where transactions are confused with each other, which only
EcoCash's fallbacks do: there two are placed (`MaxPayments`), of three that cover
one phone, one correlator and neither, and `RequestSpec` leaves the poller out.
`MaxRefunds` bounds how often money goes back: four is what two administrators
reach with one crash.  `MaxFailures` of `plan_change` also bounds the claims that
are lost, and `MaxRunning` the goroutines and requests that run at a time: with
two, any two of them meet: two goroutines that both think they hold the claim, a
goroutine and a free change, two free changes.
`MaxUncounted` bounds the wrong passwords that are not counted.  `Owners` are the
values the handler can stamp; two suffice, since the hash only compares them.
`MaxTriggers`, `MaxKeyless`, `MaxCodes`, `MaxSets`, `MaxTokens`,
`MaxRevocations`, `MaxKeys`, `MaxClock`, `MaxStarted`, `MaxCustomers`,
`MaxRows`, `MaxChanges` keep counters and tables finite.
`idempotency_keys` has no UNIQUE index on the row's key column, so that the key
table alone must keep a key from being charged twice.

The identity limits are 1, 2 and 3 instead of 5 (the code is uniform in them,
and the proofs are for any value); an account locks at its second wrong password
when `passwordLockAfter` is 3.  Three codes let a third request meet two live
ones.  A clock of three half seconds holds a mint and a revocation within one
second and in two.  Two plans of different price and period, both cheap enough
that every net is a small number, make up- and downgrades, free changes and
quotes that drift; two subscriptions let the RADIUS rows change hands.  Two
connections are the smallest pool in which one claim works and two deadlock; a
batch of one lets a single row clog it.  Three calls let a third one find what
two that raced have left.  Symmetry is declared for interchangeable requests,
goroutines, refunds, calls and subscriptions, in runs without liveness only.

### Fairness

The payment runs need: goroutines already started run on, time passes
(`GrowOld`), the poller's ticker fires, its timeout UPDATE succeeds if tried
again and again (strong fairness), and a fulfillment waiting for a lock that
keeps being freed gets it (strong fairness of `Claim`).  Nothing is assumed of
gateways, clients or administrators: webhooks may never come, lookups may always
fail.  One exception, part of the property's meaning: in `idempotency_keys` a
client without an answer sends its request again.

In `Notifications` the retry worker's ticker fires, next_retry_at passes, and a
call that waits for a connection gets one that keeps being returned (strong
fairness, since database/sql queues waiters in order).  In `PasswordSessions` the
lock elapses, running calls end, and the owner, in the meaning of `OwnerGetsIn`,
keeps sending the right password; the other login may do anything, and
`OwnerGetsIn` excepts the runs in which wrong passwords are counted for ever.
The other modules have no liveness property and state no fairness.

Deadlock checking is off in the runs where everything may be over (all bounds
used up, all clients answered); in the life cycle runs it is on.

## 4. Proofs

| Theorem | States | Assumes |
|---|---|---|
| `PaymentLifecycle_proofs!TypeCorrect` | `[]TypeOK` | |
| `CompletedIsCaptured` | `[]CompletedMeansCaptured` | gateway is not EcoCash |
| `OneTrigger` | `[]OneTriggerPerCapture` | gateway is not EcoCash |
| `LifecycleImplementsRow` | `Spec => Row!Spec` | gateway is not EcoCash |
| `CompletionsSeen` | `[]CompletionsAreSeen` | gateway is not EcoCash |
| `CompletionsFollow` | `[]CompletionsFollowCaptures` | |
| `UnsharedPaymentIsCaptured` | `[]CompletedMeansCaptured` | no two payments share phone or correlator |
| `TerminalStays` | `TerminalRowsStay` | gateway is not EcoCash |
| `CompletionsGuarded` | `[]CompletedEventsAreGuarded` | gateway is not Paynow |
| `Fulfillment_proofs!TypeCorrect` | `[]TypeOK` | |
| `ClaimsExclude` | `[](ClaimExcludes /\ OneVoucherPerPayment)` | no claim connection lost |
| `LostClaimsCostOneEach` | `[]` at most one voucher plus one per lost connection | |
| `FulfillmentImplementsContract` | `Spec => Contract!Spec` | no claim connection lost |
| `RefundsExplained` | `[]RefundsAreExplained` | |
| `Idempotency_proofs!TypeCorrect` | `[]TypeOK` | |
| `KeysProtect` | `[](OneChargePerKey /\ AnswersMatchRequest)` | |
| `AnswersAreForTheRequest` | `[]AnswersMatchRequest` | |
| `OneTimeCodes_proofs!TypeCorrect` | `[]TypeOK` | |
| `CodesSignInOnce` | `[]CodeSignsInOnce` | |
| `LiveCodesLimited`, `HourlyCodesLimited` | `[]LiveCodesOverlapped`, `[]CodesPerHourAreLimited` | |
| `AttemptsLimited` | `[]AttemptsAreLimited` | |
| `PasswordSessions_proofs!TypeCorrect` | `[]TypeOK` | |
| `RevocationHolds` | `[]RevokedTokensAreRefused` | |
| `GuessesLimited` | `[]GuessesBeforeLock` | |
| `AcceptanceEndsForGood` | `AcceptanceEndsOnce` | |
| `PlanChange_proofs!TypeCorrect` | `[]TypeOK` | |
| `NoChangeUnpaid` | `[]ChangesArePaid` | |
| `PaymentBuysOnce` | `[]OnePurchasePerPayment` | |
| `SessionHasItsSpeeds` | `[]SessionFollowsPlan` | |
| `RefusalsExplained` | `UnderpaidIsExplained` | |
| `Notifications_proofs!TypeCorrect` | `[]TypeOK` | |
| `ConnectionsComeBack` | `[]ConnectionsReturn` | |
| `DisabledDevicesAreGone` | `[]LiveDevicesStayEnabled` | |
| `SendsAreCounted` | `[]DeliveriesCounted` | |
| `SentStaysSent` | `SentMessagesRest` | |
| `IdentityLinks_proofs!TypeCorrect` | `[]TypeOK` | |
| `OneRowPerPhone` | `[]OneCustomerPerPhone` | |
| `ClaimsChangeByTakeOver`, `TiersNeverFall` | `ClaimsStand`, `TiersRise` | |

They hold for any number of transactions, requests, clients, crashes and
failures, and those of `PlanChange` for any prices and billing periods.  The
list of limits above says what fails without the assumptions on EcoCash, Paynow
and lost connections; `CompletionsFollow`, `UnsharedPaymentIsCaptured` and
`LostClaimsCostOneEach` say what remains without them.

* **Life cycle.**  The invariant `LifecycleInv` says why Initiate's
  unconditional UPDATE is harmless when webhooks are matched by reference only:
  until Initiate is through, the row has no reference (`OwnRow`), so no webhook,
  poll or cancel has ever found it; and everybody who is about to write
  `completed` got it from a charge that is paid (`SoundEvent`, `SoundTask`,
  `SoundRun`), which stays paid.  None of this follows from
  `CompletedMeansCaptured` alone, which is not inductive.  `TriggerInv` adds
  that a fulfillment is spawned by a step that closes the row, or by an
  Initiate whose row nobody will ever find, and that a row completed without
  one is stamped.  With both, each action is shown to
  be a step or a stutter of `PaymentRow` (`RowStep`), and terminal rows stay
  because `PaymentRow` keeps them.  `GuardInv` carries the amount check from
  the guard to the transition.
  EcoCash's fallback breaks `OwnRow` (it can name a row whose Initiate is still
  running, or another payment's), so what is left for it rests on an invariant
  of its own: `CaptureInv` keeps with every completion somebody holds, be it the
  row, its Initiate, a matched webhook or a lookup, a capture of a payment that
  shares phone or correlator with the row.  Where no two payments share either,
  that is `CompletedMeansCaptured`.
* **Fulfillment.**  `ClaimInv`: a goroutine past its claim holds the lock; one
  about to issue found no marker and nobody else can have set it; every issue
  left its marker.  `PaidInv` and `RefundInv` trace every issue back to a
  capture and every rollback to an acknowledged refund; with them each step maps
  to a `VoucherContract` step or a stutter.  `RefundBound` counts the money that
  went back: while the row is `completed` each return is held by a Refund that
  has its answer, or was paid for by a failure or a crash; once the row has left
  that state only the Refunds that read it before can add to it.
  When connections are lost, `ClaimInv` fails and `StrayInv` takes its place:
  the vouchers issued, the goroutines that still think they hold the claim
  (`Strays`) and a holder about to issue add up to no more than one and the
  connections lost, because once the marker is there no new holder issues.
* **Idempotency.**  `KeyInv`: of all requests with one key only the one whose
  INSERT stored the key (`OneHolder`) is past the key table; it has charged
  nobody and the row, if any, is of its body.

* **One-time codes.**  Each limit is a sum that no step increases: live codes
  plus requests about to store one (`LiveInv`), recent codes plus requests that
  passed the count (`HourInv`), a row's attempts plus verifications about to add
  one (`AttemptInv`).  The limits alone are not inductive, since the step that
  breaks one was prepared by another statement.  `ConsumedInv` says that the
  call which consumed a code is the only one that holds it.
* **Password sessions.**  `GuessInv` charges every wrong password to the counter,
  to a login about to increment it, to a failure, or to the uncounted ones, and
  keeps the counter of an unlocked account two below the limit, where the UPDATE
  locks; `CountInv` has the types.  `KeysInv` (no token of a secret still to come)
  is what keeps a rotation from reviving a token.

* **Plan changes.**  `Typed` adds to the types what a goroutine or request
  refers to (`Fits`): a job works for a captured payment, whose subscription,
  kind and amount no later step touches (`TxnKeeps`), and a request holds an
  existing subscription.  `Step` then sorts all actions into those that buy
  nothing, purchases and changes.  `AuditPaid` keeps the amount of a payment
  named by an audit row from changing.  `SpendInv` is what makes `OnePurchasePerPayment`
  inductive: the marker alone does not exclude a second goroutine that read it
  before.  What a payment has bought and the goroutines that may still spend it
  (`Entrants`) add up to no more than one and the claims lost (`SpendBound`): at
  most one of them holds the claim (`ClaimInv`), the others are `Strays`.  Two
  purchases therefore take a lost claim, and a third takes two.
  `SessionInv` says of every job and request between its change and its CoA
  which plan it is about to push (`GoodWork`), so that the session's speeds are
  always somebody's unfinished business or disturbed; `OnceInv` keeps a second
  goroutine of one change from starting.  `PriceInv` keeps with every payment
  the quote it came from, with at least as many days left as there are now; the
  price of fewer days is never more (`DivisionGrows`, `FewerDaysCostLess`).
* **Notifications.**  The busy connections are the claims and the worker's open
  result set, added one by one in every way in and out.  `DeviceInv`: whoever is
  about to disable the device has an answer that was true when it was given.
  `DeliveryInv` bounds the sends of every row: a call that wrote a row works on
  it alone, and the row stays pending until the call records the outcome; the
  worker's batch holds failed rows, each of them once (the query gives each row
  a rank of its own), so no row is sent by two at a time.  `LimitsInv` puts them
  together with `RetryInv`: a selected row has a retry left and is counted
  once, so that no counter passes its limit.
* **Identity links.**  `Sound` says what a call remembers between its
  statements: only proofs of possession reach the statements that raise a tier,
  and a DELETE follows only a claim that was read as weaker than a purchase.
  Both theorems are about steps, and each statement is shown to add, raise,
  keep or take over a claim.  `FitsInv` types what a call holds at each
  statement: indices of rows that exist, so no write dangles.  `AloneInv` is
  why one call at a time makes one customer: a call on its way to an INSERT has
  seen neither a link nor a row of the phone in either format (`Lone`), and when
  no call runs the phone's row has its link (`PhoneClaimed`).
  `HousedInv` follows the one row to the links and the purchases: every link of
  the phone, and every purchase by a buyer not logged in, is of a row with it.

Every safety property that a passing run checks is the statement of a theorem.
Only model-checked: the liveness properties `EventuallySettled`,
`StampedDebtIsPaid`, `RetriesAreAnswered`, `OwnerGetsIn` and `FailedIsRetried`
(fairness and ENABLED are outside the prover's reach), and, where the table
names an assumption, what the instances show beyond it.

## 5. Not modelled

* Wire formats, hashes and signatures of the gateways; notification providers,
  metrics, tracing, configuration and most of the Django client (pure I/O).
* Read-only listings and fee estimates; the reconciler (the server does not
  start it).
* The sweep's limit of ten rows (`workers/poller.go:156`): it needs eleven
  payments that fail for good at once, more than an instance with interleaved
  statements can hold, and no comment promises that younger rows get a turn.
* Data races of the development-only mock adapter.
* Contacts of kind e-mail that ContactLookup files under phone; currencies of
  plans; organisations and referrals of a buyer.

What could come next: the sweep over several payments as an abstract queue, and
the composition of `PlanChange` with late reversals of its payment.
