--------------------------- MODULE GatewayEvents ---------------------------
(***************************************************************************)
(* What the three gateway adapters (internal/gateways) tell the service    *)
(* about a charge.  The gateway's own view of a charge is one of Charges;  *)
(* an adapter translates it to the service's states, for a status lookup   *)
(* and for a webhook, and it names the webhook's event type.               *)
(*                                                                         *)
(* The gateways themselves are external: Charges, and which of them a      *)
(* charge passes through, stand for Paynow, EcoCash or the mock's own      *)
(* transaction table.                                                      *)
(***************************************************************************)
Gateways == {"mock", "paynow", "ecocash"}

\* none: no charge placed; voided: cancelled by the payer at the gateway;
\* reversed: captured and then taken back (refund, dispute, chargeback).
Charges == {"none", "pending", "captured", "declined", "voided", "reversed"}

EventTypes ==
    {"payment.completed", "payment.failed", "payment.cancelled",
     "payment.refunded", "payment.status_update"}

Kind(s, e) == [state |-> s, etype |-> e]

\* Mock: the payload names its own state and event type (scheduleWebhook).
mockKinds ==
    [none     |-> {},
     pending  |-> {},
     captured |-> {Kind("completed", "payment.completed")},
     declined |-> {Kind("failed", "payment.failed")},
     voided   |-> {},
     reversed |-> {Kind("refunded", "payment.refunded")}]

\* EcoCash: the event type is a function of the mapped state.
ecocashKinds ==
    [none     |-> {},
     pending  |-> {Kind("pending", "payment.status_update")},
     captured |-> {Kind("completed", "payment.completed")},
     declined |-> {Kind("failed", "payment.failed")},
     voided   |-> {Kind("cancelled", "payment.cancelled")},
     reversed |-> {Kind("refunded", "payment.refunded")}]

\* Paynow: state and event type come from two separate switches over the
\* status text.  "awaiting delivery" is `completed` for the first and a
\* status update for the second; "disputed" and "refunded" are `failed`.
paynowKinds ==
    [none     |-> {},
     pending  |-> {Kind("pending", "payment.status_update")},
     captured |-> {Kind("completed", "payment.completed"),
                   Kind("completed", "payment.status_update")},
     declined |-> {Kind("failed", "payment.failed")},
     voided   |-> {Kind("cancelled", "payment.cancelled")},
     reversed |-> {Kind("failed", "payment.failed"),
                   Kind("failed", "payment.refunded")}]

WebhookKinds(gateway) ==
    [mock |-> mockKinds, ecocash |-> ecocashKinds, paynow |-> paynowKinds][gateway]

\* Mutant: the gateway's own word for a charge under way, not translated.
StatusOfUntranslated(gateway) ==
    [none |-> "sent", pending |-> "sent", captured |-> "completed",
     declined |-> "failed", voided |-> "cancelled", reversed |-> "refunded"]

\* Mutant: a charge the gateway has only accepted is reported as completed.
StatusOfOptimistic(gateway) ==
    [none |-> "pending", pending |-> "completed", captured |-> "completed",
     declined |-> "failed", voided |-> "cancelled", reversed |-> "refunded"]

\* Adapter.Status: the state a lookup reports for a charge.
StatusOf(gateway) ==
    [none     |-> "pending",
     pending  |-> "pending",
     captured |-> "completed",
     declined |-> "failed",
     voided   |-> "cancelled",
     reversed |-> IF gateway = "paynow" THEN "failed" ELSE "refunded"]

(***************************************************************************)
(* Adapter.Initiate: the state it returns and the charge it leaves behind. *)
(* "error" covers a request that never reached the gateway (no charge) and *)
(* one whose answer was lost or unusable (a charge the service never hears *)
(* of from Initiate).                                                      *)
(***************************************************************************)
InitiateResults(gateway) ==
    LET failing == {<<"error", "none">>, <<"error", "pending">>}
        accepted == {<<"pending", "pending">>}
        settled == {<<"completed", "captured">>, <<"failed", "declined">>}
    IN [paynow  |-> failing \cup accepted,
        ecocash |-> failing \cup accepted \cup settled,
        mock    |-> {<<"error", "pending">>} \cup accepted \cup settled][gateway]

\* The charge states a gateway's next webhook or lookup may be about: it may
\* send several webhooks about one state (Paynow: paid, awaiting delivery,
\* delivered); the mock sends one per move.
ChargeMoves(gateway) ==
    LET again(c) == IF gateway = "mock" THEN {} ELSE {c}
    IN  [none     |-> {},
         pending  |-> {"captured", "declined"} \cup again("pending")
                         \cup (IF gateway = "mock" THEN {"reversed"} ELSE {"voided"}),
         captured |-> {"reversed"} \cup again("captured"),
         declined |-> again("declined"),
         voided   |-> again("voided"),
         reversed |-> again("reversed")]
=============================================================================
