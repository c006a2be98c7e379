---------------------------- MODULE IdentityLinks ----------------------------
(***************************************************************************)
(* Who owns a contact: authentication_identitylink and the customer rows,  *)
(* written by sign-ins (RegisterVerifiedContact), purchases                *)
(* (EnsureBuyerCustomer), self-added contacts (AddContact, PromoteContact) *)
(* and the upgrade of rows from before the links, one step per statement.  *)
(*                                                                         *)
(* One phone line is modelled, whose digits may be stored in two formats,  *)
(* and some e-mail addresses: the trailing-nine rule relates the two       *)
(* formats, and every customer row that has a phone at all.                *)
(***************************************************************************)
EXTENDS Integers, Sequences, FiniteSets

CONSTANTS
    Emails,        \* e-mail addresses
    Purchases,     \* paid transactions whose buyer is resolved
    Calls,         \* slots for running calls
    MaxStarted,    \* bound: calls ever started
    MaxCustomers   \* bound: customer rows

\* "I" stands for the digits of +263..., which a checkout types with its plus.
Phones == {"L", "I"}
Contacts == Phones \cup Emails
Typed(v) == IF v = "I" THEN "+I" ELSE v

Bridge(v) == IF v \in Phones THEN Phones ELSE {v}

Tiers == {"otp", "google", "purchase", "contact", "legacy"}
NoTier == "none"
tierRank(via) ==
    CASE via \in {"otp", "google"} -> 3
      [] via = "purchase" -> 2
      [] via = "contact" -> 1
      [] OTHER -> 0

ASSUME LinksAssumption ==
    /\ IsFiniteSet(Emails) /\ Emails \intersect {"L", "I", "+I", ""} = {}
    /\ IsFiniteSet(Purchases) /\ IsFiniteSet(Calls)
    /\ MaxStarted \in Nat /\ MaxCustomers \in Nat \ {0}

VARIABLES
    customers,  \* rows of authentication_customer in the order of their ids
    links,      \* contact -> owner and tier, UNIQUE(kind, value)
    calls,      \* local state of each running call
    started,    \* calls started so far
    attached,   \* the customer of each transaction, 0 for none
    typed,      \* the contact it was bought with, "" for a logged-in buyer's
    disturbed   \* calls overlapped or failed, a contact was self-added or
                \* promoted, or there was a row from before the links

bought == <<attached, typed>>
vars == <<customers, links, calls, started, bought, disturbed>>

Ids == 1..MaxCustomers
Customer == [made: {"app", "buyer", "legacy"}, key: Contacts \cup Purchases \cup {""},
             phone: {"", "L", "I", "+I"}, email: Emails \cup {""}]
Link == [owner: Ids, via: Tiers]

Idle == [op |-> "none", pc |-> "idle", contact |-> "", by |-> "", via |-> NoTier,
         customer |-> 0, own |-> 0, other |-> 0, seen |-> NoTier, txn |-> ""]
Call ==
    [op: {"none", "verify", "add", "takeover", "promote", "purchase", "upgrade"},
     pc: {"idle", "signup", "read", "insert", "raise", "claim", "demote", "delete",
          "place", "check", "confirm", "stamp", "column", "create", "link"},
     contact: Contacts \cup {""}, by: Contacts \cup {""}, via: Tiers \cup {NoTier},
     customer: 0..MaxCustomers, own: 0..MaxCustomers, other: 0..MaxCustomers,
     seen: Tiers \cup {NoTier}, txn: Purchases \cup {""}]

TypeOK ==
    /\ customers \in Seq(Customer) /\ Len(customers) <= MaxCustomers
    /\ DOMAIN links \subseteq Contacts
    /\ \A v \in DOMAIN links : links[v] \in Link /\ links[v].owner <= Len(customers)
    /\ calls \in [Calls -> Call]
    /\ \A c \in Calls : calls[c].customer <= Len(customers)
    /\ attached \in [Purchases -> 0..Len(customers)]
    /\ typed \in [Purchases -> Contacts \cup {""}]
    /\ started \in 0..MaxStarted /\ disturbed \in BOOLEAN

LegacyRow == [made |-> "legacy", key |-> "", phone |-> "L", email |-> ""]

Init ==
    /\ \/ customers = <<>> /\ disturbed = FALSE
       \/ customers = <<LegacyRow>> /\ disturbed = TRUE
    /\ links = <<>>
    /\ calls = [c \in Calls |-> Idle] /\ started = 0
    /\ attached = [t \in Purchases |-> 0] /\ typed = [t \in Purchases |-> ""]

-----------------------------------------------------------------------------
(* Look-ups.                                                               *)

LinkIds(v) == {links[w].owner : w \in DOMAIN links \intersect Bridge(v)}

LegacyIds(v) ==
    {i \in DOMAIN customers :
        IF v \in Phones THEN customers[i].phone # "" ELSE customers[i].email = v}

\* LinkedCustomerIDs()[0]: the links come in no order, a customer's own column
\* only after them.
Primaries(v) == IF LinkIds(v) # {} THEN LinkIds(v) ELSE LegacyIds(v)

\* Mutant: the trailing-nine rule is missing.
OwnersExactly(v) ==
    IF v \in DOMAIN links THEN {links[v].owner} ELSE {}

\* EnsureBuyerCustomer and resolveBuyerCustomerID: the owner by the best tier --
\* otp before google, self-added and legacy links alike -- then exact value,
\* then recency (left open).
Strength(via) ==
    CASE via = "otp" -> 4 [] via = "google" -> 3 [] via = "purchase" -> 2 [] OTHER -> 1
Owners(v) ==
    LET found == DOMAIN links \intersect Bridge(v)
        best == {w \in found : \A x \in found :
                    Strength(links[x].via) <= Strength(links[w].via)}
        exact == IF v \in best THEN {v} ELSE best
    IN  {links[w].owner : w \in exact}

\* The contact column, compared as it was typed.
ColumnOwners(v) ==
    {i \in DOMAIN customers :
        IF v \in Phones THEN customers[i].phone = Typed(v) ELSE customers[i].email = v}

\* A statement that inserts a link fails on, or ignores, a taken value.
AddLink(v, owner, via) ==
    links' = IF v \in DOMAIN links THEN links
             ELSE [w \in DOMAIN links \cup {v} |->
                      IF w = v THEN [owner |-> owner, via |-> via] ELSE links[w]]

RaiseLink(v, owner, via) ==
    links' = [w \in DOMAIN links |->
                 IF w = v /\ links[w].owner = owner
                   THEN [links[w] EXCEPT !.via = via] ELSE links[w]]

Go(c, state) == calls' = [calls EXCEPT ![c] = state]
To(c, where) == Go(c, [calls[c] EXCEPT !.pc = where])
End(c) == Go(c, Idle)

Overlaps(c) == \E d \in Calls \ {c} : calls[d] # Idle
Starts(c) ==
    /\ calls[c] = Idle
    /\ started < MaxStarted /\ started' = started + 1
StartsAlone(c) == Starts(c) /\ disturbed' = (disturbed \/ Overlaps(c))

-----------------------------------------------------------------------------
(* EnsureSelfCustomer, shared by sign-ins and self-added contacts.         *)

\* What follows once the customer of the identity is known.
Continue(call) ==
    LET owned == [call EXCEPT !.own = call.customer, !.customer = 0, !.by = ""]
    IN  CASE call.op \in {"add", "takeover"} -> [owned EXCEPT !.pc = "claim"]
          [] call.op = "promote" /\ call.own = 0 -> [owned EXCEPT !.pc = "check"]
          [] OTHER -> [call EXCEPT !.pc = "read", !.by = ""]

\* The customer of `call.by', or a row to be created.
Resolve(c, call) ==
    \/ \E i \in Primaries(call.by) : Go(c, Continue([call EXCEPT !.customer = i]))
    \/ Primaries(call.by) = {} /\ Go(c, [call EXCEPT !.pc = "signup"])

\* The row's code is derived from the contact: a second insert adopts the first.
SignUp(c) ==
    LET call == calls[c]
        same == {i \in DOMAIN customers :
                    customers[i].made = "app" /\ customers[i].key = call.by}
    IN  /\ call.pc = "signup"
        /\ \/ \E i \in same :
                 Go(c, Continue([call EXCEPT !.customer = i])) /\ UNCHANGED customers
           \/ /\ same = {} /\ Len(customers) < MaxCustomers
              /\ customers' = Append(customers,
                    [made |-> "app", key |-> call.by,
                     phone |-> IF call.by \in Phones THEN call.by ELSE "",
                     email |-> IF call.by \in Emails THEN call.by ELSE ""])
              /\ Go(c, Continue([call EXCEPT !.customer = Len(customers) + 1]))
        /\ UNCHANGED <<links, started, bought, disturbed>>

-----------------------------------------------------------------------------
(* RegisterVerifiedContact: a code or password (otp), a Google account.    *)

Verify(c, v, via) ==
    /\ StartsAlone(c)
    /\ via = "google" => v \in Emails
    /\ Resolve(c, [Idle EXCEPT !.op = "verify", !.contact = v, !.by = v, !.via = via])
    /\ UNCHANGED <<customers, links, bought>>

\* After its last statement a promotion still stamps the row.
Done(c) == IF calls[c].op = "promote" THEN To(c, "stamp") ELSE End(c)

\* linkContact: another customer's claim is left alone, an own one only raised.
ReadLink(c) ==
    LET call == calls[c] v == call.contact
    IN  /\ call.pc = "read"
        /\ \/ v \notin DOMAIN links /\ To(c, "insert")
           \/ /\ v \in DOMAIN links
              /\ IF /\ links[v].owner = call.customer
                    /\ tierRank(links[v].via) < tierRank(call.via)
                   THEN To(c, "raise") ELSE Done(c)
        /\ UNCHANGED <<customers, links, started, bought, disturbed>>

InsertLink(c) ==
    /\ calls[c].pc = "insert"
    /\ AddLink(calls[c].contact, calls[c].customer, calls[c].via)
    /\ Done(c)
    /\ UNCHANGED <<customers, started, bought, disturbed>>

RaiseTier(c) ==
    /\ calls[c].pc = "raise"
    /\ RaiseLink(calls[c].contact, calls[c].customer, calls[c].via)
    /\ Done(c)
    /\ UNCHANGED <<customers, started, bought, disturbed>>

-----------------------------------------------------------------------------
(* AddContact and PromoteContact, by the customer of identity `by'.        *)

AddContact(c, by, v, takeOver) ==
    /\ Starts(c) /\ disturbed' = TRUE
    /\ Resolve(c, [Idle EXCEPT !.op = IF takeOver THEN "takeover" ELSE "add",
                               !.contact = v, !.by = by, !.via = "contact"])
    /\ UNCHANGED <<customers, links, bought>>

\* Mutant: a take-over is granted whatever tier the claim has.
ReadClaimUnranked(c) ==
    LET call == calls[c] v == call.contact
    IN  /\ call.pc = "claim"
        /\ \/ v \notin DOMAIN links /\ To(c, "place")
           \/ /\ v \in DOMAIN links
              /\ IF links[v].owner # call.own /\ call.op = "takeover"
                   THEN Go(c, [call EXCEPT !.pc = "delete", !.other = links[v].owner,
                                           !.seen = links[v].via])
                   ELSE End(c)
        /\ UNCHANGED <<customers, links, started, bought, disturbed>>

\* The claim is read: free, our own (raised when it is a legacy one), or
\* another's, which blocks unless a take-over meets a weaker tier.
ReadClaim(c) ==
    LET call == calls[c]
        v == call.contact
        taken == v \in DOMAIN links
        ours == taken /\ links[v].owner = call.own
        weak == taken /\ tierRank(links[v].via) < tierRank("purchase")
    IN  /\ call.pc = "claim"
        /\ \/ ~taken /\ To(c, "place")
           \/ ours /\ tierRank(links[v].via) < tierRank("contact") /\ To(c, "demote")
           \/ ours /\ tierRank(links[v].via) >= tierRank("contact") /\ End(c)
           \/ /\ taken /\ ~ours
              /\ IF call.op = "takeover" /\ weak
                   THEN Go(c, [call EXCEPT !.pc = "delete", !.other = links[v].owner,
                                           !.seen = links[v].via])
                   ELSE End(c)
        /\ UNCHANGED <<customers, links, started, bought, disturbed>>

\* The UPDATE of a legacy claim does not repeat what it read of the tier.
SetContactTier(c) ==
    /\ calls[c].pc = "demote"
    /\ RaiseLink(calls[c].contact, calls[c].own, "contact")
    /\ End(c)
    /\ UNCHANGED <<customers, started, bought, disturbed>>

\* Nor does the DELETE of the superseded claim.
DeleteClaim(c) ==
    LET call == calls[c] v == call.contact
    IN  /\ call.pc = "delete"
        /\ links' = IF v \in DOMAIN links /\ links[v].owner = call.other
                      THEN [w \in DOMAIN links \ {v} |-> links[w]] ELSE links
        /\ Go(c, [call EXCEPT !.pc = "place", !.other = 0, !.seen = NoTier])
        /\ UNCHANGED <<customers, started, bought, disturbed>>

PlaceClaim(c) ==
    /\ calls[c].pc = "place"
    /\ AddLink(calls[c].contact, calls[c].own, "contact")
    /\ End(c)
    /\ UNCHANGED <<customers, started, bought, disturbed>>

PromoteContact(c, by, v) ==
    /\ Starts(c) /\ disturbed' = TRUE
    /\ Resolve(c, [Idle EXCEPT !.op = "promote", !.contact = v, !.by = by, !.via = "otp"])
    /\ UNCHANGED <<customers, links, bought>>

\* The contact must be this customer's already.
CheckOwn(c) ==
    LET call == calls[c] v == call.contact
    IN  /\ call.pc = "check"
        /\ IF v \in DOMAIN links /\ links[v].owner = call.own
             THEN To(c, "confirm") ELSE End(c)
        /\ UNCHANGED <<customers, links, started, bought, disturbed>>

\* The code is right (module OneTimeCodes), or the call ends; VerifyOTP signs
\* the contact in, as its own identity, before the tier is stamped.
Confirm(c) ==
    LET call == calls[c]
    IN  /\ call.pc = "confirm"
        /\ Resolve(c, [call EXCEPT !.by = call.contact]) \/ End(c)
        /\ UNCHANGED <<customers, links, started, bought, disturbed>>

StampTier(c) ==
    /\ calls[c].pc = "stamp"
    /\ RaiseLink(calls[c].contact, calls[c].own, "otp")
    /\ End(c)
    /\ UNCHANGED <<customers, started, bought, disturbed>>

-----------------------------------------------------------------------------
(* EnsureBuyerCustomer, for a purchase that typed contact v; `own' is the   *)
(* customer of a buyer who was logged in, or 0.                            *)

\* The transaction stays with a logged-in buyer's customer (the voucher itself
\* goes to the contact's).
Payer(own, buyer) == IF own # 0 THEN own ELSE buyer

Purchase(c, t, v, mail, own) ==
    LET call == [Idle EXCEPT !.op = "purchase", !.contact = v, !.by = mail, !.own = own,
                             !.txn = t]
    IN  /\ StartsAlone(c) /\ attached[t] = 0
        /\ \A d \in Calls : calls[d].txn # t
        /\ v \in Emails => mail = ""
        /\ typed' = [typed EXCEPT ![t] = IF own # 0 THEN "" ELSE v]
        /\ \/ \E i \in Owners(v) :
                 attached' = [attached EXCEPT ![t] = Payer(own, i)] /\ UNCHANGED calls
           \/ Owners(v) = {} /\ Go(c, [call EXCEPT !.pc = "column"]) /\ UNCHANGED attached
        /\ UNCHANGED <<customers, links>>

ReadColumn(c) ==
    LET call == calls[c]
    IN  /\ call.pc = "column"
        /\ \/ \E i \in ColumnOwners(call.contact) :
                 Go(c, [call EXCEPT !.pc = "link", !.customer = i])
           \/ ColumnOwners(call.contact) = {} /\ To(c, "create")
        /\ UNCHANGED <<customers, links, started, bought, disturbed>>

\* Mutant: the id of the new row is not read back.
CreateBuyerUnread(c) ==
    /\ calls[c].pc = "create" /\ Len(customers) < MaxCustomers
    /\ customers' = Append(customers,
          [made |-> "buyer", key |-> calls[c].txn, email |-> "",
           phone |-> IF calls[c].contact \in Phones THEN Typed(calls[c].contact) ELSE ""])
    /\ To(c, "link")
    /\ UNCHANGED <<links, started, bought, disturbed>>

\* The new row's RADIUS username is the phone as typed, '' without one, and
\* UNIQUE: on a second one the INSERT, and with it the fulfillment, fails.
CreateBuyer(c) ==
    LET call == calls[c]
        phone == IF call.contact \in Phones THEN Typed(call.contact) ELSE ""
        taken == \E i \in DOMAIN customers :
                    customers[i].made = "buyer" /\ customers[i].phone = phone
    IN  /\ call.pc = "create"
        /\ \/ taken /\ End(c) /\ UNCHANGED customers
           \/ /\ ~taken /\ Len(customers) < MaxCustomers
              /\ customers' = Append(customers,
                    [made |-> "buyer", key |-> call.txn, phone |-> phone,
                     email |-> IF call.contact \in Emails THEN call.contact ELSE call.by])
              /\ Go(c, [call EXCEPT !.pc = "link", !.customer = Len(customers) + 1])
        /\ UNCHANGED <<links, started, bought, disturbed>>

\* Mutant: a purchase overwrites the link it finds.
LinkBuyerUpsert(c) ==
    LET call == calls[c]
    IN  /\ call.pc = "link" /\ call.op = "purchase"
        /\ links' = [w \in DOMAIN links \cup {call.contact} |->
                        IF w = call.contact
                          THEN [owner |-> call.customer, via |-> "purchase"] ELSE links[w]]
        /\ attached' = [attached EXCEPT ![call.txn] = Payer(call.own, call.customer)]
        /\ End(c)
        /\ UNCHANGED <<customers, started, typed, disturbed>>

\* INSERT IGNORE, whose error is only logged, and the purchase is attached.
LinkBuyer(c) ==
    LET call == calls[c]
    IN  /\ call.pc = "link" /\ call.op = "purchase"
        /\ \/ AddLink(call.contact, call.customer, "purchase") /\ UNCHANGED disturbed
           \/ UNCHANGED links /\ disturbed' = TRUE
        /\ attached' = [attached EXCEPT ![call.txn] = Payer(call.own, call.customer)]
        /\ End(c)
        /\ UNCHANGED <<customers, started, typed>>

-----------------------------------------------------------------------------
(* A password login by phone upgrades a row from before the links.         *)

LookUpLegacy(c, v) ==
    /\ StartsAlone(c) /\ v \in Phones
    /\ LinkIds(v) = {}
    /\ \E i \in LegacyIds(v) :
          Go(c, [Idle EXCEPT !.op = "upgrade", !.pc = "link", !.contact = v, !.customer = i])
    /\ UNCHANGED <<customers, links, bought>>

LinkLegacy(c) ==
    /\ calls[c].pc = "link" /\ calls[c].op = "upgrade"
    /\ AddLink(calls[c].contact, calls[c].customer, "legacy")
    /\ End(c)
    /\ UNCHANGED <<customers, started, bought, disturbed>>

\* A statement fails, or the process dies with the call; an error of linkContact
\* is only logged.
CallFails(c) ==
    /\ calls[c] # Idle
    /\ End(c) \/ (calls[c].pc \in {"read", "insert", "raise"} /\ Done(c))
    /\ disturbed' = TRUE
    /\ UNCHANGED <<customers, links, started, bought>>

SignInStep(c) ==
    \/ \E v \in Contacts, via \in {"otp", "google"} : Verify(c, v, via)
    \/ SignUp(c) \/ ReadLink(c) \/ InsertLink(c) \/ RaiseTier(c)

ContactStep(c) ==
    \/ \E by, v \in Contacts, takeOver \in BOOLEAN : AddContact(c, by, v, takeOver)
    \/ ReadClaim(c) \/ SetContactTier(c) \/ DeleteClaim(c) \/ PlaceClaim(c)
    \/ \E by, v \in Contacts : PromoteContact(c, by, v)
    \/ CheckOwn(c) \/ Confirm(c) \/ StampTier(c)

BuyerStep(c) ==
    \/ \E t \in Purchases, v \in Contacts, mail \in Emails \cup {""}, own \in 0..Len(customers) :
          Purchase(c, t, v, mail, own)
    \/ ReadColumn(c) \/ CreateBuyer(c) \/ LinkBuyer(c)

Next ==
    \E c \in Calls :
        \/ SignInStep(c) \/ ContactStep(c) \/ BuyerStep(c)
        \/ (\E v \in Contacts : LookUpLegacy(c, v)) \/ LinkLegacy(c)
        \/ CallFails(c)

Spec == Init /\ [][Next]_vars

-----------------------------------------------------------------------------
(* Properties.                                                             *)

\* A claim changes hands only by a take-over that read it as weaker than a
\* purchase: no purchase or upgrade takes it, and a proven one is lost only if it
\* was raised after the take-over looked.  Nor does a sign-in take it, whatever
\* its tier: an OTP proof leaves another customer's self-added claim in place,
\* where the comments of contacts.go say that higher tiers supersede lower ones.
ClaimsStand ==
    [][\A v \in DOMAIN links :
          (v \in DOMAIN links' => links'[v].owner # links[v].owner)
             => \E c \in Calls :
                   /\ calls[c].pc = "delete" /\ calls[c].contact = v
                   /\ calls[c].other = links[v].owner
                   /\ tierRank(calls[c].seen) < tierRank("purchase")]_vars

\* The tier of a claim that keeps its owner never falls, but for a legacy
\* claim self-added while it was being proven.
TiersRise ==
    [][\A v \in DOMAIN links :
          v \in DOMAIN links' /\ tierRank(links'[v].via) < tierRank(links[v].via)
             => \E c \in Calls : calls[c].pc = "demote" /\ calls[c].contact = v]_vars

\* "One row per buyer contact": sign-ins and purchases of one phone that do
\* not overlap or fail share one customer row, whatever format each one uses:
\* there is no second row, the links of both formats lead to it, and so does
\* every purchase with that phone but a logged-in buyer's.
OneCustomerPerPhone ==
    ~disturbed =>
        /\ Cardinality({i \in DOMAIN customers : customers[i].phone # ""}) <= 1
        /\ \A v \in Phones \intersect DOMAIN links : customers[links[v].owner].phone # ""
        /\ \A t \in Purchases :
              attached[t] # 0 /\ typed[t] \in Phones => customers[attached[t]].phone # ""
=============================================================================
