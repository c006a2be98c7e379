------------------------ MODULE IdentityLinks_proofs ------------------------
(***************************************************************************)
(* Proofs about IdentityLinks, for any number of addresses, purchases,     *)
(* calls and customers: in whatever order the statements of the calls are  *)
(* executed, who keeps a claim, and with which tier, that every claim      *)
(* names a row, and that calls one after another share one row per phone.  *)
(***************************************************************************)
EXTENDS IdentityLinks, FiniteSetTheorems, TLAPS

-----------------------------------------------------------------------------
(* The local state of a call.                                              *)

IsCall(x) ==
  x = [op |-> x.op, pc |-> x.pc, contact |-> x.contact, by |-> x.by, via |-> x.via,
       customer |-> x.customer, own |-> x.own, other |-> x.other, seen |-> x.seen,
       txn |-> x.txn]

Proven == {"otp", "google"}
Identified == {"verify", "promote", "add", "takeover"}

\* What a call remembers: only proofs reach linkContact, only a promotion signs
\* in on its way, and a DELETE follows only a claim that was read as weak.
Sound(x) ==
  /\ IsCall(x)
  /\ x.op \in {"verify", "promote"} => x.via \in Proven
  /\ x.pc \in {"read", "insert", "raise"} => x.via \in Proven
  /\ x.pc = "signup" => x.op \in Identified
  /\ x.pc \in {"check", "confirm"} => x.op = "promote"
  /\ x.pc = "delete" => tierRank(x.seen) < tierRank("purchase")

\* The same call, at another statement.
Same(x, y) == IsCall(y) /\ y.op = x.op /\ y.via = x.via

\* One field of the record changes.
LEMMA Goes ==
  ASSUME NEW x, IsCall(x)
  PROVE  \A p : /\ IsCall([x EXCEPT !.pc = p]) /\ Same(x, [x EXCEPT !.pc = p])
                /\ [x EXCEPT !.pc = p].pc = p /\ [x EXCEPT !.pc = p].seen = x.seen
BY DEF IsCall, Same

LEMMA SetsBy ==
  ASSUME NEW x, IsCall(x)
  PROVE  \A e : /\ IsCall([x EXCEPT !.by = e]) /\ Same(x, [x EXCEPT !.by = e])
                /\ [x EXCEPT !.by = e].pc = x.pc /\ [x EXCEPT !.by = e].seen = x.seen
BY DEF IsCall, Same

LEMMA SetsCustomer ==
  ASSUME NEW x, IsCall(x)
  PROVE  \A e : /\ IsCall([x EXCEPT !.customer = e]) /\ Same(x, [x EXCEPT !.customer = e])
                /\ [x EXCEPT !.customer = e].pc = x.pc /\ [x EXCEPT !.customer = e].seen = x.seen
BY DEF IsCall, Same

LEMMA SetsOwn ==
  ASSUME NEW x, IsCall(x)
  PROVE  \A e : /\ IsCall([x EXCEPT !.own = e]) /\ Same(x, [x EXCEPT !.own = e])
                /\ [x EXCEPT !.own = e].pc = x.pc /\ [x EXCEPT !.own = e].seen = x.seen
BY DEF IsCall, Same

LEMMA SetsContact ==
  ASSUME NEW x, IsCall(x)
  PROVE  \A e : /\ IsCall([x EXCEPT !.contact = e]) /\ Same(x, [x EXCEPT !.contact = e])
                /\ [x EXCEPT !.contact = e].pc = x.pc /\ [x EXCEPT !.contact = e].seen = x.seen
BY DEF IsCall, Same

LEMMA SetsTxn ==
  ASSUME NEW x, IsCall(x)
  PROVE  \A e : /\ IsCall([x EXCEPT !.txn = e]) /\ Same(x, [x EXCEPT !.txn = e])
                /\ [x EXCEPT !.txn = e].pc = x.pc /\ [x EXCEPT !.txn = e].seen = x.seen
BY DEF IsCall, Same

LEMMA SetsOther ==
  ASSUME NEW x, IsCall(x)
  PROVE  \A e : /\ IsCall([x EXCEPT !.other = e]) /\ Same(x, [x EXCEPT !.other = e])
                /\ [x EXCEPT !.other = e].pc = x.pc /\ [x EXCEPT !.other = e].seen = x.seen
BY DEF IsCall, Same

LEMMA SetsSeen ==
  ASSUME NEW x, IsCall(x)
  PROVE  \A e : /\ IsCall([x EXCEPT !.seen = e]) /\ Same(x, [x EXCEPT !.seen = e])
                /\ [x EXCEPT !.seen = e].pc = x.pc /\ [x EXCEPT !.seen = e].seen = e
BY DEF IsCall, Same

LEMMA SetsVia ==
  ASSUME NEW x, IsCall(x)
  PROVE  \A e : /\ IsCall([x EXCEPT !.via = e]) /\ [x EXCEPT !.via = e].via = e
                /\ [x EXCEPT !.via = e].pc = x.pc /\ [x EXCEPT !.via = e].op = x.op
BY DEF IsCall

LEMMA SetsOp ==
  ASSUME NEW x, IsCall(x)
  PROVE  \A e : /\ IsCall([x EXCEPT !.op = e]) /\ [x EXCEPT !.op = e].op = e
                /\ [x EXCEPT !.op = e].pc = x.pc /\ [x EXCEPT !.op = e].via = x.via
BY DEF IsCall

LEMMA SameIsTransitive ==
  ASSUME NEW x, NEW y, NEW z, Same(x, y), Same(y, z)
  PROVE  Same(x, z)
BY DEF Same

LEMMA IdleSound == Sound(Idle)
BY DEF Sound, IsCall, Idle

\* A call begins as what it was asked to do.
AskBy(op, v, by) == [Idle EXCEPT !.op = op, !.contact = v, !.by = by]
Ask(op, v, by, via) == [Idle EXCEPT !.op = op, !.contact = v, !.by = by, !.via = via]

LEMMA AskedBy ==
  ASSUME NEW op, NEW v, NEW by
  PROVE  /\ IsCall(AskBy(op, v, by)) /\ AskBy(op, v, by).op = op
         /\ AskBy(op, v, by).pc = "idle"
<1>. DEFINE x1 == [Idle EXCEPT !.op = op]
            x2 == [x1 EXCEPT !.contact = v]
            x3 == [x2 EXCEPT !.by = by]
<1>0. IsCall(Idle) /\ Idle.pc = "idle"
  BY IdleSound DEF Idle, Sound
<1>1. IsCall(x1) /\ x1.op = op /\ x1.pc = "idle"
  BY <1>0, SetsOp
<1>. HIDE DEF x1
<1>2. Same(x1, x2) /\ x2.pc = "idle"
  BY <1>1, SetsContact
<1>. HIDE DEF x2
<1>3. IsCall(x2) /\ x2.op = op
  BY <1>1, <1>2 DEF Same
<1>4. Same(x2, x3) /\ x3.pc = "idle"
  BY <1>2, <1>3, SetsBy
<1>. HIDE DEF x3
<1>5. IsCall(x3) /\ x3.op = op
  BY <1>3, <1>4 DEF Same
<1>6. x3 = AskBy(op, v, by)
  BY DEF x1, x2, x3, AskBy
<1>. QED BY <1>4, <1>5, <1>6

LEMMA Asked ==
  ASSUME NEW op, NEW v, NEW by, NEW via,
         op \in {"verify", "promote"} => via \in Proven
  PROVE  Sound(Ask(op, v, by, via)) /\ Ask(op, v, by, via).op = op
<1>. DEFINE x == AskBy(op, v, by)
            y == [x EXCEPT !.via = via]
<1>1. IsCall(x) /\ x.op = op /\ x.pc = "idle"
  BY AskedBy
<1>2. y = Ask(op, v, by, via)
  BY DEF AskBy, Ask
<1>. HIDE DEF x
<1>3. IsCall(y) /\ y.op = op /\ y.pc = "idle" /\ y.via = via
  BY <1>1, SetsVia
<1>. HIDE DEF y
<1>4. Sound(y) /\ y.op = op
  BY <1>3 DEF Sound
<1>. QED BY <1>2, <1>4

\* A call that goes to a statement none of the conditions speak of.
LEMMA SoundElsewhere ==
  ASSUME NEW x, NEW y, Sound(x), Same(x, y),
         y.pc \notin {"read", "insert", "raise", "signup", "delete", "check", "confirm"}
  PROVE  Sound(y)
BY DEF Sound, Same

LEMMA GoesElsewhere ==
  ASSUME NEW x, NEW z, Sound(x), Same(x, z),
         NEW p \in {"claim", "place", "demote", "stamp", "create",
                    "column", "link"}
  PROVE  Sound([z EXCEPT !.pc = p])
<1>1. IsCall(z)
  BY DEF Same
<1>. DEFINE y == [z EXCEPT !.pc = p]
<1>2. Same(z, y) /\ y.pc = p
  BY <1>1, Goes
<1>. HIDE DEF y
<1>3. Same(x, y)
  BY <1>2, SameIsTransitive
<1>4. Sound(y)
  BY <1>2, <1>3, SoundElsewhere
<1>. QED BY <1>4 DEF y

\* EnsureSelfCustomer leads a proof to linkContact, and nothing else.
LEMMA ContinueSound ==
  ASSUME NEW x, Sound(x), x.op \in Identified
  PROVE  Sound(Continue(x))
<1>. DEFINE o1 == [x EXCEPT !.own = x.customer]
            o2 == [o1 EXCEPT !.customer = 0]
            owned == [o2 EXCEPT !.by = ""]
<1>0. IsCall(x)
  BY DEF Sound
<1>1. Same(x, owned)
  <2>1. IsCall(o1) /\ Same(x, o1)
    BY <1>0, SetsOwn
  <2>. HIDE DEF o1
  <2>2. IsCall(o2) /\ Same(o1, o2)
    BY <2>1, SetsCustomer
  <2>. HIDE DEF o2
  <2>3. Same(o2, owned)
    BY <2>2, SetsBy
  <2>. HIDE DEF owned
  <2>. QED BY <2>1, <2>2, <2>3, SameIsTransitive
<1>2. /\ Sound([owned EXCEPT !.pc = "claim"])
      /\ x.op = "promote" => Sound([owned EXCEPT !.pc = "check"])
  <2>. HIDE DEF owned
  <2>0. IsCall(owned)
    BY <1>1 DEF Same
  <2>1. Sound([owned EXCEPT !.pc = "claim"])
    BY <1>1, GoesElsewhere
  <2>. DEFINE y == [owned EXCEPT !.pc = "check"]
  <2>2. Same(owned, y) /\ y.pc = "check"
    BY <2>0, Goes
  <2>. HIDE DEF y
  <2>3. x.op = "promote" => Sound(y)
    BY <1>1, <2>2 DEF Sound, Same
  <2>. QED BY <2>1, <2>3 DEF y
<1>3. x.op \in {"verify", "promote"} => Sound([x EXCEPT !.pc = "read", !.by = ""])
  <2>. DEFINE r == [x EXCEPT !.pc = "read"]
              y == [r EXCEPT !.by = ""]
  <2>1. Same(x, r) /\ r.pc = "read"
    BY <1>0, Goes
  <2>. HIDE DEF r
  <2>0. IsCall(r)
    BY <2>1 DEF Same
  <2>2. Same(r, y) /\ y.pc = "read"
    BY <2>0, <2>1, SetsBy
  <2>. HIDE DEF y
  <2>3. x.op \in {"verify", "promote"} => Sound(y)
    BY <2>1, <2>2 DEF Sound, Same
  <2>. QED BY <2>3 DEF y, r
<1>4. Continue(x) \in
        {[owned EXCEPT !.pc = "claim"]}
          \cup (IF x.op = "promote" THEN {[owned EXCEPT !.pc = "check"]} ELSE {})
          \cup IF x.op \in {"verify", "promote"} THEN {[x EXCEPT !.pc = "read", !.by = ""]}
               ELSE {}
  BY DEF Continue, Identified
<1>. HIDE DEF owned
<1>. QED BY <1>2, <1>3, <1>4

\* What a resolution may lead to.
LEMMA ResolveSound ==
  ASSUME NEW c \in Calls, NEW x, Sound(x), x.op \in Identified, Resolve(c, x)
  PROVE  \E y : Sound(y) /\ Go(c, y)
<1>0. IsCall(x)
  BY DEF Sound
<1>1. ASSUME NEW i, Go(c, Continue([x EXCEPT !.customer = i]))
      PROVE  \E y : Sound(y) /\ Go(c, y)
  <2>. DEFINE z == [x EXCEPT !.customer = i]
  <2>1. Same(x, z) /\ z.pc = x.pc /\ z.seen = x.seen
    BY <1>0, SetsCustomer
  <2>2. Go(c, Continue(z))
    BY <1>1
  <2>. HIDE DEF z
  <2>3. Sound(z) /\ z.op \in Identified
    BY <2>1 DEF Sound, Same
  <2>. QED BY <2>2, <2>3, ContinueSound
<1>2. CASE Go(c, [x EXCEPT !.pc = "signup"])
  <2>. DEFINE z == [x EXCEPT !.pc = "signup"]
  <2>1. Same(x, z) /\ z.pc = "signup"
    BY <1>0, Goes
  <2>2. Go(c, z)
    BY <1>2
  <2>. HIDE DEF z
  <2>3. Sound(z)
    BY <2>1 DEF Sound, Same
  <2>. QED BY <2>2, <2>3
<1>. QED BY <1>1, <1>2 DEF Resolve

-----------------------------------------------------------------------------
(* The links.                                                              *)

LinksShape ==
  \A v \in DOMAIN links : links[v] = [owner |-> links[v].owner, via |-> links[v].via]

LinksInv ==
  /\ calls = [c \in Calls |-> calls[c]]
  /\ \A c \in Calls : Sound(calls[c])
  /\ LinksShape

\* What the statement of call c does to the links.
Adds == \E v, owner, via : AddLink(v, owner, via)
Raises(c) ==
  \E v, owner, via :
      /\ RaiseLink(v, owner, via)
      /\ via \in Proven \/ (calls[c].pc = "demote" /\ v = calls[c].contact)
Deletes(c) ==
  /\ calls[c].pc = "delete"
  /\ links' = IF calls[c].contact \in DOMAIN links
                  /\ links[calls[c].contact].owner = calls[c].other
              THEN [w \in DOMAIN links \ {calls[c].contact} |-> links[w]] ELSE links
LinksMove(c) == UNCHANGED links \/ Adds \/ Raises(c) \/ Deletes(c)

CallMoves(c) == UNCHANGED calls \/ \E y : Sound(y) /\ Go(c, y)

LEMMA RankBound == \A via : tierRank(via) \in 0..3 /\ (via \in Proven => tierRank(via) = 3)
BY DEF tierRank, Proven

LEMMA AddsKeep ==
  ASSUME LinksShape, NEW v, NEW owner, NEW via, AddLink(v, owner, via)
  PROVE  /\ LinksShape'
         /\ \A w \in DOMAIN links : w \in DOMAIN links' /\ links'[w] = links[w]
BY DEF LinksShape, AddLink

LEMMA RaisesKeep ==
  ASSUME LinksShape, NEW v, NEW owner, NEW via, RaiseLink(v, owner, via)
  PROVE  /\ LinksShape' /\ DOMAIN links' = DOMAIN links
         /\ \A w \in DOMAIN links :
               /\ links'[w].owner = links[w].owner
               /\ links'[w].via = links[w].via \/ (w = v /\ links'[w].via = via)
<1>1. DOMAIN links' = DOMAIN links
  BY DEF RaiseLink
<1>2. ASSUME NEW w \in DOMAIN links
      PROVE  links'[w] = links[w]
               \/ (w = v /\ links'[w] = [owner |-> links[w].owner, via |-> via])
  <2>1. links'[w] = links[w] \/ (w = v /\ links'[w] = [links[w] EXCEPT !.via = via])
    BY DEF RaiseLink
  <2>2. links[w] = [owner |-> links[w].owner, via |-> links[w].via]
    BY DEF LinksShape
  <2>3. [links[w] EXCEPT !.via = via] = [owner |-> links[w].owner, via |-> via]
    BY <2>2
  <2>. QED BY <2>1, <2>3
<1>3. LinksShape'
  BY <1>1, <1>2 DEF LinksShape
<1>4. \A w \in DOMAIN links :
         /\ links'[w].owner = links[w].owner
         /\ links'[w].via = links[w].via \/ (w = v /\ links'[w].via = via)
  <2>. TAKE w \in DOMAIN links
  <2>1. CASE links'[w] = links[w]
    BY <2>1
  <2>2. CASE w = v /\ links'[w] = [owner |-> links[w].owner, via |-> via]
    BY <2>2
  <2>. QED BY <1>2, <2>1, <2>2
<1>. QED BY <1>1, <1>3, <1>4

LEMMA DeletesKeep ==
  ASSUME LinksShape, NEW c \in Calls, Deletes(c)
  PROVE  /\ LinksShape'
         /\ \A w \in DOMAIN links :
               \/ w \in DOMAIN links' /\ links'[w] = links[w]
               \/ w = calls[c].contact /\ links[w].owner = calls[c].other /\ w \notin DOMAIN links'
BY DEF LinksShape, Deletes

-----------------------------------------------------------------------------
(* One step per statement.                                                 *)

LEMMA EndMoves == ASSUME NEW c \in Calls, End(c) PROVE CallMoves(c)
BY IdleSound DEF End, CallMoves

\* To the statements that Sound says nothing of.
LEMMA ToMoves ==
  ASSUME LinksInv, NEW c \in Calls,
         NEW p \in {"claim", "place", "demote", "stamp", "create",
                    "column", "link"},
         To(c, p)
  PROVE  CallMoves(c)
<1>1. Sound(calls[c]) /\ IsCall(calls[c])
  BY DEF LinksInv, Sound
<1>2. Same(calls[c], calls[c])
  BY <1>1 DEF Same
<1>3. Sound([calls[c] EXCEPT !.pc = p])
  BY <1>1, <1>2, GoesElsewhere
<1>. QED BY <1>3 DEF To, CallMoves

LEMMA DoneMoves ==
  ASSUME LinksInv, NEW c \in Calls, Done(c)
  PROVE  CallMoves(c)
<1>1. To(c, "stamp") \/ End(c)
  BY DEF Done
<1>. QED BY <1>1, EndMoves, ToMoves

LEMMA SignInSteps ==
  ASSUME LinksInv, NEW c \in Calls, SignInStep(c)
  PROVE  CallMoves(c) /\ LinksMove(c)
<1>0. Sound(calls[c]) /\ IsCall(calls[c])
  BY DEF LinksInv, Sound
<1>1. ASSUME NEW v \in Contacts, NEW via \in {"otp", "google"}, Verify(c, v, via)
      PROVE  CallMoves(c) /\ LinksMove(c)
  <2>. DEFINE x == Ask("verify", v, v, via)
  <2>0. via \in Proven
    BY DEF Proven
  <2>1. Sound(x) /\ x.op = "verify"
    BY <2>0, Asked
  <2>2. Resolve(c, x) /\ UNCHANGED links
    BY <1>1 DEF Verify, Ask
  <2>. HIDE DEF x
  <2>. QED BY <2>1, <2>2, ResolveSound DEF CallMoves, LinksMove, Identified
<1>2. CASE SignUp(c)
  <2>1. calls[c].pc = "signup" /\ calls[c].op \in Identified /\ UNCHANGED links
    BY <1>0, <1>2 DEF SignUp, Sound
  <2>2. PICK i : Go(c, Continue([calls[c] EXCEPT !.customer = i]))
    BY <1>2 DEF SignUp
  <2>. DEFINE z == [calls[c] EXCEPT !.customer = i]
  <2>3. Same(calls[c], z) /\ z.pc = calls[c].pc /\ z.seen = calls[c].seen
    BY <1>0, SetsCustomer
  <2>4. Go(c, Continue(z))
    BY <2>2
  <2>. HIDE DEF z
  <2>5. Sound(z) /\ z.op \in Identified
    BY <1>0, <2>1, <2>3 DEF Sound, Same
  <2>. QED BY <2>1, <2>4, <2>5, ContinueSound DEF CallMoves, LinksMove
<1>3. CASE ReadLink(c)
  <2>1. calls[c].pc = "read" /\ UNCHANGED links
        /\ (To(c, "insert") \/ To(c, "raise") \/ Done(c))
    BY <1>3 DEF ReadLink
  <2>2. ASSUME NEW p \in {"insert", "raise"}, To(c, p)
        PROVE  CallMoves(c)
    <3>. DEFINE y == [calls[c] EXCEPT !.pc = p]
    <3>1. Same(calls[c], y) /\ y.pc = p
      BY <1>0, Goes
    <3>2. Go(c, y)
      BY <2>2 DEF To
    <3>. HIDE DEF y
    <3>3. Sound(y)
      BY <1>0, <2>1, <3>1 DEF Sound, Same
    <3>. QED BY <3>2, <3>3 DEF CallMoves
  <2>. QED BY <2>1, <2>2, DoneMoves DEF LinksMove
<1>4. CASE InsertLink(c)
  BY <1>4, DoneMoves DEF InsertLink, LinksMove, Adds
<1>5. CASE RaiseTier(c)
  <2>1. calls[c].via \in Proven
    BY <1>0, <1>5 DEF RaiseTier, Sound
  <2>. QED BY <1>5, <2>1, DoneMoves DEF RaiseTier, LinksMove, Raises
<1>. QED BY <1>1, <1>2, <1>3, <1>4, <1>5 DEF SignInStep

LEMMA ContactSteps ==
  ASSUME LinksInv, NEW c \in Calls, ContactStep(c)
  PROVE  CallMoves(c) /\ LinksMove(c)
<1>0. Sound(calls[c]) /\ IsCall(calls[c])
  BY DEF LinksInv, Sound
<1>1. ASSUME NEW by \in Contacts, NEW v \in Contacts, NEW takeOver \in BOOLEAN,
             AddContact(c, by, v, takeOver)
      PROVE  CallMoves(c) /\ LinksMove(c)
  <2>. PICK op \in {"takeover", "add"} : op = IF takeOver THEN "takeover" ELSE "add"
    OBVIOUS
  <2>. DEFINE x == Ask(op, v, by, "contact")
  <2>1. Resolve(c, x) /\ UNCHANGED links
    BY <1>1 DEF AddContact, Ask
  <2>2. Sound(x) /\ x.op = op
    BY Asked
  <2>. HIDE DEF x
  <2>. QED BY <2>1, <2>2, ResolveSound DEF CallMoves, LinksMove, Identified
<1>2. CASE ReadClaim(c)
  <2>1. UNCHANGED links
    BY <1>2 DEF ReadClaim
  <2>2. ASSUME NEW v, tierRank(links[v].via) < tierRank("purchase"),
               Go(c, [calls[c] EXCEPT !.pc = "delete", !.other = links[v].owner,
                                      !.seen = links[v].via])
        PROVE  CallMoves(c)
    <3>. PICK owner, via : owner = links[v].owner /\ via = links[v].via
      OBVIOUS
    <3>. DEFINE y1 == [calls[c] EXCEPT !.pc = "delete"]
                y2 == [y1 EXCEPT !.other = owner]
                y3 == [y2 EXCEPT !.seen = via]
    <3>0. Go(c, y3) /\ tierRank(via) < tierRank("purchase")
      BY <2>2
    <3>1. Same(calls[c], y1) /\ y1.pc = "delete"
      BY <1>0, Goes
    <3>. HIDE DEF y1
    <3>2. IsCall(y1)
      BY <3>1 DEF Same
    <3>3. Same(y1, y2) /\ y2.pc = "delete"
      BY <3>1, <3>2, SetsOther
    <3>. HIDE DEF y2
    <3>4. IsCall(y2)
      BY <3>3 DEF Same
    <3>5. Same(y2, y3) /\ y3.pc = "delete" /\ y3.seen = via
      BY <3>3, <3>4, SetsSeen
    <3>. HIDE DEF y3
    <3>6. Sound(y3)
      BY <1>0, <3>0, <3>1, <3>3, <3>5 DEF Sound, Same
    <3>. QED BY <3>0, <3>6 DEF CallMoves
  <2>3. \/ To(c, "place") \/ To(c, "demote") \/ End(c)
        \/ \E v : /\ tierRank(links[v].via) < tierRank("purchase")
                  /\ Go(c, [calls[c] EXCEPT !.pc = "delete", !.other = links[v].owner,
                                             !.seen = links[v].via])
    BY <1>2 DEF ReadClaim
  <2>. QED BY <2>1, <2>2, <2>3, ToMoves, EndMoves DEF LinksMove
<1>3. CASE SetContactTier(c)
  BY <1>3, EndMoves DEF SetContactTier, LinksMove, Raises
<1>4. CASE DeleteClaim(c)
  <2>1. Deletes(c)
    BY <1>4 DEF DeleteClaim, Deletes
  <2>2. Go(c, [calls[c] EXCEPT !.pc = "place", !.other = 0, !.seen = NoTier])
    BY <1>4 DEF DeleteClaim
  <2>. DEFINE y1 == [calls[c] EXCEPT !.pc = "place"]
              y2 == [y1 EXCEPT !.other = 0]
              y3 == [y2 EXCEPT !.seen = NoTier]
  <2>3. Go(c, y3)
    BY <2>2
  <2>4. Same(calls[c], y1) /\ y1.pc = "place"
    BY <1>0, Goes
  <2>. HIDE DEF y1
  <2>5. IsCall(y1)
    BY <2>4 DEF Same
  <2>6. Same(y1, y2) /\ y2.pc = "place"
    BY <2>4, <2>5, SetsOther
  <2>. HIDE DEF y2
  <2>7. IsCall(y2)
    BY <2>6 DEF Same
  <2>8. Same(y2, y3) /\ y3.pc = "place"
    BY <2>6, <2>7, SetsSeen
  <2>. HIDE DEF y3
  <2>9. Sound(y3)
    BY <1>0, <2>4, <2>6, <2>8, SameIsTransitive, SoundElsewhere
  <2>. QED BY <2>1, <2>3, <2>9 DEF CallMoves, LinksMove
<1>5. CASE PlaceClaim(c)
  BY <1>5, EndMoves DEF PlaceClaim, LinksMove, Adds
<1>6. ASSUME NEW by \in Contacts, NEW v \in Contacts, PromoteContact(c, by, v)
      PROVE  CallMoves(c) /\ LinksMove(c)
  <2>. DEFINE x == Ask("promote", v, by, "otp")
  <2>1. Resolve(c, x) /\ UNCHANGED links
    BY <1>6 DEF PromoteContact, Ask
  <2>2. "otp" \in Proven
    BY DEF Proven
  <2>3. Sound(x) /\ x.op = "promote"
    BY <2>2, Asked
  <2>. HIDE DEF x
  <2>. QED BY <2>1, <2>3, ResolveSound DEF CallMoves, LinksMove, Identified
<1>7. CASE CheckOwn(c)
  <2>1. calls[c].pc = "check" /\ UNCHANGED links /\ (To(c, "confirm") \/ End(c))
    BY <1>7 DEF CheckOwn
  <2>2. CASE To(c, "confirm")
    <3>. DEFINE y == [calls[c] EXCEPT !.pc = "confirm"]
    <3>1. Same(calls[c], y) /\ y.pc = "confirm"
      BY <1>0, Goes
    <3>2. Go(c, y)
      BY <2>2 DEF To
    <3>. HIDE DEF y
    <3>3. Sound(y)
      BY <1>0, <2>1, <3>1 DEF Sound, Same
    <3>. QED BY <2>1, <3>2, <3>3 DEF CallMoves, LinksMove
  <2>. QED BY <2>1, <2>2, EndMoves DEF LinksMove
<1>8. CASE Confirm(c)
  <2>1. /\ calls[c].pc = "confirm" /\ UNCHANGED links
        /\ Resolve(c, [calls[c] EXCEPT !.by = calls[c].contact]) \/ End(c)
    BY <1>8 DEF Confirm
  <2>. DEFINE x == [calls[c] EXCEPT !.by = calls[c].contact]
  <2>2. Same(calls[c], x) /\ x.pc = calls[c].pc
    BY <1>0, SetsBy
  <2>3. Resolve(c, x) \/ End(c)
    BY <2>1
  <2>. HIDE DEF x
  <2>4. Sound(x) /\ x.op \in Identified
    BY <1>0, <2>1, <2>2 DEF Sound, Same, Identified
  <2>. QED BY <2>1, <2>3, <2>4, ResolveSound, EndMoves DEF CallMoves, LinksMove
<1>9. CASE StampTier(c)
  BY <1>9, EndMoves DEF StampTier, LinksMove, Raises, Proven
<1>. QED BY <1>1, <1>2, <1>3, <1>4, <1>5, <1>6, <1>7, <1>8, <1>9 DEF ContactStep

\* A call that has a customer goes on to its link.
LEMMA LinkMoves ==
  ASSUME NEW c \in Calls, NEW x, NEW i, Sound(x),
         Go(c, [x EXCEPT !.pc = "link", !.customer = i])
  PROVE  CallMoves(c)
<1>. DEFINE y1 == [x EXCEPT !.pc = "link"]
            y2 == [y1 EXCEPT !.customer = i]
<1>0. IsCall(x) /\ Go(c, y2)
  BY DEF Sound
<1>1. Same(x, y1) /\ y1.pc = "link"
  BY <1>0, Goes
<1>. HIDE DEF y1
<1>2. IsCall(y1)
  BY <1>1 DEF Same
<1>3. Same(y1, y2) /\ y2.pc = "link"
  BY <1>1, <1>2, SetsCustomer
<1>. HIDE DEF y2
<1>4. Sound(y2)
  BY <1>1, <1>3, SameIsTransitive, SoundElsewhere
<1>. QED BY <1>0, <1>4 DEF CallMoves

LEMMA BuyerSteps ==
  ASSUME LinksInv, NEW c \in Calls, BuyerStep(c)
  PROVE  CallMoves(c) /\ LinksMove(c)
<1>0. Sound(calls[c]) /\ IsCall(calls[c])
  BY DEF LinksInv, Sound
<1>1. ASSUME NEW t \in Purchases, NEW v \in Contacts, NEW mail, NEW own,
             Purchase(c, t, v, mail, own)
      PROVE  CallMoves(c) /\ LinksMove(c)
  <2>. DEFINE x == AskBy("purchase", v, mail)
              w == [x EXCEPT !.own = own]
              y == [w EXCEPT !.txn = t]
              z == [y EXCEPT !.pc = "column"]
  <2>1. (UNCHANGED calls \/ Go(c, z)) /\ UNCHANGED links
    BY <1>1 DEF Purchase, AskBy
  <2>2. IsCall(x) /\ x.op = "purchase" /\ x.pc = "idle"
    BY AskedBy
  <2>. HIDE DEF x
  <2>0. Sound(x)
    BY <2>2 DEF Sound
  <2>3. IsCall(w) /\ Same(x, w)
    BY <2>2, SetsOwn
  <2>. HIDE DEF w
  <2>4. Same(x, y)
    BY <2>3, SetsTxn, SameIsTransitive
  <2>. HIDE DEF y
  <2>5. Sound(z)
    BY <2>0, <2>4, GoesElsewhere
  <2>. QED BY <2>1, <2>5 DEF CallMoves, LinksMove
<1>2. CASE ReadColumn(c)
  <2>1. /\ UNCHANGED links
        /\ \/ \E i : Go(c, [calls[c] EXCEPT !.pc = "link", !.customer = i])
           \/ To(c, "create")
    BY <1>2 DEF ReadColumn
  <2>. QED BY <1>0, <2>1, LinkMoves, ToMoves DEF LinksMove
<1>3. CASE CreateBuyer(c)
  <2>1. /\ UNCHANGED links
        /\ \/ \E i : Go(c, [calls[c] EXCEPT !.pc = "link", !.customer = i])
           \/ End(c)
    BY <1>3 DEF CreateBuyer
  <2>. QED BY <1>0, <2>1, LinkMoves, EndMoves DEF LinksMove
<1>4. CASE LinkBuyer(c)
  BY <1>4, EndMoves DEF LinkBuyer, LinksMove, Adds
<1>. QED BY <1>1, <1>2, <1>3, <1>4 DEF BuyerStep

LEMMA UpgradeSteps ==
  ASSUME LinksInv, NEW c \in Calls, (\E v \in Contacts : LookUpLegacy(c, v)) \/ LinkLegacy(c)
  PROVE  CallMoves(c) /\ LinksMove(c)
<1>1. ASSUME NEW v \in Contacts, LookUpLegacy(c, v)
      PROVE  CallMoves(c) /\ LinksMove(c)
  <2>1. PICK i : Go(c, [Idle EXCEPT !.op = "upgrade", !.pc = "link", !.contact = v,
                                    !.customer = i])
    BY <1>1 DEF LookUpLegacy
  <2>. DEFINE x1 == [Idle EXCEPT !.op = "upgrade"]
              x2 == [x1 EXCEPT !.pc = "link"]
              x3 == [x2 EXCEPT !.contact = v]
              x == [x3 EXCEPT !.customer = i]
  <2>2. Go(c, x)
    BY <2>1
  <2>0. IsCall(Idle)
    BY IdleSound DEF Sound
  <2>3. IsCall(x1) /\ x1.op = "upgrade"
    BY <2>0, SetsOp
  <2>. HIDE DEF x1
  <2>4. IsCall(x2) /\ x2.op = "upgrade" /\ x2.pc = "link"
    BY <2>3, Goes DEF Same
  <2>. HIDE DEF x2
  <2>6. IsCall(x3) /\ Same(x2, x3) /\ x3.pc = "link"
    BY <2>4, SetsContact
  <2>. HIDE DEF x3
  <2>7. IsCall(x) /\ Same(x3, x) /\ x.pc = "link"
    BY <2>6, SetsCustomer
  <2>. HIDE DEF x
  <2>8. Sound(x)
    BY <2>4, <2>6, <2>7 DEF Sound, Same
  <2>5. UNCHANGED links
    BY <1>1 DEF LookUpLegacy
  <2>. QED BY <2>2, <2>5, <2>8 DEF CallMoves, LinksMove
<1>2. CASE LinkLegacy(c)
  BY <1>2, EndMoves DEF LinkLegacy, LinksMove, Adds
<1>. QED BY <1>1, <1>2

\* Every statement of every call.
LEMMA NextMoves ==
  ASSUME LinksInv, Next
  PROVE  \E c \in Calls : CallMoves(c) /\ LinksMove(c)
<1>1. PICK c \in Calls : \/ SignInStep(c) \/ ContactStep(c) \/ BuyerStep(c)
                        \/ (\E v \in Contacts : LookUpLegacy(c, v)) \/ LinkLegacy(c)
                        \/ CallFails(c)
  BY DEF Next
<1>2. CASE CallFails(c)
  BY <1>2, EndMoves, DoneMoves DEF CallFails, LinksMove
<1>. QED BY <1>1, <1>2, SignInSteps, ContactSteps, BuyerSteps, UpgradeSteps

-----------------------------------------------------------------------------
(* The invariant and the theorems.                                         *)

LEMMA LinksInit == Init => LinksInv
<1>. SUFFICES ASSUME Init PROVE LinksInv
  OBVIOUS
<1>1. calls = [c \in Calls |-> Idle] /\ links = <<>>
  BY DEF Init
<1>. QED BY <1>1, IdleSound DEF LinksInv, LinksShape

LEMMA LinksStep == LinksInv /\ [Next]_vars => LinksInv'
<1>. SUFFICES ASSUME LinksInv, [Next]_vars PROVE LinksInv'
  OBVIOUS
<1>1. CASE UNCHANGED vars
  BY <1>1 DEF vars, LinksInv, LinksShape
<1>2. CASE Next
  <2>1. PICK c \in Calls : CallMoves(c) /\ LinksMove(c)
    BY <1>2, NextMoves
  <2>2. /\ calls' = [d \in Calls |-> calls'[d]]
        /\ \A d \in Calls : Sound(calls'[d])
    BY <2>1 DEF CallMoves, Go, LinksInv
  <2>3. LinksShape'
    <3>0. LinksShape
      BY DEF LinksInv
    <3>1. CASE UNCHANGED links
      BY <3>0, <3>1 DEF LinksShape
    <3>. QED BY <2>1, <3>0, <3>1, AddsKeep, RaisesKeep, DeletesKeep
         DEF LinksMove, Adds, Raises
  <2>. QED BY <2>2, <2>3 DEF LinksInv
<1>. QED BY <1>1, <1>2

LEMMA LinksInvariant == Spec => []LinksInv
BY LinksInit, LinksStep, PTL DEF Spec

\* What one step does to one claim.
Deleted(c, v) ==
  /\ calls[c].pc = "delete" /\ v = calls[c].contact
  /\ links[v].owner = calls[c].other /\ v \notin DOMAIN links'
KeptBy(c, v) ==
  /\ v \in DOMAIN links' /\ links'[v].owner = links[v].owner
  /\ \/ links'[v].via = links[v].via \/ links'[v].via \in Proven
     \/ calls[c].pc = "demote" /\ v = calls[c].contact

LEMMA ClaimSteps ==
  ASSUME LinksInv, NEW c \in Calls, LinksMove(c), NEW v \in DOMAIN links
  PROVE  KeptBy(c, v) \/ Deleted(c, v)
<1>0. LinksShape
  BY DEF LinksInv
<1>1. CASE UNCHANGED links
  BY <1>1 DEF KeptBy
<1>2. ASSUME NEW w, NEW owner, NEW via, AddLink(w, owner, via)
      PROVE  KeptBy(c, v)
  BY <1>0, <1>2, AddsKeep DEF KeptBy
<1>3. ASSUME NEW w, NEW owner, NEW via, RaiseLink(w, owner, via),
             via \in Proven \/ (calls[c].pc = "demote" /\ w = calls[c].contact)
      PROVE  KeptBy(c, v)
  <2>1. /\ DOMAIN links' = DOMAIN links /\ links'[v].owner = links[v].owner
        /\ links'[v].via = links[v].via \/ (v = w /\ links'[v].via = via)
    BY <1>0, <1>3, RaisesKeep
  <2>. QED BY <1>3, <2>1 DEF KeptBy
<1>4. CASE Deletes(c)
  <2>1. \/ v \in DOMAIN links' /\ links'[v] = links[v]
        \/ v = calls[c].contact /\ links[v].owner = calls[c].other /\ v \notin DOMAIN links'
    BY <1>0, <1>4, DeletesKeep
  <2>2. calls[c].pc = "delete"
    BY <1>4 DEF Deletes
  <2>. QED BY <2>1, <2>2 DEF KeptBy, Deleted
<1>. QED BY <1>1, <1>2, <1>3, <1>4 DEF LinksMove, Adds, Raises

\* A claim changes hands only by a take-over that read it as weaker than a
\* purchase (AddContact with takeOver): whatever sign-ins, purchases, promotions and
\* upgrades do at the same time, none of their statements takes one.
THEOREM ClaimsChangeByTakeOver == Spec => ClaimsStand
<1>1. LinksInv /\ [Next]_vars =>
        [\A v \in DOMAIN links :
          (v \in DOMAIN links' => links'[v].owner # links[v].owner)
             => \E c \in Calls :
                   /\ calls[c].pc = "delete" /\ calls[c].contact = v
                   /\ calls[c].other = links[v].owner
                   /\ tierRank(calls[c].seen) < tierRank("purchase")]_vars
  <2>. SUFFICES ASSUME LinksInv, Next, NEW v \in DOMAIN links,
                       v \in DOMAIN links' => links'[v].owner # links[v].owner
                PROVE  \E c \in Calls :
                         /\ calls[c].pc = "delete" /\ calls[c].contact = v
                         /\ calls[c].other = links[v].owner
                         /\ tierRank(calls[c].seen) < tierRank("purchase")
    OBVIOUS
  <2>1. PICK c \in Calls : LinksMove(c)
    BY NextMoves
  <2>2. Deleted(c, v)
    BY <2>1, ClaimSteps DEF KeptBy
  <2>3. Sound(calls[c])
    BY DEF LinksInv
  <2>. QED BY <2>2, <2>3 DEF Deleted, Sound
<1>. QED BY <1>1, LinksInvariant, PTL DEF Spec, ClaimsStand

\* Whatever the order of the calls' statements, a claim that keeps its owner
\* keeps its tier or rises (linkContact, PromoteContact), but for the UPDATE
\* by which AddContact claims a legacy link for itself.
THEOREM TiersNeverFall == Spec => TiersRise
<1>1. LinksInv /\ [Next]_vars =>
        [\A v \in DOMAIN links :
          v \in DOMAIN links' /\ tierRank(links'[v].via) < tierRank(links[v].via)
             => \E c \in Calls : calls[c].pc = "demote" /\ calls[c].contact = v]_vars
  <2>. SUFFICES ASSUME LinksInv, Next, NEW v \in DOMAIN links, v \in DOMAIN links',
                       tierRank(links'[v].via) < tierRank(links[v].via)
                PROVE  \E c \in Calls : calls[c].pc = "demote" /\ calls[c].contact = v
    OBVIOUS
  <2>1. PICK c \in Calls : LinksMove(c)
    BY NextMoves
  <2>2. KeptBy(c, v)
    BY <2>1, ClaimSteps DEF Deleted
  <2>. PICK a \in 0..3, b \in 0..3 :
          /\ a = tierRank(links'[v].via) /\ b = tierRank(links[v].via)
          /\ links'[v].via = links[v].via => a = b
          /\ links'[v].via \in Proven => a = 3
    BY RankBound
  <2>3. a < b
    OBVIOUS
  <2>4. ~(links'[v].via = links[v].via) /\ ~(links'[v].via \in Proven)
    BY <2>3
  <2>. QED BY <2>2, <2>4 DEF KeptBy
<1>. QED BY <1>1, LinksInvariant, PTL DEF Spec, TiersRise

-----------------------------------------------------------------------------
(* Types: what a call remembers at each of its statements, when there are  *)
(* n customer rows.                                                        *)

Ops == {"none", "verify", "add", "takeover", "promote", "purchase", "upgrade"}
Pcs == {"idle", "signup", "read", "insert", "raise", "claim", "demote", "delete",
        "place", "check", "confirm", "stamp", "column", "create", "link"}

InCall(x) ==
  /\ IsCall(x) /\ x.op \in Ops /\ x.pc \in Pcs /\ x.contact \in Contacts \cup {""}
  /\ x.by \in Contacts \cup {""} /\ x.via \in Tiers \cup {NoTier}
  /\ x.customer \in 0..MaxCustomers /\ x.own \in 0..MaxCustomers
  /\ x.other \in 0..MaxCustomers /\ x.seen \in Tiers \cup {NoTier}
  /\ x.txn \in Purchases \cup {""}

LEMMA MaxType == MaxCustomers \in Nat /\ 0 \in 0..MaxCustomers
<1>1. MaxCustomers \in Nat
  BY LinksAssumption
<1>. QED BY <1>1

LEMMA RowNumbers ==
  ASSUME NEW n \in Nat
  PROVE  0 \in 0..n /\ 1..n \subseteq 0..n /\ 0 \notin 1..n
OBVIOUS

LEMMA CallType == ASSUME NEW x PROVE x \in Call <=> InCall(x)
<1>1. ASSUME x \in Call PROVE IsCall(x)
  BY <1>1 DEF Call, IsCall
<1>2. ASSUME x \in Call
      PROVE  /\ x.op \in Ops /\ x.pc \in Pcs /\ x.contact \in Contacts \cup {""}
             /\ x.by \in Contacts \cup {""} /\ x.via \in Tiers \cup {NoTier}
             /\ x.customer \in 0..MaxCustomers /\ x.own \in 0..MaxCustomers
             /\ x.other \in 0..MaxCustomers /\ x.seen \in Tiers \cup {NoTier}
             /\ x.txn \in Purchases \cup {""}
  BY <1>2 DEF Call, Ops, Pcs
<1>3. ASSUME InCall(x) PROVE x \in Call
  BY <1>3 DEF Call, InCall, IsCall, Ops, Pcs
<1>. QED BY <1>1, <1>2, <1>3 DEF InCall

\* One assignment to the record, or several at once.
LEMMA PcFields ==
  ASSUME NEW x, IsCall(x), NEW p, NEW y, y = [x EXCEPT !.pc = p]
  PROVE  /\ IsCall(y) /\ y.pc = p /\ y.op = x.op /\ y.contact = x.contact /\ y.by = x.by
         /\ y.via = x.via /\ y.customer = x.customer /\ y.own = x.own
         /\ y.other = x.other /\ y.seen = x.seen /\ y.txn = x.txn
BY DEF IsCall

LEMMA CustomerFields ==
  ASSUME NEW x, IsCall(x), NEW e, NEW y, y = [x EXCEPT !.customer = e]
  PROVE  /\ IsCall(y) /\ y.pc = x.pc /\ y.op = x.op /\ y.contact = x.contact /\ y.by = x.by
         /\ y.via = x.via /\ y.customer = e /\ y.own = x.own
         /\ y.other = x.other /\ y.seen = x.seen /\ y.txn = x.txn
BY DEF IsCall

\* Where Continue leads.
Owned(x, p) ==
  [[x EXCEPT !.own = x.customer, !.customer = 0, !.by = ""] EXCEPT !.pc = p]
Reads(x) == [x EXCEPT !.pc = "read", !.by = ""]

LEMMA ReadFields ==
  ASSUME NEW x, IsCall(x), NEW y, y = Reads(x)
  PROVE  /\ IsCall(y) /\ y.pc = "read" /\ y.op = x.op /\ y.contact = x.contact /\ y.by = ""
         /\ y.via = x.via /\ y.customer = x.customer /\ y.own = x.own
         /\ y.other = x.other /\ y.seen = x.seen /\ y.txn = x.txn
BY DEF IsCall, Reads

CallFits(x, n) ==
  /\ InCall(x) /\ x.customer \in 0..n /\ x.own \in 0..n
  /\ x.op \in Identified => x.via \in Tiers
  /\ x.pc # "idle" => x.contact \in Contacts
  /\ x.pc = "signup" => x.by \in Contacts /\ x.op \in Identified
  /\ x.pc \in {"check", "confirm"} => x.op = "promote"
  /\ x.pc \in {"read", "insert", "raise"} => x.customer # 0 /\ x.op \in Identified
  /\ x.pc \in {"claim", "delete", "place"} => x.own # 0
  /\ x.pc \in {"column", "create"} =>
        x.op = "purchase" /\ x.txn \in Purchases /\ x.by \in Emails \cup {""}
  /\ x.pc = "link" => x.customer # 0 /\ (x.op = "purchase" => x.txn \in Purchases)

LEMMA FitsMore ==
  ASSUME NEW n \in Nat, NEW m \in Nat, n <= m, NEW x, CallFits(x, n)
  PROVE  CallFits(x, m)
<1>1. 0..n \subseteq 0..m
  OBVIOUS
<1>. QED BY <1>1 DEF CallFits

LEMMA IdleCallFits == ASSUME NEW n \in Nat PROVE CallFits(Idle, n)
<1>. PICK x : x = Idle
  OBVIOUS
<1>1. /\ IsCall(x) /\ x.pc = "idle" /\ x.op = "none" /\ x.contact = "" /\ x.by = ""
      /\ x.via = NoTier /\ x.customer = 0 /\ x.own = 0
      /\ x.other = 0 /\ x.seen = NoTier /\ x.txn = ""
  BY DEF Idle, IsCall
<1>2. 0 \in 0..n /\ 0 \in 0..MaxCustomers
  BY MaxType
<1>3. InCall(x)
  BY <1>1, <1>2 DEF InCall, Ops, Pcs
<1>. QED BY <1>1, <1>2, <1>3 DEF CallFits, Identified

\* EnsureSelfCustomer has found or made the customer.
Known(x, n) ==
  /\ InCall(x) /\ x.op \in Identified /\ x.via \in Tiers /\ x.contact \in Contacts
  /\ x.customer \in 1..n /\ x.own \in 0..n

LEMMA ContinueFits ==
  ASSUME NEW n \in Nat, n <= MaxCustomers, NEW x, Known(x, n)
  PROVE  CallFits(Continue(x), n)
<1>a. IsCall(x)
  BY DEF InCall, Known
<1>0. /\ 0 \in 0..n /\ 0 \in 0..MaxCustomers /\ 1..n \subseteq 0..n
      /\ 1..n \subseteq 0..MaxCustomers /\ 0 \notin 1..n
  BY MaxType
<1>. PICK y : y = Continue(x)
  OBVIOUS
<1>1. ASSUME y = Owned(x, "claim")
      PROVE  CallFits(y, n)
  <2>1. /\ IsCall(y) /\ y.pc = "claim" /\ y.op = x.op /\ y.contact = x.contact /\ y.by = ""
        /\ y.via = x.via /\ y.customer \in {0} /\ y.own = x.customer
        /\ y.other = x.other /\ y.seen = x.seen /\ y.txn = x.txn
    BY <1>a, <1>1 DEF IsCall, Owned
  <2>2. InCall(y)
    BY <1>0, <2>1 DEF InCall, Pcs, Known
  <2>. QED BY <1>0, <1>1, <2>1, <2>2 DEF CallFits, Known
<1>3. ASSUME x.op = "promote", y = Owned(x, "check")
      PROVE  CallFits(y, n)
  <2>1. /\ IsCall(y) /\ y.pc = "check" /\ y.op = x.op /\ y.contact = x.contact /\ y.by = ""
        /\ y.via = x.via /\ y.customer \in {0} /\ y.own = x.customer
        /\ y.other = x.other /\ y.seen = x.seen /\ y.txn = x.txn
    BY <1>a, <1>3 DEF IsCall, Owned
  <2>2. InCall(y)
    BY <1>0, <2>1 DEF InCall, Pcs, Known
  <2>. QED BY <1>0, <1>3, <2>1, <2>2 DEF CallFits, Known
<1>2. ASSUME y = Reads(x)
      PROVE  CallFits(y, n)
  <2>1. /\ IsCall(y) /\ y.pc = "read" /\ y.op = x.op /\ y.contact = x.contact /\ y.by = ""
        /\ y.via = x.via /\ y.customer = x.customer /\ y.own = x.own
        /\ y.other = x.other /\ y.seen = x.seen /\ y.txn = x.txn
    BY <1>a, <1>2, ReadFields
  <2>2. InCall(y)
    BY <1>0, <2>1 DEF InCall, Pcs, Known
  <2>. QED BY <1>0, <2>1, <2>2 DEF CallFits, Known
<1>4. \/ y = Owned(x, "claim") \/ (x.op = "promote" /\ y = Owned(x, "check"))
      \/ y = Reads(x)
  BY DEF Continue, Owned, Reads
<1>. QED BY <1>1, <1>2, <1>3, <1>4

-----------------------------------------------------------------------------
(* Types: what one statement does to each variable.                        *)

FitsInv ==
  /\ TypeOK
  /\ \A c \in Calls : CallFits(calls[c], Len(customers))

LEMMA CustomerRows ==
  ASSUME TypeOK
  PROVE  customers \in Seq(Customer) /\ Len(customers) <= MaxCustomers
BY Zenon DEF TypeOK

\* The rows after one more is inserted, m of them.
LEMMA Appended ==
  ASSUME NEW S, NEW s \in Seq(S), NEW r \in S, NEW m \in Nat, m = Len(s) + 1,
         NEW z, z = Append(s, r)
  PROVE  /\ z \in Seq(S) /\ Len(z) = m /\ DOMAIN z = 1..m /\ m \in 1..m
         /\ Len(s) \in Nat /\ DOMAIN s = 1..Len(s) /\ m \notin 1..Len(s)
         /\ \A i \in 1..m : i \in 1..Len(s) \/ i = m
         /\ z[m] = r
         /\ \A i \in 1..Len(s) : i \in 1..m /\ z[i] = s[i]
OBVIOUS

LEMMA Rows ==
  ASSUME TypeOK
  PROVE  /\ Len(customers) \in Nat /\ Len(customers) <= MaxCustomers
         /\ DOMAIN customers = 1..Len(customers)
         /\ \A v \in DOMAIN links :
               /\ v \in Contacts /\ links[v].owner \in 1..Len(customers)
               /\ links[v].via \in Tiers
<1>1. /\ Len(customers) \in Nat /\ Len(customers) <= MaxCustomers
      /\ DOMAIN customers = 1..Len(customers)
  BY CustomerRows
<1>2. ASSUME NEW v \in DOMAIN links
      PROVE  /\ v \in Contacts /\ links[v].owner \in 1..Len(customers)
             /\ links[v].via \in Tiers
  <2>1. v \in Contacts /\ links[v] \in Link /\ links[v].owner <= Len(customers)
    BY <1>2 DEF TypeOK
  <2>2. links[v].owner \in 1..MaxCustomers /\ links[v].via \in Tiers
    BY <2>1 DEF Link, Ids
  <2>. QED BY <1>1, <2>1, <2>2, MaxType
<1>. QED BY <1>1, <1>2

LEMMA OwnersAreRows ==
  ASSUME TypeOK, NEW v
  PROVE  /\ Primaries(v) \subseteq 1..Len(customers)
         /\ Owners(v) \subseteq 1..Len(customers)
         /\ ColumnOwners(v) \subseteq 1..Len(customers)
         /\ LegacyIds(v) \subseteq 1..Len(customers)
<1>1. LinkIds(v) \subseteq 1..Len(customers)
  BY Rows DEF LinkIds
<1>2. LegacyIds(v) \subseteq 1..Len(customers) /\ ColumnOwners(v) \subseteq 1..Len(customers)
  BY Rows DEF LegacyIds, ColumnOwners
<1>3. Owners(v) \subseteq 1..Len(customers)
  BY Rows DEF Owners
<1>. QED BY <1>1, <1>2, <1>3 DEF Primaries

RowStep ==
  UNCHANGED customers
    \/ \E r \in Customer : /\ Len(customers) < MaxCustomers
                           /\ customers' = Append(customers, r)
LinkStep ==
  \/ UNCHANGED links
  \/ \E v \in Contacts, i \in 1..Len(customers), via \in Tiers : AddLink(v, i, via)
  \/ \E v, i : \E via \in Tiers : RaiseLink(v, i, via)
  \/ \E S \in SUBSET DOMAIN links : links' = [w \in S |-> links[w]]
AttachStep ==
  \/ UNCHANGED bought
  \/ \E t \in Purchases, i \in 0..Len(customers), v \in Contacts \cup {""} :
        /\ UNCHANGED attached \/ attached' = [attached EXCEPT ![t] = i]
        /\ UNCHANGED typed \/ typed' = [typed EXCEPT ![t] = v]
CallStep(c) ==
  UNCHANGED calls \/ \E y : CallFits(y, Len(customers')) /\ Go(c, y)
CountStep == started' \in 0..MaxStarted /\ disturbed' \in BOOLEAN

Fitting(c) == RowStep /\ LinkStep /\ AttachStep /\ CallStep(c) /\ CountStep

LEMMA RowsGrow ==
  ASSUME TypeOK, RowStep
  PROVE  /\ customers' \in Seq(Customer) /\ Len(customers') \in Nat
         /\ Len(customers') <= MaxCustomers /\ Len(customers) <= Len(customers')
<1>0. customers \in Seq(Customer) /\ Len(customers) \in Nat /\ Len(customers) <= MaxCustomers
  BY CustomerRows
<1>1. CASE UNCHANGED customers
  BY <1>0, <1>1
<1>2. ASSUME NEW r \in Customer, Len(customers) < MaxCustomers,
             customers' = Append(customers, r)
      PROVE  /\ customers' \in Seq(Customer) /\ Len(customers') = Len(customers) + 1
             /\ Len(customers') <= MaxCustomers
  BY <1>0, <1>2, MaxType
<1>. QED BY <1>0, <1>1, <1>2 DEF RowStep

LEMMA LinksFit ==
  ASSUME TypeOK, LinkStep
  PROVE  /\ DOMAIN links' \subseteq Contacts
         /\ \A v \in DOMAIN links' : /\ links'[v] \in Link
                                     /\ links'[v].owner <= Len(customers)
<1>. PICK n \in Nat : n = Len(customers) /\ n <= MaxCustomers
  BY Rows
<1>0. /\ DOMAIN links \subseteq Contacts
      /\ \A v \in DOMAIN links : links[v] \in Link /\ links[v].owner <= n
  BY DEF TypeOK
<1>1. CASE UNCHANGED links
  BY <1>0, <1>1
<1>2. ASSUME NEW v \in Contacts, NEW i \in 1..n, NEW via \in Tiers, AddLink(v, i, via)
      PROVE  /\ DOMAIN links' \subseteq Contacts
             /\ \A w \in DOMAIN links' : links'[w] \in Link /\ links'[w].owner <= n
  <2>. DEFINE l == [owner |-> i, via |-> via]
  <2>1. l \in Link /\ l.owner <= n
    BY MaxType DEF Link, Ids
  <2>. HIDE DEF l
  <2>2. links' = IF v \in DOMAIN links THEN links
                 ELSE [w \in DOMAIN links \cup {v} |-> IF w = v THEN l ELSE links[w]]
    BY <1>2 DEF AddLink, l
  <2>. QED BY <1>0, <2>1, <2>2
<1>3. ASSUME NEW v, NEW i, NEW via \in Tiers, RaiseLink(v, i, via)
      PROVE  /\ DOMAIN links' \subseteq Contacts
             /\ \A w \in DOMAIN links' : links'[w] \in Link /\ links'[w].owner <= n
  <2>1. DOMAIN links' = DOMAIN links
    BY <1>3 DEF RaiseLink
  <2>2. ASSUME NEW w \in DOMAIN links
        PROVE  links'[w] \in Link /\ links'[w].owner <= n
    <3>. PICK l : l = links[w]
      OBVIOUS
    <3>1. l \in Link /\ l.owner <= n
      BY <1>0
    <3>2. links'[w] = l \/ links'[w] = [l EXCEPT !.via = via]
      BY <1>3 DEF RaiseLink
    <3>3. [l EXCEPT !.via = via] \in Link /\ [l EXCEPT !.via = via].owner = l.owner
      BY <3>1 DEF Link
    <3>. QED BY <3>1, <3>2, <3>3
  <2>. QED BY <1>0, <2>1, <2>2
<1>4. ASSUME NEW S \in SUBSET DOMAIN links, links' = [w \in S |-> links[w]]
      PROVE  /\ DOMAIN links' \subseteq Contacts
             /\ \A w \in DOMAIN links' : links'[w] \in Link /\ links'[w].owner <= n
  BY <1>0, <1>4
<1>. QED BY <1>1, <1>2, <1>3, <1>4 DEF LinkStep

LEMMA FittingStep ==
  ASSUME FitsInv, NEW c \in Calls, Fitting(c)
  PROVE  FitsInv'
<1>0. TypeOK /\ RowStep /\ LinkStep
  BY DEF FitsInv, Fitting
<1>. PICK n \in Nat, m \in Nat : n = Len(customers) /\ m = Len(customers')
  BY <1>0, Rows, RowsGrow
<1>1. n <= m /\ m <= MaxCustomers /\ customers' \in Seq(Customer) /\ 0..n \subseteq 0..m
  BY <1>0, RowsGrow
<1>2. /\ DOMAIN links' \subseteq Contacts
      /\ \A v \in DOMAIN links' : links'[v] \in Link /\ links'[v].owner <= m
  <2>1. /\ DOMAIN links' \subseteq Contacts
        /\ \A v \in DOMAIN links' : links'[v] \in Link /\ links'[v].owner <= n
    BY <1>0, LinksFit
  <2>2. ASSUME NEW v \in DOMAIN links' PROVE links'[v].owner <= m
    <3>. PICK l : l = links'[v]
      OBVIOUS
    <3>1. l \in Link /\ l.owner <= n
      BY <2>1
    <3>2. l.owner \in Nat
      BY <3>1, MaxType DEF Link, Ids
    <3>. QED BY <1>1, <3>1, <3>2
  <2>. QED BY <2>1, <2>2
<1>3. calls = [d \in Calls |-> calls[d]] /\ \A d \in Calls : CallFits(calls[d], m)
  BY <1>1, FitsMore DEF FitsInv, TypeOK
<1>4. calls' = [d \in Calls |-> calls'[d]] /\ \A d \in Calls : CallFits(calls'[d], m)
  BY <1>3 DEF Fitting, CallStep, Go
<1>5. ASSUME NEW d \in Calls
      PROVE  calls'[d] \in Call /\ calls'[d].customer <= m
  <2>. PICK x : x = calls'[d]
    OBVIOUS
  <2>1. InCall(x) /\ x.customer \in 0..m
    BY <1>4 DEF CallFits
  <2>. QED BY <2>1, CallType
<1>6. calls' \in [Calls -> Call]
  BY <1>4, <1>5
<1>7. attached' \in [Purchases -> 0..m] /\ typed' \in [Purchases -> Contacts \cup {""}]
  <2>1. attached \in [Purchases -> 0..m] /\ typed \in [Purchases -> Contacts \cup {""}]
    BY <1>0, <1>1 DEF TypeOK
  <2>. QED BY <1>1, <2>1 DEF Fitting, AttachStep, bought
<1>. QED BY <1>1, <1>2, <1>4, <1>5, <1>6, <1>7 DEF FitsInv, TypeOK, Fitting, CountStep

-----------------------------------------------------------------------------
(* Types: one step per statement.                                          *)

\* What a resolution is given.
Resolvable(x, n) ==
  /\ InCall(x) /\ x.op \in Identified /\ x.via \in Tiers /\ x.contact \in Contacts
  /\ x.by \in Contacts /\ x.customer \in 0..n /\ x.own \in 0..n

LEMMA KnownCustomer ==
  ASSUME NEW n \in Nat, n <= MaxCustomers, NEW x, Resolvable(x, n), NEW i \in 1..n
  PROVE  Known([x EXCEPT !.customer = i], n)
<1>. PICK y : y = [x EXCEPT !.customer = i]
  OBVIOUS
<1>1. IsCall(x)
  BY DEF Resolvable, InCall
<1>2. /\ IsCall(y) /\ y.pc = x.pc /\ y.op = x.op /\ y.contact = x.contact /\ y.by = x.by
      /\ y.via = x.via /\ y.customer = i /\ y.own = x.own
      /\ y.other = x.other /\ y.seen = x.seen /\ y.txn = x.txn
  BY <1>1, CustomerFields
<1>3. i \in 0..MaxCustomers
  BY MaxType
<1>. QED BY <1>2, <1>3 DEF Resolvable, Known, InCall

LEMMA WaitsToSignUp ==
  ASSUME NEW n \in Nat, NEW x, Resolvable(x, n)
  PROVE  CallFits([x EXCEPT !.pc = "signup"], n)
<1>. PICK y : y = [x EXCEPT !.pc = "signup"]
  OBVIOUS
<1>1. IsCall(x)
  BY DEF Resolvable, InCall
<1>2. /\ IsCall(y) /\ y.pc = "signup" /\ y.op = x.op /\ y.contact = x.contact /\ y.by = x.by
      /\ y.via = x.via /\ y.customer = x.customer /\ y.own = x.own
      /\ y.other = x.other /\ y.seen = x.seen /\ y.txn = x.txn
  BY <1>1, PcFields
<1>3. InCall(y)
  BY <1>2 DEF Resolvable, InCall, Pcs
<1>. QED BY <1>2, <1>3 DEF Resolvable, CallFits

LEMMA ResolveFits ==
  ASSUME TypeOK, UNCHANGED customers, NEW c \in Calls, NEW x,
         Resolvable(x, Len(customers)), Resolve(c, x)
  PROVE  CallStep(c)
<1>. PICK n \in Nat : n = Len(customers) /\ n = Len(customers') /\ n <= MaxCustomers
  BY Rows
<1>1. ASSUME NEW i \in Primaries(x.by), Go(c, Continue([x EXCEPT !.customer = i]))
      PROVE  CallStep(c)
  <2>1. i \in 1..n
    BY OwnersAreRows
  <2>. PICK y : y = Continue([x EXCEPT !.customer = i])
    OBVIOUS
  <2>2. CallFits(y, n)
    BY <2>1, KnownCustomer, ContinueFits
  <2>. QED BY <1>1, <2>2 DEF CallStep
<1>2. CASE Go(c, [x EXCEPT !.pc = "signup"])
  BY <1>2, WaitsToSignUp DEF CallStep
<1>. QED BY <1>1, <1>2 DEF Resolve

LEMMA EndFits ==
  ASSUME FitsInv, NEW c \in Calls, UNCHANGED customers, End(c)
  PROVE  CallStep(c)
<1>. PICK n \in Nat : n = Len(customers) /\ n = Len(customers')
  BY Rows DEF FitsInv
<1>. QED BY IdleCallFits DEF End, CallStep

\* A call goes on to a statement that fits what it remembers.
LEMMA ToFits ==
  ASSUME FitsInv, NEW c \in Calls, UNCHANGED customers, NEW p \in Pcs, To(c, p),
         calls[c].pc \notin {"idle", "signup"},
         p \in {"demote", "stamp"}
           \/ (p = "insert" /\ calls[c].pc = "read")
           \/ (p = "raise" /\ calls[c].pc = "read")
           \/ (p = "place" /\ calls[c].pc = "claim")
           \/ (p = "confirm" /\ calls[c].pc = "check")
           \/ (p = "create" /\ calls[c].pc = "column")
  PROVE  CallStep(c)
<1>. PICK n \in Nat : n = Len(customers) /\ n = Len(customers')
  BY Rows DEF FitsInv
<1>. PICK x : x = calls[c]
  OBVIOUS
<1>. PICK y : y = [x EXCEPT !.pc = p]
  OBVIOUS
<1>0. CallFits(x, n) /\ InCall(x) /\ IsCall(x)
  BY DEF FitsInv, CallFits, InCall
<1>1. /\ IsCall(y) /\ y.pc = p /\ y.op = x.op /\ y.contact = x.contact /\ y.by = x.by
      /\ y.via = x.via /\ y.customer = x.customer /\ y.own = x.own
      /\ y.other = x.other /\ y.seen = x.seen /\ y.txn = x.txn
  BY <1>0, PcFields
<1>2. InCall(y)
  BY <1>0, <1>1 DEF InCall
<1>3. CallFits(y, n)
  BY <1>0, <1>1, <1>2 DEF CallFits
<1>. QED BY <1>3 DEF To, CallStep

LEMMA DoneFits ==
  ASSUME FitsInv, NEW c \in Calls, UNCHANGED customers, Done(c),
         calls[c].pc \notin {"idle", "signup"}
  PROVE  CallStep(c)
<1>1. To(c, "stamp") \/ End(c)
  BY DEF Done
<1>. QED BY <1>1, EndFits, ToFits DEF Pcs

LEMMA AskResolves ==
  ASSUME NEW n \in Nat, NEW op \in Identified, NEW v \in Contacts, NEW by \in Contacts,
         NEW via \in Tiers
  PROVE  Resolvable(Ask(op, v, by, via), n)
<1>. PICK y : y = Ask(op, v, by, via)
  OBVIOUS
<1>1. IsCall(y) /\ y.pc = "idle" /\ y.op = op /\ y.contact = v
  BY DEF Ask, Idle, IsCall
<1>2. y.by = by /\ y.via = via
  BY DEF Ask, Idle
<1>3. y.customer = 0 /\ y.own = 0 /\ y.other = 0
  BY DEF Ask, Idle
<1>4. y.seen = NoTier /\ y.txn = ""
  BY DEF Ask, Idle
<1>5. 0 \in 0..n /\ 0 \in 0..MaxCustomers
  BY MaxType
<1>6. op \in Ops /\ "idle" \in Pcs
  BY DEF Identified, Ops, Pcs
<1>7. InCall(y)
  BY <1>1, <1>2, <1>3, <1>4, <1>5, <1>6 DEF InCall
<1>. QED BY <1>1, <1>2, <1>3, <1>5, <1>7 DEF Resolvable

LEMMA NextId ==
  ASSUME NEW n \in Nat
  PROVE  \E m \in Nat : m = n + 1 /\ m \in 1..m /\ 0..n \subseteq 0..m
OBVIOUS

LEMMA SignUpFits ==
  ASSUME FitsInv, LinksInv, NEW c \in Calls, SignUp(c)
  PROVE  Fitting(c)
<1>. PICK n \in Nat : n = Len(customers) /\ n <= MaxCustomers
  BY Rows DEF FitsInv
<1>. PICK x : x = calls[c]
  OBVIOUS
<1>1. CallFits(x, n) /\ x.pc = "signup" /\ TypeOK
  BY DEF FitsInv, SignUp
<1>2. Resolvable(x, n)
  BY <1>1 DEF CallFits, Resolvable, Identified
<1>3. UNCHANGED <<links, started, bought, disturbed>>
  BY DEF SignUp
<1>4. ASSUME NEW i \in DOMAIN customers, UNCHANGED customers,
             Go(c, Continue([x EXCEPT !.customer = i]))
      PROVE  CallStep(c) /\ RowStep
  <2>1. i \in 1..n
    BY <1>1, Rows
  <2>. PICK y : y = Continue([x EXCEPT !.customer = i])
    OBVIOUS
  <2>2. CallFits(y, n)
    BY <1>2, <2>1, KnownCustomer, ContinueFits
  <2>. QED BY <1>4, <2>2 DEF CallStep, RowStep
<1>. PICK m \in Nat : m = n + 1 /\ m \in 1..m /\ 0..n \subseteq 0..m
  BY NextId
<1>. DEFINE row == [made |-> "app", key |-> x.by,
                    phone |-> IF x.by \in Phones THEN x.by ELSE "",
                    email |-> IF x.by \in Emails THEN x.by ELSE ""]
<1>5. ASSUME n < MaxCustomers, customers' = Append(customers, row),
             Go(c, Continue([x EXCEPT !.customer = m]))
      PROVE  CallStep(c) /\ RowStep
  <2>1. row \in Customer
    BY <1>2 DEF Resolvable, Customer, Phones
  <2>. HIDE DEF row
  <2>2. RowStep
    BY <1>5, <2>1 DEF RowStep
  <2>3. Len(customers') = m
    BY <1>1, <1>5, <2>1, CustomerRows, Appended
  <2>4. m <= MaxCustomers
    BY <1>5, MaxType
  <2>5. Resolvable(x, m)
    BY <1>2 DEF Resolvable
  <2>. PICK y : y = Continue([x EXCEPT !.customer = m])
    OBVIOUS
  <2>6. CallFits(y, m)
    BY <2>4, <2>5, KnownCustomer, ContinueFits
  <2>. QED BY <1>5, <2>2, <2>3, <2>6 DEF CallStep
<1>6. CallStep(c) /\ RowStep
  BY <1>4, <1>5 DEF SignUp
<1>. QED BY <1>1, <1>3, <1>6 DEF Fitting, LinkStep, AttachStep, CountStep, TypeOK

\* A statement that leaves everything but its call alone.
Reading ==
  /\ UNCHANGED <<customers, links, bought>> /\ CountStep

LEMMA ReadingFits ==
  ASSUME FitsInv, NEW c \in Calls, Reading, CallStep(c)
  PROVE  Fitting(c)
BY DEF Reading, Fitting, RowStep, LinkStep, AttachStep

LEMMA StartsCount ==
  ASSUME TypeOK, NEW c \in Calls, Starts(c), disturbed' \in BOOLEAN
  PROVE  CountStep
<1>1. MaxStarted \in Nat
  BY LinksAssumption
<1>2. started \in 0..MaxStarted /\ started < MaxStarted /\ started' = started + 1
  BY DEF TypeOK, Starts
<1>3. started' \in 0..MaxStarted
  BY <1>1, <1>2
<1>. QED BY <1>3 DEF CountStep

LEMMA StaysCount ==
  ASSUME TypeOK, UNCHANGED <<started, disturbed>>
  PROVE  CountStep
BY DEF TypeOK, CountStep

LEMMA SignInFits ==
  ASSUME FitsInv, LinksInv, NEW c \in Calls, SignInStep(c)
  PROVE  Fitting(c)
<1>. PICK n \in Nat : n = Len(customers) /\ n <= MaxCustomers
  BY Rows DEF FitsInv
<1>. PICK x : x = calls[c]
  OBVIOUS
<1>0. CallFits(x, n) /\ TypeOK
  BY DEF FitsInv
<1>1. ASSUME NEW v \in Contacts, NEW via \in {"otp", "google"}, Verify(c, v, via)
      PROVE  Fitting(c)
  <2>. DEFINE y == Ask("verify", v, v, via)
  <2>1. Resolve(c, y) /\ UNCHANGED <<customers, links, bought>> /\ StartsAlone(c)
    BY <1>1 DEF Verify, Ask
  <2>2. via \in Tiers /\ "verify" \in Identified
    BY DEF Tiers, Identified
  <2>3. Resolvable(y, n)
    BY <2>2, AskResolves
  <2>. HIDE DEF y
  <2>4. disturbed' \in BOOLEAN /\ Starts(c)
    BY <2>1 DEF StartsAlone
  <2>5. CountStep
    BY <1>0, <2>4, StartsCount
  <2>. QED BY <1>0, <2>1, <2>3, <2>5, ResolveFits, ReadingFits DEF Reading
<1>2. CASE SignUp(c)
  BY <1>2, SignUpFits
<1>3. CASE ReadLink(c)
  <2>1. /\ x.pc = "read" /\ UNCHANGED <<customers, links, started, bought, disturbed>>
        /\ (To(c, "insert") \/ To(c, "raise") \/ Done(c))
    BY <1>3 DEF ReadLink
  <2>2. CallStep(c)
    BY <2>1, ToFits, DoneFits DEF Pcs
  <2>. QED BY <1>0, <2>1, <2>2, ReadingFits, StaysCount DEF Reading
<1>4. CASE InsertLink(c)
  <2>1. /\ x.pc = "insert" /\ AddLink(x.contact, x.customer, x.via) /\ Done(c)
        /\ UNCHANGED <<customers, started, bought, disturbed>>
    BY <1>4 DEF InsertLink
  <2>2. x.contact \in Contacts /\ x.customer \in 1..n /\ x.via \in Tiers
    BY <1>0, <2>1 DEF CallFits
  <2>3. LinkStep
    BY <2>1, <2>2 DEF LinkStep
  <2>4. CallStep(c)
    BY <2>1, DoneFits
  <2>. QED BY <1>0, <2>1, <2>3, <2>4, StaysCount DEF Fitting, RowStep, AttachStep
<1>5. CASE RaiseTier(c)
  <2>1. /\ x.pc = "raise" /\ RaiseLink(x.contact, x.customer, x.via) /\ Done(c)
        /\ UNCHANGED <<customers, started, bought, disturbed>>
    BY <1>5 DEF RaiseTier
  <2>2. x.via \in Tiers
    BY <1>0, <2>1 DEF CallFits
  <2>3. LinkStep
    BY <2>1, <2>2 DEF LinkStep
  <2>4. CallStep(c)
    BY <2>1, DoneFits
  <2>. QED BY <1>0, <2>1, <2>3, <2>4, StaysCount DEF Fitting, RowStep, AttachStep
<1>. QED BY <1>1, <1>2, <1>3, <1>4, <1>5 DEF SignInStep

\* A take-over goes on to delete what it read, and to place its own claim.
LEMMA TakeOverFits ==
  ASSUME NEW n \in Nat, n <= MaxCustomers, NEW x, CallFits(x, n),
         x.pc = "claim" \/ x.pc = "delete", NEW p \in {"delete", "place"},
         NEW i \in 0..n, NEW s \in Tiers \cup {NoTier}
  PROVE  CallFits([x EXCEPT !.pc = p, !.other = i, !.seen = s], n)
<1>. PICK y : y = [x EXCEPT !.pc = p, !.other = i, !.seen = s]
  OBVIOUS
<1>0. InCall(x) /\ IsCall(x)
  BY DEF CallFits, InCall
<1>1. /\ IsCall(y) /\ y.pc = p /\ y.op = x.op /\ y.contact = x.contact /\ y.by = x.by
      /\ y.via = x.via /\ y.customer = x.customer /\ y.own = x.own
      /\ y.other = i /\ y.seen = s /\ y.txn = x.txn
  BY <1>0 DEF IsCall
<1>2. i \in 0..MaxCustomers
  BY MaxType
<1>3. InCall(y)
  BY <1>0, <1>1, <1>2 DEF InCall, Pcs
<1>. QED BY <1>1, <1>3 DEF CallFits

LEMMA ContactFits ==
  ASSUME FitsInv, LinksInv, NEW c \in Calls, ContactStep(c)
  PROVE  Fitting(c)
<1>. PICK n \in Nat : n = Len(customers) /\ n <= MaxCustomers
  BY Rows DEF FitsInv
<1>z. 0 \in 0..n
  OBVIOUS
<1>. PICK x : x = calls[c]
  OBVIOUS
<1>0. CallFits(x, n) /\ InCall(x) /\ TypeOK
  BY DEF FitsInv, CallFits
<1>1. ASSUME NEW by \in Contacts, NEW v \in Contacts, NEW takeOver \in BOOLEAN,
             AddContact(c, by, v, takeOver)
      PROVE  Fitting(c)
  <2>. PICK op \in {"takeover", "add"} : op = IF takeOver THEN "takeover" ELSE "add"
    OBVIOUS
  <2>. DEFINE y == Ask(op, v, by, "contact")
  <2>1. /\ Resolve(c, y) /\ UNCHANGED <<customers, links, bought>>
        /\ Starts(c) /\ disturbed' \in BOOLEAN
    BY <1>1 DEF AddContact, Ask
  <2>2. "contact" \in Tiers /\ op \in Identified
    BY DEF Tiers, Identified
  <2>3. Resolvable(y, n)
    BY <2>2, AskResolves
  <2>. HIDE DEF y
  <2>. QED BY <1>0, <2>1, <2>3, StartsCount, ResolveFits, ReadingFits DEF Reading
<1>2. CASE ReadClaim(c)
  <2>1. x.pc = "claim" /\ UNCHANGED <<customers, links, started, bought, disturbed>>
    BY <1>2 DEF ReadClaim
  <2>2. ASSUME NEW v \in DOMAIN links,
               Go(c, [calls[c] EXCEPT !.pc = "delete", !.other = links[v].owner,
                                      !.seen = links[v].via])
        PROVE  CallStep(c)
    <3>. PICK i, via : i = links[v].owner /\ via = links[v].via
      OBVIOUS
    <3>1. i \in 0..n /\ via \in Tiers
      <4>1. i \in 1..n /\ via \in Tiers
        BY <1>0, Rows
      <4>. QED BY <4>1
    <3>. PICK y : y = [x EXCEPT !.pc = "delete", !.other = i, !.seen = via]
      OBVIOUS
    <3>2. CallFits(y, n)
      BY <1>0, <2>1, <3>1, TakeOverFits
    <3>. QED BY <2>1, <2>2, <3>2 DEF CallStep
  <2>3. \/ To(c, "place") \/ To(c, "demote") \/ End(c)
        \/ \E v \in DOMAIN links :
              Go(c, [calls[c] EXCEPT !.pc = "delete", !.other = links[v].owner,
                                     !.seen = links[v].via])
    BY <1>2 DEF ReadClaim
  <2>4. CallStep(c)
    BY <2>1, <2>2, <2>3, ToFits, EndFits DEF Pcs
  <2>. QED BY <1>0, <2>1, <2>4, ReadingFits, StaysCount DEF Reading
<1>3. CASE SetContactTier(c)
  <2>1. /\ RaiseLink(x.contact, x.own, "contact") /\ End(c)
        /\ UNCHANGED <<customers, started, bought, disturbed>>
    BY <1>3 DEF SetContactTier
  <2>2. LinkStep
    BY <2>1 DEF LinkStep, Tiers
  <2>. QED BY <1>0, <2>1, <2>2, EndFits, StaysCount DEF Fitting, RowStep, AttachStep
<1>4. CASE DeleteClaim(c)
  <2>1. /\ x.pc = "delete" /\ UNCHANGED <<customers, started, bought, disturbed>>
        /\ Go(c, [x EXCEPT !.pc = "place", !.other = 0, !.seen = NoTier])
    BY <1>4 DEF DeleteClaim
  <2>2. LinkStep
    <3>1. \/ UNCHANGED links
          \/ links' = [w \in DOMAIN links \ {x.contact} |-> links[w]]
      BY <1>4 DEF DeleteClaim
    <3>. QED BY <3>1 DEF LinkStep
  <2>3. CallStep(c)
    <3>. PICK y : y = [x EXCEPT !.pc = "place", !.other = 0, !.seen = NoTier]
      OBVIOUS
    <3>1. CallFits(y, n)
      BY <1>0, <1>z, <2>1, TakeOverFits
    <3>. QED BY <2>1, <3>1 DEF CallStep
  <2>. QED BY <1>0, <2>1, <2>2, <2>3, StaysCount DEF Fitting, RowStep, AttachStep
<1>5. CASE PlaceClaim(c)
  <2>1. /\ x.pc = "place" /\ AddLink(x.contact, x.own, "contact") /\ End(c)
        /\ UNCHANGED <<customers, started, bought, disturbed>>
    BY <1>5 DEF PlaceClaim
  <2>2. x.contact \in Contacts /\ x.own \in 1..n
    BY <1>0, <2>1 DEF CallFits
  <2>3. LinkStep
    BY <2>1, <2>2 DEF LinkStep, Tiers
  <2>. QED BY <1>0, <2>1, <2>3, EndFits, StaysCount DEF Fitting, RowStep, AttachStep
<1>6. ASSUME NEW by \in Contacts, NEW v \in Contacts, PromoteContact(c, by, v)
      PROVE  Fitting(c)
  <2>. DEFINE y == Ask("promote", v, by, "otp")
  <2>1. /\ Resolve(c, y) /\ UNCHANGED <<customers, links, bought>>
        /\ Starts(c) /\ disturbed' \in BOOLEAN
    BY <1>6 DEF PromoteContact, Ask
  <2>2. "otp" \in Tiers /\ "promote" \in Identified
    BY DEF Tiers, Identified
  <2>3. Resolvable(y, n)
    BY <2>2, AskResolves
  <2>. HIDE DEF y
  <2>. QED BY <1>0, <2>1, <2>3, StartsCount, ResolveFits, ReadingFits DEF Reading
<1>7. CASE CheckOwn(c)
  <2>1. /\ x.pc = "check" /\ UNCHANGED <<customers, links, started, bought, disturbed>>
        /\ (To(c, "confirm") \/ End(c))
    BY <1>7 DEF CheckOwn
  <2>2. CallStep(c)
    BY <2>1, ToFits, EndFits DEF Pcs
  <2>. QED BY <1>0, <2>1, <2>2, ReadingFits, StaysCount DEF Reading
<1>8. CASE Confirm(c)
  <2>1. /\ x.pc = "confirm" /\ UNCHANGED <<customers, links, started, bought, disturbed>>
        /\ Resolve(c, [x EXCEPT !.by = x.contact]) \/ End(c)
    BY <1>8 DEF Confirm
  <2>. PICK v \in Contacts : v = x.contact
    BY <1>0, <2>1 DEF CallFits
  <2>. PICK y : y = [x EXCEPT !.by = v]
    OBVIOUS
  <2>2. /\ IsCall(y) /\ y.pc = x.pc /\ y.op = x.op /\ y.contact = x.contact /\ y.by = v
        /\ y.via = x.via /\ y.customer = x.customer /\ y.own = x.own
        /\ y.other = x.other /\ y.seen = x.seen /\ y.txn = x.txn
    BY <1>0 DEF InCall, IsCall
  <2>3. x.op = "promote" /\ x.via \in Tiers /\ x.customer \in 0..n /\ x.own \in 0..n
    BY <1>0, <2>1 DEF CallFits, Identified
  <2>4. Resolvable(y, n)
    BY <1>0, <2>2, <2>3 DEF Resolvable, InCall, Identified
  <2>5. CallStep(c)
    BY <1>0, <2>1, <2>4, ResolveFits, EndFits
  <2>. QED BY <1>0, <2>1, <2>5, ReadingFits, StaysCount DEF Reading
<1>9. CASE StampTier(c)
  <2>1. /\ RaiseLink(x.contact, x.own, "otp") /\ End(c)
        /\ UNCHANGED <<customers, started, bought, disturbed>>
    BY <1>9 DEF StampTier
  <2>2. LinkStep
    BY <2>1 DEF LinkStep, Tiers
  <2>. QED BY <1>0, <2>1, <2>2, EndFits, StaysCount DEF Fitting, RowStep, AttachStep
<1>. QED BY <1>1, <1>2, <1>3, <1>4, <1>5, <1>6, <1>7, <1>8, <1>9 DEF ContactStep

\* A purchase that has its customer goes on to the link.
LEMMA LinkFits ==
  ASSUME NEW n \in Nat, n <= MaxCustomers, NEW x, CallFits(x, n),
         x.pc \in {"column", "create"}, NEW i \in 1..n
  PROVE  CallFits([x EXCEPT !.pc = "link", !.customer = i], n)
<1>. PICK y : y = [x EXCEPT !.pc = "link", !.customer = i]
  OBVIOUS
<1>0. InCall(x) /\ IsCall(x)
  BY DEF CallFits, InCall
<1>1. /\ IsCall(y) /\ y.pc = "link" /\ y.op = x.op /\ y.contact = x.contact /\ y.by = x.by
      /\ y.via = x.via /\ y.customer = i /\ y.own = x.own
      /\ y.other = x.other /\ y.seen = x.seen /\ y.txn = x.txn
  BY <1>0 DEF IsCall
<1>2. i \in 0..MaxCustomers /\ i \in 0..n /\ i # 0
  BY MaxType
<1>3. InCall(y)
  BY <1>0, <1>1, <1>2 DEF InCall, Pcs
<1>. QED BY <1>1, <1>2, <1>3 DEF CallFits

LEMMA InBounds ==
  ASSUME NEW n \in Nat, n <= MaxCustomers, NEW i \in 0..n
  PROVE  0 \in 0..n /\ 0 \in 0..MaxCustomers /\ i \in 0..MaxCustomers
BY MaxType

\* A purchase that found no link goes on to the contact column.
Bought(t, v, mail, own) ==
  [[Idle EXCEPT !.op = "purchase", !.contact = v, !.by = mail, !.own = own, !.txn = t]
     EXCEPT !.pc = "column"]

LEMMA PurchaseFits ==
  ASSUME NEW n \in Nat, n <= MaxCustomers, NEW t \in Purchases, NEW v \in Contacts,
         NEW mail \in Emails \cup {""}, NEW own \in 0..n
  PROVE  CallFits(Bought(t, v, mail, own), n)
<1>5. 0 \in 0..n /\ 0 \in 0..MaxCustomers /\ own \in 0..MaxCustomers
  BY InBounds
<1>. PICK y : y = Bought(t, v, mail, own)
  OBVIOUS
<1>1. IsCall(y) /\ y.pc = "column" /\ y.op = "purchase" /\ y.contact = v
  BY DEF Bought, Idle, IsCall
<1>2. y.by = mail /\ y.via = NoTier
  BY DEF Bought, Idle
<1>3. y.customer = 0 /\ y.own = own /\ y.other = 0
  BY DEF Bought, Idle
<1>4. y.seen = NoTier /\ y.txn = t
  BY DEF Bought, Idle
<1>6. "purchase" \in Ops /\ "column" \in Pcs /\ mail \in Contacts \cup {""}
  BY DEF Ops, Pcs, Contacts
<1>7. InCall(y)
  BY <1>1, <1>2, <1>3, <1>4, <1>5, <1>6 DEF InCall
<1>. QED BY <1>1, <1>2, <1>3, <1>4, <1>5, <1>7 DEF CallFits, Identified

LEMMA UpgradeFits ==
  ASSUME NEW n \in Nat, n <= MaxCustomers, NEW v \in Contacts, NEW i \in 1..n
  PROVE  CallFits([Idle EXCEPT !.op = "upgrade", !.pc = "link", !.contact = v,
                               !.customer = i], n)
<1>. PICK y : y = [Idle EXCEPT !.op = "upgrade", !.pc = "link", !.contact = v,
                               !.customer = i]
  OBVIOUS
<1>1. IsCall(y) /\ y.pc = "link" /\ y.op = "upgrade" /\ y.contact = v
  BY DEF Idle, IsCall
<1>2. y.by = "" /\ y.via = NoTier
  BY DEF Idle
<1>3. y.customer = i /\ y.own = 0 /\ y.other = 0
  BY DEF Idle
<1>4. y.seen = NoTier /\ y.txn = ""
  BY DEF Idle
<1>5. 0 \in 0..n /\ 0 \in 0..MaxCustomers /\ i \in 0..n /\ i \in 0..MaxCustomers /\ i # 0
  BY MaxType
<1>6. "upgrade" \in Ops /\ "link" \in Pcs
  BY DEF Ops, Pcs
<1>7. InCall(y)
  BY <1>1, <1>2, <1>3, <1>4, <1>5, <1>6 DEF InCall
<1>. QED BY <1>1, <1>2, <1>3, <1>4, <1>5, <1>7 DEF CallFits, Identified

LEMMA CreateBuyerFits ==
  ASSUME FitsInv, LinksInv, NEW c \in Calls, CreateBuyer(c)
  PROVE  Fitting(c)
<1>. PICK n \in Nat : n = Len(customers) /\ n <= MaxCustomers
  BY Rows DEF FitsInv
<1>. PICK m \in Nat : m = n + 1 /\ m \in 1..m /\ 0..n \subseteq 0..m
  BY NextId
<1>. PICK x : x = calls[c]
  OBVIOUS
<1>1. CallFits(x, n) /\ x.pc = "create" /\ TypeOK
  BY DEF FitsInv, CreateBuyer
<1>2. x.contact \in Contacts /\ x.by \in Emails \cup {""} /\ x.txn \in Purchases
  BY <1>1 DEF CallFits
<1>3. UNCHANGED <<links, started, bought, disturbed>>
  BY DEF CreateBuyer
<1>4. ASSUME UNCHANGED customers, End(c) PROVE CallStep(c) /\ RowStep
  BY <1>4, EndFits DEF RowStep
<1>. DEFINE phone == IF x.contact \in Phones THEN Typed(x.contact) ELSE ""
            row == [made |-> "buyer", key |-> x.txn, phone |-> phone,
                    email |-> IF x.contact \in Emails THEN x.contact ELSE x.by]
<1>5. ASSUME n < MaxCustomers, customers' = Append(customers, row),
             Go(c, [x EXCEPT !.pc = "link", !.customer = m])
      PROVE  CallStep(c) /\ RowStep
  <2>1. phone \in {"", "L", "I", "+I"}
    BY DEF Phones, Typed
  <2>. HIDE DEF phone
  <2>2. row \in Customer
    BY <1>2, <2>1 DEF Customer
  <2>. HIDE DEF row
  <2>3. RowStep
    BY <1>5, <2>2 DEF RowStep
  <2>4. Len(customers') = m
    BY <1>1, <1>5, <2>2, CustomerRows, Appended
  <2>5. m <= MaxCustomers /\ n <= m
    BY <1>5, MaxType
  <2>6. CallFits(x, m)
    BY <1>1, <2>5, FitsMore
  <2>. PICK y : y = [x EXCEPT !.pc = "link", !.customer = m]
    OBVIOUS
  <2>7. CallFits(y, m)
    BY <1>1, <2>5, <2>6, LinkFits
  <2>. QED BY <1>5, <2>3, <2>4, <2>7 DEF CallStep
<1>6. CallStep(c) /\ RowStep
  BY <1>4, <1>5 DEF CreateBuyer
<1>. QED BY <1>1, <1>3, <1>6 DEF Fitting, LinkStep, AttachStep, CountStep, TypeOK

LEMMA BuyerFits ==
  ASSUME FitsInv, LinksInv, NEW c \in Calls, BuyerStep(c)
  PROVE  Fitting(c)
<1>. PICK n \in Nat : n = Len(customers) /\ n <= MaxCustomers
  BY Rows DEF FitsInv
<1>. PICK x : x = calls[c]
  OBVIOUS
<1>0. CallFits(x, n) /\ TypeOK
  BY DEF FitsInv
<1>1. ASSUME NEW t \in Purchases, NEW v \in Contacts, NEW mail \in Emails \cup {""},
             NEW own \in 0..n, Purchase(c, t, v, mail, own)
      PROVE  Fitting(c)
  <2>1. StartsAlone(c) /\ UNCHANGED <<customers, links>>
    BY <1>1 DEF Purchase
  <2>2. CountStep
    <3>1. Starts(c) /\ disturbed' \in BOOLEAN
      BY <2>1 DEF StartsAlone
    <3>. QED BY <1>0, <3>1, StartsCount
  <2>. PICK w \in Contacts \cup {""} : typed' = [typed EXCEPT ![t] = w]
    BY <1>1 DEF Purchase
  <2>3. ASSUME NEW i \in Owners(v), attached' = [attached EXCEPT ![t] = Payer(own, i)]
        PROVE  AttachStep
    <3>1. i \in 1..n
      BY <1>0, OwnersAreRows
    <3>2. Payer(own, i) \in 0..n
      BY <3>1, RowNumbers DEF Payer
    <3>. QED BY <2>3, <3>2 DEF AttachStep
  <2>. PICK y : y = Bought(t, v, mail, own)
    OBVIOUS
  <2>4. CallFits(y, n)
    BY PurchaseFits
  <2>5. \/ UNCHANGED calls /\ \E i \in Owners(v) : attached' = [attached EXCEPT ![t] = Payer(own, i)]
        \/ Go(c, y) /\ UNCHANGED attached
    BY <1>1 DEF Purchase, Bought
  <2>6a. UNCHANGED attached => AttachStep
    <3>1. 0 \in 0..n
      BY RowNumbers
    <3>. QED BY <3>1 DEF AttachStep
  <2>6. CallStep(c) /\ AttachStep
    BY <2>1, <2>3, <2>4, <2>5, <2>6a DEF CallStep
  <2>. QED BY <2>1, <2>2, <2>6 DEF Fitting, RowStep, LinkStep
<1>2. CASE ReadColumn(c)
  <2>1. x.pc = "column" /\ UNCHANGED <<customers, links, started, bought, disturbed>>
    BY <1>2 DEF ReadColumn
  <2>2. ASSUME NEW i \in ColumnOwners(x.contact),
               Go(c, [x EXCEPT !.pc = "link", !.customer = i])
        PROVE  CallStep(c)
    <3>1. i \in 1..n
      BY <1>0, OwnersAreRows
    <3>. PICK y : y = [x EXCEPT !.pc = "link", !.customer = i]
      OBVIOUS
    <3>2. CallFits(y, n)
      BY <1>0, <2>1, <3>1, LinkFits
    <3>. QED BY <2>1, <2>2, <3>2 DEF CallStep
  <2>3. CallStep(c)
    <3>1. \/ \E i \in ColumnOwners(x.contact) : Go(c, [x EXCEPT !.pc = "link", !.customer = i])
          \/ To(c, "create")
      BY <1>2 DEF ReadColumn
    <3>. QED BY <2>1, <2>2, <3>1, ToFits DEF Pcs
  <2>. QED BY <1>0, <2>1, <2>3, ReadingFits, StaysCount DEF Reading
<1>3. CASE CreateBuyer(c)
  BY <1>3, CreateBuyerFits
<1>4. CASE LinkBuyer(c)
  <2>1. /\ x.pc = "link" /\ x.op = "purchase"
        /\ AddLink(x.contact, x.customer, "purchase") \/ UNCHANGED links
        /\ disturbed' = disturbed \/ disturbed' = TRUE
        /\ attached' = [attached EXCEPT ![x.txn] = Payer(x.own, x.customer)] /\ End(c)
        /\ UNCHANGED <<customers, started, typed>>
    BY <1>4 DEF LinkBuyer
  <2>2. /\ x.contact \in Contacts /\ x.customer \in 1..n /\ x.customer \in 0..n
        /\ x.own \in 0..n /\ x.txn \in Purchases
    BY <1>0, <2>1 DEF CallFits
  <2>3. LinkStep
    BY <2>1, <2>2 DEF LinkStep, Tiers
  <2>4. AttachStep
    <3>1. Payer(x.own, x.customer) \in 0..n
      BY <2>2 DEF Payer
    <3>. QED BY <2>1, <2>2, <3>1 DEF AttachStep
  <2>5. CountStep
    BY <1>0, <2>1 DEF CountStep, TypeOK
  <2>. QED BY <1>0, <2>1, <2>3, <2>4, <2>5, EndFits DEF Fitting, RowStep
<1>. QED BY <1>1, <1>2, <1>3, <1>4 DEF BuyerStep

LEMMA LegacyFits ==
  ASSUME FitsInv, LinksInv, NEW c \in Calls,
         (\E v \in Contacts : LookUpLegacy(c, v)) \/ LinkLegacy(c) \/ CallFails(c)
  PROVE  Fitting(c)
<1>. PICK n \in Nat : n = Len(customers) /\ n <= MaxCustomers
  BY Rows DEF FitsInv
<1>. PICK x : x = calls[c]
  OBVIOUS
<1>0. CallFits(x, n) /\ TypeOK
  BY DEF FitsInv
<1>1. ASSUME NEW v \in Contacts, LookUpLegacy(c, v)
      PROVE  Fitting(c)
  <2>1. StartsAlone(c) /\ UNCHANGED <<customers, links, bought>>
    BY <1>1 DEF LookUpLegacy
  <2>2. CountStep
    <3>1. Starts(c) /\ disturbed' \in BOOLEAN
      BY <2>1 DEF StartsAlone
    <3>. QED BY <1>0, <3>1, StartsCount
  <2>. PICK i : /\ i \in LegacyIds(v)
                /\ Go(c, [Idle EXCEPT !.op = "upgrade", !.pc = "link", !.contact = v,
                                      !.customer = i])
    BY <1>1 DEF LookUpLegacy
  <2>3. i \in 1..n
    BY <1>0, OwnersAreRows
  <2>. PICK y : y = [Idle EXCEPT !.op = "upgrade", !.pc = "link", !.contact = v,
                                 !.customer = i]
    OBVIOUS
  <2>4. CallFits(y, n)
    BY <2>3, UpgradeFits
  <2>5. CallStep(c)
    BY <2>1, <2>4 DEF CallStep
  <2>. QED BY <2>1, <2>2, <2>5, ReadingFits DEF Reading
<1>2. CASE LinkLegacy(c)
  <2>1. /\ x.pc = "link" /\ AddLink(x.contact, x.customer, "legacy") /\ End(c)
        /\ UNCHANGED <<customers, started, bought, disturbed>>
    BY <1>2 DEF LinkLegacy
  <2>2. x.contact \in Contacts /\ x.customer \in 1..n
    BY <1>0, <2>1 DEF CallFits
  <2>3. LinkStep
    BY <2>1, <2>2 DEF LinkStep, Tiers
  <2>. QED BY <1>0, <2>1, <2>3, EndFits, StaysCount DEF Fitting, RowStep, AttachStep
<1>3. CASE CallFails(c)
  <2>1. /\ End(c) \/ (x.pc \in {"read", "insert", "raise"} /\ Done(c))
        /\ disturbed' = TRUE /\ UNCHANGED <<customers, links, started, bought>>
    BY <1>3 DEF CallFails
  <2>2. CountStep
    BY <1>0, <2>1 DEF CountStep, TypeOK
  <2>3. CallStep(c)
    BY <2>1, EndFits, DoneFits
  <2>. QED BY <2>1, <2>2, <2>3, ReadingFits DEF Reading
<1>. QED BY <1>1, <1>2, <1>3

LEMMA FitsStep == FitsInv /\ LinksInv /\ [Next]_vars => FitsInv'
<1>. SUFFICES ASSUME FitsInv, LinksInv, [Next]_vars PROVE FitsInv'
  OBVIOUS
<1>1. CASE UNCHANGED vars
  BY <1>1 DEF vars, bought, FitsInv, TypeOK
<1>2. CASE Next
  <2>1. PICK c \in Calls : \/ SignInStep(c) \/ ContactStep(c) \/ BuyerStep(c)
                          \/ (\E v \in Contacts : LookUpLegacy(c, v)) \/ LinkLegacy(c)
                          \/ CallFails(c)
    BY <1>2 DEF Next
  <2>. QED BY <2>1, SignInFits, ContactFits, BuyerFits, LegacyFits, FittingStep
<1>. QED BY <1>1, <1>2

LEMMA FitsInit == Init => FitsInv
<1>. SUFFICES ASSUME Init PROVE FitsInv
  OBVIOUS
<1>1. customers \in Seq(Customer) /\ Len(customers) \in {0, 1}
  <2>1. LegacyRow \in Customer
    BY DEF LegacyRow, Customer
  <2>2. <<>> \in Seq(Customer) /\ Len(<<>>) = 0
    OBVIOUS
  <2>. PICK r \in Customer : r = LegacyRow
    BY <2>1
  <2>3. <<r>> \in Seq(Customer) /\ Len(<<r>>) = 1
    OBVIOUS
  <2>4. customers = <<>> \/ customers = <<r>>
    BY DEF Init
  <2>. QED BY <2>2, <2>3, <2>4
<1>. PICK n \in {0, 1} : n = Len(customers)
  BY <1>1
<1>m. n \in Nat /\ n <= MaxCustomers
  <2>1. MaxCustomers \in Nat \ {0}
    BY LinksAssumption
  <2>. QED BY <2>1
<1>2. CallFits(Idle, n)
  BY <1>m, IdleCallFits
<1>3. Idle \in Call /\ Idle.customer <= n
  <2>. PICK x : x = Idle
    OBVIOUS
  <2>1. InCall(x) /\ x.customer \in 0..n
    BY <1>2 DEF CallFits
  <2>. QED BY <1>m, <2>1, CallType
<1>4. calls = [c \in Calls |-> Idle] /\ links = <<>> /\ disturbed \in BOOLEAN
  BY DEF Init
<1>5. started \in 0..MaxStarted
  <2>1. MaxStarted \in Nat /\ started = 0
    BY LinksAssumption DEF Init
  <2>. QED BY <2>1
<1>6. attached \in [Purchases -> 0..n] /\ typed \in [Purchases -> Contacts \cup {""}]
  <2>1. attached = [t \in Purchases |-> 0] /\ typed = [t \in Purchases |-> ""]
    BY DEF Init
  <2>2. 0 \in 0..n /\ "" \in Contacts \cup {""}
    BY <1>m
  <2>. QED BY <2>1, <2>2
<1>7. calls \in [Calls -> Call] /\ \A c \in Calls : calls[c] = Idle
  BY <1>3, <1>4
<1>8. DOMAIN links = {}
  BY <1>4
<1>9. TypeOK
  BY <1>m, <1>1, <1>3, <1>4, <1>5, <1>6, <1>7, <1>8 DEF TypeOK
<1>. QED BY <1>2, <1>7, <1>9 DEF FitsInv

LEMMA FitsInvariant == Spec => []FitsInv
BY LinksInvariant, FitsInit, FitsStep, PTL DEF Spec

\* However the statements of sign-ins, purchases, self-added contacts and upgrades
\* mix, every claim and every attachment of a purchase names a row that exists,
\* and every call remembers rows it has seen.
THEOREM TypeCorrect == Spec => []TypeOK
<1>1. FitsInv => TypeOK
  BY DEF FitsInv
<1>. QED BY <1>1, FitsInvariant, PTL

-----------------------------------------------------------------------------
(* One row per phone, as long as calls neither overlap nor fail.           *)

NoPhoneRow == \A i \in DOMAIN customers : customers[i].phone = ""
OnePhoneRow ==
  \A i, j \in DOMAIN customers : customers[i].phone # "" /\ customers[j].phone # "" => i = j

\* A row with a phone has its link, or the one running call is about to write it.
Settled == NoPhoneRow \/ DOMAIN links \intersect Phones # {}
AtLink(x) == x.pc \in {"read", "insert", "link"} /\ x.contact \in Phones
PhoneClaimed == Settled \/ \E c \in Calls : AtLink(calls[c])

\* What a call that runs alone may be: it creates a row with a phone only where it
\* saw none.
Lone(x) ==
  \/ x = Idle
  \/ x.op = "verify" /\ x.pc = "signup" /\ x.by = x.contact /\ (x.by \in Phones => NoPhoneRow)
  \/ x.op = "verify" /\ x.pc \in {"read", "insert", "raise"}
  \/ x.op = "purchase" /\ x.pc \in {"column", "create"} /\ (x.contact \in Phones => NoPhoneRow)
  \/ x.op = "purchase" /\ x.pc = "link"

Alone(c) == \A d \in Calls \ {c} : calls[d] = Idle
OneRunning == \A c, d \in Calls : calls[c] # Idle /\ calls[d] # Idle => c = d
Undisturbed == OneRunning /\ (\A c \in Calls : Lone(calls[c])) /\ OnePhoneRow /\ PhoneClaimed
AloneInv == ~disturbed => Undisturbed

LEMMA IdleIsIdle == Idle.pc = "idle" /\ ~AtLink(Idle)
BY DEF Idle, AtLink

LEMMA AloneMoves ==
  ASSUME LinksInv, NEW c \in Calls, Alone(c), NEW y, Go(c, y), Lone(y)'
  PROVE  OneRunning' /\ \A d \in Calls : Lone(calls[d])'
<1>1. \A d \in Calls : calls'[d] = IF d = c THEN y ELSE Idle
  BY DEF Go, LinksInv, Alone
<1>2. OneRunning'
  BY <1>1 DEF OneRunning
<1>3. ASSUME NEW d \in Calls PROVE Lone(calls[d])'
  <2>1. CASE d = c
    BY <1>1, <2>1
  <2>2. CASE d # c
    BY <1>1, <2>2 DEF Lone
  <2>. QED BY <2>1, <2>2
<1>. QED BY <1>2, <1>3

LEMMA SettledFirst ==
  ASSUME PhoneClaimed, NEW c \in Calls, Alone(c), ~AtLink(calls[c])
  PROVE  Settled
BY IdleIsIdle DEF PhoneClaimed, Alone

LEMMA StaysSettled ==
  ASSUME Settled, NoPhoneRow => NoPhoneRow', DOMAIN links \subseteq DOMAIN links'
  PROVE  Settled'
BY DEF Settled

LEMMA SameRows ==
  ASSUME UNCHANGED customers
  PROVE  (NoPhoneRow' <=> NoPhoneRow) /\ (OnePhoneRow' <=> OnePhoneRow)
BY DEF NoPhoneRow, OnePhoneRow

\* The n rows there were, and row m.
Gains(r, n, m) ==
  /\ n = Len(customers) /\ m = n + 1 /\ m \notin 1..n
  /\ DOMAIN customers = 1..n /\ DOMAIN customers' = 1..m
  /\ \A i \in 1..m : i \in 1..n \/ i = m
  /\ customers'[m] = r
  /\ \A i \in 1..n : customers'[i] = customers[i]

LEMMA RowAdded ==
  ASSUME TypeOK, NEW r \in Customer, customers' = Append(customers, r)
  PROVE  \E n, m \in Nat : Gains(r, n, m)
<1>1. customers \in Seq(Customer)
  BY CustomerRows
<1>. PICK s \in Seq(Customer) : s = customers
  BY <1>1
<1>. PICK z : z = customers' /\ z = Append(s, r)
  OBVIOUS
<1>2. \E n \in Nat, m \in Nat : n = Len(s) /\ m = n + 1
  OBVIOUS
<1>. QED BY <1>2, Appended DEF Gains

LEMMA NewRow ==
  ASSUME TypeOK, NEW r \in Customer, customers' = Append(customers, r)
  PROVE  /\ (NoPhoneRow => OnePhoneRow')
         /\ r.phone = "" => (NoPhoneRow => NoPhoneRow') /\ (OnePhoneRow => OnePhoneRow')
<1>. PICK n, m \in Nat : Gains(r, n, m)
  BY RowAdded
<1>3. NoPhoneRow => OnePhoneRow'
  BY DEF Gains, NoPhoneRow, OnePhoneRow
<1>4. r.phone = "" => (NoPhoneRow => NoPhoneRow') /\ (OnePhoneRow => OnePhoneRow')
  BY DEF Gains, NoPhoneRow, OnePhoneRow
<1>. QED BY <1>3, <1>4

LEMMA StrengthBound == \A via : Strength(via) \in 0..4
BY DEF Strength

\* Any link of the line gives the phone an owner.
LEMMA PhoneHasOwner ==
  ASSUME NEW v \in Phones, DOMAIN links \intersect Phones # {}
  PROVE  Owners(v) # {}
<1>. DEFINE found == DOMAIN links \intersect Bridge(v)
            S(w) == Strength(links[w].via)
            best == {w \in found : \A x \in found : S(x) <= S(w)}
<1>1. found # {} /\ found \subseteq {"L", "I"}
  BY DEF Bridge, Phones
<1>2. \A w : S(w) \in 0..4
  BY StrengthBound
<1>. HIDE DEF found, S
<1>3. best # {}
  <2>1. \A w, x : S(w) <= S(x) \/ S(x) <= S(w)
    BY <1>2
  <2>2. \A w : S(w) <= S(w)
    BY <1>2
  <2>. HIDE DEF best
  <2>3. ASSUME NEW w \in found, \A x \in found : S(x) <= S(w)
        PROVE  best # {}
    BY <2>3 DEF best
  <2>4. found = {"L"} \/ found = {"I"} \/ found = {"L", "I"}
    BY <1>1
  <2>. QED BY <2>1, <2>2, <2>3, <2>4
<1>4. Owners(v) = {links[w].owner : w \in IF v \in best THEN {v} ELSE best}
  BY DEF Owners, found, S
<1>. HIDE DEF best
<1>5. (IF v \in best THEN {v} ELSE best) # {}
  BY <1>3
<1>. QED BY <1>4, <1>5

\* The customer of a verified contact is known: the call reads its link.
LEMMA VerifyContinues ==
  ASSUME NEW x, IsCall(x), x.op = "verify", NEW i, NEW y,
         y = Continue([x EXCEPT !.customer = i])
  PROVE  IsCall(y) /\ y.op = "verify" /\ y.pc = "read" /\ y.contact = x.contact
<1>. PICK z : z = [x EXCEPT !.customer = i]
  OBVIOUS
<1>1. IsCall(z) /\ z.op = "verify" /\ z.contact = x.contact
  BY DEF IsCall
<1>2. y = Continue(z)
  OBVIOUS
<1>3. y = [z EXCEPT !.pc = "read", !.by = ""]
  BY <1>1, <1>2 DEF Continue
<1>. QED BY <1>1, <1>3 DEF IsCall

LEMMA StartsSettled ==
  ASSUME Undisturbed, ~disturbed, NEW c \in Calls, StartsAlone(c), ~disturbed'
  PROVE  Alone(c) /\ Settled /\ ~AtLink(calls[c])
<1>1. Alone(c)
  BY DEF StartsAlone, Overlaps, Alone
<1>2. ~AtLink(calls[c])
  BY IdleIsIdle DEF StartsAlone, Starts
<1>. QED BY <1>1, <1>2, SettledFirst DEF Undisturbed

LEMMA RunsAlone ==
  ASSUME OneRunning, NEW c \in Calls, calls[c].pc # "idle"
  PROVE  Alone(c)
BY IdleIsIdle DEF OneRunning, Alone

LEMMA VerifyAlone ==
  ASSUME TypeOK, LinksInv, Undisturbed, ~disturbed, ~disturbed', NEW c \in Calls,
         NEW v \in Contacts, NEW via \in {"otp", "google"}, Verify(c, v, via)
  PROVE  Undisturbed'
<1>. PICK x : x = Ask("verify", v, v, via)
  OBVIOUS
<1>1. IsCall(x) /\ x.op = "verify" /\ x.contact = v /\ x.by = v
  BY DEF Ask, Idle, IsCall
<1>2. Resolve(c, x) /\ UNCHANGED <<customers, links, bought>> /\ StartsAlone(c)
  BY DEF Verify, Ask
<1>3. Alone(c) /\ Settled
  BY <1>2, StartsSettled
<1>4. OnePhoneRow' /\ Settled' /\ PhoneClaimed'
  <2>1. OnePhoneRow' /\ Settled'
    BY <1>2, <1>3, SameRows, StaysSettled DEF Undisturbed
  <2>. QED BY <2>1 DEF PhoneClaimed
<1>5. ASSUME NEW i, Go(c, Continue([x EXCEPT !.customer = i]))
      PROVE  Undisturbed'
  <2>. PICK y : y = Continue([x EXCEPT !.customer = i])
    OBVIOUS
  <2>1. y.op = "verify" /\ y.pc = "read"
    BY <1>1, VerifyContinues
  <2>2. Lone(y)'
    BY <2>1 DEF Lone
  <2>. QED BY <1>3, <1>4, <1>5, <2>2, AloneMoves DEF Undisturbed
<1>6. ASSUME Primaries(v) = {}, Go(c, [x EXCEPT !.pc = "signup"])
      PROVE  Undisturbed'
  <2>. PICK y : y = [x EXCEPT !.pc = "signup"]
    OBVIOUS
  <2>1. y.op = "verify" /\ y.pc = "signup" /\ y.by = v /\ y.contact = v
    BY <1>1 DEF IsCall
  <2>2. v \in Phones => NoPhoneRow
    BY <1>6 DEF Primaries, LegacyIds, NoPhoneRow
  <2>3. Lone(y)'
    BY <1>2, <2>1, <2>2, SameRows DEF Lone
  <2>. QED BY <1>3, <1>4, <1>6, <2>3, AloneMoves DEF Undisturbed
<1>. QED BY <1>1, <1>2, <1>5, <1>6 DEF Resolve

LEMMA SignUpAlone ==
  ASSUME TypeOK, FitsInv, LinksInv, Undisturbed, NEW c \in Calls, SignUp(c)
  PROVE  Undisturbed'
<1>. PICK x : x = calls[c]
  OBVIOUS
<1>1. IsCall(x) /\ x.pc = "signup" /\ UNCHANGED links
  BY DEF LinksInv, Sound, SignUp
<1>2. x.op = "verify" /\ x.by = x.contact /\ (x.by \in Phones => NoPhoneRow)
  BY <1>1, IdleIsIdle DEF Undisturbed, Lone
<1>3. Alone(c) /\ Settled
  <2>1. Alone(c)
    BY <1>1, RunsAlone DEF Undisturbed
  <2>2. ~AtLink(calls[c])
    BY <1>1 DEF AtLink
  <2>. QED BY <2>1, <2>2, SettledFirst DEF Undisturbed
<1>4. ASSUME NEW i, Go(c, Continue([x EXCEPT !.customer = i]))
      PROVE  \E y : /\ Go(c, y) /\ y.op = "verify" /\ y.pc = "read"
                    /\ y.contact = x.contact
  <2>. PICK y : y = Continue([x EXCEPT !.customer = i])
    OBVIOUS
  <2>. QED BY <1>1, <1>2, <1>4, VerifyContinues
<1>. PICK y : Go(c, y) /\ y.op = "verify" /\ y.pc = "read" /\ y.contact = x.contact
  BY <1>4 DEF SignUp
<1>5. Lone(y)' /\ OneRunning' /\ \A d \in Calls : Lone(calls[d])'
  <2>1. Lone(y)'
    BY DEF Lone
  <2>. QED BY <1>3, <2>1, AloneMoves
<1>6. CASE UNCHANGED customers
  <2>1. OnePhoneRow' /\ Settled'
    BY <1>1, <1>3, <1>6, SameRows, StaysSettled DEF Undisturbed
  <2>. QED BY <1>5, <2>1 DEF Undisturbed, PhoneClaimed
<1>. DEFINE row == [made |-> "app", key |-> x.by,
                    phone |-> IF x.by \in Phones THEN x.by ELSE "",
                    email |-> IF x.by \in Emails THEN x.by ELSE ""]
<1>7. CASE customers' = Append(customers, row)
  <2>1. x.by \in Contacts
    BY <1>1 DEF FitsInv, CallFits
  <2>2. row \in Customer /\ (x.by \notin Phones => row.phone = "")
    BY <2>1 DEF Customer, Phones
  <2>. HIDE DEF row
  <2>3. OnePhoneRow'
    BY <1>2, <1>7, <2>2, NewRow DEF Undisturbed
  <2>4. x.by \notin Phones => Settled'
    <3>1. x.by \notin Phones => (NoPhoneRow => NoPhoneRow')
      BY <1>7, <2>2, NewRow
    <3>. QED BY <1>1, <1>3, <3>1, StaysSettled
  <2>5. x.by \in Phones => AtLink(calls'[c])
    <3>1. calls'[c] = y
      BY DEF Go, LinksInv
    <3>. QED BY <1>2, <3>1 DEF AtLink
  <2>6. PhoneClaimed'
    BY <2>4, <2>5 DEF PhoneClaimed, AtLink
  <2>. QED BY <1>5, <2>3, <2>6 DEF Undisturbed
<1>. QED BY <1>6, <1>7 DEF SignUp

\* A statement after which the call is over, or reads on, with its rows unchanged.
LEMMA EndAlone ==
  ASSUME LinksInv, NEW c \in Calls, Alone(c), End(c)
  PROVE  OneRunning' /\ \A d \in Calls : Lone(calls[d])'
<1>. PICK y : y = Idle
  OBVIOUS
<1>1. Lone(y)'
  BY DEF Lone
<1>. QED BY <1>1, AloneMoves DEF End

LEMMA LinkWritten ==
  ASSUME NEW v, NEW i, NEW via, AddLink(v, i, via)
  PROVE  DOMAIN links' = DOMAIN links \cup {v}
BY DEF AddLink

LEMMA LinkRaised ==
  ASSUME NEW v, NEW i, NEW via, RaiseLink(v, i, via)
  PROVE  DOMAIN links' = DOMAIN links
BY DEF RaiseLink

\* The link of the running call is there, or it needed none.
LEMMA LinkSettles ==
  ASSUME UNCHANGED customers, PhoneClaimed, NEW c \in Calls, Alone(c),
         DOMAIN links' = DOMAIN links \cup {calls[c].contact}
  PROVE  Settled'
<1>1. CASE AtLink(calls[c])
  BY <1>1 DEF AtLink, Settled
<1>2. CASE ~AtLink(calls[c])
  BY <1>2, SettledFirst, SameRows, StaysSettled
<1>. QED BY <1>1, <1>2

LEMMA LinkAlone ==
  ASSUME TypeOK, LinksInv, Undisturbed, ~disturbed', NEW c \in Calls,
         ReadLink(c) \/ InsertLink(c) \/ RaiseTier(c) \/ LinkBuyer(c)
  PROVE  Undisturbed'
<1>. PICK x : x = calls[c]
  OBVIOUS
<1>0. /\ IsCall(x) /\ x.pc \in {"read", "insert", "raise", "link"}
      /\ UNCHANGED customers
  BY DEF LinksInv, Sound, ReadLink, InsertLink, RaiseTier, LinkBuyer
<1>1. /\ Alone(c) /\ x.op \in {"verify", "purchase"}
      /\ x.pc # "link" => x.op = "verify"
  BY <1>0, RunsAlone, IdleIsIdle DEF Undisturbed, Lone
<1>2. OnePhoneRow' /\ (NoPhoneRow => NoPhoneRow')
  BY <1>0, SameRows DEF Undisturbed
<1>3. ASSUME Settled', End(c)
      PROVE  Undisturbed'
  BY <1>1, <1>2, <1>3, EndAlone DEF Undisturbed, PhoneClaimed
<1>4. Done(c) /\ x.pc # "link" => End(c)
  BY <1>1 DEF Done
<1>5. CASE ReadLink(c)
  <2>1. x.pc = "read" /\ UNCHANGED links
    BY <1>5 DEF ReadLink
  <2>2. ASSUME NEW p \in {"insert", "raise"}, To(c, p),
               p = "raise" => x.contact \in DOMAIN links
        PROVE  Undisturbed'
    <3>. PICK y : y = [x EXCEPT !.pc = p]
      OBVIOUS
    <3>1. y.op = "verify" /\ y.pc = p /\ y.contact = x.contact /\ Go(c, y)
      BY <1>0, <1>1, <2>1, <2>2 DEF IsCall, To
    <3>2. OneRunning' /\ \A d \in Calls : Lone(calls[d])'
      <4>1. Lone(y)'
        BY <3>1 DEF Lone
      <4>. QED BY <1>1, <3>1, <4>1, AloneMoves
    <3>3. PhoneClaimed'
      <4>1. CASE x.contact \in Phones /\ p = "insert"
        <5>1. calls'[c] = y
          BY <3>1 DEF Go, LinksInv
        <5>. QED BY <3>1, <4>1, <5>1 DEF PhoneClaimed, AtLink
      <4>2. CASE x.contact \in Phones /\ p = "raise"
        BY <2>1, <2>2, <4>2 DEF PhoneClaimed, Settled
      <4>3. CASE x.contact \notin Phones
        <5>1. ~AtLink(calls[c])
          BY <4>3 DEF AtLink
        <5>2. Settled
          BY <1>1, <5>1, SettledFirst DEF Undisturbed
        <5>. QED BY <1>2, <2>1, <5>2, StaysSettled DEF PhoneClaimed
      <4>. QED BY <2>2, <4>1, <4>2, <4>3
    <3>. QED BY <1>2, <3>2, <3>3 DEF Undisturbed
  <2>3. ASSUME x.contact \in DOMAIN links, Done(c)
        PROVE  Undisturbed'
    <3>1. DOMAIN links' = DOMAIN links \cup {calls[c].contact}
      BY <2>1, <2>3
    <3>2. Settled'
      BY <1>0, <1>1, <3>1, LinkSettles DEF Undisturbed
    <3>. QED BY <1>3, <1>4, <2>1, <2>3, <3>2
  <2>. QED BY <1>5, <2>2, <2>3 DEF ReadLink
<1>6. CASE InsertLink(c) \/ LinkBuyer(c)
  <2>1. DOMAIN links' = DOMAIN links \cup {calls[c].contact}
    BY <1>6, LinkWritten DEF InsertLink, LinkBuyer
  <2>2. Settled'
    BY <1>0, <1>1, <2>1, LinkSettles DEF Undisturbed
  <2>3. End(c)
    BY <1>4, <1>6 DEF InsertLink, LinkBuyer
  <2>. QED BY <1>3, <2>2, <2>3
<1>7. CASE RaiseTier(c)
  <2>1. x.pc = "raise" /\ DOMAIN links' = DOMAIN links
    BY <1>7, LinkRaised DEF RaiseTier
  <2>2. ~AtLink(calls[c])
    BY <2>1 DEF AtLink
  <2>3. Settled
    BY <1>1, <2>2, SettledFirst DEF Undisturbed
  <2>4. Settled'
    BY <1>2, <2>1, <2>3, StaysSettled
  <2>. QED BY <1>3, <1>4, <1>7, <2>1, <2>4 DEF RaiseTier
<1>. QED BY <1>5, <1>6, <1>7

\* A purchase that found no owner has seen no row with a phone, if it typed one.
LEMMA PurchaseAlone ==
  ASSUME TypeOK, LinksInv, Undisturbed, ~disturbed, ~disturbed', NEW c \in Calls,
         NEW t \in Purchases, NEW v \in Contacts, NEW mail, NEW own,
         Purchase(c, t, v, mail, own)
  PROVE  Undisturbed'
<1>1. StartsAlone(c) /\ UNCHANGED <<customers, links>>
  BY DEF Purchase
<1>2. Alone(c) /\ Settled /\ OnePhoneRow
  BY <1>1, StartsSettled DEF Undisturbed
<1>3. OnePhoneRow' /\ Settled' /\ PhoneClaimed'
  <2>1. OnePhoneRow' /\ Settled'
    BY <1>1, <1>2, SameRows, StaysSettled
  <2>. QED BY <2>1 DEF PhoneClaimed
<1>4. CASE UNCHANGED calls
  <2>1. OneRunning' /\ \A d \in Calls : Lone(calls[d])'
    BY <1>1, <1>4, SameRows DEF Undisturbed, OneRunning, Lone
  <2>. QED BY <1>3, <2>1 DEF Undisturbed
<1>. PICK y : y = Bought(t, v, mail, own)
  OBVIOUS
<1>5. ASSUME Owners(v) = {}, Go(c, y)
      PROVE  Undisturbed'
  <2>1. y.op = "purchase" /\ y.pc = "column" /\ y.contact = v
    BY DEF Bought, Idle
  <2>2. v \in Phones => NoPhoneRow
    BY <1>2, <1>5, PhoneHasOwner DEF Settled
  <2>3. Lone(y)'
    BY <1>1, <2>1, <2>2, SameRows DEF Lone
  <2>. QED BY <1>2, <1>3, <1>5, <2>3, AloneMoves DEF Undisturbed
<1>. QED BY <1>4, <1>5 DEF Purchase, Bought

LEMMA ReadColumnAlone ==
  ASSUME TypeOK, LinksInv, Undisturbed, NEW c \in Calls, ReadColumn(c)
  PROVE  Undisturbed'
<1>. PICK x : x = calls[c]
  OBVIOUS
<1>0. IsCall(x) /\ x.pc = "column" /\ UNCHANGED <<customers, links>>
  BY DEF LinksInv, Sound, ReadColumn
<1>1. x.op = "purchase" /\ (x.contact \in Phones => NoPhoneRow) /\ Alone(c)
  BY <1>0, RunsAlone, IdleIsIdle DEF Undisturbed, Lone
<1>2. OnePhoneRow' /\ PhoneClaimed' /\ (NoPhoneRow => NoPhoneRow')
  <2>1. ~AtLink(calls[c])
    BY <1>0 DEF AtLink
  <2>2. Settled
    BY <1>1, <2>1, SettledFirst DEF Undisturbed
  <2>3. OnePhoneRow' /\ (NoPhoneRow => NoPhoneRow') /\ Settled'
    BY <1>0, <2>2, SameRows, StaysSettled DEF Undisturbed
  <2>. QED BY <2>3 DEF PhoneClaimed
<1>3. ASSUME NEW y, Go(c, y), Lone(y)' PROVE Undisturbed'
  BY <1>1, <1>2, <1>3, AloneMoves DEF Undisturbed
<1>4. ASSUME NEW i, Go(c, [x EXCEPT !.pc = "link", !.customer = i])
      PROVE  Undisturbed'
  <2>. PICK y : y = [x EXCEPT !.pc = "link", !.customer = i]
    OBVIOUS
  <2>1. y.op = "purchase" /\ y.pc = "link"
    BY <1>0, <1>1 DEF IsCall
  <2>2. Lone(y)'
    BY <2>1 DEF Lone
  <2>. QED BY <1>3, <1>4, <2>2
<1>5. CASE To(c, "create")
  <2>. PICK y : y = [x EXCEPT !.pc = "create"]
    OBVIOUS
  <2>1. y.op = "purchase" /\ y.pc = "create" /\ y.contact = x.contact
    BY <1>0, <1>1 DEF IsCall
  <2>2. Lone(y)'
    BY <1>1, <1>2, <2>1 DEF Lone
  <2>. QED BY <1>3, <1>5, <2>2 DEF To
<1>. QED BY <1>4, <1>5 DEF ReadColumn

LEMMA CreateBuyerAlone ==
  ASSUME FitsInv, LinksInv, Undisturbed, NEW c \in Calls, CreateBuyer(c)
  PROVE  Undisturbed'
<1>. PICK x : x = calls[c]
  OBVIOUS
<1>0. IsCall(x) /\ x.pc = "create" /\ UNCHANGED links /\ TypeOK
  BY DEF LinksInv, Sound, CreateBuyer, FitsInv
<1>1. x.op = "purchase" /\ (x.contact \in Phones => NoPhoneRow) /\ Alone(c)
  BY <1>0, RunsAlone, IdleIsIdle DEF Undisturbed, Lone
<1>2. Settled /\ OnePhoneRow
  <2>1. ~AtLink(calls[c])
    BY <1>0 DEF AtLink
  <2>. QED BY <1>1, <2>1, SettledFirst DEF Undisturbed
<1>3. CASE UNCHANGED customers /\ End(c)
  <2>1. OnePhoneRow' /\ Settled'
    BY <1>0, <1>2, <1>3, SameRows, StaysSettled
  <2>. QED BY <1>1, <1>3, <2>1, EndAlone DEF Undisturbed, PhoneClaimed
<1>. DEFINE phone == IF x.contact \in Phones THEN Typed(x.contact) ELSE ""
            row == [made |-> "buyer", key |-> x.txn, phone |-> phone,
                    email |-> IF x.contact \in Emails THEN x.contact ELSE x.by]
<1>4. ASSUME NEW i, customers' = Append(customers, row),
             Go(c, [x EXCEPT !.pc = "link", !.customer = i])
      PROVE  Undisturbed'
  <2>. PICK y : y = [x EXCEPT !.pc = "link", !.customer = i]
    OBVIOUS
  <2>1. y.op = "purchase" /\ y.pc = "link" /\ y.contact = x.contact
    BY <1>0, <1>1 DEF IsCall
  <2>2. OneRunning' /\ \A d \in Calls : Lone(calls[d])'
    <3>1. Lone(y)'
      BY <2>1 DEF Lone
    <3>. QED BY <1>1, <1>4, <3>1, AloneMoves
  <2>3. row \in Customer /\ (x.contact \notin Phones => row.phone = "")
    <3>1. x.contact \in Contacts /\ x.by \in Emails \cup {""} /\ x.txn \in Purchases
      BY <1>0 DEF FitsInv, CallFits
    <3>2. phone \in {"", "L", "I", "+I"} /\ (x.contact \notin Phones => phone = "")
      BY DEF Phones, Typed
    <3>. HIDE DEF phone
    <3>. QED BY <3>1, <3>2 DEF Customer
  <2>. HIDE DEF row
  <2>4. OnePhoneRow'
    BY <1>0, <1>1, <1>2, <1>4, <2>3, NewRow
  <2>5. PhoneClaimed'
    <3>1. CASE x.contact \notin Phones
      <4>1. NoPhoneRow => NoPhoneRow'
        BY <1>0, <1>4, <2>3, <3>1, NewRow
      <4>. QED BY <1>0, <1>2, <4>1, StaysSettled DEF PhoneClaimed
    <3>2. CASE x.contact \in Phones
      <4>1. calls'[c] = y
        BY <1>4 DEF Go, LinksInv
      <4>. QED BY <2>1, <3>2, <4>1 DEF PhoneClaimed, AtLink
    <3>. QED BY <3>1, <3>2
  <2>. QED BY <2>2, <2>4, <2>5 DEF Undisturbed
<1>. QED BY <1>3, <1>4 DEF CreateBuyer

\* Nothing else runs while no call overlaps or fails: self-added contacts and
\* promotions disturb, and the upgrade finds no row that lacks its link.
LEMMA OthersDisturb ==
  ASSUME LinksInv, Undisturbed, ~disturbed, ~disturbed', NEW c \in Calls,
         ContactStep(c) \/ (\E v \in Contacts : LookUpLegacy(c, v))
           \/ LinkLegacy(c) \/ CallFails(c)
  PROVE  FALSE
<1>1. Lone(calls[c])
  BY DEF Undisturbed
<1>2. CASE ContactStep(c)
  BY <1>1, <1>2, IdleIsIdle
     DEF Lone, ContactStep, AddContact, PromoteContact, ReadClaim, SetContactTier,
         DeleteClaim, PlaceClaim, CheckOwn, Confirm, StampTier
<1>3. ASSUME NEW v \in Contacts, LookUpLegacy(c, v)
      PROVE  FALSE
  <2>1. StartsAlone(c) /\ v \in Phones /\ LinkIds(v) = {} /\ LegacyIds(v) # {}
    BY <1>3 DEF LookUpLegacy
  <2>2. Settled
    BY <2>1, StartsSettled
  <2>3. DOMAIN links \intersect Phones = {}
    BY <2>1 DEF LinkIds, Bridge
  <2>4. ~NoPhoneRow
    BY <2>1 DEF LegacyIds, NoPhoneRow
  <2>. QED BY <2>2, <2>3, <2>4 DEF Settled
<1>4. CASE LinkLegacy(c)
  BY <1>1, <1>4, IdleIsIdle DEF Lone, LinkLegacy
<1>5. CASE CallFails(c)
  BY <1>5 DEF CallFails
<1>. QED BY <1>2, <1>3, <1>4, <1>5

LEMMA DisturbedStays ==
  ASSUME NEW c \in Calls, ~disturbed',
         SignInStep(c) \/ BuyerStep(c) \/ ContactStep(c)
           \/ (\E v \in Contacts : LookUpLegacy(c, v)) \/ LinkLegacy(c) \/ CallFails(c)
  PROVE  ~disturbed
<1>1. CASE SignInStep(c)
  BY <1>1 DEF SignInStep, Verify, SignUp, ReadLink, InsertLink, RaiseTier, StartsAlone
<1>2. CASE BuyerStep(c)
  BY <1>2 DEF BuyerStep, Purchase, ReadColumn, CreateBuyer, LinkBuyer, StartsAlone
<1>3. CASE ContactStep(c)
  BY <1>3 DEF ContactStep, AddContact, PromoteContact, ReadClaim, SetContactTier,
              DeleteClaim, PlaceClaim, CheckOwn, Confirm, StampTier
<1>4. CASE (\E v \in Contacts : LookUpLegacy(c, v)) \/ LinkLegacy(c) \/ CallFails(c)
  BY <1>4 DEF LookUpLegacy, LinkLegacy, CallFails, StartsAlone
<1>. QED BY <1>1, <1>2, <1>3, <1>4

LEMMA AloneStep == AloneInv /\ FitsInv /\ LinksInv /\ [Next]_vars => AloneInv'
<1>. SUFFICES ASSUME AloneInv, FitsInv, LinksInv, [Next]_vars, ~disturbed' PROVE Undisturbed'
  BY DEF AloneInv
<1>0. TypeOK
  BY DEF FitsInv
<1>1. CASE UNCHANGED vars
  BY <1>1 DEF vars, AloneInv, Undisturbed, OneRunning, Lone, OnePhoneRow, NoPhoneRow,
              PhoneClaimed, Settled, AtLink
<1>2. CASE Next
  <2>1. PICK c \in Calls : \/ SignInStep(c) \/ ContactStep(c) \/ BuyerStep(c)
                          \/ (\E v \in Contacts : LookUpLegacy(c, v)) \/ LinkLegacy(c)
                          \/ CallFails(c)
    BY <1>2 DEF Next
  <2>2. ~disturbed /\ Undisturbed
    BY <2>1, DisturbedStays DEF AloneInv
  <2>3. CASE SignInStep(c)
    BY <1>0, <2>2, <2>3, VerifyAlone, SignUpAlone, LinkAlone DEF SignInStep
  <2>4. CASE BuyerStep(c)
    BY <1>0, <2>2, <2>4, PurchaseAlone, ReadColumnAlone, CreateBuyerAlone, LinkAlone
       DEF BuyerStep
  <2>. QED BY <2>1, <2>2, <2>3, <2>4, OthersDisturb
<1>. QED BY <1>1, <1>2

LEMMA AloneInit == Init => AloneInv
<1>. SUFFICES ASSUME Init, ~disturbed PROVE Undisturbed
  BY DEF AloneInv
<1>1. customers = <<>> /\ calls = [c \in Calls |-> Idle]
  BY DEF Init
<1>2. NoPhoneRow /\ OnePhoneRow
  BY <1>1 DEF NoPhoneRow, OnePhoneRow
<1>. QED BY <1>1, <1>2 DEF Undisturbed, OneRunning, Lone, PhoneClaimed, Settled

-----------------------------------------------------------------------------
(* Where the links and the purchases of the phone lead: to a row with it.  *)

HasPhone(i) == customers[i].phone # ""
LinksHoused == \A w \in Phones \intersect DOMAIN links : customers[links[w].owner].phone # ""
PurchasesHoused ==
  \A t \in Purchases :
     attached[t] # 0 /\ typed[t] \in Phones => customers[attached[t]].phone # ""
AppRows ==
  \A i \in DOMAIN customers :
     customers[i].made = "app" /\ customers[i].key \in Phones => customers[i].phone # ""

\* A call about to link the phone has found, or made, a row with it.
HousedCall(x) ==
  /\ AtLink(x) => HasPhone(x.customer)
  /\ x.op = "purchase" => typed[x.txn] = IF x.own # 0 THEN "" ELSE x.contact

Housed == LinksHoused /\ PurchasesHoused /\ AppRows /\ \A c \in Calls : HousedCall(calls[c])
HousedInv == ~disturbed => Housed

LEMMA IdleHoused == HousedCall(Idle) /\ HousedCall(Idle)'
BY IdleIsIdle DEF HousedCall, Idle, AtLink

LEMMA HousedMoves ==
  ASSUME LinksInv, NEW c \in Calls, Alone(c), NEW y, Go(c, y), HousedCall(y)'
  PROVE  \A d \in Calls : HousedCall(calls[d])'
<1>1. \A d \in Calls : calls'[d] = IF d = c THEN y ELSE Idle
  BY DEF Go, LinksInv, Alone
<1>. TAKE d \in Calls
<1>2. CASE d = c
  BY <1>1, <1>2 DEF HousedCall, HasPhone
<1>3. CASE d # c
  <2>1. calls'[d] = Idle
    BY <1>1, <1>3
  <2>. QED BY <2>1, IdleHoused DEF HousedCall, HasPhone
<1>. QED BY <1>2, <1>3

LEMMA HousedEnd ==
  ASSUME LinksInv, NEW c \in Calls, Alone(c), End(c)
  PROVE  \A d \in Calls : HousedCall(calls[d])'
<1>. PICK y : y = Idle
  OBVIOUS
<1>. QED BY IdleHoused, HousedMoves DEF End

LEMMA AttachedRow == \A n \in Nat : \A i \in 0..n : i # 0 => i \in 1..n
OBVIOUS

\* No statement writes a row again.
LEMMA HousedRows ==
  ASSUME TypeOK, UNCHANGED <<links, bought>>, LinksHoused, PurchasesHoused, AppRows,
         NEW r \in Customer, customers' = Append(customers, r),
         r.made = "app" /\ r.key \in Phones => r.phone # ""
  PROVE  LinksHoused' /\ PurchasesHoused' /\ AppRows'
<1>. PICK n, m \in Nat : Gains(r, n, m)
  BY RowAdded
<1>2. LinksHoused'
  <2>. SUFFICES ASSUME NEW w \in Phones, w \in DOMAIN links
                PROVE  customers'[links[w].owner].phone # ""
    BY DEF LinksHoused
  <2>1. links[w].owner \in 1..n
    BY Rows DEF Gains
  <2>. QED BY <2>1 DEF Gains, LinksHoused
<1>3. PurchasesHoused'
  <2>. SUFFICES ASSUME NEW t \in Purchases, attached[t] # 0, typed[t] \in Phones
                PROVE  customers'[attached[t]].phone # ""
    BY DEF PurchasesHoused, bought
  <2>1. attached[t] \in 1..n
    <3>1. attached[t] \in 0..Len(customers) /\ n = Len(customers)
      BY Zenon DEF TypeOK, Gains
    <3>. QED BY <3>1, AttachedRow
  <2>. QED BY <2>1 DEF Gains, PurchasesHoused
<1>4. AppRows'
  BY DEF Gains, AppRows
<1>. QED BY <1>2, <1>3, <1>4

LEMMA HousedSame ==
  ASSUME UNCHANGED customers, UNCHANGED <<links, bought>>, Housed
  PROVE  LinksHoused' /\ PurchasesHoused' /\ AppRows'
BY DEF Housed, LinksHoused, PurchasesHoused, AppRows, bought

\* Whatever resolves a phone finds a row with it.
LEMMA FoundHoused ==
  ASSUME Housed, NEW v \in Phones
  PROVE  /\ \A i \in Primaries(v) : HasPhone(i)
         /\ \A i \in Owners(v) : HasPhone(i)
         /\ \A i \in ColumnOwners(v) : HasPhone(i)
<1>1. \A i \in LinkIds(v) : HasPhone(i)
  BY DEF LinkIds, Bridge, Housed, LinksHoused, HasPhone
<1>2. \A i \in LegacyIds(v) : HasPhone(i)
  BY DEF LegacyIds, HasPhone
<1>3. \A i \in ColumnOwners(v) : HasPhone(i)
  BY DEF ColumnOwners, HasPhone, Typed, Phones
<1>4. Owners(v) \subseteq LinkIds(v)
  BY DEF Owners, LinkIds
<1>. QED BY <1>1, <1>2, <1>3, <1>4 DEF Primaries

\* The customer of a verified contact, and the rest of what its call remembers.
LEMMA ReadsLink ==
  ASSUME NEW x, IsCall(x), x.op = "verify", NEW i, NEW y,
         y = Continue([x EXCEPT !.customer = i])
  PROVE  y.op = "verify" /\ y.contact = x.contact /\ y.customer = i
<1>. PICK z : z = [x EXCEPT !.customer = i]
  OBVIOUS
<1>1. IsCall(z) /\ z.op = "verify" /\ z.contact = x.contact /\ z.customer = i
  BY DEF IsCall
<1>2. y = [z EXCEPT !.pc = "read", !.by = ""]
  BY <1>1 DEF Continue
<1>. QED BY <1>1, <1>2 DEF IsCall

LEMMA VerifyHoused ==
  ASSUME LinksInv, Undisturbed, ~disturbed, ~disturbed', Housed, NEW c \in Calls,
         NEW v \in Contacts, NEW via \in {"otp", "google"}, Verify(c, v, via)
  PROVE  Housed'
<1>. PICK x : x = Ask("verify", v, v, via)
  OBVIOUS
<1>1. IsCall(x) /\ x.op = "verify" /\ x.contact = v /\ x.by = v
  BY DEF Ask, Idle, IsCall
<1>2. Resolve(c, x) /\ UNCHANGED <<customers, links, bought>> /\ StartsAlone(c)
  BY DEF Verify, Ask
<1>3. Alone(c)
  BY <1>2, StartsSettled
<1>4. ASSUME NEW y, Go(c, y), HousedCall(y)' PROVE Housed'
  BY <1>2, <1>3, <1>4, HousedMoves, HousedSame DEF Housed
<1>5. ASSUME NEW i \in Primaries(v), Go(c, Continue([x EXCEPT !.customer = i]))
      PROVE  Housed'
  <2>. PICK y : y = Continue([x EXCEPT !.customer = i])
    OBVIOUS
  <2>1. y.op = "verify" /\ y.contact = v /\ y.customer = i
    BY <1>1, ReadsLink
  <2>2. v \in Phones => HasPhone(i)
    BY FoundHoused
  <2>3. HousedCall(y)'
    BY <1>2, <2>1, <2>2 DEF HousedCall, HasPhone, AtLink
  <2>. QED BY <1>4, <1>5, <2>3
<1>6. CASE Go(c, [x EXCEPT !.pc = "signup"])
  <2>. PICK y : y = [x EXCEPT !.pc = "signup"]
    OBVIOUS
  <2>1. y.op = "verify" /\ y.pc = "signup"
    BY <1>1 DEF IsCall
  <2>2. HousedCall(y)'
    BY <2>1 DEF HousedCall, AtLink
  <2>. QED BY <1>4, <1>6, <2>2
<1>. QED BY <1>1, <1>2, <1>5, <1>6 DEF Resolve

LEMMA SignUpHoused ==
  ASSUME FitsInv, LinksInv, Undisturbed, Housed, NEW c \in Calls, SignUp(c)
  PROVE  Housed'
<1>. PICK x : x = calls[c]
  OBVIOUS
<1>0. IsCall(x) /\ x.pc = "signup" /\ UNCHANGED <<links, bought>> /\ TypeOK
  BY DEF LinksInv, Sound, SignUp, FitsInv
<1>1. x.op = "verify" /\ x.by = x.contact /\ Alone(c) /\ x.by \in Contacts
  BY <1>0, RunsAlone, IdleIsIdle DEF Undisturbed, Lone, FitsInv, CallFits
<1>2. ASSUME NEW i, Go(c, Continue([x EXCEPT !.customer = i])),
             x.by \in Phones => customers'[i].phone # ""
      PROVE  \A d \in Calls : HousedCall(calls[d])'
  <2>. PICK y : y = Continue([x EXCEPT !.customer = i])
    OBVIOUS
  <2>1. y.op = "verify" /\ y.contact = x.by /\ y.customer = i
    BY <1>0, <1>1, ReadsLink
  <2>2. HousedCall(y)'
    BY <1>2, <2>1 DEF HousedCall, HasPhone, AtLink
  <2>. QED BY <1>1, <1>2, <2>2, HousedMoves
<1>3. ASSUME UNCHANGED customers, NEW i \in DOMAIN customers, customers[i].made = "app",
             customers[i].key = x.by, Go(c, Continue([x EXCEPT !.customer = i]))
      PROVE  Housed'
  <2>1. x.by \in Phones => customers'[i].phone # ""
    BY <1>3 DEF Housed, AppRows
  <2>. QED BY <1>0, <1>2, <1>3, <2>1, HousedSame DEF Housed
<1>. PICK n \in Nat : n = Len(customers)
  BY <1>0, Rows
<1>. PICK m \in Nat : m = n + 1
  BY NextId
<1>. DEFINE row == [made |-> "app", key |-> x.by,
                    phone |-> IF x.by \in Phones THEN x.by ELSE "",
                    email |-> IF x.by \in Emails THEN x.by ELSE ""]
<1>4. ASSUME customers' = Append(customers, row), Go(c, Continue([x EXCEPT !.customer = m]))
      PROVE  Housed'
  <2>1. /\ row \in Customer /\ (x.by \in Phones => row.phone # "")
        /\ row.key = x.by
    BY <1>1 DEF Customer, Phones
  <2>. HIDE DEF row
  <2>2. customers'[m] = row
    <3>. PICK k, l \in Nat : Gains(row, k, l)
      BY <1>0, <1>4, <2>1, RowAdded
    <3>. QED BY DEF Gains
  <2>3. LinksHoused' /\ PurchasesHoused' /\ AppRows'
    BY <1>0, <1>4, <2>1, HousedRows DEF Housed
  <2>. QED BY <1>2, <1>4, <2>1, <2>2, <2>3 DEF Housed
<1>. QED BY <1>3, <1>4 DEF SignUp

LEMMA LinkHoused ==
  ASSUME TypeOK, LinksInv, Undisturbed, ~disturbed', Housed, NEW c \in Calls,
         ReadLink(c) \/ InsertLink(c) \/ RaiseTier(c)
  PROVE  Housed'
<1>. PICK x : x = calls[c]
  OBVIOUS
<1>0. /\ IsCall(x) /\ x.pc \in {"read", "insert", "raise"}
      /\ UNCHANGED <<customers, bought>>
  BY DEF LinksInv, Sound, ReadLink, InsertLink, RaiseTier
<1>1. Alone(c) /\ x.op = "verify"
  BY <1>0, RunsAlone, IdleIsIdle DEF Undisturbed, Lone
<1>2. Done(c) => End(c)
  BY <1>1 DEF Done
<1>3. PurchasesHoused' /\ AppRows' /\ (LinksHoused <=> \A w \in Phones \intersect DOMAIN links :
                                           customers'[links[w].owner].phone # "")
  BY <1>0 DEF Housed, PurchasesHoused, AppRows, LinksHoused, bought
<1>4. ASSUME LinksHoused', End(c) PROVE Housed'
  BY <1>1, <1>3, <1>4, HousedEnd DEF Housed
<1>5. CASE ReadLink(c)
  <2>1. x.pc = "read" /\ UNCHANGED links /\ LinksHoused'
    BY <1>3, <1>5 DEF ReadLink, Housed, LinksHoused
  <2>2. ASSUME NEW p \in {"insert", "raise"}, To(c, p)
        PROVE  Housed'
    <3>. PICK y : y = [x EXCEPT !.pc = p]
      OBVIOUS
    <3>1. /\ y.op = "verify" /\ y.contact = x.contact /\ y.customer = x.customer
          /\ Go(c, y)
      BY <1>0, <1>1, <2>2 DEF IsCall, To
    <3>2. AtLink(y) => HasPhone(x.customer)
      BY <2>1, <3>1 DEF AtLink, Housed, HousedCall
    <3>3. HousedCall(y)'
      BY <1>0, <3>1, <3>2 DEF HousedCall, HasPhone, AtLink
    <3>. QED BY <1>1, <1>3, <2>1, <3>1, <3>3, HousedMoves DEF Housed
  <2>3. To(c, "insert") \/ To(c, "raise") \/ End(c)
    BY <1>2, <1>5 DEF ReadLink
  <2>. QED BY <1>4, <2>1, <2>2, <2>3
<1>6. CASE InsertLink(c)
  <2>1. x.pc = "insert" /\ AddLink(x.contact, x.customer, x.via) /\ End(c)
    BY <1>2, <1>6 DEF InsertLink
  <2>2. x.contact \in Phones => customers'[x.customer].phone # ""
    BY <1>0, <2>1 DEF Housed, HousedCall, AtLink, HasPhone
  <2>3. LinksHoused'
    BY <1>3, <2>1, <2>2 DEF Housed, LinksHoused, AddLink
  <2>. QED BY <1>4, <2>1, <2>3
<1>7. CASE RaiseTier(c)
  <2>1. RaiseLink(x.contact, x.customer, x.via) /\ End(c)
    BY <1>2, <1>7 DEF RaiseTier
  <2>2. DOMAIN links' = DOMAIN links /\ \A w \in DOMAIN links : links'[w].owner = links[w].owner
    BY <2>1, RaisesKeep DEF LinksInv
  <2>3. LinksHoused'
    BY <1>3, <2>2 DEF Housed, LinksHoused
  <2>. QED BY <1>4, <2>1, <2>3
<1>. QED BY <1>5, <1>6, <1>7

LEMMA PurchaseHoused ==
  ASSUME TypeOK, LinksInv, Undisturbed, ~disturbed, ~disturbed', Housed, NEW c \in Calls,
         NEW t \in Purchases, NEW v \in Contacts, NEW mail, NEW own,
         Purchase(c, t, v, mail, own)
  PROVE  Housed'
<1>1. /\ StartsAlone(c) /\ UNCHANGED <<customers, links>> /\ attached[t] = 0
      /\ typed' = [typed EXCEPT ![t] = IF own # 0 THEN "" ELSE v]
  BY DEF Purchase
<1>2. Alone(c) /\ calls[c] = Idle
  BY <1>1, StartsSettled DEF StartsAlone, Starts
<1>3. LinksHoused' /\ AppRows'
  BY <1>1 DEF Housed, LinksHoused, AppRows
<1>. PICK n \in Nat : n = Len(customers)
  BY Rows
<1>4. attached \in [Purchases -> 0..n] /\ typed \in [Purchases -> Contacts \cup {""}]
  BY DEF TypeOK
<1>5. /\ typed'[t] = IF own # 0 THEN "" ELSE v
      /\ \A u \in Purchases : u # t => typed'[u] = typed[u]
  BY <1>1, <1>4
<1>6. ASSUME NEW i \in Owners(v), attached' = [attached EXCEPT ![t] = Payer(own, i)],
             UNCHANGED calls
      PROVE  Housed'
  <2>1. attached'[t] = Payer(own, i) /\ \A u \in Purchases : u # t => attached'[u] = attached[u]
    BY <1>4, <1>6
  <2>2. typed'[t] \in Phones => customers'[attached'[t]].phone # ""
    <3>. SUFFICES ASSUME own = 0, v \in Phones PROVE customers'[attached'[t]].phone # ""
      BY <1>5 DEF Phones
    <3>1. attached'[t] = i
      BY <2>1 DEF Payer
    <3>. QED BY <1>1, <3>1, FoundHoused DEF HasPhone
  <2>3. PurchasesHoused'
    BY <1>1, <1>5, <2>1, <2>2 DEF Housed, PurchasesHoused
  <2>4. \A d \in Calls : calls'[d] = Idle
    BY <1>2, <1>6 DEF Alone
  <2>5. \A d \in Calls : HousedCall(calls[d])'
    BY <2>4, IdleHoused DEF HousedCall, HasPhone
  <2>. QED BY <1>3, <2>3, <2>5 DEF Housed
<1>. PICK y : y = Bought(t, v, mail, own)
  OBVIOUS
<1>7. ASSUME Go(c, y), UNCHANGED attached
      PROVE  Housed'
  <2>1. y.pc = "column" /\ y.contact = v /\ y.own = own /\ y.txn = t
    BY DEF Bought, Idle
  <2>2. HousedCall(y)'
    BY <1>5, <2>1 DEF HousedCall, AtLink
  <2>3. PurchasesHoused'
    BY <1>1, <1>5, <1>7 DEF Housed, PurchasesHoused
  <2>. QED BY <1>2, <1>3, <1>7, <2>2, <2>3, HousedMoves DEF Housed
<1>. QED BY <1>6, <1>7 DEF Purchase, Bought

LEMMA ReadColumnHoused ==
  ASSUME LinksInv, Undisturbed, Housed, NEW c \in Calls, ReadColumn(c)
  PROVE  Housed'
<1>. PICK x : x = calls[c]
  OBVIOUS
<1>0. IsCall(x) /\ x.pc = "column" /\ UNCHANGED <<customers, links, bought>>
  BY DEF LinksInv, Sound, ReadColumn
<1>1. x.op = "purchase" /\ Alone(c) /\ typed[x.txn] = IF x.own # 0 THEN "" ELSE x.contact
  BY <1>0, RunsAlone, IdleIsIdle DEF Undisturbed, Lone, Housed, HousedCall
<1>2. ASSUME NEW y, Go(c, y), HousedCall(y)' PROVE Housed'
  BY <1>0, <1>1, <1>2, HousedMoves, HousedSame DEF Housed
<1>3. ASSUME NEW y, y.contact = x.contact, y.own = x.own, y.txn = x.txn, AtLink(y) => HasPhone(y.customer)
      PROVE  HousedCall(y)'
  BY <1>0, <1>1, <1>3 DEF HousedCall, HasPhone, AtLink, bought
<1>4. ASSUME NEW i \in ColumnOwners(x.contact),
             Go(c, [x EXCEPT !.pc = "link", !.customer = i])
      PROVE  Housed'
  <2>. PICK y : y = [x EXCEPT !.pc = "link", !.customer = i]
    OBVIOUS
  <2>1. y.contact = x.contact /\ y.own = x.own /\ y.txn = x.txn /\ y.customer = i
    BY <1>0 DEF IsCall
  <2>2. AtLink(y) => HasPhone(y.customer)
    BY <2>1, FoundHoused DEF AtLink
  <2>. QED BY <1>2, <1>3, <1>4, <2>1, <2>2
<1>5. CASE To(c, "create")
  <2>. PICK y : y = [x EXCEPT !.pc = "create"]
    OBVIOUS
  <2>1. y.contact = x.contact /\ y.own = x.own /\ y.txn = x.txn /\ y.pc = "create"
    BY <1>0 DEF IsCall
  <2>2. ~AtLink(y)
    BY <2>1 DEF AtLink
  <2>. QED BY <1>2, <1>3, <1>5, <2>1, <2>2 DEF To
<1>. QED BY <1>4, <1>5 DEF ReadColumn

LEMMA CreateBuyerHoused ==
  ASSUME FitsInv, LinksInv, Undisturbed, Housed, NEW c \in Calls, CreateBuyer(c)
  PROVE  Housed'
<1>. PICK x : x = calls[c]
  OBVIOUS
<1>0. IsCall(x) /\ x.pc = "create" /\ UNCHANGED <<links, bought>> /\ TypeOK
  BY DEF LinksInv, Sound, CreateBuyer, FitsInv
<1>1. x.op = "purchase" /\ Alone(c) /\ typed[x.txn] = IF x.own # 0 THEN "" ELSE x.contact
  BY <1>0, RunsAlone, IdleIsIdle DEF Undisturbed, Lone, Housed, HousedCall
<1>2. CASE UNCHANGED customers /\ End(c)
  BY <1>0, <1>1, <1>2, HousedSame, HousedEnd DEF Housed
<1>. PICK n \in Nat : n = Len(customers)
  BY <1>0, Rows
<1>. PICK m \in Nat : m = n + 1
  BY NextId
<1>. DEFINE phone == IF x.contact \in Phones THEN Typed(x.contact) ELSE ""
            row == [made |-> "buyer", key |-> x.txn, phone |-> phone,
                    email |-> IF x.contact \in Emails THEN x.contact ELSE x.by]
<1>3. ASSUME customers' = Append(customers, row),
             Go(c, [x EXCEPT !.pc = "link", !.customer = m])
      PROVE  Housed'
  <2>1. phone \in {"", "L", "I", "+I"} /\ (x.contact \in Phones => phone # "")
    BY DEF Phones, Typed
  <2>. HIDE DEF phone
  <2>2. row \in Customer /\ row.made = "buyer" /\ (x.contact \in Phones => row.phone # "")
    <3>1. x.contact \in Contacts /\ x.by \in Emails \cup {""} /\ x.txn \in Purchases
      BY <1>0 DEF FitsInv, CallFits
    <3>. QED BY <2>1, <3>1 DEF Customer
  <2>. HIDE DEF row
  <2>3. customers'[m] = row
    <3>. PICK k, l \in Nat : Gains(row, k, l)
      BY <1>0, <1>3, <2>2, RowAdded
    <3>. QED BY DEF Gains
  <2>4. LinksHoused' /\ PurchasesHoused' /\ AppRows'
    BY <1>0, <1>3, <2>2, HousedRows DEF Housed
  <2>. PICK y : y = [x EXCEPT !.pc = "link", !.customer = m]
    OBVIOUS
  <2>5. y.contact = x.contact /\ y.own = x.own /\ y.txn = x.txn /\ y.customer = m
    BY <1>0 DEF IsCall
  <2>6. HousedCall(y)'
    BY <1>0, <1>1, <2>2, <2>3, <2>5 DEF HousedCall, HasPhone, AtLink, bought
  <2>. QED BY <1>1, <1>3, <2>4, <2>6, HousedMoves DEF Housed
<1>. QED BY <1>2, <1>3 DEF CreateBuyer

LEMMA LinkBuyerHoused ==
  ASSUME FitsInv, LinksInv, Undisturbed, ~disturbed', Housed, NEW c \in Calls, LinkBuyer(c)
  PROVE  Housed'
<1>. PICK x : x = calls[c]
  OBVIOUS
<1>0. /\ x.pc = "link" /\ x.op = "purchase" /\ AddLink(x.contact, x.customer, "purchase")
      /\ attached' = [attached EXCEPT ![x.txn] = Payer(x.own, x.customer)] /\ End(c)
      /\ UNCHANGED <<customers, typed>> /\ TypeOK
  BY DEF LinkBuyer, FitsInv
<1>1. Alone(c) /\ x.txn \in Purchases
  BY <1>0, RunsAlone DEF Undisturbed, FitsInv, CallFits
<1>2. /\ x.contact \in Phones => customers'[x.customer].phone # ""
      /\ typed[x.txn] = IF x.own # 0 THEN "" ELSE x.contact
  BY <1>0 DEF Housed, HousedCall, AtLink, HasPhone
<1>3. LinksHoused'
  BY <1>0, <1>2 DEF Housed, LinksHoused, AddLink
<1>4. PurchasesHoused'
  <2>. PICK n \in Nat : n = Len(customers)
    BY <1>0, Rows
  <2>1. attached \in [Purchases -> 0..n]
    BY <1>0 DEF TypeOK
  <2>2. /\ attached'[x.txn] = Payer(x.own, x.customer)
        /\ \A u \in Purchases : u # x.txn => attached'[u] = attached[u]
    BY <1>0, <1>1, <2>1
  <2>3. typed[x.txn] \in Phones => customers'[attached'[x.txn]].phone # ""
    BY <1>2, <2>2 DEF Payer, Phones
  <2>. QED BY <1>0, <2>2, <2>3 DEF Housed, PurchasesHoused
<1>5. AppRows'
  BY <1>0 DEF Housed, AppRows
<1>. QED BY <1>0, <1>1, <1>3, <1>4, <1>5, HousedEnd DEF Housed

LEMMA HousedStep == HousedInv /\ AloneInv /\ FitsInv /\ LinksInv /\ [Next]_vars => HousedInv'
<1>. SUFFICES ASSUME HousedInv, AloneInv, FitsInv, LinksInv, [Next]_vars, ~disturbed'
              PROVE  Housed'
  BY DEF HousedInv
<1>0. TypeOK
  BY DEF FitsInv
<1>1. CASE UNCHANGED vars
  BY <1>1 DEF vars, bought, HousedInv, Housed, LinksHoused, PurchasesHoused, AppRows,
              HousedCall, HasPhone
<1>2. CASE Next
  <2>1. PICK c \in Calls : \/ SignInStep(c) \/ ContactStep(c) \/ BuyerStep(c)
                          \/ (\E v \in Contacts : LookUpLegacy(c, v)) \/ LinkLegacy(c)
                          \/ CallFails(c)
    BY <1>2 DEF Next
  <2>2. ~disturbed /\ Undisturbed /\ Housed
    BY <2>1, DisturbedStays DEF AloneInv, HousedInv
  <2>3. CASE SignInStep(c)
    BY <1>0, <2>2, <2>3, VerifyHoused, SignUpHoused, LinkHoused DEF SignInStep
  <2>4. CASE BuyerStep(c)
    BY <1>0, <2>2, <2>4, PurchaseHoused, ReadColumnHoused, CreateBuyerHoused, LinkBuyerHoused
       DEF BuyerStep
  <2>. QED BY <2>1, <2>2, <2>3, <2>4, OthersDisturb
<1>. QED BY <1>1, <1>2

LEMMA HousedInit == Init => HousedInv
<1>. SUFFICES ASSUME Init, ~disturbed PROVE Housed
  BY DEF HousedInv
<1>1. /\ customers = <<>> /\ links = <<>> /\ \A c \in Calls : calls[c] = Idle
      /\ \A t \in Purchases : attached[t] = 0
  BY DEF Init
<1>2. DOMAIN customers = {} /\ DOMAIN links = {}
  BY <1>1
<1>. QED BY <1>1, <1>2, IdleHoused DEF Housed, LinksHoused, PurchasesHoused, AppRows

\* "One row per buyer contact": sign-ins (EnsureSelfCustomer) and purchases
\* (EnsureBuyerCustomer) of one phone that neither overlap nor fail share one customer
\* row, to which the links of the phone lead and every purchase with it is attached
\* but a logged-in buyer's.  A row with a phone is written only by a call that saw
\* neither a link nor a row, and by the time the next call starts it has its link,
\* in one format or the other.
THEOREM OneRowPerPhone == Spec => []OneCustomerPerPhone
<1>1. AloneInv /\ HousedInv => OneCustomerPerPhone
  <2>. SUFFICES ASSUME Undisturbed, Housed
                PROVE  Cardinality({i \in DOMAIN customers : customers[i].phone # ""}) <= 1
    BY DEF AloneInv, HousedInv, OneCustomerPerPhone, Housed, LinksHoused, PurchasesHoused
  <2>. DEFINE withPhone == {i \in DOMAIN customers : customers[i].phone # ""}
  <2>1. \A i, j \in withPhone : i = j
    BY DEF Undisturbed, OnePhoneRow
  <2>. HIDE DEF withPhone
  <2>2. Cardinality(withPhone) <= 1
    <3>1. CASE withPhone = {}
      BY <3>1, FS_EmptySet
    <3>2. ASSUME NEW i \in withPhone PROVE Cardinality(withPhone) = 1
      <4>1. withPhone = {i}
        BY <2>1, <3>2
      <4>. QED BY <4>1, FS_Singleton
    <3>. QED BY <3>1, <3>2
  <2>. QED BY <2>2 DEF withPhone
<1>2. Spec => []AloneInv
  BY AloneInit, AloneStep, FitsInvariant, LinksInvariant, PTL DEF Spec
<1>3. Spec => []HousedInv
  BY <1>2, HousedInit, HousedStep, FitsInvariant, LinksInvariant, PTL DEF Spec
<1>. QED BY <1>1, <1>2, <1>3, PTL
=============================================================================
