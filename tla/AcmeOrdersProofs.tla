-------------------------- MODULE AcmeOrdersProofs --------------------------
(***************************************************************************)
(* What AcmeOrders keeps for every number of processes, publish ticks,     *)
(* orders and faults: the types and the ledger's constraints, and that a   *)
(* retry resumes the order the CA has.                                     *)
(*                                                                         *)
(* The second is an account.  A step that may still ask the CA for an      *)
(* order (Asking), and a row whose next claim would (Restart), are each    *)
(* paid for by a row of the ledger or by a fault; asking turns the one     *)
(* into an order at the CA, and only a fault makes another.                *)
(***************************************************************************)
EXTENDS AcmeOrders, TLAPS, FiniteSetTheorems, WellFoundedInduction

-----------------------------------------------------------------------------
Pcs == {"idle", "open", "claim", "start", "record", "put", "place", "mark", "accept", "validating",
        "poll", "ready", "key", "finalize", "issue", "release", "fail", "clean",
        "clean_issued", "cleaned"}
(* Where the tick has no order in hand yet.                                *)
Scanning == {"idle", "open", "claim"}
(* Where the CA's order is in hand; after "record" the row says so.        *)
WithUrl == Pcs \ (Scanning \cup {"start", "fail", "clean", "cleaned"})
(* Where the row is past "pending", and does not return to it.             *)
PastStart == {"poll", "ready", "key", "finalize", "issue", "release", "clean_issued"}

Ticking == [pc : Pcs, order : Nat, url : 0..MaxUrls, key : Runners \cup {None},
            intent : Intents \cup {None}]
PublishTicks == [pc : {"idle", "head", "commit"}, ref : 0..MaxUrls,
                 intent : Intents \cup {None}, current : BOOLEAN]

(* A row of the ledger, while the CA has n orders.                         *)
RowFits(row, n) ==
  /\ row.url \in 0..n
  /\ row.state \in {"validating", "ready", "issued"} => row.url # 0
  /\ row.claimed => row.state \in LiveStates
  /\ row.state = "issued" => row.issued # 0 /\ row.key # None
  /\ row.cleaned => row.placed
OneLive(os) ==
  \A o, q \in DOMAIN os : os[o].state \in LiveStates /\ os[q].state \in LiveStates => o = q
LedgerFits(os, n) ==
  /\ os \in Seq(OrderRows) /\ OneLive(os)
  /\ \A o \in DOMAIN os : RowFits(os[o], n)

(* What a tick t and the row of its order say of one another.              *)
TickFits(t, os, n) ==
  /\ t.pc \in Scanning <=> t.order = 0
  /\ t.pc \notin Scanning => t.order \in DOMAIN os /\ t.intent # None
  /\ t.pc = "open" => t.intent # None
  /\ t.url \in 0..n
  /\ t.pc \in WithUrl => t.url # 0
  /\ t.url # 0 => t.order \in DOMAIN os /\ (t.pc # "record" => os[t.order].url # 0)
  /\ t.pc \in PastStart => os[t.order].state # "pending"
  /\ t.pc \in {"finalize", "issue"} => t.key # None
  /\ t.pc = "cleaned" => os[t.order].placed
SweepFits(s, os) == s # NoRow => s.order \in DOMAIN os /\ os[s.order].placed

AcmeTypes ==
  /\ leader \in Runners /\ cert \in [material : 0..MaxUrls, intent : Intents]
  /\ old \subseteq Urls /\ served \subseteq Urls
  /\ ca \in Seq(CaOrders) /\ Len(ca) <= MaxUrls
  /\ run \in [Runners -> Ticking]
  /\ faults \in Nat /\ faults <= MaxFaults /\ changes \in Nat
PublishingFits ==
  /\ pub \in [Publishers -> PublishTicks]
  /\ \A p \in Publishers : pub[p].pc = "commit" => pub[p].intent # None

(* The strengthening of AcmeTypeOK.                                        *)
AcmeInv ==
  /\ AcmeTypes /\ PublishingFits
  /\ LedgerFits(orders, Len(ca))
  /\ \A r \in Runners : TickFits(run[r], orders, Len(ca))
  /\ sweep \in [order : Nat, token : 0..MaxUrls] /\ SweepFits(sweep, orders)

(* The account of RetriesResume: the steps that may ask the CA for an      *)
(* order, and a row whose next claim leads to one.                         *)
Asks(t) == t.pc = "start" \/ (t.pc = "fail" /\ t.url = 0)
Asking(rs) == {r \in Runners : Asks(rs[r])}
Again(row) == row.state = "pending" \/ (row.state = "failed" /\ row.url = 0)
DrivenBy(o, rs) == \E r \in Runners : rs[r].order = o /\ rs[r].pc \notin {"clean", "cleaned"}
Restarts(o, os, rs) == Again(os[o]) /\ (os[o].claimed => ~DrivenBy(o, rs))
Restart(os, rs) == \E o \in DOMAIN os : Restarts(o, os, rs)
One(b) == IF b THEN 1 ELSE 0
Account(os, n, rs, f) ==
  /\ IsFiniteSet(Asking(rs))
  /\ n + Cardinality(Asking(rs)) + One(Restart(os, rs)) <= Len(os) + (MaxFaults - f)
AcmeAccount == Account(orders, Len(ca), run, faults)

-----------------------------------------------------------------------------
(* Neither the bounds nor the names clash.                                 *)
LEMMA Bounds == MaxUrls \in Nat /\ Urls \subseteq Nat /\ None \notin Runners /\ None \notin Intents
  BY AcmeAssumption DEF MaxUrls, Urls

(* The other ticks stand where they stood.                                 *)
Others(r, rs, qs) == \A s \in Runners \ {r} : qs[s] = rs[s]

(* A tick goes on to another place with what it has in hand.               *)
Gone(rs, r, pc) == [rs EXCEPT ![r].pc = pc]
LEMMA Going ==
  ASSUME NEW rs \in [Runners -> Ticking], NEW r \in Runners, NEW pc \in Pcs,
         NEW qs, qs = Gone(rs, r, pc)
  PROVE  /\ qs \in [Runners -> Ticking] /\ Others(r, rs, qs)
         /\ qs[r].pc = pc /\ qs[r].order = rs[r].order /\ qs[r].url = rs[r].url
         /\ qs[r].key = rs[r].key /\ qs[r].intent = rs[r].intent
  <1> DEFINE t == rs[r]
  <1>1. t \in Ticking
    OBVIOUS
  <1>2. qs = [rs EXCEPT ![r] = [t EXCEPT !.pc = pc]]
    BY DEF Gone
  <1> HIDE DEF t
  <1>3. [t EXCEPT !.pc = pc] \in Ticking
    BY <1>1 DEF Ticking
  <1>4. /\ [t EXCEPT !.pc = pc].pc = pc /\ [t EXCEPT !.pc = pc].order = t.order
        /\ [t EXCEPT !.pc = pc].url = t.url /\ [t EXCEPT !.pc = pc].key = t.key
        /\ [t EXCEPT !.pc = pc].intent = t.intent
    BY <1>1 DEF Ticking
  <1> DEFINE u == [t EXCEPT !.pc = pc]
  <1>5. qs = [rs EXCEPT ![r] = u] /\ u \in Ticking
    BY <1>2, <1>3
  <1>6. u.pc = pc /\ u.order = t.order /\ u.url = t.url /\ u.key = t.key /\ u.intent = t.intent
    BY <1>4
  <1> HIDE DEF u
  <1>7. qs[r] = u /\ qs \in [Runners -> Ticking] /\ Others(r, rs, qs)
    BY <1>5 DEF Others
  <1> QED
    BY <1>6, <1>7 DEF t

(* A tick ends.                                                            *)
LEMMA Ending ==
  ASSUME NEW rs \in [Runners -> Ticking], NEW r \in Runners,
         NEW qs, qs = [rs EXCEPT ![r] = NoTick]
  PROVE  qs \in [Runners -> Ticking] /\ Others(r, rs, qs) /\ qs[r] = NoTick
  <1>1. NoTick \in Ticking
    BY Bounds DEF NoTick, Ticking, Pcs
  <1> QED
    BY <1>1 DEF Others

(* What no step takes back of a row.                                       *)
Keeps(row, new) ==
  /\ row.url # 0 => new.url # 0
  /\ row.state # "pending" => new.state # "pending"
  /\ row.placed => new.placed
Grows(os, ps) == \A o \in DOMAIN os : o \in DOMAIN ps /\ Keeps(os[o], ps[o])

(* A tick that does not move fits the ledger's later states.               *)
LEMMA TickStays ==
  ASSUME NEW t \in Ticking, NEW os, NEW ps, NEW n \in Nat, NEW m \in Nat, n <= m,
         TickFits(t, os, n), Grows(os, ps)
  PROVE  TickFits(t, ps, m)
  BY DEF TickFits, Grows, Keeps, Ticking, Pcs, Scanning, WithUrl, PastStart

(* And so does the row that the orphan scan has in hand.                   *)
LEMMA SweepStays ==
  ASSUME NEW s, NEW os, NEW ps, SweepFits(s, os), Grows(os, ps)
  PROVE  SweepFits(s, ps)
  BY DEF SweepFits, Grows, Keeps

(* The ledger grows from itself.                                           *)
LEMMA GrowsFromItself == ASSUME NEW os PROVE Grows(os, os)
  BY DEF Grows, Keeps

(* The ledger after one row is set.                                        *)
LEMMA SetsRow ==
  ASSUME NEW n \in Nat, NEW m \in Nat, n <= m, NEW os, LedgerFits(os, n),
         NEW o \in DOMAIN os, NEW row \in OrderRows, RowFits(row, m), Keeps(os[o], row),
         row.state \in LiveStates =>
           \A q \in DOMAIN os : os[q].state \in LiveStates => q = o,
         NEW ps, ps = [os EXCEPT ![o] = row]
  PROVE  /\ LedgerFits(ps, m) /\ Grows(os, ps) /\ ps[o] = row
         /\ DOMAIN ps = DOMAIN os /\ Len(ps) = Len(os)
         /\ \A q \in DOMAIN os \ {o} : ps[q] = os[q]
  <1>1. os \in Seq(OrderRows)
    BY DEF LedgerFits
  <1>2. /\ ps \in Seq(OrderRows) /\ DOMAIN ps = DOMAIN os /\ Len(ps) = Len(os)
        /\ ps[o] = row /\ \A q \in DOMAIN os \ {o} : ps[q] = os[q]
    BY <1>1
  <1>3. \A q \in DOMAIN os : RowFits(os[q], m)
    <2> TAKE q \in DOMAIN os
    <2>1. RowFits(os[q], n)
      BY DEF LedgerFits
    <2> QED
      BY <2>1 DEF RowFits
  <1>4. \A q \in DOMAIN ps : RowFits(ps[q], m)
    BY <1>2, <1>3
  <1>5. OneLive(ps)
    BY <1>2 DEF OneLive, LedgerFits
  <1>6. Grows(os, ps)
    BY <1>2 DEF Grows, Keeps
  <1> QED
    BY <1>2, <1>4, <1>5, <1>6 DEF LedgerFits

(* The ledger stays as it is while the CA has more orders.                 *)
LEMMA LedgerStays ==
  ASSUME NEW n \in Nat, NEW m \in Nat, n <= m, NEW os, LedgerFits(os, n)
  PROVE  LedgerFits(os, m)
  <1>1. ASSUME NEW q \in DOMAIN os PROVE RowFits(os[q], m)
    <2>1. RowFits(os[q], n)
      BY DEF LedgerFits
    <2> QED
      BY <2>1 DEF RowFits
  <1> QED
    BY <1>1 DEF LedgerFits

-----------------------------------------------------------------------------
(* A step of a process, once it is known what it does to the ledger and    *)
(* where its own tick stands.                                              *)
LEMMA RunnerStep ==
  ASSUME AcmeInv, NEW r \in Runners, run' \in [Runners -> Ticking], Others(r, run, run'),
         LedgerFits(orders', Len(ca')), Grows(orders, orders'),
         ca' \in Seq(CaOrders), Len(ca) <= Len(ca'), Len(ca') <= MaxUrls, served' \subseteq Urls,
         faults' \in Nat, faults' <= faults,
         TickFits(run'[r], orders', Len(ca')), KeepTheRest
  PROVE  AcmeInv'
  <1>1. Len(ca) \in Nat /\ Len(ca') \in Nat
    BY DEF AcmeInv, AcmeTypes
  <1>2. ASSUME NEW s \in Runners PROVE TickFits(run'[s], orders', Len(ca'))
    <2>1. CASE s = r
      BY <2>1
    <2>2. CASE s # r
      <3>1. run'[s] = run[s] /\ run[s] \in Ticking /\ TickFits(run[s], orders, Len(ca))
        BY <2>2 DEF Others, AcmeInv, AcmeTypes
      <3>2. TickFits(run[s], orders', Len(ca'))
        BY <1>1, <3>1, TickStays
      <3> QED
        BY <3>1, <3>2
    <2> QED
      BY <2>1, <2>2
  <1>3. SweepFits(sweep, orders')
    BY SweepStays DEF AcmeInv
  <1>4. AcmeTypes'
    BY AcmeAssumption DEF AcmeInv, AcmeTypes, KeepTheRest
  <1>5. PublishingFits'
    BY DEF AcmeInv, PublishingFits, KeepTheRest
  <1>6. sweep' = sweep
    BY DEF KeepTheRest
  <1> QED
    BY <1>2, <1>3, <1>4, <1>5, <1>6 DEF AcmeInv

(* What the invariant says of one process, for the proofs of its steps.    *)
LEMMA RunnerFacts ==
  ASSUME AcmeInv, NEW r \in Runners
  PROVE  /\ run \in [Runners -> Ticking] /\ run[r] \in Ticking
         /\ TickFits(run[r], orders, Len(ca)) /\ LedgerFits(orders, Len(ca))
         /\ ca \in Seq(CaOrders) /\ Len(ca) \in Nat /\ Len(ca) <= MaxUrls
         /\ served \subseteq Urls /\ faults \in Nat /\ faults <= MaxFaults
         /\ orders \in Seq(OrderRows)
  BY DEF AcmeInv, AcmeTypes, LedgerFits

(* And of the row of its order.                                            *)
LEMMA RowFacts ==
  ASSUME AcmeInv, NEW o \in DOMAIN orders
  PROVE  /\ orders[o] \in OrderRows /\ RowFits(orders[o], Len(ca)) /\ o \in Nat \ {0}
         /\ orders[o].state \in LiveStates => \A q \in DOMAIN orders :
              orders[q].state \in LiveStates => q = o
  BY DEF AcmeInv, LedgerFits, OneLive

(* How a process's tick goes on, and how it ends.                          *)
LEMMA RunnerGoes ==
  ASSUME AcmeInv, NEW r \in Runners, NEW pc \in Pcs, Goes(r, pc)
  PROVE  /\ run' \in [Runners -> Ticking] /\ Others(r, run, run')
         /\ run'[r].pc = pc /\ run'[r].order = run[r].order /\ run'[r].url = run[r].url
         /\ run'[r].key = run[r].key /\ run'[r].intent = run[r].intent
  <1>1. run \in [Runners -> Ticking]
    BY RunnerFacts
  <1>2. run' = Gone(run, r, pc)
    BY DEF Goes, Gone
  <1> QED
    BY <1>1, <1>2, Going
LEMMA RunnerEnds ==
  ASSUME AcmeInv, NEW r \in Runners, Ends(r)
  PROVE  /\ run' \in [Runners -> Ticking] /\ Others(r, run, run') /\ run'[r] = NoTick
         /\ \A ps : TickFits(NoTick, ps, Len(ca))
  <1>1. run \in [Runners -> Ticking] /\ Len(ca) \in Nat
    BY RunnerFacts
  <1>2. run' = [run EXCEPT ![r] = NoTick]
    BY DEF Ends
  <1>3. ASSUME NEW ps PROVE TickFits(NoTick, ps, Len(ca))
    BY <1>1 DEF NoTick, TickFits, Scanning, WithUrl, PastStart, Pcs
  <1> QED
    BY <1>1, <1>2, <1>3, Ending

(* A step that leaves the ledger and the CA as they are.                   *)
LEMMA TickStep ==
  ASSUME AcmeInv, NEW r \in Runners, run' \in [Runners -> Ticking], Others(r, run, run'),
         UNCHANGED <<orders, ca>>, served' \subseteq Urls, Fault \/ UNCHANGED faults,
         TickFits(run'[r], orders, Len(ca)), KeepTheRest
  PROVE  AcmeInv'
  <1>1. faults' \in Nat /\ faults' <= faults
    BY RunnerFacts DEF Fault
  <1>2. Grows(orders, orders')
    BY GrowsFromItself
  <1> QED
    BY <1>1, <1>2, RunnerFacts, RunnerStep

(* A step that sets the row of the tick's order.                           *)
LEMMA RowStep ==
  ASSUME AcmeInv, NEW r \in Runners, run' \in [Runners -> Ticking], Others(r, run, run'),
         NEW o \in DOMAIN orders, NEW row \in OrderRows, Sets(o, row),
         ca' \in Seq(CaOrders), Len(ca) <= Len(ca'), Len(ca') <= MaxUrls,
         RowFits(row, Len(ca')), Keeps(orders[o], row),
         row.state \in LiveStates =>
           \A q \in DOMAIN orders : orders[q].state \in LiveStates => q = o,
         UNCHANGED <<served, faults>>, KeepTheRest,
         \A ps : DOMAIN ps = DOMAIN orders /\ ps[o] = row => TickFits(run'[r], ps, Len(ca'))
  PROVE  AcmeInv'
  <1>1. Len(ca) \in Nat /\ Len(ca') \in Nat /\ LedgerFits(orders, Len(ca))
    BY RunnerFacts
  <1>2. /\ LedgerFits(orders', Len(ca')) /\ Grows(orders, orders')
        /\ DOMAIN orders' = DOMAIN orders /\ orders'[o] = row
    BY <1>1, SetsRow DEF Sets
  <1>3. TickFits(run'[r], orders', Len(ca'))
    BY <1>2
  <1> QED
    BY <1>2, <1>3, RunnerFacts, RunnerStep

-----------------------------------------------------------------------------
(* The steps of a process.                                                 *)

(* Ticks: the tick has no order in hand.                                   *)
LEMMA TicksKeeps == ASSUME AcmeInv, NEW r \in Runners, Ticks(r) PROVE AcmeInv'
  <1> DEFINE t == run[r]
  <1>1. run \in [Runners -> Ticking] /\ t \in Ticking /\ t.pc = "idle"
    BY RunnerFacts DEF Ticks, In
  <1>2. cert.intent \in Intents
    BY DEF AcmeInv, AcmeTypes
  <1>3. PICK pc \in {"open", "claim"} :
          run' = [run EXCEPT ![r].pc = pc, ![r].intent = cert.intent]
    BY DEF Ticks
  <1> DEFINE u == [t EXCEPT !.pc = pc, !.intent = cert.intent]
  <1>4. u \in Ticking
    BY <1>1, <1>2, <1>3 DEF Ticking, Pcs
  <1>5. run' \in [Runners -> Ticking] /\ Others(r, run, run') /\ run'[r] = u
    BY <1>1, <1>3, <1>4 DEF Others
  <1>6. u.pc = pc /\ u.order = t.order /\ u.url = t.url /\ u.intent = cert.intent
    BY <1>1, <1>3 DEF Ticking
  <1>7. TickFits(t, orders, Len(ca))
    BY RunnerFacts
  <1> HIDE DEF u, t
  <1>8. TickFits(u, orders, Len(ca))
    BY <1>1, <1>2, <1>3, <1>6, <1>7, Bounds DEF TickFits, Scanning, WithUrl, PastStart, Pcs
  <1>9. UNCHANGED <<orders, ca, faults>> /\ served' \subseteq Urls /\ KeepTheRest
    BY RunnerFacts DEF Ticks, ledger
  <1> QED
    BY <1>5, <1>8, <1>9, TickStep

(* OpensOrder: the row it appends is the only live one.                    *)
LEMMA OpensOrderKeeps == ASSUME AcmeInv, NEW r \in Runners, OpensOrder(r) PROVE AcmeInv'
  <1> DEFINE new == NewOrder(run[r].intent)
             t == run[r]
  <1>1. /\ t \in Ticking /\ t.pc = "open" /\ TickFits(t, orders, Len(ca))
        /\ orders \in Seq(OrderRows) /\ LedgerFits(orders, Len(ca)) /\ Len(ca) \in Nat
    BY RunnerFacts DEF OpensOrder, In
  <1>2. /\ run' \in [Runners -> Ticking] /\ Others(r, run, run') /\ run'[r].pc = "claim"
        /\ run'[r].order = t.order /\ run'[r].url = t.url
    <2>1. Goes(r, "claim") /\ "claim" \in Pcs
      BY DEF OpensOrder, Pcs
    <2> QED
      BY <2>1, RunnerGoes
  <1>3. new \in OrderRows /\ RowFits(new, Len(ca)) /\ new.state = "pending"
    BY <1>1, Bounds DEF NewOrder, OrderRows, RowFits, LiveStates, TickFits, Ticking
  <1> HIDE DEF new, t
  <1>4. LedgerFits(orders', Len(ca)) /\ Grows(orders, orders')
    <2>1. CASE orders' = orders
      BY <2>1, <1>1, GrowsFromItself
    <2>2. CASE Live = {} /\ orders' = Append(orders, new)
      <3>1. \A o \in DOMAIN orders : orders[o].state \notin LiveStates
        BY <2>2 DEF Live
      <3>2. /\ orders' \in Seq(OrderRows) /\ DOMAIN orders' = DOMAIN orders \cup {Len(orders) + 1}
            /\ orders'[Len(orders) + 1] = new
            /\ \A o \in DOMAIN orders : orders'[o] = orders[o]
        BY <2>2, <1>1, <1>3
      <3>3. OneLive(orders')
        BY <3>1, <3>2 DEF OneLive
      <3>4. \A o \in DOMAIN orders' : RowFits(orders'[o], Len(ca))
        BY <3>2, <1>1, <1>3 DEF LedgerFits
      <3>5. Grows(orders, orders')
        BY <3>2 DEF Grows, Keeps
      <3> QED
        BY <3>2, <3>3, <3>4, <3>5 DEF LedgerFits
    <2> QED
      BY <2>1, <2>2 DEF OpensOrder, new
  <1>5. ca' = ca /\ faults' = faults /\ served' = served /\ KeepTheRest
    BY DEF OpensOrder
  <1>6. t.order = 0 /\ t.url = 0
    BY <1>1 DEF TickFits, Scanning, Ticking
  <1>7. TickFits(run'[r], orders', Len(ca))
    BY <1>1, <1>2, <1>6 DEF TickFits, Scanning, WithUrl, PastStart, Pcs
  <1> QED
    BY <1>2, <1>4, <1>5, <1>7, RunnerFacts, RunnerStep

(* ClaimsDue: a live row is claimed, and the tick goes where it stands.    *)
LEMMA ClaimsDueKeeps == ASSUME AcmeInv, NEW r \in Runners, ClaimsDue(r) PROVE AcmeInv'
  <1>1. run \in [Runners -> Ticking] /\ TickFits(run[r], orders, Len(ca)) /\ run[r].pc = "claim"
    BY RunnerFacts DEF ClaimsDue, In
  <1>2. CASE Ends(r) /\ UNCHANGED orders
    BY <1>2, RunnerEnds, RunnerFacts, TickStep DEF ClaimsDue
  <1>3. ASSUME NEW o \in Claimable,
               Sets(o, [orders[o] EXCEPT !.claimed = TRUE]),
               run' = [run EXCEPT ![r] = [pc |-> StepOf(orders[o]), order |-> o,
                 url |-> orders[o].url, key |-> orders[o].key, intent |-> orders[o].intent]]
        PROVE  AcmeInv'
    <2> DEFINE row == orders[o]
               new == [row EXCEPT !.claimed = TRUE]
               t == [pc |-> StepOf(row), order |-> o, url |-> row.url, key |-> row.key,
                     intent |-> row.intent]
    <2>1. /\ o \in DOMAIN orders /\ row \in OrderRows /\ RowFits(row, Len(ca)) /\ o \in Nat \ {0}
          /\ row.state \in LiveStates
          /\ \A q \in DOMAIN orders : orders[q].state \in LiveStates => q = o
      BY RowFacts DEF Claimable, Live
    <2> HIDE DEF row
    <2>2. new \in OrderRows /\ RowFits(new, Len(ca)) /\ Keeps(row, new)
      BY <2>1 DEF OrderRows, RowFits, Keeps
    <2>3. StepOf(row) \in {"start", "poll", "key", "finalize"}
      BY <2>1 DEF StepOf, LiveStates
    <2>4. t \in Ticking
      BY <2>1, <2>3, Bounds DEF Ticking, OrderRows, Pcs
    <2>5. run' \in [Runners -> Ticking] /\ Others(r, run, run') /\ run'[r] = t
      BY <1>1, <1>3, <2>4 DEF Others, row
    <2>6. /\ new.url = row.url /\ new.state = row.state /\ new.key = row.key
          /\ row.intent \in Intents /\ row.intent # None
      BY <2>1, Bounds DEF OrderRows
    <2>7. /\ StepOf(row) # "start" => row.url # 0 /\ row.state # "pending"
          /\ StepOf(row) = "finalize" => row.key # None
      BY <2>1 DEF StepOf, LiveStates, RowFits
    <2>8. ASSUME NEW ps, DOMAIN ps = DOMAIN orders, ps[o] = new PROVE TickFits(t, ps, Len(ca))
      <3>1. /\ t.pc = StepOf(row) /\ t.order = o /\ t.url = row.url /\ t.key = row.key
            /\ t.intent = row.intent
        OBVIOUS
      <3> HIDE DEF new, t
      <3> QED
        BY <2>1, <2>3, <2>6, <2>7, <2>8, <3>1 DEF TickFits, Scanning, WithUrl, PastStart, RowFits, Pcs
    <2>9. Sets(o, new) /\ UNCHANGED <<ca, served, faults>> /\ KeepTheRest
      BY <1>3 DEF ClaimsDue, row
    <2>10. \A ps : DOMAIN ps = DOMAIN orders /\ ps[o] = new => TickFits(run'[r], ps, Len(ca'))
      BY <2>5, <2>8, <2>9
    <2>11. Keeps(orders[o], new) /\ orders[o].state \in LiveStates
      BY <2>1, <2>2 DEF row
    <2>12. /\ new \in OrderRows /\ RowFits(new, Len(ca')) /\ ca' \in Seq(CaOrders)
           /\ Len(ca) <= Len(ca') /\ Len(ca') <= MaxUrls
      BY <2>2, <2>9, RunnerFacts
    <2> HIDE DEF new, t
    <2> QED
      BY <2>1, <2>5, <2>9, <2>10, <2>11, <2>12, RowStep
  <1> QED
    BY <1>2, <1>3 DEF ClaimsDue

(* A row that keeps its state, its URL, its claim and its material.        *)
LEMMA RowMarked ==
  ASSUME NEW n \in Nat, NEW row \in OrderRows, RowFits(row, n), NEW new \in OrderRows,
         new.state = row.state, new.url = row.url, new.claimed = row.claimed,
         new.issued = row.issued, new.key = row.key \/ new.key # None,
         row.placed => new.placed, new.cleaned => row.cleaned \/ new.placed
  PROVE  RowFits(new, n) /\ Keeps(row, new)
  BY DEF RowFits, Keeps

(* The steps that set the row of the tick's order and go on: what is left  *)
(* to say is that the new row is one, and that the tick fits it.           *)
LEMMA RowGoes ==
  ASSUME AcmeInv, NEW r \in Runners, NEW pc \in Pcs, Goes(r, pc),
         run[r].order \in DOMAIN orders,
         NEW row \in OrderRows, Sets(run[r].order, row), RowFits(row, Len(ca)),
         Keeps(orders[run[r].order], row),
         row.state \in LiveStates =>
           \A q \in DOMAIN orders : orders[q].state \in LiveStates => q = run[r].order,
         UNCHANGED <<ca, served, faults>>, KeepTheRest,
         run[r].pc = "record" => row.url # 0,
         pc \notin Scanning, pc \in WithUrl => run[r].url # 0,
         pc \in PastStart => row.state # "pending",
         pc \in {"finalize", "issue"} => run[r].key # None,
         pc = "cleaned" => row.placed
  PROVE  AcmeInv'
  <1> DEFINE o == run[r].order
  <1>1. /\ run' \in [Runners -> Ticking] /\ Others(r, run, run')
        /\ run'[r].pc = pc /\ run'[r].order = o /\ run'[r].url = run[r].url
        /\ run'[r].key = run[r].key /\ run'[r].intent = run[r].intent
    BY RunnerGoes
  <1>2. TickFits(run[r], orders, Len(ca)) /\ o # 0 /\ run[r].pc \in Pcs /\ o \in DOMAIN orders
    BY RunnerFacts, RowFacts DEF Ticking
  <1>3. run[r].pc \notin Scanning /\ run[r].intent # None
    BY <1>2 DEF TickFits
  <1>4. run[r].url # 0 => row.url # 0
    BY <1>2 DEF TickFits, Keeps
  <1>5. /\ ca' \in Seq(CaOrders) /\ Len(ca) <= Len(ca') /\ Len(ca') <= MaxUrls /\ Len(ca) = Len(ca')
    BY RunnerFacts
  <1> DEFINE t == run[r]
             u == run'[r]
  <1>6. u.pc = pc /\ u.order = o /\ u.url = t.url /\ u.key = t.key /\ u.intent = t.intent
    BY <1>1
  <1> HIDE DEF o, t
  <1>7. t.order = o /\ t.intent # None /\ TickFits(t, orders, Len(ca)) /\ (t.url # 0 => row.url # 0)
    BY <1>2, <1>3, <1>4 DEF o, t
  <1>8. /\ pc \in WithUrl => t.url # 0
        /\ pc \in {"finalize", "issue"} => t.key # None
    BY DEF t
  <1> SUFFICES ASSUME NEW ps, DOMAIN ps = DOMAIN orders, ps[o] = row
               PROVE  TickFits(run'[r], ps, Len(ca))
    BY <1>1, <1>2, <1>5, RowStep DEF o
  <1> HIDE DEF u
  <1>9. TickFits(u, ps, Len(ca))
    BY <1>2, <1>6, <1>7, <1>8 DEF TickFits
  <1> QED
    BY <1>9 DEF u

(* The tick that is past its claim has a row in hand.                      *)
LEMMA InHand ==
  ASSUME AcmeInv, NEW r \in Runners, run[r].pc \notin Scanning
  PROVE  /\ run[r].order \in DOMAIN orders /\ run[r].pc \in Pcs
         /\ orders[run[r].order] \in OrderRows /\ RowFits(orders[run[r].order], Len(ca))
         /\ orders[run[r].order].state \in LiveStates => \A q \in DOMAIN orders :
              orders[q].state \in LiveStates => q = run[r].order
  <1>1. TickFits(run[r], orders, Len(ca)) /\ run[r] \in Ticking
    BY RunnerFacts
  <1>2. run[r].order \in DOMAIN orders /\ run[r].pc \in Pcs
    BY <1>1 DEF TickFits, Ticking
  <1> QED
    BY <1>2, RowFacts

(* PutsChallenge, MarksPlaced: the row keeps its state, its URL, its claim *)
(* and its material.                                                       *)
LEMMA PutsChallengeKeeps == ASSUME AcmeInv, NEW r \in Runners, PutsChallenge(r) PROVE AcmeInv'
  <1> DEFINE o == run[r].order
             row == orders[o]
             url == run[r].url
             new == [row EXCEPT !.token = url]
  <1>1. run[r].pc = "put" /\ Goes(r, "place") /\ Sets(o, new) /\ UNCHANGED <<ca, served, faults>> /\ KeepTheRest
    BY DEF PutsChallenge, In
  <1>2. /\ o \in DOMAIN orders /\ row \in OrderRows /\ RowFits(row, Len(ca)) /\ Len(ca) \in Nat
        /\ row.state \in LiveStates => \A q \in DOMAIN orders : orders[q].state \in LiveStates => q = o
    BY <1>1, InHand, RunnerFacts DEF Scanning
  <1>3. url \in 0..MaxUrls /\ url # 0
    BY <1>1, RunnerFacts DEF TickFits, WithUrl, Pcs, Scanning, Ticking
  <1> HIDE DEF row, url
  <1>4. /\ new \in OrderRows /\ new.state = row.state /\ new.url = row.url /\ new.claimed = row.claimed
        /\ new.issued = row.issued /\ new.key = row.key /\ new.placed = row.placed
        /\ new.cleaned = row.cleaned
    BY <1>2, <1>3 DEF OrderRows
  <1> HIDE DEF new
  <1>5. RowFits(new, Len(ca)) /\ Keeps(row, new)
    BY <1>2, <1>4, RowMarked
  <1>6. "place" \in Pcs \ (Scanning \cup PastStart)
    BY DEF Pcs, Scanning, PastStart
  <1> QED
    BY <1>1, <1>2, <1>3, <1>4, <1>5, <1>6, RowGoes DEF row, url

LEMMA MarksPlacedKeeps == ASSUME AcmeInv, NEW r \in Runners, MarksPlaced(r) PROVE AcmeInv'
  <1> DEFINE o == run[r].order
             row == orders[o]
             new == [row EXCEPT !.placed = TRUE]
  <1>1. run[r].pc = "mark" /\ Goes(r, "accept") /\ Sets(o, new) /\ UNCHANGED <<ca, served, faults>> /\ KeepTheRest
    BY DEF MarksPlaced, In
  <1>2. /\ o \in DOMAIN orders /\ row \in OrderRows /\ RowFits(row, Len(ca)) /\ Len(ca) \in Nat
        /\ row.state \in LiveStates => \A q \in DOMAIN orders : orders[q].state \in LiveStates => q = o
    BY <1>1, InHand, RunnerFacts DEF Scanning
  <1>3. run[r].url # 0
    BY <1>1, RunnerFacts DEF TickFits, WithUrl, Pcs, Scanning, Ticking
  <1> HIDE DEF row
  <1>4. /\ new \in OrderRows /\ new.state = row.state /\ new.url = row.url /\ new.claimed = row.claimed
        /\ new.issued = row.issued /\ new.key = row.key /\ new.placed
        /\ new.cleaned = row.cleaned
    BY <1>2 DEF OrderRows
  <1> HIDE DEF new
  <1>5. RowFits(new, Len(ca)) /\ Keeps(row, new)
    BY <1>2, <1>4, RowMarked
  <1>6. "accept" \in Pcs \ (Scanning \cup PastStart)
    BY DEF Pcs, Scanning, PastStart
  <1> QED
    BY <1>1, <1>2, <1>3, <1>4, <1>5, <1>6, RowGoes DEF row

(* MakesKey: the key is there before the CSR that is made of it.           *)
LEMMA MakesKeyKeeps == ASSUME AcmeInv, NEW r \in Runners, MakesKey(r) PROVE AcmeInv'
  <1> DEFINE o == run[r].order
             row == orders[o]
             new == [row EXCEPT !.key = r]
             t == run[r]
             u == [t EXCEPT !.pc = "finalize", !.key = r]
  <1>1. t.pc = "key" /\ Sets(o, new) /\ UNCHANGED <<ca, served, faults>> /\ KeepTheRest
    BY DEF MakesKey, In
  <1>2. /\ o \in DOMAIN orders /\ row \in OrderRows /\ RowFits(row, Len(ca)) /\ Len(ca) \in Nat
        /\ row.state \in LiveStates => \A q \in DOMAIN orders : orders[q].state \in LiveStates => q = o
    BY <1>1, InHand, RunnerFacts DEF Scanning
  <1>3. run \in [Runners -> Ticking] /\ t \in Ticking /\ TickFits(t, orders, Len(ca)) /\ o # 0
    BY <1>2, RunnerFacts, RowFacts
  <1>4. run' = [run EXCEPT ![r] = u]
    BY <1>3 DEF MakesKey
  <1>5. t.url # 0 /\ t.intent # None /\ t.order = o /\ row.url # 0 /\ row.state # "pending"
    BY <1>1, <1>3 DEF TickFits, WithUrl, Pcs, Scanning, PastStart, Ticking
  <1> HIDE DEF row, o, t
  <1>6. /\ new \in OrderRows /\ new.state = row.state /\ new.url = row.url /\ new.claimed = row.claimed
        /\ new.issued = row.issued /\ new.key # None /\ new.placed = row.placed
        /\ new.cleaned = row.cleaned
    BY <1>2, Bounds DEF OrderRows
  <1>7. u \in Ticking
    BY <1>3 DEF Ticking, Pcs
  <1>8. u.pc = "finalize" /\ u.url = t.url /\ u.order = t.order /\ u.intent = t.intent /\ u.key # None
    BY <1>3, Bounds DEF Ticking
  <1> HIDE DEF u, new
  <1>9. RowFits(new, Len(ca)) /\ Keeps(row, new)
    BY <1>2, <1>6, RowMarked
  <1>10. run' \in [Runners -> Ticking] /\ Others(r, run, run') /\ run'[r] = u
    BY <1>3, <1>4, <1>7 DEF Others
  <1>11. ASSUME NEW ps, DOMAIN ps = DOMAIN orders, ps[o] = new PROVE TickFits(u, ps, Len(ca))
    BY <1>2, <1>3, <1>5, <1>6, <1>8, <1>11 DEF TickFits, Scanning, WithUrl, PastStart, Pcs
  <1>12. \A ps : DOMAIN ps = DOMAIN orders /\ ps[o] = new => TickFits(run'[r], ps, Len(ca'))
    BY <1>1, <1>10, <1>11
  <1>13. /\ ca' \in Seq(CaOrders) /\ Len(ca) <= Len(ca') /\ Len(ca') <= MaxUrls
         /\ RowFits(new, Len(ca')) /\ Keeps(orders[o], new)
         /\ new.state \in LiveStates => \A q \in DOMAIN orders : orders[q].state \in LiveStates => q = o
    BY <1>1, <1>2, <1>6, <1>9, RunnerFacts DEF row
  <1> QED
    BY <1>1, <1>2, <1>6, <1>10, <1>12, <1>13, RowStep

(* The steps that leave the ledger as it is, and what the CA has in number.*)
LEMMA TickGoes ==
  ASSUME AcmeInv, NEW r \in Runners, run[r].pc \notin Scanning \cup {"record"},
         NEW pc \in Pcs \ Scanning, Goes(r, pc),
         UNCHANGED orders, ca' \in Seq(CaOrders), Len(ca') = Len(ca),
         served' \subseteq Urls, Fault \/ UNCHANGED faults, KeepTheRest,
         pc \in WithUrl => run[r].url # 0,
         pc \in PastStart => orders[run[r].order].state # "pending",
         pc \in {"finalize", "issue"} => run[r].key # None,
         pc = "cleaned" => orders[run[r].order].placed
  PROVE  AcmeInv'
  <1> DEFINE t == run[r]
             u == run'[r]
  <1>1. /\ run' \in [Runners -> Ticking] /\ Others(r, run, run')
        /\ u.pc = pc /\ u.order = t.order /\ u.url = t.url /\ u.key = t.key /\ u.intent = t.intent
    BY RunnerGoes
  <1>2. TickFits(t, orders, Len(ca)) /\ t.pc \notin Scanning \cup {"record"}
    BY RunnerFacts
  <1>3. /\ pc \in WithUrl => t.url # 0
        /\ pc \in PastStart => orders[t.order].state # "pending"
        /\ pc \in {"finalize", "issue"} => t.key # None
        /\ pc = "cleaned" => orders[t.order].placed
    OBVIOUS
  <1> HIDE DEF t, u
  <1>4. TickFits(u, orders, Len(ca))
    BY <1>1, <1>2, <1>3 DEF TickFits
  <1>5. faults' \in Nat /\ faults' <= faults
    BY RunnerFacts DEF Fault
  <1>6. LedgerFits(orders', Len(ca')) /\ Grows(orders, orders') /\ TickFits(u, orders', Len(ca'))
    BY <1>4, RunnerFacts, GrowsFromItself
  <1>7. Len(ca) <= Len(ca') /\ Len(ca') <= MaxUrls
    BY RunnerFacts
  <1> QED
    BY <1>1, <1>5, <1>6, <1>7, RunnerStep DEF u
LEMMA TickEnds ==
  ASSUME AcmeInv, NEW r \in Runners, Ends(r), UNCHANGED <<orders, ca>>,
         served' \subseteq Urls, Fault \/ UNCHANGED faults, KeepTheRest
  PROVE  AcmeInv'
  BY RunnerEnds, TickStep

(* A tick that fails needs nothing.                                        *)
LEMMA Failing == "fail" \in Pcs \ (Scanning \cup WithUrl \cup PastStart)
  BY DEF Pcs, Scanning, WithUrl, PastStart

(* A tick that fails forgets the CA's order it had in hand.                *)
FailsUnnamed(rs, r) == [rs EXCEPT ![r].pc = "fail", ![r].url = 0]
LEMMA FailingUnnamed ==
  ASSUME NEW rs \in [Runners -> Ticking], NEW r \in Runners, NEW os, NEW n \in Nat,
         TickFits(rs[r], os, n), rs[r].pc \notin Scanning, NEW qs, qs = FailsUnnamed(rs, r)
  PROVE  /\ qs \in [Runners -> Ticking] /\ Others(r, rs, qs) /\ TickFits(qs[r], os, n)
         /\ qs[r].pc = "fail" /\ qs[r].order = rs[r].order
  <1> DEFINE t == rs[r]
             u == [t EXCEPT !.pc = "fail", !.url = 0]
  <1>1. t \in Ticking /\ qs = [rs EXCEPT ![r] = u]
    BY DEF FailsUnnamed
  <1>2. TickFits(t, os, n) /\ t.pc \notin Scanning
    OBVIOUS
  <1> HIDE DEF t
  <1>3. u \in Ticking /\ u.pc = "fail" /\ u.url = 0 /\ u.order = t.order /\ u.intent = t.intent
    <2>1. "fail" \in Pcs /\ 0 \in 0..MaxUrls
      BY Bounds DEF Pcs
    <2> QED
      BY <1>1, <2>1 DEF Ticking
  <1> HIDE DEF u
  <1>4. TickFits(u, os, n)
    BY <1>2, <1>3 DEF TickFits, Scanning, WithUrl, PastStart, Pcs
  <1>5. qs[r] = u /\ qs \in [Runners -> Ticking] /\ Others(r, rs, qs)
    BY <1>1, <1>3 DEF Others
  <1> QED
    BY <1>3, <1>4, <1>5 DEF t

(* StartsOrder: the CA has one order more, which the row does not name.    *)
LEMMA StartsOrderKeeps == ASSUME AcmeInv, NEW r \in Runners, StartsOrder(r) PROVE AcmeInv'
  <1> DEFINE t == run[r]
             url == Len(ca) + 1
             u == [t EXCEPT !.pc = "record", !.url = url]
  <1>1. /\ run \in [Runners -> Ticking] /\ t \in Ticking /\ TickFits(t, orders, Len(ca))
        /\ t.pc = "start" /\ url <= MaxUrls /\ Len(ca) \in Nat
    BY RunnerFacts DEF StartsOrder, In
  <1>2. t.order \in DOMAIN orders /\ t.order # 0 /\ t.intent \in Intents /\ t.intent # None
    BY <1>1 DEF TickFits, Scanning, Ticking
  <1>3. /\ ca' \in Seq(CaOrders) /\ Len(ca') = url
    <2> DEFINE e == [status |-> "pending", key |-> None, intent |-> t.intent]
    <2>1. e \in CaOrders
      BY <1>2 DEF CaOrders
    <2>2. ca' = Append(ca, e) /\ ca \in Seq(CaOrders)
      BY RunnerFacts DEF StartsOrder
    <2> HIDE DEF e
    <2> QED
      BY <2>1, <2>2
  <1>4. /\ UNCHANGED <<orders, served>> /\ KeepTheRest
        /\ \/ run' = [run EXCEPT ![r] = u] /\ UNCHANGED faults
           \/ Goes(r, "fail") /\ Fault
    BY <1>1 DEF StartsOrder
  <1> HIDE DEF t
  <1>5. u \in Ticking
    <2>1. "record" \in Pcs /\ url \in 0..MaxUrls
      BY <1>1, Bounds DEF Pcs
    <2> HIDE DEF url
    <2> QED
      BY <1>1, <2>1 DEF Ticking
  <1>6. u.pc = "record" /\ u.url = url /\ u.order = t.order /\ u.intent = t.intent
    BY <1>1 DEF Ticking
  <1> HIDE DEF u
  <1>7. TickFits(u, orders, url)
    BY <1>1, <1>2, <1>6 DEF TickFits, Scanning, WithUrl, PastStart, Pcs
  <1>8. run' \in [Runners -> Ticking] /\ Others(r, run, run') /\ TickFits(run'[r], orders, url)
    <2>1. CASE run' = [run EXCEPT ![r] = u]
      BY <1>1, <1>5, <1>7, <2>1 DEF Others
    <2>2. CASE Goes(r, "fail")
      <3>1. /\ run' \in [Runners -> Ticking] /\ Others(r, run, run')
            /\ run'[r].pc = "fail" /\ run'[r].order = t.order /\ run'[r].url = t.url
            /\ run'[r].intent = t.intent
        BY <2>2, RunnerGoes, Failing DEF t
      <3>2. run'[r] \in Ticking
        BY <3>1
      <3> DEFINE w == run'[r]
      <3> HIDE DEF w
      <3>3. TickFits(w, orders, url)
        BY <1>1, <1>2, <3>1 DEF TickFits, Scanning, WithUrl, PastStart, Pcs, w
      <3> QED
        BY <3>1, <3>3 DEF w
    <2> QED
      BY <1>4, <2>1, <2>2
  <1>9. LedgerFits(orders', Len(ca')) /\ Grows(orders, orders')
    BY <1>1, <1>3, <1>4, RunnerFacts, LedgerStays, GrowsFromItself
  <1>10. faults' \in Nat /\ faults' <= faults /\ served' \subseteq Urls
    BY <1>4, RunnerFacts DEF Fault
  <1> QED
    BY <1>1, <1>3, <1>4, <1>8, <1>9, <1>10, RunnerStep

(* RecordsUrl: the row names it.                                           *)
LEMMA RecordsUrlKeeps == ASSUME AcmeInv, NEW r \in Runners, RecordsUrl(r) PROVE AcmeInv'
  <1> DEFINE o == run[r].order
             row == orders[o]
             url == run[r].url
             new == [row EXCEPT !.url = url]
  <1>1. run[r].pc = "record" /\ Goes(r, "put") /\ Sets(o, new) /\ UNCHANGED <<ca, served, faults>> /\ KeepTheRest
    BY DEF RecordsUrl, In
  <1>2. /\ o \in DOMAIN orders /\ row \in OrderRows /\ RowFits(row, Len(ca)) /\ Len(ca) \in Nat
        /\ row.state \in LiveStates => \A q \in DOMAIN orders : orders[q].state \in LiveStates => q = o
    BY <1>1, InHand, RunnerFacts DEF Scanning
  <1>3. url \in 0..MaxUrls /\ url # 0 /\ url \in 0..Len(ca)
    BY <1>1, RunnerFacts DEF TickFits, WithUrl, Pcs, Scanning, Ticking
  <1> HIDE DEF row, url
  <1>4. new \in OrderRows /\ RowFits(new, Len(ca)) /\ Keeps(row, new) /\ new.state = row.state /\ new.url # 0
    BY <1>2, <1>3 DEF OrderRows, RowFits, Keeps
  <1> HIDE DEF new
  <1>5. "put" \in Pcs \ (Scanning \cup PastStart)
    BY DEF Pcs, Scanning, PastStart
  <1> QED
    BY <1>1, <1>2, <1>3, <1>4, <1>5, RowGoes DEF row, url

(* An order at the CA that changes where it stands.                        *)
LEMMA CaChanges ==
  ASSUME AcmeInv, NEW u \in DOMAIN ca, NEW e \in CaOrders, ca' = [ca EXCEPT ![u] = e]
  PROVE  ca' \in Seq(CaOrders) /\ Len(ca') = Len(ca)
  <1>1. ca \in Seq(CaOrders)
    BY DEF AcmeInv, AcmeTypes
  <1> QED
    BY <1>1

(* PlacesChallenge, AcceptsChallenge, PollsOrder, FinalizesOrder: a call   *)
(* of the CA or the placer, and its answer or an error.                    *)
LEMMA PlacesChallengeKeeps == ASSUME AcmeInv, NEW r \in Runners, PlacesChallenge(r) PROVE AcmeInv'
  <1>1. run[r].pc = "place" /\ UNCHANGED <<orders, ca>> /\ KeepTheRest
    BY DEF PlacesChallenge, In
  <1>2. run[r].pc \notin Scanning /\ run[r].url # 0 /\ run[r].url \in 0..MaxUrls
    BY <1>1, RunnerFacts DEF TickFits, WithUrl, Pcs, Scanning, Ticking
  <1>3. served' \subseteq Urls
    BY <1>2, RunnerFacts, Bounds DEF PlacesChallenge, Urls
  <1>4. "mark" \in Pcs \ (Scanning \cup PastStart)
    BY DEF Pcs, Scanning, PastStart
  <1>5. PICK pc \in {"mark", "fail"} : Goes(r, pc) /\ (Fault \/ UNCHANGED faults)
    BY DEF PlacesChallenge, Answered
  <1>6. pc \in Pcs \ Scanning /\ pc \notin PastStart \cup {"finalize", "issue", "cleaned"}
    BY <1>4, <1>5, Failing
  <1> QED
    BY <1>1, <1>2, <1>3, <1>5, <1>6, RunnerFacts, TickGoes

LEMMA AcceptsChallengeKeeps == ASSUME AcmeInv, NEW r \in Runners, AcceptsChallenge(r) PROVE AcmeInv'
  <1> DEFINE u == run[r].url
             e == ca[u]
  <1>1. run[r].pc = "accept" /\ UNCHANGED <<orders, served>> /\ KeepTheRest
    BY DEF AcceptsChallenge, In
  <1>2. run[r].pc \notin Scanning /\ u # 0 /\ u \in 0..Len(ca)
    BY <1>1, RunnerFacts DEF TickFits, WithUrl, Pcs, Scanning
  <1>3. u \in DOMAIN ca /\ e \in CaOrders
    BY <1>2, RunnerFacts
  <1>4. ca' \in Seq(CaOrders) /\ Len(ca') = Len(ca)
    <2>1. CASE ca' = ca
      BY <2>1, RunnerFacts
    <2>2. CASE ca' = [ca EXCEPT ![u].status = "accepted"]
      <3>1. ca' = [ca EXCEPT ![u] = [e EXCEPT !.status = "accepted"]]
        BY <2>2
      <3> HIDE DEF e
      <3>2. [e EXCEPT !.status = "accepted"] \in CaOrders
        BY <1>3 DEF CaOrders
      <3> QED
        BY <1>3, <3>1, <3>2, CaChanges
    <2> QED
      BY <2>1, <2>2 DEF AcceptsChallenge
  <1>5. "validating" \in Pcs \ (Scanning \cup PastStart)
    BY DEF Pcs, Scanning, PastStart
  <1>6. PICK pc \in {"validating", "fail"} : Goes(r, pc) /\ (Fault \/ UNCHANGED faults)
    BY DEF AcceptsChallenge, Answered
  <1>7. pc \in Pcs \ Scanning /\ pc \notin PastStart \cup {"finalize", "issue", "cleaned"}
    BY <1>5, <1>6, Failing
  <1> QED
    BY <1>1, <1>2, <1>4, <1>6, <1>7, RunnerFacts, TickGoes

LEMMA PollsOrderKeeps == ASSUME AcmeInv, NEW r \in Runners, PollsOrder(r) PROVE AcmeInv'
  <1>1. run[r].pc = "poll" /\ UNCHANGED <<orders, ca, served, faults>> /\ KeepTheRest
    BY DEF PollsOrder, In, ledger
  <1>2. /\ run[r].pc \notin Scanning /\ run[r].url # 0 /\ run[r].url \in 0..Len(ca)
        /\ orders[run[r].order].state # "pending"
    BY <1>1, RunnerFacts DEF TickFits, WithUrl, PastStart, Pcs, Scanning
  <1>3. ca[run[r].url] \in CaOrders
    BY <1>2, RunnerFacts
  <1>4. PICK pc \in {"ready", "release", "fail"} : Goes(r, pc)
    BY <1>3 DEF PollsOrder, CaOrders
  <1>5. pc \in Pcs \ Scanning /\ pc \notin {"finalize", "issue", "cleaned"}
    BY <1>4 DEF Pcs, Scanning
  <1> QED
    BY <1>1, <1>2, <1>4, <1>5, RunnerFacts, TickGoes

LEMMA FinalizesOrderKeeps == ASSUME AcmeInv, NEW r \in Runners, FinalizesOrder(r) PROVE AcmeInv'
  <1> DEFINE u == run[r].url
             e == ca[u]
             new == [e EXCEPT !.status = "valid", !.key = run[r].key]
  <1>1. run[r].pc = "finalize" /\ UNCHANGED <<orders, served>> /\ KeepTheRest
    BY DEF FinalizesOrder, In
  <1>2. /\ run[r].pc \notin Scanning /\ u # 0 /\ u \in 0..Len(ca) /\ run[r].key # None
        /\ orders[run[r].order].state # "pending" /\ run[r].key \in Runners \cup {None}
    BY <1>1, RunnerFacts DEF TickFits, WithUrl, PastStart, Pcs, Scanning, Ticking
  <1>3. u \in DOMAIN ca /\ e \in CaOrders
    BY <1>2, RunnerFacts
  <1>4. ca' \in Seq(CaOrders) /\ Len(ca') = Len(ca)
    <2>1. CASE ca' = ca
      BY <2>1, RunnerFacts
    <2>2. CASE ca' = [ca EXCEPT ![u].status = "valid", ![u].key = run[r].key]
      <3>1. ca' = [ca EXCEPT ![u] = new]
        BY <2>2, <1>3, RunnerFacts
      <3> HIDE DEF e
      <3>2. new \in CaOrders
        BY <1>2, <1>3 DEF CaOrders
      <3> HIDE DEF new
      <3> QED
        BY <1>3, <3>1, <3>2, CaChanges
    <2> QED
      BY <2>1, <2>2 DEF FinalizesOrder
  <1>5. PICK pc \in {"issue", "fail"} : Goes(r, pc) /\ (Fault \/ UNCHANGED faults)
    BY DEF FinalizesOrder, Answered
  <1>6. pc \in Pcs \ Scanning /\ pc # "cleaned"
    BY <1>5 DEF Pcs, Scanning
  <1> QED
    BY <1>1, <1>2, <1>4, <1>5, <1>6, RunnerFacts, TickGoes

(* The steps that set the row of the tick's order and end the tick.        *)
LEMMA RowEnds ==
  ASSUME AcmeInv, NEW r \in Runners, Ends(r), NEW o \in DOMAIN orders,
         NEW row \in OrderRows, Sets(o, row), RowFits(row, Len(ca)), Keeps(orders[o], row),
         row.state = orders[o].state,
         UNCHANGED <<ca, served, faults>>, KeepTheRest
  PROVE  AcmeInv'
  <1>1. /\ run' \in [Runners -> Ticking] /\ Others(r, run, run') /\ run'[r] = NoTick
        /\ \A ps : TickFits(NoTick, ps, Len(ca))
    BY RunnerEnds
  <1>2. row.state \in LiveStates => \A q \in DOMAIN orders : orders[q].state \in LiveStates => q = o
    BY RowFacts
  <1>3. /\ ca' \in Seq(CaOrders) /\ Len(ca) <= Len(ca') /\ Len(ca') <= MaxUrls /\ Len(ca) = Len(ca')
    BY RunnerFacts
  <1>4. \A ps : DOMAIN ps = DOMAIN orders /\ ps[o] = row => TickFits(run'[r], ps, Len(ca'))
    BY <1>1, <1>3
  <1> QED
    BY <1>1, <1>2, <1>3, <1>4, RowStep

(* The row may take a live state: no other row has one.                    *)
LEMMA MayBeAlone ==
  ASSUME NEW o \in DOMAIN orders, NEW state \in LiveStates, MayBe(o, state)
  PROVE  \A q \in DOMAIN orders : orders[q].state \in LiveStates => q = o
  BY DEF MayBe, Live

(* Advances: the row lives on alone, whatever it said before.              *)
LEMMA AdvancesKeeps ==
  ASSUME AcmeInv, NEW r \in Runners, NEW state \in {"validating", "ready"}, Advances(r, state)
  PROVE  AcmeInv'
  <1> DEFINE o == run[r].order
             row == orders[o]
             new == [row EXCEPT !.state = state]
  <1>1. run[r].pc = state /\ UNCHANGED <<ca, served, faults>> /\ KeepTheRest
    BY DEF Advances, In
  <1>2. /\ run[r].pc \notin Scanning /\ o \in DOMAIN orders /\ run[r].url # 0 /\ row.url # 0
    BY <1>1, RunnerFacts DEF TickFits, WithUrl, Pcs, Scanning
  <1>3. row \in OrderRows /\ RowFits(row, Len(ca))
    BY <1>2, RowFacts
  <1>4. CASE MayBe(o, state)
    <2>1. Sets(o, new) /\ Goes(r, "release")
      BY <1>4 DEF Advances
    <2>2. state \in LiveStates /\ state # "pending"
      BY DEF LiveStates
    <2>3. \A q \in DOMAIN orders : orders[q].state \in LiveStates => q = o
      BY <1>2, <1>4, <2>2, MayBeAlone
    <2> HIDE DEF row
    <2>4. /\ new \in OrderRows /\ RowFits(new, Len(ca)) /\ Keeps(row, new)
          /\ new.state # "pending"
      BY <1>2, <1>3, <2>2 DEF OrderRows, RowFits, Keeps, LiveStates
    <2>5. "release" \in Pcs \ Scanning
      BY DEF Pcs, Scanning
    <2>6. Keeps(orders[o], new)
      BY <2>4 DEF row
    <2> HIDE DEF new
    <2> QED
      BY <1>1, <1>2, <2>1, <2>3, <2>4, <2>5, <2>6, RowGoes
  <1>5. CASE ~MayBe(o, state)
    <2>1. orders' = orders /\ Goes(r, "fail")
      BY <1>5 DEF Advances
    <2> QED
      BY <1>1, <1>2, <2>1, Failing, RunnerFacts, TickGoes
  <1> QED
    BY <1>4, <1>5

(* MarksIssued: the material, its key and the end of the order together.   *)
LEMMA MarksIssuedKeeps == ASSUME AcmeInv, NEW r \in Runners, MarksIssued(r) PROVE AcmeInv'
  <1> DEFINE o == run[r].order
             row == orders[o]
             t == run[r]
             w1 == [row EXCEPT !.state = "issued", !.issued = t.url]
             new == [w1 EXCEPT !.key = t.key, !.claimed = FALSE]
  <1>1. t.pc = "issue" /\ Goes(r, "clean_issued") /\ UNCHANGED <<ca, served, faults>> /\ KeepTheRest
    BY DEF MarksIssued, In
  <1>2. Sets(o, new)
    BY DEF MarksIssued
  <1>3. t \in Ticking /\ TickFits(t, orders, Len(ca)) /\ Len(ca) \in Nat /\ Len(ca) <= MaxUrls
    BY RunnerFacts
  <1>4. /\ t.pc \notin Scanning /\ o \in DOMAIN orders /\ t.url # 0 /\ row.url # 0 /\ t.key # None
        /\ t.url \in 0..MaxUrls /\ t.key \in Runners \cup {None}
    BY <1>1, <1>3 DEF TickFits, WithUrl, Pcs, Scanning, Ticking
  <1>5. row \in OrderRows /\ RowFits(row, Len(ca))
    BY <1>4, RowFacts
  <1> HIDE DEF row, t
  <1>6. /\ w1 \in OrderRows /\ w1.state = "issued" /\ w1.issued = t.url /\ w1.url = row.url
        /\ w1.placed = row.placed /\ w1.cleaned = row.cleaned
    BY <1>4, <1>5 DEF OrderRows
  <1> HIDE DEF w1
  <1>7. /\ new \in OrderRows /\ new.state = "issued" /\ new.issued = t.url /\ new.url = row.url
        /\ new.placed = row.placed /\ new.cleaned = row.cleaned
        /\ new.key = t.key /\ new.claimed = FALSE
    BY <1>4, <1>6 DEF OrderRows
  <1> HIDE DEF new
  <1>8. RowFits(new, Len(ca)) /\ Keeps(row, new)
    BY <1>4, <1>5, <1>7 DEF RowFits, Keeps
  <1>9. "clean_issued" \in Pcs \ Scanning
    BY DEF Pcs, Scanning
  <1>10. new.state \notin LiveStates /\ new.state # "pending"
    BY <1>7 DEF LiveStates
  <1> QED
    BY <1>1, <1>2, <1>4, <1>7, <1>8, <1>9, <1>10, RowGoes DEF row, t

(* Releases.                                                               *)
LEMMA ReleasesKeeps == ASSUME AcmeInv, NEW r \in Runners, Releases(r) PROVE AcmeInv'
  <1> DEFINE o == run[r].order
             row == orders[o]
             new == [row EXCEPT !.claimed = FALSE]
  <1>1. /\ run[r].pc = "release" /\ Ends(r) /\ UNCHANGED <<ca, served, faults>> /\ KeepTheRest
        /\ Sets(o, new)
    BY DEF Releases, In
  <1>2. o \in DOMAIN orders /\ row \in OrderRows /\ RowFits(row, Len(ca))
    BY <1>1, InHand DEF Scanning
  <1> HIDE DEF row
  <1>3. new \in OrderRows /\ RowFits(new, Len(ca)) /\ Keeps(row, new) /\ new.state = row.state
    BY <1>2 DEF OrderRows, RowFits, Keeps
  <1> HIDE DEF new
  <1> QED
    BY <1>1, <1>2, <1>3, RowEnds DEF row

(* MarksCleaned: what is marked was placed.                                *)
LEMMA MarksCleanedKeeps == ASSUME AcmeInv, NEW r \in Runners, MarksCleaned(r) PROVE AcmeInv'
  <1> DEFINE o == run[r].order
             row == orders[o]
             new == [row EXCEPT !.cleaned = TRUE]
  <1>1. /\ run[r].pc = "cleaned" /\ Ends(r) /\ UNCHANGED <<ca, served, faults>> /\ KeepTheRest
        /\ Sets(o, new)
    BY DEF MarksCleaned, In
  <1>2. o \in DOMAIN orders /\ row \in OrderRows /\ RowFits(row, Len(ca))
    BY <1>1, InHand DEF Scanning
  <1>3. row.placed
    BY <1>1, RunnerFacts DEF TickFits
  <1> HIDE DEF row
  <1>4. new \in OrderRows /\ RowFits(new, Len(ca)) /\ Keeps(row, new) /\ new.state = row.state
    BY <1>2, <1>3 DEF OrderRows, RowFits, Keeps
  <1> HIDE DEF new
  <1> QED
    BY <1>1, <1>2, <1>4, RowEnds DEF row

(* FailsOrder: given up, or failed and live alone.                         *)
LEMMA FailsOrderKeeps == ASSUME AcmeInv, NEW r \in Runners, FailsOrder(r) PROVE AcmeInv'
  <1> DEFINE o == run[r].order
             row == orders[o]
  <1>1. run[r].pc = "fail" /\ UNCHANGED <<ca, served, faults>> /\ KeepTheRest
    BY DEF FailsOrder, In
  <1>2. run[r].pc \notin Scanning /\ o \in DOMAIN orders /\ row \in OrderRows /\ RowFits(row, Len(ca))
    BY <1>1, InHand DEF Scanning
  <1>3. PICK state \in {"abandoned", "failed"} :
          IF MayBe(o, state)
          THEN /\ Sets(o, [row EXCEPT !.state = state, !.attempts = @ + 1,
                                      !.due = FALSE, !.claimed = FALSE])
               /\ Goes(r, "clean")
          ELSE orders' = orders /\ Ends(r)
    BY DEF FailsOrder
  <1>4. CASE MayBe(o, state)
    <2> DEFINE n == row.attempts + 1
               w0 == [row EXCEPT !.state = state]
               w1 == [w0 EXCEPT !.attempts = n]
               new == [w1 EXCEPT !.due = FALSE, !.claimed = FALSE]
    <2>1. Sets(o, new) /\ Goes(r, "clean")
      BY <1>3, <1>4
    <2>2. state \in LiveStates => \A q \in DOMAIN orders : orders[q].state \in LiveStates => q = o
      BY <1>2, <1>4, MayBeAlone
    <2> HIDE DEF row
    <2>3. /\ w1 \in OrderRows /\ w1.state = state /\ w1.url = row.url
          /\ w1.placed = row.placed /\ w1.cleaned = row.cleaned
      <3>1. n \in Nat
        BY <1>2 DEF OrderRows
      <3>2. /\ w0 \in OrderRows /\ w0.state = state /\ w0.url = row.url
            /\ w0.placed = row.placed /\ w0.cleaned = row.cleaned
        BY <1>2 DEF OrderRows, LiveStates
      <3> HIDE DEF n, w0
      <3> QED
        BY <3>1, <3>2 DEF OrderRows
    <2> HIDE DEF w1
    <2>4. /\ new \in OrderRows /\ new.state = state /\ new.url = row.url
          /\ new.placed = row.placed /\ new.cleaned = row.cleaned /\ new.claimed = FALSE
      BY <2>3 DEF OrderRows
    <2> HIDE DEF new
    <2>5. RowFits(new, Len(ca)) /\ Keeps(row, new)
      BY <1>2, <2>4 DEF RowFits, Keeps
    <2>6. "clean" \in Pcs \ Scanning /\ "clean" \notin WithUrl \cup PastStart
      BY DEF Pcs, Scanning, WithUrl, PastStart
    <2> QED
      BY <1>1, <1>2, <2>1, <2>2, <2>4, <2>5, <2>6, RowGoes DEF row
  <1>5. CASE ~MayBe(o, state)
    BY <1>1, <1>3, <1>5, RunnerFacts, TickEnds
  <1> QED
    BY <1>4, <1>5

(* RemovesChallenge: only what was placed is removed, and then marked.     *)
LEMMA RemovesChallengeKeeps == ASSUME AcmeInv, NEW r \in Runners, RemovesChallenge(r) PROVE AcmeInv'
  <1>1. run[r].pc \in {"clean", "clean_issued"} /\ UNCHANGED <<orders, ca, faults>> /\ KeepTheRest
    BY DEF RemovesChallenge, In
  <1>2. run[r].pc \notin Scanning /\ served' \subseteq Urls
    BY <1>1, RunnerFacts DEF RemovesChallenge, Scanning
  <1>3. CASE Uncleaned(run[r].order)
    <2>1. Goes(r, "cleaned") /\ orders[run[r].order].placed
      BY <1>3 DEF RemovesChallenge, Uncleaned
    <2>2. "cleaned" \in Pcs \ Scanning /\ "cleaned" \notin WithUrl \cup PastStart
      BY DEF Pcs, Scanning, WithUrl, PastStart
    <2> QED
      BY <1>1, <1>2, <2>1, <2>2, RunnerFacts, TickGoes
  <1>4. CASE ~Uncleaned(run[r].order)
    BY <1>1, <1>2, <1>4, TickEnds DEF RemovesChallenge
  <1> QED
    BY <1>3, <1>4

(* Throws, Crashes and Succeeds.                                           *)
LEMMA ThrowsKeeps == ASSUME AcmeInv, NEW r \in Runners, Throws(r) PROVE AcmeInv'
  <1>1. UNCHANGED <<orders, ca, served>> /\ Fault /\ KeepTheRest
    BY DEF Throws, ledger
  <1>2. CASE run[r].pc \in EndsTheTick
    BY <1>1, <1>2, RunnerFacts, TickEnds DEF Throws
  <1>3. CASE run[r].pc \notin EndsTheTick
    <2>1. run' = FailsUnnamed(run, r) /\ run[r].pc \notin Scanning
      BY <1>3 DEF Throws, In, EndsTheTick, Scanning, FailsUnnamed
    <2>2. run' \in [Runners -> Ticking] /\ Others(r, run, run') /\ TickFits(run'[r], orders, Len(ca))
      BY <2>1, FailingUnnamed, RunnerFacts
    <2> QED
      BY <1>1, <2>2, RunnerFacts, TickStep
  <1> QED
    BY <1>2, <1>3
LEMMA CrashesKeeps == ASSUME AcmeInv, NEW r \in Runners, Crashes(r) PROVE AcmeInv'
  BY RunnerFacts, TickEnds DEF Crashes, ledger


LEMMA SucceedsKeeps == ASSUME AcmeInv, NEW r \in Runners, Succeeds(r) PROVE AcmeInv'
  BY DEF Succeeds, ledger, AcmeInv, AcmeTypes, PublishingFits

(* Every step of a process.                                                *)
LEMMA ProcessKeeps ==
  ASSUME AcmeInv, NEW r \in Runners, RunnerSteps(r) \/ Throws(r) \/ Crashes(r) \/ Succeeds(r)
  PROVE  AcmeInv'
  BY TicksKeeps, OpensOrderKeeps, ClaimsDueKeeps, StartsOrderKeeps, RecordsUrlKeeps, PutsChallengeKeeps,
     PlacesChallengeKeeps, MarksPlacedKeeps, AcceptsChallengeKeeps, AdvancesKeeps,
     PollsOrderKeeps, MakesKeyKeeps, FinalizesOrderKeeps, MarksIssuedKeeps, ReleasesKeeps,
     FailsOrderKeeps, RemovesChallengeKeeps, MarksCleanedKeeps, ThrowsKeeps, CrashesKeeps,
     SucceedsKeeps
  DEF RunnerSteps, AdvancesOrder

-----------------------------------------------------------------------------
(* The steps of time, the CA, the publisher, the scan and the operator.    *)

(* A row changes that no step of a process sets.                           *)
LEMMA RowTurns ==
  ASSUME AcmeInv, NEW o \in DOMAIN orders, NEW row \in OrderRows, Sets(o, row),
         RowFits(row, Len(ca)), Keeps(orders[o], row), row.state = orders[o].state,
         Fault \/ UNCHANGED faults, served' \subseteq Urls,
         sweep' \in [order : Nat, token : 0..MaxUrls], sweep' \in {sweep, NoRow},
         UNCHANGED <<leader, cert, old, ca, run, pub, changes>>
  PROVE  AcmeInv'
  <1>1. Len(ca) \in Nat /\ LedgerFits(orders, Len(ca)) /\ run \in [Runners -> Ticking]
    BY DEF AcmeInv, AcmeTypes
  <1>2. row.state \in LiveStates => \A q \in DOMAIN orders : orders[q].state \in LiveStates => q = o
    BY RowFacts
  <1>3. LedgerFits(orders', Len(ca)) /\ Grows(orders, orders')
    <2>1. Len(ca) <= Len(ca) /\ orders' = [orders EXCEPT ![o] = row]
      BY <1>1 DEF Sets
    <2> QED
      BY <1>1, <1>2, <2>1, SetsRow
  <1>4. ASSUME NEW s \in Runners PROVE TickFits(run[s], orders', Len(ca))
    <2>1. run[s] \in Ticking /\ TickFits(run[s], orders, Len(ca))
      BY RunnerFacts
    <2> QED
      BY <1>1, <1>3, <2>1, TickStays
  <1>5. SweepFits(sweep, orders')
    BY <1>3, SweepStays DEF AcmeInv
  <1>6. SweepFits(sweep', orders')
    BY <1>5 DEF SweepFits
  <1>7. faults' \in Nat /\ faults' <= MaxFaults
    BY AcmeAssumption DEF Fault, AcmeInv, AcmeTypes
  <1>8. AcmeTypes'
    BY <1>7 DEF AcmeInv, AcmeTypes
  <1>9. PublishingFits'
    BY DEF AcmeInv, PublishingFits
  <1> QED
    BY <1>3, <1>4, <1>6, <1>8, <1>9 DEF AcmeInv

LEMMA LeaseRunsOutKeeps ==
  ASSUME AcmeInv, NEW o \in DOMAIN orders, LeaseRunsOut(o) PROVE AcmeInv'
  <1> DEFINE row == orders[o]
             new == [row EXCEPT !.claimed = FALSE]
  <1>1. row \in OrderRows /\ RowFits(row, Len(ca)) /\ Sets(o, new) /\ (Fault \/ UNCHANGED faults)
    BY RowFacts DEF LeaseRunsOut
  <1> HIDE DEF row
  <1>2. new \in OrderRows /\ RowFits(new, Len(ca)) /\ Keeps(row, new) /\ new.state = row.state
    BY <1>1 DEF OrderRows, RowFits, Keeps
  <1> HIDE DEF new
  <1>3. served' \subseteq Urls /\ sweep' = sweep /\ sweep \in [order : Nat, token : 0..MaxUrls]
    BY DEF LeaseRunsOut, KeepTheRest, AcmeInv, AcmeTypes
  <1>4. UNCHANGED <<leader, cert, old, ca, run, pub, changes>>
    BY DEF LeaseRunsOut, KeepTheRest
  <1> QED
    BY <1>1, <1>2, <1>3, <1>4, RowTurns DEF row
LEMMA BackoffEndsKeeps ==
  ASSUME AcmeInv, NEW o \in DOMAIN orders, BackoffEnds(o) PROVE AcmeInv'
  <1> DEFINE row == orders[o]
             new == [row EXCEPT !.due = TRUE]
  <1>1. row \in OrderRows /\ RowFits(row, Len(ca)) /\ Sets(o, new) /\ (Fault \/ UNCHANGED faults)
    BY RowFacts DEF BackoffEnds
  <1> HIDE DEF row
  <1>2. new \in OrderRows /\ RowFits(new, Len(ca)) /\ Keeps(row, new) /\ new.state = row.state
    BY <1>1 DEF OrderRows, RowFits, Keeps
  <1> HIDE DEF new
  <1>3. served' \subseteq Urls /\ sweep' = sweep /\ sweep \in [order : Nat, token : 0..MaxUrls]
    BY DEF BackoffEnds, KeepTheRest, AcmeInv, AcmeTypes
  <1>4. UNCHANGED <<leader, cert, old, ca, run, pub, changes>>
    BY DEF BackoffEnds, KeepTheRest
  <1> QED
    BY <1>1, <1>2, <1>3, <1>4, RowTurns DEF row

(* The CA turns an order of its own.                                       *)
LEMMA CaTurns ==
  ASSUME AcmeInv, NEW u \in DOMAIN ca, Validates(u) \/ Expires(u) PROVE AcmeInv'
  <1> DEFINE e == ca[u]
  <1>1. e \in CaOrders
    BY DEF AcmeInv, AcmeTypes
  <1>2. PICK status \in {"ready", "invalid"} : ca' = [ca EXCEPT ![u] = [e EXCEPT !.status = status]]
    BY DEF Validates, Expires
  <1> HIDE DEF e
  <1>3. [e EXCEPT !.status = status] \in CaOrders
    BY <1>1 DEF CaOrders
  <1>4. ca' \in Seq(CaOrders) /\ Len(ca') = Len(ca)
    BY <1>2, <1>3, CaChanges
  <1>5. /\ UNCHANGED <<leader, cert, old, orders, served, run, pub, sweep, changes>>
        /\ Fault \/ UNCHANGED faults
    BY DEF Validates, Expires, KeepTheRest
  <1>6. faults' \in Nat /\ faults' <= MaxFaults
    BY <1>5, AcmeAssumption DEF Fault, AcmeInv, AcmeTypes
  <1>7. AcmeTypes' /\ PublishingFits'
    BY <1>4, <1>5, <1>6 DEF AcmeInv, AcmeTypes, PublishingFits
  <1> QED
    BY <1>4, <1>5, <1>7 DEF AcmeInv

(* A step of the publisher or the operator: the ledger, the runners and    *)
(* the scan stay.                                                          *)
LEMMA HeadSteps ==
  ASSUME AcmeInv, UNCHANGED <<leader, ledger, run, sweep>>,
         cert' \in [material : 0..MaxUrls, intent : Intents], old' \subseteq Urls,
         PublishingFits', Fault \/ UNCHANGED faults, changes' \in Nat
  PROVE  AcmeInv'
  <1>1. faults' \in Nat /\ faults' <= MaxFaults
    BY AcmeAssumption DEF Fault, AcmeInv, AcmeTypes
  <1> QED
    BY <1>1 DEF AcmeInv, AcmeTypes, ledger


(* Every set of natural numbers has a least one, and so there is a newest  *)
(* of any orders.                                                          *)
LEMMA LeastNumber ==
  ASSUME NEW T \in SUBSET Nat, T # {}
  PROVE  \E x \in T : \A y \in T : x <= y
  <1>1. PICK x \in T : \A y \in T : ~(<<y, x>> \in OpToRel(<, Nat))
    BY NatLessThanWellFounded, WFMin
  <1>2. \A y \in T : ~(y < x)
    BY <1>1 DEF OpToRel
  <1> QED
    BY <1>2
LEMMA Newest ==
  ASSUME NEW n \in Nat, NEW S \in SUBSET (1..n), S # {}
  PROVE  \E x \in S : \A y \in S : y <= x
  <1> DEFINE T == {k \in Nat : \E x \in S : k + x = n}
  <1>1. T \in SUBSET Nat /\ T # {}
    <2>1. PICK x \in S : TRUE
      OBVIOUS
    <2>2. n - x \in Nat /\ (n - x) + x = n
      OBVIOUS
    <2> QED
      BY <2>1, <2>2
  <1> HIDE DEF T
  <1>2. PICK t \in T : \A u \in T : t <= u
    BY <1>1, LeastNumber
  <1>3. PICK x \in S : t + x = n
    BY DEF T
  <1>4. ASSUME NEW y \in S PROVE y <= x
    <2>1. n - y \in T
      BY DEF T
    <2>2. t <= n - y /\ t \in Nat
      BY <1>1, <1>2, <2>1
    <2> QED
      BY <1>3, <2>2
  <1> QED
    BY <1>4

(* What is in hand of the publisher: a material the CA gave.               *)
LEMMA PublisherKeeps ==
  ASSUME AcmeInv, NEW p \in Publishers, PublisherSteps(p) \/ PublishFails(p)
  PROVE  AcmeInv'
  <1> DEFINE c == pub[p]
  <1>1. /\ pub \in [Publishers -> PublishTicks] /\ c \in PublishTicks
        /\ c.pc = "commit" => c.intent # None
        /\ cert \in [material : 0..MaxUrls, intent : Intents] /\ old \subseteq Urls
        /\ changes \in Nat /\ \A q \in Publishers : pub[q].pc = "commit" => pub[q].intent # None
    BY DEF AcmeInv, PublishingFits, AcmeTypes
  <1>2. NoPublish \in PublishTicks /\ NoPublish.pc # "commit"
    BY Bounds DEF NoPublish, PublishTicks
  (* A tick takes up new, or leaves off.                                   *)
  <1>3. ASSUME NEW new \in PublishTicks, Publishing(p, new),
               new.pc = "commit" => new.intent # None,
               UNCHANGED <<leader, cert, old, ledger, run, sweep, changes>>,
               Fault \/ UNCHANGED faults
        PROVE  AcmeInv'
    <2>1. pub' = [pub EXCEPT ![p] = new]
      BY <1>3 DEF Publishing
    <2>2. PublishingFits'
      BY <1>1, <1>3, <2>1 DEF PublishingFits
    <2> QED
      BY <1>1, <1>3, <2>2, HeadSteps
  <1>4. CASE FindsUnpublished(p)
    <2>1. PICK ref \in Unpublished : Publishing(p, [NoPublish EXCEPT !.pc = "head", !.ref = ref])
      BY <1>4, Zenon DEF FindsUnpublished
    <2>2. ref \in 0..MaxUrls
      <3>1. ref = LatestRef /\ IssuedOrders # {}
        BY <2>1 DEF Unpublished, LatestRef
      <3>2. LastIssued \in IssuedOrders
        <4>1. IssuedOrders \subseteq 1..Len(orders) /\ Len(orders) \in Nat
          BY DEF IssuedOrders, AcmeInv, LedgerFits
        <4>2. \E o \in IssuedOrders : \A q \in IssuedOrders : q <= o
          BY <3>1, <4>1, Newest
        <4> QED
          BY <4>2 DEF LastIssued
      <3>3. orders[LastIssued] \in OrderRows
        BY <3>2, RowFacts DEF IssuedOrders
      <3> QED
        BY <3>1, <3>3 DEF LatestRef, OrderRows
    <2> DEFINE new == [NoPublish EXCEPT !.pc = "head", !.ref = ref]
    <2>3. new \in PublishTicks /\ new.pc # "commit"
      BY <1>2, <2>2 DEF PublishTicks
    <2> HIDE DEF new
    <2>4. Publishing(p, new)
      BY <2>1 DEF new
    <2> QED
      BY <1>3, <1>4, <2>3, <2>4 DEF FindsUnpublished
  <1>5. CASE ReadsHead(p)
    <2> DEFINE w == [c EXCEPT !.pc = "commit", !.intent = cert.intent]
               new == [w EXCEPT !.current = TRUE]
    <2>1. Publishing(p, new) /\ UNCHANGED <<leader, cert, old, ledger, run, sweep, faults, changes>>
      BY <1>5 DEF ReadsHead
    <2>2. cert.intent \in Intents /\ cert.intent # None
      BY <1>1, Bounds
    <2> HIDE DEF c
    <2>3. w \in PublishTicks /\ w.intent = cert.intent
      BY <1>1, <2>2 DEF PublishTicks
    <2> HIDE DEF w
    <2>4. new \in PublishTicks /\ new.intent = cert.intent
      BY <2>3 DEF PublishTicks
    <2> HIDE DEF new
    <2> QED
      BY <1>3, <2>1, <2>2, <2>4
  <1>6. CASE Commits(p)
    <2>1. CASE c.current
      <3>1. /\ cert' = [material |-> c.ref, intent |-> c.intent] /\ c.pc = "commit"
            /\ pub' = [q \in Publishers |-> IF q = p THEN NoPublish
                                            ELSE [pub[q] EXCEPT !.current = FALSE]]
            /\ UNCHANGED <<leader, old, ledger, run, sweep, faults, changes>>
        BY <1>6, <2>1 DEF Commits
      <3>2. cert' \in [material : 0..MaxUrls, intent : Intents]
        BY <1>1, <3>1 DEF PublishTicks
      <3>3. ASSUME NEW q \in Publishers
            PROVE pub'[q] \in PublishTicks /\ (pub'[q].pc = "commit" => pub'[q].intent # None)
        <4>1. CASE q = p
          BY <1>2, <3>1, <4>1
        <4>2. CASE q # p
          BY <1>1, <3>1, <4>2 DEF PublishTicks
        <4> QED
          BY <4>1, <4>2
      <3>4. PublishingFits'
        BY <3>1, <3>3 DEF PublishingFits
      <3> QED
        BY <1>1, <3>1, <3>2, <3>4, HeadSteps
    <2>2. CASE ~c.current
      BY <1>2, <1>3, <1>6, <2>2 DEF Commits
    <2> QED
      BY <2>1, <2>2
  <1>7. CASE PublishFails(p)
    BY <1>2, <1>3, <1>7 DEF PublishFails
  <1> QED
    BY <1>4, <1>5, <1>6, <1>7 DEF PublisherSteps

(* The operator's changes.                                                 *)
LEMMA ChangesKeep == ASSUME AcmeInv, AsksForOther \/ Ages \/ RollsBack PROVE AcmeInv'
  <1>1. /\ pub \in [Publishers -> PublishTicks] /\ changes \in Nat
        /\ cert \in [material : 0..MaxUrls, intent : Intents] /\ old \subseteq Urls
        /\ ca \in Seq(CaOrders) /\ Len(ca) <= MaxUrls /\ PublishingFits
        /\ \A q \in Publishers : pub[q].pc = "commit" => pub[q].intent # None
    BY DEF AcmeInv, PublishingFits, AcmeTypes
  <1>2. UNCHANGED <<leader, ledger, run, sweep, faults>> /\ changes' \in Nat
    BY <1>1 DEF AsksForOther, Ages, RollsBack, Change
  <1>3. ASSUME NEW c \in [material : 0..MaxUrls, intent : Intents], HeadMoves(c), UNCHANGED old
        PROVE  AcmeInv'
    <2>1. cert' = c /\ pub' = [p \in Publishers |-> [pub[p] EXCEPT !.current = FALSE]]
      BY <1>3 DEF HeadMoves
    <2>2. ASSUME NEW q \in Publishers
          PROVE pub'[q] \in PublishTicks /\ (pub'[q].pc = "commit" => pub'[q].intent # None)
      <3> DEFINE d == pub[q]
      <3>1. pub'[q] = [d EXCEPT !.current = FALSE]
        BY <2>1
      <3>2. d \in PublishTicks /\ (d.pc = "commit" => d.intent # None)
        BY <1>1
      <3> HIDE DEF d
      <3> QED
        BY <3>1, <3>2 DEF PublishTicks
    <2>3. PublishingFits'
      BY <2>1, <2>2 DEF PublishingFits
    <2> QED
      BY <1>1, <1>2, <1>3, <2>1, <2>3, HeadSteps
  <1>4. CASE AsksForOther
    BY <1>1, <1>3, <1>4 DEF AsksForOther
  <1>5. CASE Ages
    <2>1. cert.material \in 0..MaxUrls /\ cert.material # 0
      BY <1>1, <1>5 DEF Ages
    <2>2. old' \subseteq Urls
      <3>1. cert.material \in Urls
        BY <2>1, Bounds DEF Urls
      <3> QED
        BY <1>1, <1>5, <3>1 DEF Ages
    <2>3. UNCHANGED <<cert, pub>>
      BY <1>5 DEF Ages
    <2>4. PublishingFits'
      BY <1>1, <2>3 DEF PublishingFits
    <2> QED
      BY <1>1, <1>2, <2>2, <2>3, <2>4, HeadSteps
  <1>6. CASE RollsBack
    <2>1. PICK u \in DOMAIN ca : HeadMoves([material |-> u, intent |-> ca[u].intent])
      BY <1>6 DEF RollsBack
    <2>2. u \in 0..MaxUrls /\ ca[u] \in CaOrders
      BY <1>1, Bounds
    <2>3. [material |-> u, intent |-> ca[u].intent] \in [material : 0..MaxUrls, intent : Intents]
      BY <2>2 DEF CaOrders
    <2> QED
      BY <1>3, <1>6, <2>1, <2>3 DEF RollsBack
  <1> QED
    BY <1>4, <1>5, <1>6

(* The orphan scan: only what was placed is in its hand.                   *)
LEMMA SweepKeeps == ASSUME AcmeInv, FindsOrphan \/ SweepsOrphan PROVE AcmeInv'
  <1>1. /\ sweep \in [order : Nat, token : 0..MaxUrls] /\ SweepFits(sweep, orders)
        /\ served \subseteq Urls
    BY DEF AcmeInv, AcmeTypes
  <1>2. NoRow \in [order : Nat, token : 0..MaxUrls]
    BY Bounds DEF NoRow
  <1>3. CASE FindsOrphan
    <2>1. PICK o \in DOMAIN orders : /\ Uncleaned(o) /\ (Fault \/ UNCHANGED faults)
                                     /\ sweep' = [order |-> o, token |-> orders[o].token]
      BY <1>3 DEF FindsOrphan
    <2>2. orders[o] \in OrderRows /\ o \in Nat
      BY RowFacts
    <2>3. sweep' \in [order : Nat, token : 0..MaxUrls] /\ SweepFits(sweep', orders)
      BY <2>1, <2>2 DEF SweepFits, Uncleaned, OrderRows
    <2>4. faults' \in Nat /\ faults' <= MaxFaults
      BY <2>1, AcmeAssumption DEF Fault, AcmeInv, AcmeTypes
    <2> QED
      BY <1>3, <2>3, <2>4 DEF FindsOrphan, AcmeInv, AcmeTypes, PublishingFits, ledger
  <1>4. CASE SweepsOrphan
    <2> DEFINE o == sweep.order
               row == orders[o]
               new == [row EXCEPT !.cleaned = TRUE]
    <2>1. /\ o \in DOMAIN orders /\ row.placed /\ sweep' = NoRow /\ served' \subseteq Urls
          /\ UNCHANGED <<leader, cert, old, ca, run, pub, changes>>
          /\ Fault \/ UNCHANGED faults
      BY <1>1, <1>4 DEF SweepsOrphan, SweepFits
    <2>2. row \in OrderRows /\ RowFits(row, Len(ca))
      BY <2>1, RowFacts
    <2>3. \/ Sets(o, new)
          \/ Sets(o, row)
      <3>1. orders = [orders EXCEPT ![o] = row]
        BY RunnerFacts DEF AcmeInv, LedgerFits
      <3> QED
        BY <1>4, <3>1 DEF SweepsOrphan, Sets
    <2> HIDE DEF row
    <2>4. new \in OrderRows /\ RowFits(new, Len(ca)) /\ Keeps(row, new) /\ new.state = row.state
      BY <2>1, <2>2 DEF OrderRows, RowFits, Keeps
    <2>5. Keeps(row, row)
      BY DEF Keeps
    <2> HIDE DEF new
    <2> QED
      BY <1>2, <2>1, <2>2, <2>3, <2>4, <2>5, RowTurns DEF row
  <1> QED
    BY <1>3, <1>4

(* Initially nothing is ordered.                                           *)
LEMMA AcmeInvInit == ASSUME AcmeInit PROVE AcmeInv
  <1>1. /\ orders = <<>> /\ ca = <<>> /\ served = {} /\ old = {} /\ sweep = NoRow
        /\ run = [r \in Runners |-> NoTick] /\ pub = [p \in Publishers |-> NoPublish]
        /\ faults = MaxFaults /\ changes = MaxChanges
    BY DEF AcmeInit
  <1>2. orders \in Seq(OrderRows) /\ ca \in Seq(CaOrders) /\ Len(ca) = 0 /\ DOMAIN orders = {}
    BY <1>1
  <1>3. LedgerFits(orders, Len(ca))
    BY <1>2 DEF LedgerFits, OneLive
  <1>4. NoTick \in Ticking /\ TickFits(NoTick, orders, Len(ca))
    BY <1>2, Bounds DEF NoTick, Ticking, TickFits, Scanning, WithUrl, PastStart, Pcs
  <1>5. AcmeTypes
    BY <1>1, <1>2, <1>4, Bounds, AcmeAssumption DEF AcmeTypes, AcmeInit
  <1>6. PublishingFits
    BY <1>1, Bounds DEF PublishingFits, NoPublish, PublishTicks
  <1>7. sweep \in [order : Nat, token : 0..MaxUrls] /\ SweepFits(sweep, orders)
    BY <1>1, Bounds DEF NoRow, SweepFits
  <1> QED
    BY <1>1, <1>3, <1>4, <1>5, <1>6, <1>7 DEF AcmeInv

(* AcmeInv is inductive.                                                   *)
LEMMA AcmeInvStep == ASSUME AcmeInv, [AcmeNext]_acmeVars PROVE AcmeInv'
  <1>1. CASE AcmeNext
    BY <1>1, ProcessKeeps, LeaseRunsOutKeeps, BackoffEndsKeeps, CaTurns, PublisherKeeps,
       SweepKeeps, ChangesKeep DEF AcmeNext
  <1>2. CASE UNCHANGED acmeVars
    BY <1>2 DEF acmeVars, AcmeInv, AcmeTypes, PublishingFits
  <1> QED
    BY <1>1, <1>2
LEMMA AcmeInvAlways == AcmeSpec => []AcmeInv
  BY AcmeInvInit, AcmeInvStep, PTL DEF AcmeSpec

(* Every variable keeps its type and the ledger its constraints: whatever  *)
(* drivers that overlap, late answers, faults and crashes leave of a row,  *)
(* one order is live at most, only a live one is claimed, one is issued    *)
(* with a material and its key, and nothing is cleaned that was not placed *)
(* (acme-runner.ts, acme-store.ts, the constraints of 009_acme.sql).       *)
THEOREM AcmeTypeCorrect == AcmeSpec => []AcmeTypeOK
  <1>1. AcmeInv => AcmeTypeOK
    <2> SUFFICES ASSUME AcmeInv PROVE AcmeTypeOK
      OBVIOUS
    <2>1. ASSUME NEW o \in DOMAIN orders
          PROVE /\ Live \subseteq {o} \/ o \notin Live
                /\ orders[o].claimed => o \in Live
                /\ orders[o].state = "issued" => orders[o].issued # 0 /\ orders[o].key # None
                /\ orders[o].cleaned => orders[o].placed
      BY RowFacts DEF Live, RowFits
    <2> QED
      BY <2>1 DEF AcmeInv, AcmeTypes, LedgerFits, AcmeTypeOK
  <1> QED
    BY <1>1, AcmeInvAlways, PTL

-----------------------------------------------------------------------------
(* The account.                                                            *)
LEMMA Ones == One(TRUE) = 1 /\ One(FALSE) = 0 /\ \A b \in BOOLEAN : One(b) \in {0, 1}
  BY DEF One

(* When one tick moves, it is the only one that may begin or cease to ask. *)
LEMMA AskingAfter ==
  ASSUME NEW rs, NEW qs, NEW r \in Runners, Others(r, rs, qs), IsFiniteSet(Asking(rs))
  PROVE  /\ IsFiniteSet(Asking(qs))
         /\ Cardinality(Asking(rs)) \in Nat /\ Cardinality(Asking(qs)) \in Nat
         /\ Cardinality(Asking(qs)) + One(Asks(rs[r])) = Cardinality(Asking(rs)) + One(Asks(qs[r]))
  <1> DEFINE B == Asking(rs) \ {r}
  <1>1. /\ IsFiniteSet(B) /\ Cardinality(Asking(rs)) \in Nat /\ Cardinality(B) \in Nat
        /\ Cardinality(B) = Cardinality(Asking(rs)) - One(r \in Asking(rs))
    BY FS_RemoveElement, FS_CardinalityType DEF One
  <1>2. r \in Asking(rs) <=> Asks(rs[r])
    BY DEF Asking
  <1>3. Asking(qs) = IF Asks(qs[r]) THEN B \cup {r} ELSE B
    BY DEF Asking, Others
  <1>4. r \notin B
    OBVIOUS
  <1> HIDE DEF B
  <1>5. /\ IsFiniteSet(Asking(qs)) /\ Cardinality(Asking(qs)) \in Nat
        /\ Cardinality(Asking(qs)) = Cardinality(B) + One(Asks(qs[r]))
    <2>1. CASE Asks(qs[r])
      BY <1>1, <1>3, <1>4, <2>1, FS_AddElement, FS_CardinalityType DEF One
    <2>2. CASE ~Asks(qs[r])
      BY <1>1, <1>3, <2>2 DEF One
    <2> QED
      BY <2>1, <2>2
  <1> QED
    BY <1>1, <1>2, <1>5 DEF One

(* It leaves the rows of other orders as they count.                       *)
LEMMA RestartElsewhere ==
  ASSUME NEW r \in Runners, NEW rs, NEW qs, Others(r, rs, qs), NEW os, NEW ps,
         NEW q, ps[q] = os[q], rs[r].order # q, qs[r].order # q
  PROVE  Restarts(q, ps, qs) <=> Restarts(q, os, rs)
  <1>1. DrivenBy(q, qs) <=> DrivenBy(q, rs)
    BY DEF DrivenBy, Others
  <1> QED
    BY <1>1 DEF Restarts

(* The arithmetic of it.                                                   *)
LEMMA Sums ==
  ASSUME NEW n \in Nat, NEW m \in Nat, NEW f \in Nat, NEW g \in Nat, NEW a \in Nat, NEW b \in Nat,
         NEW x \in Nat, NEW y \in Nat, NEW u \in Nat, NEW v \in Nat, NEW k \in Nat,
         NEW len \in Nat, NEW max \in Nat,
         n + a + u <= len + (max - f), b + x = a + y, v <= u + k, m + y + k + g <= n + x + f
  PROVE  m + b + v <= len + (max - g)
  OBVIOUS

(* What a step of process r does to the row of its order, o, and what it   *)
(* is to pay for it, k.                                                    *)
Moves(r, o, os, rs, ps, qs, k) ==
  /\ Others(r, rs, qs) /\ DOMAIN ps = DOMAIN os /\ Len(ps) = Len(os) /\ Len(os) \in Nat
  /\ \A q \in DOMAIN os \ {o} : ps[q] = os[q] /\ rs[r].order # q /\ qs[r].order # q
  /\ o \in DOMAIN os /\ Restarts(o, ps, qs) /\ ~Restarts(o, os, rs) => k = 1

(* So a step of a process balances its account when it pays.               *)
LEMMA Balance ==
  ASSUME NEW r \in Runners, NEW o, NEW os, NEW rs, NEW ps, NEW qs, NEW k \in {0, 1},
         Moves(r, o, os, rs, ps, qs, k),
         NEW n \in Nat, NEW m \in Nat, NEW f \in Nat, NEW g \in Nat, Account(os, n, rs, f),
         m + One(Asks(qs[r])) + k + g <= n + One(Asks(rs[r])) + f
  PROVE  Account(ps, m, qs, g)
  <1>0. /\ Others(r, rs, qs) /\ DOMAIN ps = DOMAIN os /\ Len(ps) = Len(os) /\ Len(os) \in Nat
        /\ \A q \in DOMAIN os \ {o} : ps[q] = os[q] /\ rs[r].order # q /\ qs[r].order # q
        /\ o \in DOMAIN os /\ Restarts(o, ps, qs) /\ ~Restarts(o, os, rs) => k = 1
    BY DEF Moves
  <1>1. /\ IsFiniteSet(Asking(qs))
        /\ Cardinality(Asking(rs)) \in Nat /\ Cardinality(Asking(qs)) \in Nat
        /\ Cardinality(Asking(qs)) + One(Asks(rs[r])) = Cardinality(Asking(rs)) + One(Asks(qs[r]))
    BY <1>0, AskingAfter DEF Account
  <1>2. Restart(ps, qs) => Restart(os, rs) \/ k = 1
    <2> SUFFICES ASSUME NEW q \in DOMAIN os, Restarts(q, ps, qs) PROVE Restart(os, rs) \/ k = 1
      BY <1>0 DEF Restart
    <2>1. CASE q = o
      BY <1>0, <2>1 DEF Restart
    <2>2. CASE q # o
      <3>1. ps[q] = os[q] /\ rs[r].order # q /\ qs[r].order # q
        BY <1>0, <2>2
      <3>2. Restarts(q, os, rs)
        BY <1>0, <3>1, RestartElsewhere
      <3> QED
        BY <3>2 DEF Restart
    <2> QED
      BY <2>1, <2>2
  <1>3. One(Restart(ps, qs)) <= One(Restart(os, rs)) + k /\ One(Restart(ps, qs)) \in Nat
    BY <1>2 DEF One
  <1>4. n + Cardinality(Asking(rs)) + One(Restart(os, rs)) <= Len(os) + (MaxFaults - f)
    BY DEF Account
  <1>5. /\ One(Asks(rs[r])) \in Nat /\ One(Asks(qs[r])) \in Nat /\ One(Restart(os, rs)) \in Nat
        /\ MaxFaults \in Nat
    BY AcmeAssumption DEF One
  <1> DEFINE a == Cardinality(Asking(rs))
             b == Cardinality(Asking(qs))
             x == One(Asks(rs[r]))
             y == One(Asks(qs[r]))
             u == One(Restart(os, rs))
             v == One(Restart(ps, qs))
  <1>6. a \in Nat /\ b \in Nat /\ x \in Nat /\ y \in Nat /\ u \in Nat /\ v \in Nat /\ k \in Nat
    BY <1>1, <1>3, <1>5
  <1>7. b + x = a + y /\ v <= u + k /\ m + y + k + g <= n + x + f
    BY <1>1, <1>3
  <1>8. n + a + u <= Len(os) + (MaxFaults - f)
    BY <1>4
  <1> HIDE DEF a, b, x, y, u, v
  <1>9. m + b + v <= Len(os) + (MaxFaults - g)
    BY <1>0, <1>5, <1>6, <1>7, <1>8, Sums
  <1> QED
    BY <1>0, <1>1, <1>9 DEF Account, a, b, x, y, u, v

(* A step of a tick that has an order in hand.  Nothing is to be paid (k)  *)
(* when the order's row would not lead to the CA again, or counted before: *)
(* as it was unclaimed already, or no other drove it.                      *)
LEMMA RunnerPays ==
  ASSUME AcmeInv, AcmeInv', AcmeAccount, NEW r \in Runners, Others(r, run, run'),
         run[r].pc \notin Scanning, NEW o, o = run[r].order, run'[r].order \in {0, o},
         DOMAIN orders' = DOMAIN orders, \A q \in DOMAIN orders \ {o} : orders'[q] = orders[q],
         NEW k \in {0, 1},
         \/ k = 1
         \/ ~Again(orders'[o])
         \/ /\ Again(orders[o]) /\ orders'[o].claimed = orders[o].claimed
            /\ \/ run'[r].order = o /\ run'[r].pc \notin {"clean", "cleaned"}
               \/ run[r].pc \in {"clean", "cleaned"},
         Len(ca') + One(Asks(run'[r])) + k + faults' <= Len(ca) + One(Asks(run[r])) + faults
  PROVE  AcmeAccount'
  <1>1. /\ orders \in Seq(OrderRows) /\ orders' \in Seq(OrderRows)
        /\ ca \in Seq(CaOrders) /\ ca' \in Seq(CaOrders) /\ faults \in Nat /\ faults' \in Nat
    BY DEF AcmeInv, AcmeTypes, LedgerFits
  <1>2. Len(orders') = Len(orders) /\ Len(orders) \in Nat /\ Len(ca) \in Nat /\ Len(ca') \in Nat
    BY <1>1
  <1>3. \A q \in DOMAIN orders \ {o} : run[r].order # q /\ run'[r].order # q
    BY RowFacts
  <1>4. ASSUME Restarts(o, orders', run'), ~Restarts(o, orders, run) PROVE k = 1
    <2>1. CASE Again(orders[o]) /\ orders'[o].claimed = orders[o].claimed
      <3>1. DrivenBy(o, run) /\ ~DrivenBy(o, run')
        BY <1>4, <2>1 DEF Restarts
      <3>2. PICK s \in Runners : run[s].order = o /\ run[s].pc \notin {"clean", "cleaned"}
        BY <3>1 DEF DrivenBy
      <3>3. s = r
        BY <3>1, <3>2 DEF DrivenBy, Others
      <3>4. ~(run'[r].order = o /\ run'[r].pc \notin {"clean", "cleaned"})
        BY <3>1 DEF DrivenBy
      <3> QED
        BY <1>4, <3>2, <3>3, <3>4 DEF Restarts
    <2> QED
      BY <1>4, <2>1 DEF Restarts
  <1>5. Account(orders, Len(ca), run, faults)
    BY DEF AcmeAccount
  <1>6. o \in DOMAIN orders /\ Restarts(o, orders', run') /\ ~Restarts(o, orders, run) => k = 1
    BY <1>4
  <1>7. Moves(r, o, orders, run, orders', run', k)
    BY <1>2, <1>3, <1>6 DEF Moves
  <1>8. Account(orders', Len(ca'), run', faults')
    BY <1>1, <1>2, <1>5, <1>7, Balance
  <1> QED
    BY <1>8 DEF AcmeAccount

(* What a row that is set leaves of the others.                            *)
LEMMA OneRowSet ==
  ASSUME AcmeInv, NEW o \in DOMAIN orders, NEW row, Sets(o, row)
  PROVE  /\ DOMAIN orders' = DOMAIN orders /\ orders'[o] = row
         /\ \A q \in DOMAIN orders \ {o} : orders'[q] = orders[q]
  BY DEF Sets, AcmeInv, LedgerFits

(* The steps that only move the tick, or the CA's order.                   *)
LEMMA MovePays ==
  ASSUME AcmeInv, AcmeInv', AcmeAccount, NEW r \in Runners, NEW pc \in Pcs, Goes(r, pc),
         run[r].pc \notin Scanning \cup {"clean", "cleaned"}, pc \notin {"clean", "cleaned"},
         UNCHANGED orders, Len(ca') = Len(ca), Fault \/ UNCHANGED faults,
         Asks(run'[r]) => Asks(run[r])
  PROVE  AcmeAccount'
  <1>1. /\ Others(r, run, run') /\ run'[r].pc = pc /\ run'[r].order = run[r].order
    BY RunnerGoes
  <1>2. Len(ca) \in Nat /\ faults \in Nat /\ faults' <= faults /\ faults' \in Nat
    BY RunnerFacts DEF Fault
  <1>3. Len(ca') + One(Asks(run'[r])) + 0 + faults' <= Len(ca) + One(Asks(run[r])) + faults
    BY <1>2 DEF One
  <1>4. \/ ~Again(orders'[run[r].order])
        \/ Again(orders[run[r].order]) /\ orders'[run[r].order].claimed = orders[run[r].order].claimed
    OBVIOUS
  <1> QED
    BY <1>1, <1>3, <1>4, RunnerPays

(* A tick asks at "start" only, or when it fails before it has a URL.      *)
LEMMA AsksNot ==
  ASSUME NEW t, t.pc # "start", t.pc = "fail" => t.url # 0
  PROVE  ~Asks(t)
  BY DEF Asks

LEMMA CallsPay ==
  ASSUME AcmeInv, AcmeInv', AcmeAccount, NEW r \in Runners,
         PlacesChallenge(r) \/ AcceptsChallenge(r) \/ PollsOrder(r) \/ FinalizesOrder(r)
  PROVE  AcmeAccount'
  <1>1. run[r].pc \in {"place", "accept", "poll", "finalize"} /\ UNCHANGED orders
    BY DEF PlacesChallenge, AcceptsChallenge, PollsOrder, FinalizesOrder, In, ledger
  <1>2. run[r].url # 0 /\ run[r].url \in 0..Len(ca)
    BY <1>1, RunnerFacts DEF TickFits, WithUrl, Pcs, Scanning
  <1>3. Len(ca') = Len(ca)
    BY RunnerFacts DEF PlacesChallenge, AcceptsChallenge, PollsOrder, FinalizesOrder, ledger
  <1>4. PICK pc \in {"mark", "validating", "ready", "release", "issue", "fail"} :
          Goes(r, pc) /\ (Fault \/ UNCHANGED faults)
    <2>1. CASE PollsOrder(r)
      <3>1. ca[run[r].url] \in CaOrders
        BY <1>2, RunnerFacts
      <3> QED
        BY <2>1, <3>1 DEF PollsOrder, CaOrders
    <2>2. CASE PlacesChallenge(r) \/ AcceptsChallenge(r) \/ FinalizesOrder(r)
      BY <2>2 DEF PlacesChallenge, AcceptsChallenge, FinalizesOrder, Answered
    <2> QED
      BY <2>1, <2>2
  <1>5. pc \in Pcs /\ pc \notin {"clean", "cleaned", "start"}
    BY <1>4 DEF Pcs
  <1>6. ~Asks(run'[r])
    BY <1>2, <1>4, <1>5, RunnerGoes, AsksNot
  <1> QED
    BY <1>1, <1>3, <1>4, <1>5, <1>6, MovePays DEF Scanning

(* Ticks: it has no order yet, and asks for none.                          *)
LEMMA IdlePays ==
  ASSUME AcmeInv, AcmeInv', AcmeAccount, NEW r \in Runners, Others(r, run, run'),
         run[r].pc \in Scanning, run'[r].pc \in Scanning, UNCHANGED orders,
         Len(ca') = Len(ca), Fault \/ UNCHANGED faults
  PROVE  AcmeAccount'
  <1>1. /\ run[r].order = 0 /\ run'[r].order = 0 /\ ~Asks(run[r]) /\ ~Asks(run'[r])
    BY RunnerFacts DEF AcmeInv, TickFits, Asks, Scanning
  <1>2. /\ orders \in Seq(OrderRows) /\ Len(orders) \in Nat /\ Len(ca) \in Nat
        /\ faults \in Nat /\ faults' \in Nat /\ faults' <= faults
    BY RunnerFacts DEF Fault
  <1>3. \A q \in DOMAIN orders \ {0} : run[r].order # q /\ run'[r].order # q
    BY <1>1
  <1>4. 0 \notin DOMAIN orders /\ DOMAIN orders' = DOMAIN orders /\ Len(orders') = Len(orders)
    BY <1>2
  <1>5. Len(ca') + One(Asks(run'[r])) + 0 + faults' <= Len(ca) + One(Asks(run[r])) + faults
    BY <1>1, <1>2 DEF One
  <1>6. Account(orders, Len(ca), run, faults) /\ Len(ca') \in Nat
    BY <1>2 DEF AcmeAccount
  <1>7. Moves(r, 0, orders, run, orders', run', 0)
    BY <1>2, <1>3, <1>4 DEF Moves
  <1>8. Account(orders', Len(ca'), run', faults')
    BY <1>2, <1>5, <1>6, <1>7, Balance
  <1> QED
    BY <1>8 DEF AcmeAccount

LEMMA TicksPay == ASSUME AcmeInv, AcmeInv', AcmeAccount, NEW r \in Runners, Ticks(r) PROVE AcmeAccount'
  <1>1. run[r].pc = "idle" /\ UNCHANGED <<orders, ca, faults>>
    BY DEF Ticks, In, ledger
  <1>2. PICK pc \in {"open", "claim"} :
          run' = [run EXCEPT ![r].pc = pc, ![r].intent = cert.intent]
    BY DEF Ticks
  <1>3. run \in [Runners -> Ticking]
    BY RunnerFacts
  <1> DEFINE t == run[r]
             u == [t EXCEPT !.pc = pc, !.intent = cert.intent]
  <1>4. run' = [run EXCEPT ![r] = u] /\ t \in Ticking
    BY <1>2, <1>3
  <1>5. u.pc = pc
    BY <1>4 DEF Ticking
  <1> HIDE DEF u
  <1>6. Others(r, run, run') /\ run'[r].pc = pc
    BY <1>3, <1>4, <1>5 DEF Others
  <1> QED
    BY <1>1, <1>2, <1>6, IdlePays DEF Scanning

(* OpensOrder: a new row may lead to the CA, and pays for it.              *)
LEMMA OpensOrderPays ==
  ASSUME AcmeInv, AcmeInv', AcmeAccount, NEW r \in Runners, OpensOrder(r) PROVE AcmeAccount'
  <1> DEFINE new == NewOrder(run[r].intent)
  <1>1. run[r].pc = "open" /\ Goes(r, "claim") /\ UNCHANGED <<ca, faults>>
    BY DEF OpensOrder, In
  <1>2. Others(r, run, run') /\ run'[r].pc = "claim"
    BY <1>1, RunnerGoes DEF Pcs
  <1>3. CASE orders' = orders
    BY <1>1, <1>2, <1>3, IdlePays DEF Scanning
  <1>4. CASE orders' = Append(orders, new)
    <2>1. IsFiniteSet(Asking(run)) /\ Len(ca) + Cardinality(Asking(run)) + One(Restart(orders, run))
            <= Len(orders) + (MaxFaults - faults)
      BY DEF AcmeAccount, Account
    <2>2. ~Asks(run[r]) /\ ~Asks(run'[r])
      BY <1>1, <1>2 DEF Asks
    <2>3. Asking(run') = Asking(run)
      BY <1>2, <2>2 DEF Asking, Others
    <2>4. orders \in Seq(OrderRows) /\ Len(orders) \in Nat /\ Len(orders') = Len(orders) + 1
      <3> HIDE DEF new
      <3> QED
        BY <1>4, RunnerFacts
    <2>5. Cardinality(Asking(run)) \in Nat /\ Len(ca) \in Nat /\ faults \in Nat /\ MaxFaults \in Nat
      BY <2>1, FS_CardinalityType, RunnerFacts, AcmeAssumption
    <2>6. One(Restart(orders', run')) \in {0, 1} /\ One(Restart(orders, run)) \in {0, 1}
      BY DEF One
    <2> DEFINE a == Cardinality(Asking(run))
               u == One(Restart(orders, run))
               v == One(Restart(orders', run'))
    <2>7. a \in Nat /\ u \in {0, 1} /\ v \in {0, 1} /\ Len(ca) + a + u <= Len(orders) + (MaxFaults - faults)
      BY <2>1, <2>5, <2>6
    <2> HIDE DEF a, u, v
    <2>8. Len(ca) + a + v <= (Len(orders) + 1) + (MaxFaults - faults)
      BY <2>4, <2>5, <2>7
    <2>9. IsFiniteSet(Asking(run')) /\ Len(ca') + Cardinality(Asking(run')) + One(Restart(orders', run'))
            <= Len(orders') + (MaxFaults - faults')
      BY <1>1, <2>1, <2>3, <2>4, <2>8 DEF a, v
    <2> QED
      BY <2>9 DEF AcmeAccount, Account
  <1> QED
    BY <1>3, <1>4 DEF OpensOrder

(* ClaimsDue: the row that would lead to the CA becomes the step that may. *)
LEMMA ClaimsDuePays ==
  ASSUME AcmeInv, AcmeInv', AcmeAccount, NEW r \in Runners, ClaimsDue(r) PROVE AcmeAccount'
  <1>1. run[r].pc = "claim" /\ UNCHANGED <<ca, faults>> /\ run[r].order = 0 /\ ~Asks(run[r])
    BY RunnerFacts DEF ClaimsDue, In, TickFits, Scanning, Asks
  <1>2. CASE Ends(r) /\ UNCHANGED orders
    <2>1. Others(r, run, run') /\ run'[r].pc = "idle"
      BY <1>2, RunnerEnds DEF NoTick
    <2> QED
      BY <1>1, <1>2, <2>1, IdlePays DEF Scanning
  <1>3. ASSUME NEW o \in Claimable,
               Sets(o, [orders[o] EXCEPT !.claimed = TRUE]),
               run' = [run EXCEPT ![r] = [pc |-> StepOf(orders[o]), order |-> o,
                 url |-> orders[o].url, key |-> orders[o].key, intent |-> orders[o].intent]]
        PROVE  AcmeAccount'
    <2> DEFINE row == orders[o]
               new == [row EXCEPT !.claimed = TRUE]
               t == [pc |-> StepOf(row), order |-> o, url |-> row.url, key |-> row.key,
                     intent |-> row.intent]
    <2>1. /\ o \in DOMAIN orders /\ row \in OrderRows /\ o \in Nat \ {0} /\ ~row.claimed
          /\ row.state \in LiveStates
          /\ \A q \in DOMAIN orders : orders[q].state \in LiveStates => q = o
      BY RowFacts DEF Claimable, Live
    <2>2. run' = [run EXCEPT ![r] = t] /\ Sets(o, new)
      BY <1>3
    <2>3. t.pc = StepOf(row) /\ t.order = o
      OBVIOUS
    <2>4. StepOf(row) \in {"start", "poll", "key", "finalize"} /\ (StepOf(row) = "start" <=> Again(row))
      BY <2>1 DEF StepOf, LiveStates, Again
    <2> HIDE DEF t
    <2>5. Others(r, run, run') /\ run'[r] = t
      BY <2>2, RunnerFacts DEF Others
    <2>6. new.claimed /\ new.state = row.state /\ new.url = row.url
      <3> HIDE DEF row
      <3> QED
        BY <2>1 DEF OrderRows
    <2>7. DOMAIN orders' = DOMAIN orders /\ orders'[o] = new /\ \A q \in DOMAIN orders \ {o} : orders'[q] = orders[q]
      BY <2>1, <2>2, OneRowSet
    <2> HIDE DEF new, row
    <2>8. DrivenBy(o, run')
      BY <2>3, <2>4, <2>5 DEF DrivenBy
    <2>9. ~Restarts(o, orders', run')
      BY <2>6, <2>7, <2>8 DEF Restarts
    <2>10. Asks(t) <=> Again(row)
      BY <2>3, <2>4 DEF Asks
    <2>11. ASSUME NEW q \in DOMAIN orders, q # o PROVE ~Restarts(q, orders', run')
      BY <2>1, <2>7, <2>11 DEF Restarts, Again, LiveStates
    <2>12. ~Restart(orders', run')
      BY <2>7, <2>9, <2>11 DEF Restart
    <2>13. Again(row) => Restart(orders, run)
      BY <2>1 DEF Restart, Restarts, row
    <2>14. /\ IsFiniteSet(Asking(run'))
           /\ Cardinality(Asking(run)) \in Nat /\ Cardinality(Asking(run')) \in Nat
           /\ Cardinality(Asking(run')) + One(Asks(run[r])) = Cardinality(Asking(run)) + One(Asks(run'[r]))
      BY <2>5, AskingAfter DEF AcmeAccount, Account
    <2>15. Cardinality(Asking(run')) <= Cardinality(Asking(run)) + One(Restart(orders, run))
           /\ One(Restart(orders', run')) = 0
      BY <1>1, <2>5, <2>10, <2>12, <2>13, <2>14 DEF One
    <2>16. Len(ca) + Cardinality(Asking(run)) + One(Restart(orders, run)) <= Len(orders) + (MaxFaults - faults)
      BY DEF AcmeAccount, Account
    <2>17. Len(ca) \in Nat /\ faults \in Nat /\ MaxFaults \in Nat /\ Len(orders') = Len(orders)
           /\ Len(orders) \in Nat /\ One(Restart(orders, run)) \in Nat
      <3>1. orders \in Seq(OrderRows) /\ orders' \in Seq(OrderRows)
        BY DEF AcmeInv, LedgerFits
      <3> QED
        BY <2>7, <3>1, RunnerFacts, AcmeAssumption DEF One
    <2>18. Len(ca) + Cardinality(Asking(run')) + One(Restart(orders', run')) <= Len(orders') + (MaxFaults - faults)
      <3> DEFINE a == Cardinality(Asking(run))
                 b == Cardinality(Asking(run'))
                 u == One(Restart(orders, run))
      <3>1. a \in Nat /\ b \in Nat /\ u \in Nat /\ b <= a + u /\ Len(ca) + a + u <= Len(orders) + (MaxFaults - faults)
        BY <2>14, <2>15, <2>16, <2>17
      <3> HIDE DEF a, b, u
      <3>2. Len(ca) + b + 0 <= Len(orders) + (MaxFaults - faults)
        BY <2>17, <3>1
      <3> QED
        BY <2>15, <2>17, <3>2 DEF b
    <2>19. Account(orders', Len(ca'), run', faults')
      BY <1>1, <2>14, <2>18 DEF Account
    <2> QED
      BY <2>19 DEF AcmeAccount
  <1> QED
    BY <1>2, <1>3 DEF ClaimsDue

(* StartsOrder: the step that may ask has asked, or asks once more for a   *)
(* fault.                                                                  *)
LEMMA StartsOrderPays ==
  ASSUME AcmeInv, AcmeInv', AcmeAccount, NEW r \in Runners, StartsOrder(r) PROVE AcmeAccount'
  <1> DEFINE t == run[r]
             o == t.order
             url == Len(ca) + 1
             u == [t EXCEPT !.pc = "record", !.url = url]
  <1>1. /\ run \in [Runners -> Ticking] /\ t \in Ticking /\ t.pc = "start" /\ Len(ca) \in Nat
        /\ faults \in Nat /\ t.pc \notin Scanning
    BY RunnerFacts DEF StartsOrder, In, Scanning
  <1>2. /\ UNCHANGED orders
        /\ \/ run' = [run EXCEPT ![r] = u] /\ UNCHANGED faults
           \/ Goes(r, "fail") /\ Fault
    BY <1>1 DEF StartsOrder
  <1>3. Len(ca') = Len(ca) + 1
    BY RunnerFacts DEF StartsOrder
  <1>4. u.pc = "record" /\ u.order = o
    BY <1>1 DEF Ticking
  <1> HIDE DEF u
  <1>5. /\ Others(r, run, run') /\ run'[r].order = o /\ run'[r].pc \in {"record", "fail"}
        /\ run'[r].pc = "fail" => Fault
        /\ run'[r].pc = "record" => UNCHANGED faults
    <2>1. CASE run' = [run EXCEPT ![r] = u] /\ UNCHANGED faults
      BY <1>1, <1>4, <2>1 DEF Others
    <2>2. CASE Goes(r, "fail") /\ Fault
      BY <2>2, RunnerGoes, Failing
    <2> QED
      BY <1>2, <2>1, <2>2
  <1>6. Asks(run[r]) /\ (run'[r].pc = "record" => ~Asks(run'[r]))
    BY <1>1 DEF Asks
  <1>7. Len(ca') + One(Asks(run'[r])) + 0 + faults' <= Len(ca) + One(Asks(run[r])) + faults
    BY <1>1, <1>3, <1>5, <1>6 DEF One, Fault
  <1>8. \/ ~Again(orders'[o])
        \/ /\ Again(orders[o]) /\ orders'[o].claimed = orders[o].claimed
           /\ run'[r].order = o /\ run'[r].pc \notin {"clean", "cleaned"}
    BY <1>2, <1>5
  <1>9. o = run[r].order /\ run'[r].order \in {0, o} /\ run[r].pc \notin Scanning
    BY <1>1, <1>5
  <1>10. DOMAIN orders' = DOMAIN orders /\ \A q \in DOMAIN orders \ {o} : orders'[q] = orders[q]
    BY <1>2
  <1> HIDE DEF url, o, t
  <1> QED
    BY <1>5, <1>7, <1>8, <1>9, <1>10, RunnerPays

(* RecordsUrl: the row leads to the CA no more than before.                *)
LEMMA RecordsUrlPays ==
  ASSUME AcmeInv, AcmeInv', AcmeAccount, NEW r \in Runners, RecordsUrl(r) PROVE AcmeAccount'
  <1> DEFINE o == run[r].order
             row == orders[o]
             url == run[r].url
             new == [row EXCEPT !.url = url]
  <1>1. run[r].pc = "record" /\ Goes(r, "put") /\ Sets(o, new) /\ UNCHANGED <<ca, faults>>
    BY DEF RecordsUrl, In
  <1>2. /\ o \in DOMAIN orders /\ row \in OrderRows /\ run[r].pc \notin Scanning
        /\ Len(ca) \in Nat /\ faults \in Nat
    BY <1>1, InHand, RunnerFacts DEF Scanning
  <1>3. url # 0
    BY <1>1, RunnerFacts DEF TickFits, WithUrl, Pcs, Scanning
  <1>4. Others(r, run, run') /\ run'[r].order = o /\ run'[r].pc = "put"
    BY <1>1, RunnerGoes DEF Pcs
  <1> HIDE DEF row, url
  <1>5. new.state = row.state /\ new.url # 0 /\ new.claimed = row.claimed
    BY <1>2, <1>3 DEF OrderRows
  <1>6. DOMAIN orders' = DOMAIN orders /\ orders'[o] = new /\ \A q \in DOMAIN orders \ {o} : orders'[q] = orders[q]
    BY <1>1, <1>2, OneRowSet DEF row
  <1> HIDE DEF new
  <1>7. Again(new) => Again(row)
    BY <1>5 DEF Again
  <1>8. ~Asks(run[r]) /\ ~Asks(run'[r])
    BY <1>1, <1>4 DEF Asks
  <1>9. Len(ca') + One(Asks(run'[r])) + 0 + faults' <= Len(ca) + One(Asks(run[r])) + faults
    BY <1>1, <1>2, <1>8 DEF One
  <1>10. \/ ~Again(orders'[o])
         \/ /\ Again(orders[o]) /\ orders'[o].claimed = orders[o].claimed
            /\ run'[r].order = o /\ run'[r].pc \notin {"clean", "cleaned"}
    BY <1>4, <1>5, <1>6, <1>7 DEF row
  <1>11. o = run[r].order /\ run'[r].order \in {0, o}
    BY <1>4
  <1> HIDE DEF o
  <1> QED
    BY <1>2, <1>4, <1>6, <1>9, <1>10, <1>11, RunnerPays

(* A row is marked while its tick drives it on.                            *)
LEMMA MarkPays ==
  ASSUME AcmeInv, AcmeInv', AcmeAccount, NEW r \in Runners, Others(r, run, run'),
         run[r].pc \in {"put", "mark", "key"}, run'[r].order = run[r].order,
         run'[r].pc \in {"place", "accept", "finalize"},
         NEW row, Sets(run[r].order, row), row.state = orders[run[r].order].state,
         row.url = orders[run[r].order].url, row.claimed = orders[run[r].order].claimed,
         UNCHANGED <<ca, faults>>
  PROVE  AcmeAccount'
  <1> DEFINE o == run[r].order
  <1>1. o \in DOMAIN orders /\ run[r].pc \notin Scanning /\ Len(ca) \in Nat /\ faults \in Nat
    BY InHand, RunnerFacts DEF Scanning
  <1>2. DOMAIN orders' = DOMAIN orders /\ orders'[o] = row /\ \A q \in DOMAIN orders \ {o} : orders'[q] = orders[q]
    BY <1>1, OneRowSet
  <1>3. ~Asks(run[r]) /\ ~Asks(run'[r])
    BY DEF Asks
  <1>4. Again(row) => Again(orders[o])
    BY DEF Again
  <1>5. Len(ca') + One(Asks(run'[r])) + 0 + faults' <= Len(ca) + One(Asks(run[r])) + faults
    BY <1>1, <1>3 DEF One
  <1>6. \/ ~Again(orders'[o])
        \/ /\ Again(orders[o]) /\ orders'[o].claimed = orders[o].claimed
           /\ run'[r].order = o /\ run'[r].pc \notin {"clean", "cleaned"}
    BY <1>2, <1>4
  <1>7. o = run[r].order /\ run'[r].order \in {0, o}
    OBVIOUS
  <1> HIDE DEF o
  <1> QED
    BY <1>1, <1>2, <1>5, <1>6, <1>7, RunnerPays

LEMMA MarksPay ==
  ASSUME AcmeInv, AcmeInv', AcmeAccount, NEW r \in Runners,
         PutsChallenge(r) \/ MarksPlaced(r) \/ MakesKey(r)
  PROVE  AcmeAccount'
  <1> DEFINE o == run[r].order
             row == orders[o]
             t == run[r]
  <1>1. t.pc \in {"put", "mark", "key"} /\ UNCHANGED <<ca, faults>>
    BY DEF PutsChallenge, MarksPlaced, MakesKey, In
  <1>2. row \in OrderRows /\ t \in Ticking /\ run \in [Runners -> Ticking]
    BY <1>1, InHand, RunnerFacts DEF Scanning
  <1>3. CASE PutsChallenge(r)
    <2> DEFINE new == [row EXCEPT !.token = t.url]
    <2>1. Sets(o, new) /\ Goes(r, "place")
      BY <1>3 DEF PutsChallenge
    <2> HIDE DEF row
    <2>2. new.state = row.state /\ new.url = row.url /\ new.claimed = row.claimed
      BY <1>2 DEF OrderRows
    <2>3. Others(r, run, run') /\ run'[r].pc = "place" /\ run'[r].order = o
      BY <2>1, RunnerGoes DEF Pcs
    <2> HIDE DEF new
    <2> QED
      BY <1>1, <2>1, <2>2, <2>3, MarkPays DEF row
  <1>4. CASE MarksPlaced(r)
    <2> DEFINE new == [row EXCEPT !.placed = TRUE]
    <2>1. Sets(o, new) /\ Goes(r, "accept")
      BY <1>4 DEF MarksPlaced
    <2> HIDE DEF row
    <2>2. new.state = row.state /\ new.url = row.url /\ new.claimed = row.claimed
      BY <1>2 DEF OrderRows
    <2>3. Others(r, run, run') /\ run'[r].pc = "accept" /\ run'[r].order = o
      BY <2>1, RunnerGoes DEF Pcs
    <2> HIDE DEF new
    <2> QED
      BY <1>1, <2>1, <2>2, <2>3, MarkPays DEF row
  <1>5. CASE MakesKey(r)
    <2> DEFINE new == [row EXCEPT !.key = r]
               u == [t EXCEPT !.pc = "finalize", !.key = r]
    <2>1. Sets(o, new) /\ run' = [run EXCEPT ![r] = u]
      BY <1>2, <1>5 DEF MakesKey
    <2> HIDE DEF row
    <2>2. new.state = row.state /\ new.url = row.url /\ new.claimed = row.claimed
      BY <1>2 DEF OrderRows
    <2>3. u.pc = "finalize" /\ u.order = o
      BY <1>2 DEF Ticking
    <2> HIDE DEF new, u
    <2>4. Others(r, run, run') /\ run'[r] = u
      BY <1>2, <2>1 DEF Others
    <2> QED
      BY <1>1, <2>1, <2>2, <2>3, <2>4, MarkPays DEF row
  <1> QED
    BY <1>3, <1>4, <1>5

(* A row that leads no more to the CA: nothing is to be paid for it,       *)
(* wherever its tick goes.                                                 *)
LEMMA PastPays ==
  ASSUME AcmeInv, AcmeInv', AcmeAccount, NEW r \in Runners, Others(r, run, run'),
         run[r].pc \notin Scanning, run'[r].order \in {0, run[r].order},
         NEW row, Sets(run[r].order, row), ~Again(row),
         Len(ca') = Len(ca), Fault \/ UNCHANGED faults, Asks(run'[r]) => Asks(run[r])
  PROVE  AcmeAccount'
  <1> DEFINE o == run[r].order
  <1>1. /\ o \in DOMAIN orders /\ Len(ca) \in Nat
        /\ faults \in Nat /\ faults' \in Nat /\ faults' <= faults
    BY InHand, RunnerFacts DEF Fault
  <1>2. DOMAIN orders' = DOMAIN orders /\ orders'[o] = row /\ \A q \in DOMAIN orders \ {o} : orders'[q] = orders[q]
    BY <1>1, OneRowSet
  <1>3. Len(ca') + One(Asks(run'[r])) + 0 + faults' <= Len(ca) + One(Asks(run[r])) + faults
    BY <1>1 DEF One
  <1>4. o = run[r].order /\ run'[r].order \in {0, o} /\ ~Again(orders'[o])
    BY <1>2
  <1> HIDE DEF o
  <1> QED
    BY <1>2, <1>3, <1>4, RunnerPays

(* Advances and MarksIssued set such a row, Releases frees one.            *)
LEMMA PastStartPays ==
  ASSUME AcmeInv, AcmeInv', AcmeAccount, NEW r \in Runners,
         AdvancesOrder(r) \/ MarksIssued(r) \/ Releases(r)
  PROVE  AcmeAccount'
  <1> DEFINE o == run[r].order
             row == orders[o]
             t == run[r]
  <1>1. t.pc \in {"validating", "ready", "issue", "release"} /\ UNCHANGED <<ca, faults>>
    BY DEF AdvancesOrder, Advances, MarksIssued, Releases, In
  <1>2. /\ row \in OrderRows /\ t.pc \notin Scanning \cup {"clean", "cleaned"} /\ t.url # 0 /\ row.url # 0
    BY <1>1, InHand, RunnerFacts DEF Scanning, TickFits, WithUrl, Pcs
  <1>3. ASSUME NEW state \in {"validating", "ready"}, Advances(r, state) PROVE AcmeAccount'
    <2>1. CASE MayBe(o, state)
      <3> DEFINE new == [row EXCEPT !.state = state]
      <3>1. Sets(o, new) /\ Goes(r, "release")
        BY <1>3, <2>1 DEF Advances
      <3>2. Others(r, run, run') /\ run'[r].pc = "release" /\ run'[r].order = o
        BY <3>1, RunnerGoes DEF Pcs
      <3> HIDE DEF row
      <3>3. ~Again(new)
        BY <1>2 DEF OrderRows, Again
      <3> HIDE DEF new
      <3>4. ~Asks(run'[r])
        BY <3>2 DEF Asks
      <3> QED
        BY <1>1, <1>2, <3>1, <3>2, <3>3, <3>4, PastPays
    <2>2. CASE ~MayBe(o, state)
      <3>1. Goes(r, "fail") /\ UNCHANGED orders
        BY <1>3, <2>2 DEF Advances
      <3>2. "fail" \in Pcs
        BY DEF Pcs
      <3>3. ~Asks(run'[r])
        BY <1>2, <3>1, <3>2, RunnerGoes, AsksNot
      <3> QED
        BY <1>1, <1>2, <3>1, <3>2, <3>3, MovePays
    <2> QED
      BY <2>1, <2>2
  <1>4. CASE MarksIssued(r)
    <2> DEFINE w1 == [row EXCEPT !.state = "issued", !.issued = t.url]
               new == [w1 EXCEPT !.key = t.key, !.claimed = FALSE]
    <2>1. Sets(o, new) /\ Goes(r, "clean_issued")
      BY <1>4 DEF MarksIssued
    <2>2. Others(r, run, run') /\ run'[r].pc = "clean_issued" /\ run'[r].order = o
      BY <2>1, RunnerGoes DEF Pcs
    <2> HIDE DEF row
    <2>3. w1 \in OrderRows /\ w1.state = "issued"
      <3>1. t.url \in 0..MaxUrls
        BY RunnerFacts DEF Ticking
      <3> QED
        BY <1>2, <3>1 DEF OrderRows
    <2> HIDE DEF w1
    <2>4. ~Again(new)
      BY <2>3 DEF OrderRows, Again
    <2> HIDE DEF new
    <2>5. ~Asks(run'[r])
      BY <2>2 DEF Asks
    <2> QED
      BY <1>1, <1>2, <2>1, <2>2, <2>4, <2>5, PastPays
  <1>5. CASE Releases(r)
    <2> DEFINE new == [row EXCEPT !.claimed = FALSE]
    <2>1. Sets(o, new) /\ Ends(r) /\ t.pc = "release"
      BY <1>5 DEF Releases, In
    <2>2. Others(r, run, run') /\ run'[r].pc = "idle" /\ run'[r].order = 0
      BY <2>1, RunnerEnds DEF NoTick
    <2>3. row.state # "pending"
      BY <2>1, RunnerFacts DEF TickFits, PastStart
    <2> HIDE DEF row
    <2>4. ~Again(new)
      BY <1>2, <2>3 DEF OrderRows, Again
    <2> HIDE DEF new
    <2>5. ~Asks(run'[r])
      BY <2>2 DEF Asks
    <2> QED
      BY <1>1, <1>2, <2>1, <2>2, <2>4, <2>5, PastPays
  <1> QED
    BY <1>3, <1>4, <1>5 DEF AdvancesOrder

(* FailsOrder: the step that failed before it had a URL leaves a row that  *)
(* leads to the CA; it has paid for it.                                    *)
LEMMA FailsOrderPays ==
  ASSUME AcmeInv, AcmeInv', AcmeAccount, NEW r \in Runners, FailsOrder(r) PROVE AcmeAccount'
  <1> DEFINE o == run[r].order
             row == orders[o]
             t == run[r]
  <1>1. t.pc = "fail" /\ UNCHANGED <<ca, faults>>
    BY DEF FailsOrder, In
  <1>2. /\ row \in OrderRows /\ t.pc \notin Scanning /\ o \in DOMAIN orders
        /\ Len(ca) \in Nat /\ faults \in Nat /\ (t.url # 0 => row.url # 0)
    BY <1>1, InHand, RunnerFacts DEF Scanning, TickFits
  <1>3. PICK state \in {"abandoned", "failed"} :
          IF MayBe(o, state)
          THEN /\ Sets(o, [row EXCEPT !.state = state, !.attempts = @ + 1,
                                      !.due = FALSE, !.claimed = FALSE])
               /\ Goes(r, "clean")
          ELSE orders' = orders /\ Ends(r) /\ state = "failed"
    BY DEF FailsOrder, MayBe, LiveStates
  <1>4. CASE MayBe(o, state)
    <2> DEFINE w1 == [row EXCEPT !.state = state]
               new == [w1 EXCEPT !.attempts = row.attempts + 1, !.due = FALSE, !.claimed = FALSE]
    <2>1. Sets(o, new) /\ Goes(r, "clean")
      BY <1>3, <1>4
    <2>2. Others(r, run, run') /\ run'[r].pc = "clean" /\ run'[r].order = o
      BY <2>1, RunnerGoes DEF Pcs
    <2>3. DOMAIN orders' = DOMAIN orders /\ orders'[o] = new /\ \A q \in DOMAIN orders \ {o} : orders'[q] = orders[q]
      BY <1>2, <2>1, OneRowSet
    <2> HIDE DEF row
    <2>4. w1 \in OrderRows /\ w1.url = row.url
      BY <1>2 DEF OrderRows, LiveStates
    <2> HIDE DEF w1
    <2>5. new.url = row.url
      BY <2>4 DEF OrderRows
    <2>6. ~Asks(run'[r])
      BY <2>2 DEF Asks
    <2>7. o = run[r].order /\ run'[r].order \in {0, o} /\ run[r].pc \notin Scanning
      BY <1>2, <2>2
    <2> HIDE DEF new
    <2>8. CASE row.url # 0
      <3>1. ~Again(orders[o]) \/ ~Again(orders'[o]) \/ row.state = "pending"
        BY <2>8 DEF Again, row
      <3>2. new.state = state
        BY <1>2, <2>4 DEF new, OrderRows, w1, LiveStates
      <3>3. ~Again(orders'[o])
        BY <2>3, <2>5, <2>8, <3>2 DEF Again
      <3>4. Len(ca') + One(Asks(run'[r])) + 0 + faults' <= Len(ca) + One(Asks(run[r])) + faults
        BY <1>1, <1>2, <2>6 DEF One
      <3> HIDE DEF o, t
      <3> QED
        BY <2>2, <2>3, <2>7, <3>3, <3>4, RunnerPays
    <2>9. CASE row.url = 0
      <3>1. Asks(run[r])
        BY <1>1, <1>2, <2>9 DEF Asks
      <3>2. Len(ca') + One(Asks(run'[r])) + 1 + faults' <= Len(ca) + One(Asks(run[r])) + faults
        BY <1>1, <1>2, <2>6, <3>1 DEF One
      <3> HIDE DEF o, t
      <3> QED
        BY <2>2, <2>3, <2>7, <3>2, RunnerPays
    <2> QED
      BY <2>8, <2>9
  <1>5. CASE ~MayBe(o, state)
    <2>1. orders' = orders /\ Ends(r) /\ state = "failed"
      BY <1>3, <1>5
    <2>2. Others(r, run, run') /\ run'[r].pc = "idle" /\ run'[r].order = 0
      BY <2>1, RunnerEnds DEF NoTick
    <2>3. row.state \notin LiveStates
      BY <1>2, <1>5, <2>1, InHand, <1>1 DEF MayBe, Live, LiveStates
    <2>4. ~Again(orders'[o])
      BY <2>1, <2>3 DEF Again, LiveStates
    <2>5. ~Asks(run'[r])
      BY <2>2 DEF Asks
    <2>6. Len(ca') + One(Asks(run'[r])) + 0 + faults' <= Len(ca) + One(Asks(run[r])) + faults
      BY <1>1, <1>2, <2>5 DEF One
    <2>7. o = run[r].order /\ run'[r].order \in {0, o} /\ run[r].pc \notin Scanning
      BY <1>2, <2>2
    <2>8. DOMAIN orders' = DOMAIN orders /\ \A q \in DOMAIN orders \ {o} : orders'[q] = orders[q]
      BY <2>1
    <2> HIDE DEF o, row, t
    <2> QED
      BY <2>2, <2>4, <2>6, <2>7, <2>8, RunnerPays
  <1> QED
    BY <1>4, <1>5

(* The cleaning drives nothing, but that of an issued order has one still. *)
LEMMA CleaningPays ==
  ASSUME AcmeInv, AcmeInv', AcmeAccount, NEW r \in Runners, RemovesChallenge(r) \/ MarksCleaned(r)
  PROVE  AcmeAccount'
  <1> DEFINE o == run[r].order
             row == orders[o]
             new == [row EXCEPT !.cleaned = TRUE]
  <1>1. run[r].pc \in {"clean", "clean_issued", "cleaned"} /\ UNCHANGED <<ca, faults>>
    BY DEF RemovesChallenge, MarksCleaned, In
  <1>2. /\ row \in OrderRows /\ run[r].pc \notin Scanning /\ o \in DOMAIN orders
        /\ Len(ca) \in Nat /\ faults \in Nat
    BY <1>1, InHand, RunnerFacts DEF Scanning
  <1>3. run[r].pc = "clean_issued" => ~Again(row)
    BY <1>2, RunnerFacts DEF TickFits, PastStart, WithUrl, Pcs, Again, Scanning
  <1>4. Goes(r, "cleaned") \/ Ends(r)
    BY DEF RemovesChallenge, MarksCleaned
  <1>5. Others(r, run, run') /\ run'[r].pc \in {"idle", "cleaned"} /\ run'[r].order \in {0, o}
    <2>1. CASE Goes(r, "cleaned")
      BY <2>1, RunnerGoes DEF Pcs
    <2>2. CASE Ends(r)
      BY <2>2, RunnerEnds DEF NoTick
    <2> QED
      BY <1>4, <2>1, <2>2
  <1>6. ~Asks(run'[r])
    BY <1>5 DEF Asks
  <1>7. Len(ca') + One(Asks(run'[r])) + 0 + faults' <= Len(ca) + One(Asks(run[r])) + faults
    BY <1>1, <1>2, <1>6 DEF One
  <1>8. /\ DOMAIN orders' = DOMAIN orders /\ \A q \in DOMAIN orders \ {o} : orders'[q] = orders[q]
        /\ (Again(orders'[o]) <=> Again(row)) /\ orders'[o].claimed = row.claimed
    <2>1. CASE RemovesChallenge(r)
      BY <2>1 DEF RemovesChallenge
    <2>2. CASE MarksCleaned(r)
      <3>1. Sets(o, new)
        BY <2>2 DEF MarksCleaned
      <3>2. DOMAIN orders' = DOMAIN orders /\ orders'[o] = new /\ \A q \in DOMAIN orders \ {o} : orders'[q] = orders[q]
        BY <1>2, <3>1, OneRowSet
      <3> HIDE DEF row
      <3>3. (Again(new) <=> Again(row)) /\ new.claimed = row.claimed
        BY <1>2 DEF OrderRows, Again
      <3> HIDE DEF new
      <3> QED
        BY <3>2, <3>3
    <2> QED
      BY <2>1, <2>2
  <1>9. \/ ~Again(orders'[o])
        \/ /\ Again(orders[o]) /\ orders'[o].claimed = orders[o].claimed
           /\ run[r].pc \in {"clean", "cleaned"}
    BY <1>1, <1>3, <1>8
  <1>10. o = run[r].order
    OBVIOUS
  <1> HIDE DEF o, row, new
  <1> QED
    BY <1>2, <1>5, <1>7, <1>8, <1>9, <1>10, RunnerPays

(* Throws and Crashes: the fault pays for a row that is not driven on, or  *)
(* for a step that fails.                                                  *)
LEMMA FaultsPay ==
  ASSUME AcmeInv, AcmeInv', AcmeAccount, NEW r \in Runners, Throws(r) \/ Crashes(r)
  PROVE  AcmeAccount'
  <1> DEFINE o == run[r].order
  <1>1. UNCHANGED <<orders, ca>> /\ faults' = faults - 1 /\ faults \in Nat /\ Len(ca) \in Nat
    BY RunnerFacts DEF Throws, Crashes, ledger, Fault
  <1>2. Fault
    BY DEF Throws, Crashes
  <1>3. \/ Ends(r)
        \/ run' = FailsUnnamed(run, r) /\ run[r].pc \notin EndsTheTick /\ run[r].pc \notin Scanning
    BY DEF Throws, Crashes, In, EndsTheTick, Scanning, FailsUnnamed
  <1>4. CASE Ends(r)
    <2>1. Others(r, run, run') /\ run'[r].pc = "idle" /\ run'[r].order = 0
      BY <1>4, RunnerEnds DEF NoTick
    <2>2. CASE run[r].pc \in Scanning
      BY <1>1, <1>2, <2>1, <2>2, IdlePays DEF Scanning
    <2>3. CASE run[r].pc \notin Scanning
      <3>1. ~Asks(run'[r])
        BY <2>1 DEF Asks
      <3>2. Len(ca') + One(Asks(run'[r])) + 1 + faults' <= Len(ca) + One(Asks(run[r])) + faults
        BY <1>1, <3>1 DEF One
      <3>3. o = run[r].order /\ run'[r].order \in {0, o} /\ DOMAIN orders' = DOMAIN orders
        BY <1>1, <2>1
      <3>4. \A q \in DOMAIN orders \ {o} : orders'[q] = orders[q]
        BY <1>1
      <3> HIDE DEF o
      <3> QED
        BY <2>1, <2>3, <3>2, <3>3, <3>4, RunnerPays
    <2> QED
      BY <2>2, <2>3
  <1>5. CASE run' = FailsUnnamed(run, r) /\ run[r].pc \notin EndsTheTick /\ run[r].pc \notin Scanning
    <2>1. Others(r, run, run') /\ run'[r].pc = "fail" /\ run'[r].order = o
      <3>1. /\ run \in [Runners -> Ticking] /\ TickFits(run[r], orders, Len(ca)) /\ Len(ca) \in Nat
            /\ run' = FailsUnnamed(run, r) /\ run[r].pc \notin Scanning
        BY <1>5, RunnerFacts
      <3> QED
        BY <3>1, FailingUnnamed
    <2>2. Len(ca') + One(Asks(run'[r])) + 0 + faults' <= Len(ca) + One(Asks(run[r])) + faults
      BY <1>1 DEF One
    <2>3. o = run[r].order /\ run'[r].order \in {0, o} /\ DOMAIN orders' = DOMAIN orders
      BY <1>1, <2>1
    <2>4. \A q \in DOMAIN orders \ {o} : orders'[q] = orders[q]
      BY <1>1
    <2>5. \/ ~Again(orders'[o])
          \/ /\ Again(orders[o]) /\ orders'[o].claimed = orders[o].claimed
             /\ run'[r].order = o /\ run'[r].pc \notin {"clean", "cleaned"}
      BY <1>1, <2>1
    <2> HIDE DEF o
    <2> QED
      BY <1>5, <2>1, <2>2, <2>3, <2>4, <2>5, RunnerPays
  <1> QED
    BY <1>3, <1>4, <1>5

(* Every step of a process balances its account.                           *)
LEMMA ProcessPays ==
  ASSUME AcmeInv, AcmeInv', AcmeAccount, NEW r \in Runners,
         RunnerSteps(r) \/ Throws(r) \/ Crashes(r) \/ Succeeds(r)
  PROVE  AcmeAccount'
  <1>1. CASE Succeeds(r)
    BY <1>1 DEF Succeeds, ledger, AcmeAccount
  <1> QED
    BY <1>1, TicksPay, OpensOrderPays, ClaimsDuePays, StartsOrderPays, RecordsUrlPays, MarksPay,
       CallsPay,
       PastStartPays, FailsOrderPays, CleaningPays, FaultsPay
    DEF RunnerSteps

(* The arithmetic of a row that turns.                                     *)
LEMMA TurnSums ==
  ASSUME NEW n \in Nat, NEW a \in Nat, NEW len \in Nat, NEW max \in Nat, NEW f \in Nat,
         NEW g \in Nat, NEW u \in {0, 1}, NEW v \in {0, 1},
         n + a + u <= len + (max - f), (g = f /\ v <= u) \/ g = f - 1
  PROVE  n + a + v <= len + (max - g)
  OBVIOUS

(* Between the steps of processes a lease that runs out under its driver   *)
(* makes a row that leads to the CA again, and is a fault.                 *)
LEMMA RowTurnPays ==
  ASSUME AcmeInv, AcmeInv', AcmeAccount, NEW o \in DOMAIN orders, NEW row, Sets(o, row),
         Again(row) <=> Again(orders[o]), UNCHANGED <<ca, run>>,
         \/ row.claimed = orders[o].claimed /\ (Fault \/ UNCHANGED faults)
         \/ IF Driven(o) THEN Fault ELSE UNCHANGED faults
  PROVE  AcmeAccount'
  <1>1. DOMAIN orders' = DOMAIN orders /\ orders'[o] = row /\ \A q \in DOMAIN orders \ {o} : orders'[q] = orders[q]
    BY OneRowSet
  <1>2. /\ orders \in Seq(OrderRows) /\ orders' \in Seq(OrderRows) /\ faults \in Nat
        /\ Len(ca) \in Nat /\ MaxFaults \in Nat /\ faults' \in Nat /\ faults' <= faults
    BY AcmeAssumption DEF AcmeInv, AcmeTypes, LedgerFits, Fault
  <1>3. Len(orders') = Len(orders) /\ Len(orders) \in Nat
    BY <1>1, <1>2
  <1>4. Driven(o) <=> DrivenBy(o, run)
    BY DEF Driven, DrivenBy
  <1>5. ASSUME faults' = faults, Restart(orders', run) PROVE Restart(orders, run)
    <2>1. PICK q \in DOMAIN orders : Restarts(q, orders', run)
      BY <1>1, <1>5 DEF Restart
    <2>2. Restarts(q, orders, run)
      BY <1>1, <1>2, <1>4, <1>5, <2>1 DEF Restarts, Fault
    <2> QED
      BY <2>2 DEF Restart
  <1>6. faults' # faults => faults' = faults - 1
    BY <1>2 DEF Fault
  <1> DEFINE a == Cardinality(Asking(run))
             u == One(Restart(orders, run))
             v == One(Restart(orders', run))
  <1>7. IsFiniteSet(Asking(run)) /\ a \in Nat /\ Len(ca) + a + u <= Len(orders) + (MaxFaults - faults)
    BY FS_CardinalityType DEF AcmeAccount, Account
  <1>8. u \in {0, 1} /\ v \in {0, 1} /\ (faults' = faults => v <= u)
    BY <1>5 DEF One
  <1> HIDE DEF a, u, v
  <1>9. Len(ca) + a + v <= Len(orders) + (MaxFaults - faults')
    <2>1. PICK f \in Nat, g \in Nat : f = faults /\ g = faults'
      BY <1>2
    <2>2. Len(ca) + a + u <= Len(orders) + (MaxFaults - f) /\ ((g = f /\ v <= u) \/ g = f - 1)
      BY <1>6, <1>7, <1>8, <2>1
    <2>3. Len(ca) + a + v <= Len(orders) + (MaxFaults - g)
      BY <1>2, <1>3, <1>7, <1>8, <2>2, TurnSums
    <2> QED
      BY <2>1, <2>3
  <1> QED
    BY <1>3, <1>7, <1>9 DEF AcmeAccount, Account, a, v

LEMMA TimePays ==
  ASSUME AcmeInv, AcmeInv', AcmeAccount, NEW o \in DOMAIN orders, LeaseRunsOut(o) \/ BackoffEnds(o)
  PROVE  AcmeAccount'
  <1> DEFINE row == orders[o]
  <1>1. row \in OrderRows
    BY RowFacts
  <1>2. CASE LeaseRunsOut(o)
    <2> DEFINE new == [row EXCEPT !.claimed = FALSE]
    <2>1. Sets(o, new) /\ UNCHANGED <<ca, run>> /\ (IF Driven(o) THEN Fault ELSE UNCHANGED faults)
      BY <1>2 DEF LeaseRunsOut
    <2> HIDE DEF row
    <2>2. Again(new) <=> Again(row)
      BY <1>1 DEF OrderRows, Again
    <2> HIDE DEF new
    <2> QED
      BY <2>1, <2>2, RowTurnPays DEF row
  <1>3. CASE BackoffEnds(o)
    <2> DEFINE new == [row EXCEPT !.due = TRUE]
    <2>1. Sets(o, new) /\ UNCHANGED <<ca, run, faults>>
      BY <1>3 DEF BackoffEnds
    <2> HIDE DEF row
    <2>2. (Again(new) <=> Again(row)) /\ new.claimed = row.claimed
      BY <1>1 DEF OrderRows, Again
    <2> HIDE DEF new
    <2> QED
      BY <2>1, <2>2, RowTurnPays DEF row
  <1> QED
    BY <1>2, <1>3

(* A step that leaves the rows and the ticks keeps the account.            *)
LEMMA OthersPay ==
  ASSUME AcmeInv, AcmeAccount, UNCHANGED <<orders, run>>, Len(ca') = Len(ca), Fault \/ UNCHANGED faults
  PROVE  AcmeAccount'
  <1>1. faults \in Nat /\ faults' \in Nat /\ faults' <= faults /\ MaxFaults \in Nat
    BY AcmeAssumption DEF AcmeInv, AcmeTypes, Fault
  <1> DEFINE a == Len(ca) + Cardinality(Asking(run)) + One(Restart(orders, run))
  <1>2. IsFiniteSet(Asking(run)) /\ a <= Len(orders) + (MaxFaults - faults)
    BY DEF AcmeAccount, Account
  <1>3. a \in Nat /\ Len(orders) \in Nat
    BY <1>2, FS_CardinalityType DEF AcmeInv, AcmeTypes, LedgerFits, One
  <1> HIDE DEF a
  <1>4. a <= Len(orders) + (MaxFaults - faults')
    BY <1>1, <1>2, <1>3
  <1> QED
    BY <1>2, <1>4 DEF AcmeAccount, Account, a

LEMMA SweepPays ==
  ASSUME AcmeInv, AcmeInv', AcmeAccount, FindsOrphan \/ SweepsOrphan PROVE AcmeAccount'
  <1>1. UNCHANGED <<ca, run>> /\ (Fault \/ UNCHANGED faults)
    BY DEF FindsOrphan, SweepsOrphan, ledger
  <1>2. CASE UNCHANGED orders
    BY <1>1, <1>2, OthersPay
  <1>3. CASE SweepsOrphan /\ Sets(sweep.order, [orders[sweep.order] EXCEPT !.cleaned = TRUE])
    <2> DEFINE o == sweep.order
               row == orders[o]
               new == [row EXCEPT !.cleaned = TRUE]
    <2>1. o \in DOMAIN orders
      BY <1>3 DEF SweepsOrphan, AcmeInv, SweepFits
    <2>2. row \in OrderRows /\ Sets(o, new)
      BY <1>3, <2>1, RowFacts
    <2> HIDE DEF row
    <2>3. (Again(new) <=> Again(row)) /\ new.claimed = row.claimed
      BY <2>2 DEF OrderRows, Again
    <2> HIDE DEF new, o
    <2> QED
      BY <1>1, <2>1, <2>2, <2>3, RowTurnPays DEF row
  <1> QED
    BY <1>2, <1>3 DEF FindsOrphan, SweepsOrphan, ledger

(* Initially nothing is ordered and nothing asks.                          *)
LEMMA AccountInit == ASSUME AcmeInit PROVE AcmeAccount
  <1>1. Asking(run) = {}
    BY DEF AcmeInit, Asking, Asks, NoTick
  <1>2. IsFiniteSet(Asking(run)) /\ Cardinality(Asking(run)) = 0
    BY <1>1, FS_EmptySet
  <1>3. orders = <<>> /\ Len(orders) = 0 /\ Len(ca) = 0 /\ faults = MaxFaults
    BY DEF AcmeInit
  <1>4. ~Restart(orders, run)
    BY <1>3 DEF Restart
  <1> QED
    BY <1>2, <1>3, <1>4, AcmeAssumption DEF AcmeAccount, Account, One

LEMMA AccountStep == ASSUME AcmeInv, AcmeInv', AcmeAccount, [AcmeNext]_acmeVars PROVE AcmeAccount'
  <1>1. ASSUME NEW u \in DOMAIN ca, Validates(u) \/ Expires(u) PROVE AcmeAccount'
    <2>1. Len(ca') = Len(ca) /\ UNCHANGED <<orders, run>> /\ (Fault \/ UNCHANGED faults)
      BY <1>1, RunnerFacts DEF Validates, Expires, AcmeInv, AcmeTypes
    <2> QED
      BY <2>1, OthersPay
  <1>2. CASE \/ \E p \in Publishers : PublisherSteps(p) \/ PublishFails(p)
             \/ AsksForOther \/ Ages \/ RollsBack
    <2>1. UNCHANGED <<orders, ca, run>> /\ (Fault \/ UNCHANGED faults)
      <3>1. CASE AsksForOther \/ Ages \/ RollsBack
        BY <3>1 DEF AsksForOther, Ages, RollsBack, ledger
      <3>2. ASSUME NEW p \in Publishers, PublisherSteps(p) \/ PublishFails(p)
            PROVE  UNCHANGED <<orders, ca, run>> /\ (Fault \/ UNCHANGED faults)
        <4>1. CASE FindsUnpublished(p) \/ ReadsHead(p)
          <5>1. UNCHANGED <<ledger, run, faults>>
            BY <4>1, Zenon DEF FindsUnpublished, ReadsHead
          <5> QED
            BY <5>1 DEF ledger
        <4>2. CASE Commits(p) \/ PublishFails(p)
          BY <4>2 DEF Commits, PublishFails, ledger
        <4> QED
          BY <3>2, <4>1, <4>2 DEF PublisherSteps
      <3> QED
        BY <1>2, <3>1, <3>2
    <2> QED
      BY <2>1, OthersPay
  <1>3. CASE UNCHANGED acmeVars
    BY <1>3, OthersPay DEF acmeVars
  <1> QED
    BY <1>1, <1>2, <1>3, ProcessPays, TimePays, SweepPays DEF AcmeNext

(* A retry resumes: whatever runner drives the order, or drove it before   *)
(* its lease ran out, and wherever it failed or crashed, the CA is asked   *)
(* for one order for each row of the ledger, and for one more only after a *)
(* fault (claimDue, #drive, #startOrder, fail, release).                   *)
THEOREM RetriesAlwaysResume == AcmeSpec => []RetriesResume
  <1>1. AcmeInv /\ AcmeAccount => RetriesResume
    <2> SUFFICES ASSUME AcmeInv, AcmeAccount PROVE RetriesResume
      OBVIOUS
    <2> DEFINE a == Cardinality(Asking(run))
               u == One(Restart(orders, run))
    <2>1. a \in Nat /\ u \in Nat /\ Len(ca) + a + u <= Len(orders) + (MaxFaults - faults)
      BY FS_CardinalityType DEF AcmeAccount, Account, One
    <2>2. Len(ca) \in Nat /\ Len(orders) \in Nat /\ faults \in Nat /\ MaxFaults \in Nat
      BY AcmeAssumption DEF AcmeInv, AcmeTypes, LedgerFits
    <2> HIDE DEF a, u
    <2> QED
      BY <2>1, <2>2 DEF RetriesResume
  <1>2. AcmeSpec => []AcmeAccount
    BY AcmeInvAlways, AccountInit, AccountStep, PTL DEF AcmeSpec
  <1> QED
    BY <1>1, <1>2, AcmeInvAlways, PTL

===============================================================================
