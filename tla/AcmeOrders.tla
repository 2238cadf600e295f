----------------------------- MODULE AcmeOrders -----------------------------
(***************************************************************************)
(* The orders of one ACME certificate: the ledger (control/acme-store.ts), *)
(* the runner that moves one order by one step a tick (acme-runner.ts),    *)
(* the timer that brings what was issued into the configuration            *)
(* (acme-publish.ts) and the scan for challenges left behind.              *)
(*                                                                         *)
(* A step ends at an await: a call of the CA, of the challenge placer or   *)
(* of the database.  A runner's tick goes on when its node has lost the    *)
(* lead, and its lease on the order may run out under it.                  *)
(*                                                                         *)
(* Abstractions.  An order has one authorization, placed where nothing     *)
(* expires by itself (dns-01); accounts are registered.  A material is     *)
(* named by the CA's order that gave it.  A commit of the configuration is *)
(* one step (ConfigStore has it whole), and applying it is left out        *)
(* (ControlPlane).                                                         *)
(***************************************************************************)
EXTENDS Naturals, Sequences

CONSTANTS
  Runners,      \* the processes, each with its AcmeRunner
  Publishers,   \* publish ticks that may be under way at once
  Intents,      \* accounts and domains a certificate may ask for
  None,
  MaxAttempts,  \* MAX_ATTEMPTS
  MaxOrders, MaxFaults, MaxChanges   \* bounds

ASSUME AcmeAssumption ==
  /\ None \notin Runners \cup Intents
  /\ MaxAttempts \in Nat \ {0} /\ {MaxOrders, MaxFaults, MaxChanges} \subseteq Nat

VARIABLES
  leader,   \* the process that leads
  cert,     \* the certificate at the head: its material, 0 without, and intent
  old,      \* the materials whose renewal is due
  orders,   \* acme_orders with their rows of acme_challenges, oldest first
  ca,       \* the CA's orders
  served,   \* the challenges that stand where the CA looks
  run,      \* each process's tick of the runner
  pub,      \* the ticks of the publisher
  sweep,    \* the orphan scan's row in hand
  faults, changes   \* what is left of MaxFaults and MaxChanges

ledger == <<orders, ca, served>>
acmeVars == <<leader, cert, old, orders, ca, served, run, pub, sweep, faults, changes>>

MaxUrls == MaxOrders + MaxFaults
Urls == 1..MaxUrls
LiveStates == {"pending", "validating", "ready", "failed"}   \* LIVE_STATES

NewOrder(intent) ==
  [state |-> "pending", intent |-> intent, url |-> 0, key |-> None, issued |-> 0,
   attempts |-> 0, due |-> TRUE, claimed |-> FALSE,
   token |-> 0, placed |-> FALSE, cleaned |-> FALSE]
NoTick == [pc |-> "idle", order |-> 0, url |-> 0, key |-> None, intent |-> None]
NoPublish == [pc |-> "idle", ref |-> 0, intent |-> None, current |-> FALSE]
NoRow == [order |-> 0, token |-> 0]

AcmeInit ==
  /\ leader \in Runners
  /\ cert \in [material : {0}, intent : Intents] /\ old = {}
  /\ orders = <<>> /\ ca = <<>> /\ served = {}
  /\ run = [r \in Runners |-> NoTick]
  /\ pub = [p \in Publishers |-> NoPublish]
  /\ sweep = NoRow
  /\ faults = MaxFaults /\ changes = MaxChanges

-----------------------------------------------------------------------------
Live == {o \in DOMAIN orders : orders[o].state \in LiveStates}
IssuedOrders == {o \in DOMAIN orders : orders[o].state = "issued"}
(* The newest issued order, and the material it has in the secret store.   *)
LastIssued == CHOOSE o \in IssuedOrders : \A q \in IssuedOrders : q <= o
LatestRef == IF IssuedOrders = {} THEN 0 ELSE orders[LastIssued].issued

(* The certificate needs another material.                                 *)
Wanting == \/ cert.material = 0 \/ cert.material \in old
           \/ ca[cert.material].intent # cert.intent

In(r, pc) == run[r].pc = pc
Goes(r, pc) == run' = [run EXCEPT ![r].pc = pc]
Ends(r) == run' = [run EXCEPT ![r] = NoTick]
Fault == faults > 0 /\ faults' = faults - 1
(* A call took effect; its answer arrives, or the runner sees an error.    *)
Answered(r, pc) ==
  \/ Goes(r, pc) /\ UNCHANGED faults
  \/ Goes(r, "fail") /\ Fault
KeepTheRest == UNCHANGED <<leader, cert, old, pub, sweep, changes>>
(* The order's row; it may be live only while no other is (order_live_uq). *)
MayBe(o, state) == state \in LiveStates => Live \subseteq {o}
Sets(o, row) == orders' = [orders EXCEPT ![o] = row]

-----------------------------------------------------------------------------
(* A tick begins at the leader: scan reads the certificate and its last    *)
(* issued order, and opens one unless one is live.                         *)
IntentChanged ==
  cert.material # 0 /\ IssuedOrders # {} /\ orders[LastIssued].intent # cert.intent
Due == cert.material = 0 \/ cert.material \in old
Ticks(r) ==
  /\ leader = r /\ In(r, "idle")
  /\ run' = [run EXCEPT ![r].pc = IF Due \/ IntentChanged THEN "open" ELSE "claim",
                        ![r].intent = cert.intent]
  /\ UNCHANGED faults /\ UNCHANGED ledger /\ KeepTheRest
(* Room for an order: one the certificate does not need by now, as another *)
(* was issued meanwhile, leaves room for those that will be (bound).       *)
Room ==
  Len(orders) < MaxOrders - (IF Wanting /\ LatestRef \in {0, cert.material} THEN 0
                             ELSE changes + faults)
OpensAnyway(r) ==
  /\ In(r, "open")
  /\ orders' = IF Room THEN Append(orders, NewOrder(run[r].intent)) ELSE orders
  /\ Goes(r, "claim") /\ UNCHANGED <<ca, served, faults>> /\ KeepTheRest
OpensOrder(r) ==
  /\ In(r, "open")
  /\ orders' = IF Live = {} /\ Room THEN Append(orders, NewOrder(run[r].intent)) ELSE orders
  /\ Goes(r, "claim") /\ UNCHANGED <<ca, served, faults>> /\ KeepTheRest

(* claimDue, and what #drive does next with the row as it is now.          *)
ClaimableAnyway == {o \in Live : orders[o].due}
Claimable == {o \in Live : orders[o].due /\ ~orders[o].claimed}
StepOf(row) ==
  CASE row.state = "pending" -> "start"
    [] row.state = "validating" -> "poll"
    [] row.state = "ready" -> IF row.key = None THEN "key" ELSE "finalize"
    [] row.state = "failed" -> IF row.url = 0 THEN "start" ELSE "poll"
ClaimsDue(r) ==
  /\ In(r, "claim")
  /\ \/ /\ Claimable = {} /\ Ends(r) /\ UNCHANGED orders
     \/ \E o \in Claimable :
          /\ Sets(o, [orders[o] EXCEPT !.claimed = TRUE])
          /\ run' = [run EXCEPT ![r] = [pc |-> StepOf(orders[o]), order |-> o,
               url |-> orders[o].url, key |-> orders[o].key, intent |-> orders[o].intent]]
  /\ UNCHANGED <<ca, served, faults>> /\ KeepTheRest

(* #startOrder: newOrder at the CA, whose order is new each time, and then *)
(* recordOrderUrls; until that the row does not know it has one.           *)
StartsOrder(r) ==
  LET u == Len(ca) + 1 IN
  /\ In(r, "start") /\ u <= MaxUrls
  /\ ca' = Append(ca, [status |-> "pending", key |-> None, intent |-> run[r].intent])
  /\ \/ run' = [run EXCEPT ![r].pc = "record", ![r].url = u] /\ UNCHANGED faults
     \/ Goes(r, "fail") /\ Fault   \* the answer is lost, and with it the URL
  /\ UNCHANGED <<orders, served>> /\ KeepTheRest
RecordsUrl(r) ==
  LET o == run[r].order IN
  /\ In(r, "record")
  /\ Sets(o, [orders[o] EXCEPT !.url = run[r].url])
  /\ Goes(r, "put") /\ UNCHANGED <<ca, served, faults>> /\ KeepTheRest
PutsChallenge(r) ==   \* placed_at and cleaned_at stay as they were
  LET o == run[r].order IN
  /\ In(r, "put")
  /\ Sets(o, [orders[o] EXCEPT !.token = run[r].url])
  /\ Goes(r, "place") /\ UNCHANGED <<ca, served, faults>> /\ KeepTheRest
PlacesChallenge(r) ==
  /\ In(r, "place")
  /\ served' = served \cup {run[r].url}
  /\ Answered(r, "mark") /\ UNCHANGED <<orders, ca>> /\ KeepTheRest
MarksPlaced(r) ==
  LET o == run[r].order IN
  /\ In(r, "mark")
  /\ Sets(o, [orders[o] EXCEPT !.placed = TRUE])
  /\ Goes(r, "accept") /\ UNCHANGED <<ca, served, faults>> /\ KeepTheRest
AcceptsChallenge(r) ==
  LET u == run[r].url IN
  /\ In(r, "accept")
  /\ IF ca[u].status = "pending"
     THEN ca' = [ca EXCEPT ![u].status = "accepted"] /\ Answered(r, "validating")
     ELSE ca' = ca /\ Goes(r, "fail") /\ UNCHANGED faults
  /\ UNCHANGED <<orders, served>> /\ KeepTheRest
(* advance, whatever the row says by now.                                  *)
Advances(r, state) ==
  LET o == run[r].order IN
  /\ In(r, state)
  /\ IF MayBe(o, state)
     THEN Sets(o, [orders[o] EXCEPT !.state = state]) /\ Goes(r, "release")
     ELSE orders' = orders /\ Goes(r, "fail")
  /\ UNCHANGED <<ca, served, faults>> /\ KeepTheRest
AdvancesOrder(r) == Advances(r, "validating") \/ Advances(r, "ready")

(* #pollOrder.                                                             *)
PollsOrder(r) ==
  LET status == ca[run[r].url].status IN
  /\ In(r, "poll")
  /\ Goes(r, CASE status = "invalid" -> "fail"
               [] status \in {"ready", "valid"} -> "ready"
               [] status \in {"pending", "accepted"} -> "release")
  /\ UNCHANGED <<ledger, faults>> /\ KeepTheRest

(* #finalize: the key first, then the CSR; a certificate that is not the   *)
(* key's is refused here (inspectMaterial).                                *)
MakesKey(r) ==
  LET o == run[r].order IN
  /\ In(r, "key")
  /\ Sets(o, [orders[o] EXCEPT !.key = r])
  /\ run' = [run EXCEPT ![r].pc = "finalize", ![r].key = r]
  /\ UNCHANGED <<ca, served, faults>> /\ KeepTheRest
FinalizesOrder(r) ==
  LET u == run[r].url IN
  /\ In(r, "finalize")
  /\ \/ /\ ca[u].status = "ready"
        /\ ca' = [ca EXCEPT ![u].status = "valid", ![u].key = run[r].key]
        /\ Answered(r, "issue")
     \/ /\ ca[u].status = "valid" /\ ca[u].key = run[r].key   \* a CA that answers again
        /\ ca' = ca /\ Goes(r, "issue") /\ UNCHANGED faults
     \/ /\ ca[u].status # "ready"   \* orderNotReady, or not the key's
        /\ ca' = ca /\ Goes(r, "fail") /\ UNCHANGED faults
  /\ UNCHANGED <<orders, served>> /\ KeepTheRest
MarksIssued(r) ==
  LET o == run[r].order IN
  /\ In(r, "issue")
  /\ Sets(o, [orders[o] EXCEPT !.state = "issued", !.issued = run[r].url,
                               !.key = run[r].key, !.claimed = FALSE])
  /\ Goes(r, "clean_issued") /\ UNCHANGED <<ca, served, faults>> /\ KeepTheRest
(* release does not ask who holds the order.                               *)
Releases(r) ==
  /\ In(r, "release")
  /\ Sets(run[r].order, [orders[run[r].order] EXCEPT !.claimed = FALSE])
  /\ Ends(r) /\ UNCHANGED <<ca, served, faults>> /\ KeepTheRest
(* fail, whatever the row says by now: a backoff, or it is given up.  The  *)
(* tick itself fails where the row may not come back to life.              *)
FailsOrder(r) ==
  LET o == run[r].order
      state == IF orders[o].attempts + 1 >= MaxAttempts THEN "abandoned" ELSE "failed"
  IN
  /\ In(r, "fail")
  /\ IF MayBe(o, state)
     THEN /\ Sets(o, [orders[o] EXCEPT !.state = state, !.attempts = @ + 1,
                                       !.due = FALSE, !.claimed = FALSE])
          /\ Goes(r, "clean")
     ELSE orders' = orders /\ Ends(r)
  /\ UNCHANGED <<ca, served, faults>> /\ KeepTheRest
(* cleanupOrder: the row that was placed is removed, then marked.          *)
Uncleaned(o) == orders[o].placed /\ ~orders[o].cleaned
RemovesChallenge(r) ==
  LET o == run[r].order IN
  /\ In(r, "clean") \/ In(r, "clean_issued")
  /\ IF Uncleaned(o) THEN served' = served \ {orders[o].token} /\ Goes(r, "cleaned")
                     ELSE served' = served /\ Ends(r)
  /\ UNCHANGED <<orders, ca, faults>> /\ KeepTheRest
MarksCleaned(r) ==
  LET o == run[r].order IN
  /\ In(r, "cleaned")
  /\ Sets(o, [orders[o] EXCEPT !.cleaned = TRUE])
  /\ Ends(r) /\ UNCHANGED <<ca, served, faults>> /\ KeepTheRest

(* An await throws.  Inside step's try the order fails, and a URL that is  *)
(* not recorded yet is lost; the scan, the claim, fail itself and the      *)
(* cleaning only end the tick.                                             *)
EndsTheTick == {"open", "claim", "fail", "clean", "cleaned"}
Throws(r) ==
  /\ ~In(r, "idle") /\ Fault
  /\ IF run[r].pc \in EndsTheTick
     THEN Ends(r)
     ELSE run' = [run EXCEPT ![r].pc = "fail", ![r].url = 0]
  /\ UNCHANGED ledger /\ KeepTheRest
Crashes(r) ==
  /\ ~In(r, "idle") /\ Fault
  /\ Ends(r) /\ UNCHANGED ledger /\ KeepTheRest
RunnerSteps(r) ==
  \/ Ticks(r) \/ OpensOrder(r) \/ ClaimsDue(r)
  \/ StartsOrder(r) \/ RecordsUrl(r)
  \/ PutsChallenge(r) \/ PlacesChallenge(r) \/ MarksPlaced(r) \/ AcceptsChallenge(r)
  \/ AdvancesOrder(r) \/ PollsOrder(r)
  \/ MakesKey(r) \/ FinalizesOrder(r) \/ MarksIssued(r) \/ Releases(r)
  \/ FailsOrder(r) \/ RemovesChallenge(r) \/ MarksCleaned(r)

(* Time: a lease runs out, under a driver that is too slow or after one    *)
(* that is gone; a backoff ends.                                           *)
Driven(o) == \E r \in Runners : run[r].order = o /\ run[r].pc \notin {"clean", "cleaned"}
LeaseRunsOut(o) ==
  /\ o \in Live /\ orders[o].claimed
  /\ IF Driven(o) THEN Fault ELSE UNCHANGED faults
  /\ Sets(o, [orders[o] EXCEPT !.claimed = FALSE])
  /\ UNCHANGED <<ca, served, run>> /\ KeepTheRest
BackoffEnds(o) ==
  /\ o \in Live /\ ~orders[o].due
  /\ Sets(o, [orders[o] EXCEPT !.due = TRUE])
  /\ UNCHANGED <<ca, served, run, faults>> /\ KeepTheRest
Succeeds(r) ==
  /\ leader # r /\ leader' = r
  /\ UNCHANGED <<cert, old, ledger, run, pub, sweep, faults, changes>>

-----------------------------------------------------------------------------
(* The CA (RFC 8555): it looks for an accepted challenge, and drops an     *)
(* order whose challenge was never accepted, after days; before the runner *)
(* that opened it is through with it, that is a fault.                      *)
Starting(r) == run[r].pc \in {"record", "put", "place", "mark", "accept"}
Validates(u) ==
  /\ u \in DOMAIN ca /\ ca[u].status = "accepted"
  /\ ca' = [ca EXCEPT ![u].status = IF u \in served THEN "ready" ELSE "invalid"]
  /\ UNCHANGED <<orders, served, run, faults>> /\ KeepTheRest
Expires(u) ==
  /\ u \in DOMAIN ca /\ ca[u].status = "pending"
  /\ ca' = [ca EXCEPT ![u].status = "invalid"]
  /\ IF \E r \in Runners : run[r].url = u /\ Starting(r) THEN Fault ELSE UNCHANGED faults
  /\ UNCHANGED <<orders, served, run>> /\ KeepTheRest

-----------------------------------------------------------------------------
(* publishIssued: the newest issued order is chosen, then compared; then   *)
(* a changeset on the head, refused when the head has moved.               *)
UnpublishedOfAny ==   \* compared first, then chosen
  {orders[o].issued : o \in IssuedOrders} \ {cert.material}
Unpublished == IF LatestRef \in {0, cert.material} THEN {} ELSE {LatestRef}
Publishing(p, c) == pub' = [pub EXCEPT ![p] = c]
HeadMoves(c) ==   \* and every changeset built on it is out of date
  /\ cert' = c
  /\ pub' = [p \in Publishers |-> [pub[p] EXCEPT !.current = FALSE]]
FindsUnpublished(p) ==
  /\ pub[p].pc = "idle"
  /\ \E ref \in Unpublished : Publishing(p, [NoPublish EXCEPT !.pc = "head", !.ref = ref])
  /\ UNCHANGED <<leader, cert, old, ledger, run, sweep, faults, changes>>
ReadsHead(p) ==
  /\ pub[p].pc = "head"
  /\ Publishing(p, [pub[p] EXCEPT !.pc = "commit", !.intent = cert.intent, !.current = TRUE])
  /\ UNCHANGED <<leader, cert, old, ledger, run, sweep, faults, changes>>
Commits(p) ==
  /\ pub[p].pc = "commit"
  /\ IF pub[p].current
     THEN /\ cert' = [material |-> pub[p].ref, intent |-> pub[p].intent]
          /\ pub' = [q \in Publishers |-> IF q = p THEN NoPublish
                                          ELSE [pub[q] EXCEPT !.current = FALSE]]
     ELSE cert' = cert /\ Publishing(p, NoPublish)
  /\ UNCHANGED <<leader, old, ledger, run, sweep, faults, changes>>
PublishFails(p) ==
  /\ pub[p].pc # "idle" /\ Fault
  /\ Publishing(p, NoPublish)
  /\ UNCHANGED <<leader, cert, old, ledger, run, sweep, changes>>
PublisherSteps(p) == FindsUnpublished(p) \/ ReadsHead(p) \/ Commits(p)

-----------------------------------------------------------------------------
(* The orphan scan: challenges that were placed and not cleaned, of orders *)
(* that are over, or that have stood for long.                             *)
Over(o) == orders[o].state \in {"issued", "abandoned"}
FindsOrphanOfAbandoned ==
  /\ sweep = NoRow
  /\ \E o \in DOMAIN orders :
       /\ Uncleaned(o)
       /\ IF orders[o].state = "abandoned" THEN UNCHANGED faults ELSE Fault
       /\ sweep' = [order |-> o, token |-> orders[o].token]
  /\ UNCHANGED <<leader, cert, old, ledger, run, pub, changes>>
FindsOrphan ==
  /\ sweep = NoRow
  /\ \E o \in DOMAIN orders :
       /\ Uncleaned(o)
       /\ IF Over(o) THEN UNCHANGED faults ELSE Fault
       /\ sweep' = [order |-> o, token |-> orders[o].token]
  /\ UNCHANGED <<leader, cert, old, ledger, run, pub, changes>>
SweepsOrphan ==
  /\ sweep # NoRow /\ sweep' = NoRow
  /\ \/ /\ served' = served \ {sweep.token}
        /\ Sets(sweep.order, [orders[sweep.order] EXCEPT !.cleaned = TRUE])
        /\ UNCHANGED faults
     \/ Fault /\ UNCHANGED <<served, orders>>   \* not removed, or removed unseen
     \/ Fault /\ served' = served \ {sweep.token} /\ UNCHANGED orders
  /\ UNCHANGED <<leader, cert, old, ca, run, pub, changes>>

(* The certificate asks for something else, its material comes near its    *)
(* end, or a rollback brings an earlier material and its intent back.      *)
Change == changes > 0 /\ changes' = changes - 1
AsksForOther ==
  /\ Change
  /\ \E i \in Intents \ {cert.intent} : HeadMoves([cert EXCEPT !.intent = i])
  /\ UNCHANGED <<leader, old, ledger, run, sweep, faults>>
Ages ==
  /\ Change /\ cert.material \notin old \cup {0}
  /\ old' = old \cup {cert.material}
  /\ UNCHANGED <<leader, cert, ledger, run, pub, sweep, faults>>
RollsBack ==
  /\ Change
  /\ \E u \in DOMAIN ca : /\ ca[u].status = "valid" /\ u # cert.material
                          /\ HeadMoves([material |-> u, intent |-> ca[u].intent])
  /\ UNCHANGED <<leader, old, ledger, run, sweep, faults>>

AcmeNext ==
  \/ \E r \in Runners : RunnerSteps(r) \/ Throws(r) \/ Crashes(r) \/ Succeeds(r)
  \/ \E o \in DOMAIN orders : LeaseRunsOut(o) \/ BackoffEnds(o)
  \/ \E u \in DOMAIN ca : Validates(u) \/ Expires(u)
  \/ \E p \in Publishers : PublisherSteps(p) \/ PublishFails(p)
  \/ FindsOrphan \/ SweepsOrphan
  \/ AsksForOther \/ Ages \/ RollsBack

(* The timers of the process that leads, a runner that goes on once begun, *)
(* time, and a CA that answers in the end.                                 *)
Fairness ==
  /\ \A r \in Runners : WF_acmeVars(RunnerSteps(r))
  /\ \A p \in Publishers : WF_acmeVars(PublisherSteps(p))
  /\ WF_acmeVars(\E o \in DOMAIN orders : BackoffEnds(o) \/ (~Driven(o) /\ LeaseRunsOut(o)))
  /\ WF_acmeVars(\E u \in DOMAIN ca : Validates(u) \/ Expires(u))
  /\ WF_acmeVars(\E o \in DOMAIN orders : Over(o) /\ FindsOrphan)
  /\ WF_acmeVars(SweepsOrphan)

AcmeSpec == AcmeInit /\ [][AcmeNext]_acmeVars /\ Fairness
-----------------------------------------------------------------------------
OrderRows ==
  [state : LiveStates \cup {"issued", "abandoned"}, intent : Intents, url : 0..MaxUrls,
   key : Runners \cup {None}, issued : 0..MaxUrls, attempts : Nat, due : BOOLEAN,
   claimed : BOOLEAN, token : 0..MaxUrls, placed : BOOLEAN, cleaned : BOOLEAN]
CaOrders == [status : {"pending", "accepted", "ready", "valid", "invalid"},
             key : Runners \cup {None}, intent : Intents]
(* Every variable keeps its type, and the ledger its constraints           *)
(* (009_acme.sql): one live order, a claim on a live one only, a material  *)
(* and a key with an issued one, nothing cleaned that was not placed.      *)
AcmeTypeOK ==
  /\ leader \in Runners /\ cert \in [material : 0..MaxUrls, intent : Intents]
  /\ orders \in Seq(OrderRows) /\ ca \in Seq(CaOrders)
  /\ old \subseteq Urls /\ served \subseteq Urls
  /\ \A o \in DOMAIN orders :
       /\ Live \subseteq {o} \/ o \notin Live
       /\ orders[o].claimed => o \in Live
       /\ orders[o].state = "issued" => orders[o].issued # 0 /\ orders[o].key # None
       /\ orders[o].cleaned => orders[o].placed

(* The CA is asked for one order for each row of the ledger; only a fault  *)
(* makes it one more.  A retry goes on where the CA stands, and a new      *)
(* leader and the one before it do not both open it (claimDue, #drive).    *)
RetriesResume == Len(ca) <= Len(orders) + (MaxFaults - faults)

(* A certificate that has no material, or whose material is near its end   *)
(* or was given for another intent, gets one that is not, and the head     *)
(* comes to rest on what was issued last: publish ticks that overlap, and  *)
(* rollbacks, do not make two materials take turns.                        *)
RenewalsReachTheHead ==
  /\ Wanting ~> ~Wanting
  /\ <>[](LatestRef \in {0, cert.material})

(* A challenge that is noted as placed, and not as cleaned, does not stay  *)
(* where the CA looks once its order is over and no runner is still at it, *)
(* though the one that placed it is gone (cleanupOrder, the orphan scan).  *)
Cleaning == {"clean_issued", "clean", "cleaned"}
LeftBehind ==
  {o \in DOMAIN orders :
     /\ Over(o) /\ Uncleaned(o) /\ orders[o].token \in served
     /\ \A r \in Runners : run[r].order = o => run[r].pc \in Cleaning}
PlacedChallengesAreRemoved == LeftBehind # {} ~> LeftBehind = {}
=============================================================================
