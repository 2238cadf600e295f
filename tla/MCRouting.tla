------------------------------ MODULE MCRouting ------------------------------
(* Small instances of Routing.  Three plays: one leader with every kind of  *)
(* call; two that lead in turn, once each, and probe; and a leader and a    *)
(* follower, with verdicts left as they are.                                *)
EXTENDS Routing

CONSTANTS n1, n2, b1, b2, Plays
VARIABLE play

InOrder == <<b1, b2>>
MCInit == RoutingInit /\ leader = n1 /\ play \in Plays

Idle(n) == prober[n].pc = "idle" /\ \A k \in Kinds : At(n, k, "idle")
Probed(last) == \A n \in Nodes : prober'[n].next <= last + 1
Without(kinds) == \A n \in Nodes, k \in kinds : At(n, k, "idle")'
SweepsOf(targets) ==
  \A n \in Nodes : prober[n].pc = "idle" =>
    {prober'[n].runs[i].b : i \in DOMAIN prober'[n].runs} \in {{}, targets}
OneTermEach == leader' = n1 => leader = n1
Allowed ==
  CASE play = "projections" ->
         /\ UNCHANGED <<head, leader>> /\ faults' > 0 /\ Probed(2) /\ Idle(n2)' /\ SweepsOf({b1})
         /\ b1 \notin draining' /\ up'[b2]
         /\ engine'[n2] = engine[n2] /\ shown'[n1] # 0
    [] play = "terms" ->
         /\ UNCHANGED <<head, draining, faults, pending>> /\ Probed(4)
         /\ Without({"tick", "boot"}) /\ OneTermEach /\ SweepsOf(Backends)
    [] play = "follower" ->
         /\ UNCHANGED <<up, draining>> /\ Probed(0) /\ OneTermEach
         /\ b1 \in head' /\ version' <= 2
         /\ leader' \notin {leader, n2} => faults' # faults
MCNext == RoutingNext /\ Allowed /\ UNCHANGED play
MCSpec == MCInit /\ [][MCNext]_<<routingVars, play>>
FairMCSpec == MCSpec /\ Fairness
=============================================================================
