---------------------------- MODULE MCAcmeOrders ----------------------------
(* A small instance of AcmeOrders, in two plays: two that lead in turn and  *)
(* a fault, for the first material; and one runner without faults, with     *)
(* overlapping publish ticks, while the certificate changes.                *)
EXTENDS AcmeOrders

CONSTANTS r1, r2, p1, p2, i1, i2
VARIABLE play

MCInit == AcmeInit /\ leader = r1 /\ cert.intent = i1 /\ play \in {"runners", "publishing"}
Allowed ==
  CASE play = "runners" ->
         /\ changes' = MaxChanges /\ pub'[p2].pc = "idle"
         /\ leader' # leader => leader = r1 /\ run[r1].order # 0
    [] play = "publishing" -> faults' = MaxFaults /\ sweep' = NoRow /\ leader' = r1
MCNext == AcmeNext /\ Allowed /\ UNCHANGED play
MCSpec == MCInit /\ [][MCNext]_<<acmeVars, play>>
MCFairSpec == MCSpec /\ Fairness
=============================================================================
