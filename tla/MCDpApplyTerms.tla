--------------------------- MODULE MCDpApplyTerms ---------------------------
(* Two terms of leadership over the apply path, in one of four plays: one   *)
(* call at a time among faults, with a second leader's operation; two calls *)
(* on one operation and a fault; two calls without faults, with the first   *)
(* leader's operation issued again; and two calls without faults, of a      *)
(* second leader that was promoted while serving and does not wait for its  *)
(* fence.  With two calls only the operation of one leader is cancelled.    *)
EXTENDS MCDpApply

VARIABLES play, target   \* what happens, and whose operation is cancelled

AnyOp == Succession \cup Follow
Busy == {p \in Calls : call[p].pc # "idle"}
FencedFirst == \A op \in started' \ started : agent.max >= op.token
CancelsTheTarget == \A p \in Calls : call'[p].pc = "abort" => call'[p].op.token = target

MCInit ==
  /\ Init
  /\ play \in {"faults", "fault", "follow", "promoted"}
  /\ target \in IF play = "follow" THEN {1, 2} ELSE {1}
MCNext ==
  /\ Next
  /\ CASE play = "faults" ->
            started' \subseteq Succession /\ Cardinality(Busy') <= 1 /\ FencedFirst
       [] play = "fault" ->
            started' \subseteq OneOp /\ faults' + 1 >= MaxFaults /\ agent'.max <= 1 /\ FencedFirst
       [] play = "follow" ->
            started' \subseteq Follow /\ faults' = MaxFaults /\ FencedFirst /\ CancelsTheTarget
       [] play = "promoted" ->
            started' \subseteq Succession /\ faults' = MaxFaults /\ CancelsTheTarget
  /\ UNCHANGED <<play, target>>
MCSpec == MCInit /\ [][MCNext]_<<vars, play, target>>
=============================================================================
