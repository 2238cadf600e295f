-------------------------- MODULE MCControlPlane --------------------------
(* Small instances of ControlPlane, from the first revision on: it was      *)
(* applied by the first leader, and every node serves it.                   *)
EXTENDS ControlPlane

CONSTANTS n1, n2, c1, c2, Plays
VARIABLE play

BothPlanes == {"http", "stream"}
HttpFirst == <<"http", "stream">>

ServesFirst ==
  [max |-> 1, pos |-> [p \in Planes |-> [epoch |-> 1, rev |-> 0]], pub |-> 1,
   dirs |-> <<[gen |-> 1, rev |-> 1, health |-> 0]>>, ended |-> {<<1, 1>>}, aborted |-> {},
   job |-> [row |-> 1, token |-> 1, epoch |-> 1, gen |-> 1, phase |-> "activated",
            exp |-> [p \in Planes |-> [epoch |-> 0, rev |-> 0]]]]
FirstRow ==
  [plan |-> 1, rev |-> 1, epoch |-> 1, gen |-> 1, token |-> 1, planes |-> Planes,
   phase |-> "activated", by |-> n1, cancelled |-> {}, misread |-> FALSE]
FirstApplied ==
  /\ revs = <<CHOOSE conf \in Confs : TRUE>>   \* they are alike
  /\ plans = <<[rev |-> 1, state |-> "applied"]>> /\ rows = <<FirstRow>>
  /\ lastToken = 1 /\ health = 0
  /\ leads = [n \in Nodes |-> IF n = n1 THEN 1 ELSE 0]
  /\ dp = [n \in Nodes |-> ServesFirst]
  /\ seen = [n \in Nodes |-> {}]
  /\ call = [c \in Calls \cup Nodes |-> Idle] /\ faults = MaxFaults

(* Five plays: one leader with two requests at once, that are applies and   *)
(* cancels, or also recovers, with a fault more; two nodes that both lead,  *)
(* as the first does not know yet that it is deposed; one node whose term   *)
(* ends and begins again, with one request at a time; or a cluster whose    *)
(* leader may change, which applies one plan at a time.                     *)
MCInit == FirstApplied /\ play \in Plays
Alone(n) == \A m \in Nodes \ {n} : dp'[m] = dp[m] /\ call'[m] = Idle /\ leads'[m] = 0
OneAtATime == \A c \in Calls \ {c1} : call'[c] = Idle
InTurn == (At(c2, "idle") /\ ~At(c2, "idle")') => ~At(c1, "idle")   \* c1, c2 are alike
OnlyKinds(kinds) == \A c \in Calls : call'[c].kind \in {"none"} \cup kinds
Allowed ==
  CASE play = "requests" ->
         /\ Alone(n1) /\ UNCHANGED <<leads, health>> /\ faults' > 0
         /\ OnlyKinds({"apply", "members", "cancel"})
         /\ InTurn
    [] play = "recovers" ->
         /\ Alone(n1) /\ UNCHANGED <<leads, health>>
         /\ OnlyKinds({"apply", "cancel", "recover"}) /\ InTurn
    [] play = "rivals" ->
         /\ UNCHANGED <<health, faults>> /\ Len(plans') < MaxPlan
         /\ OnlyKinds({"apply", "cancel", "recover"}) /\ InTurn
         /\ \A n \in Nodes : call'[n] = Idle
    [] play = "terms" -> Alone(n1) /\ OneAtATime /\ UNCHANGED health /\ faults' > 0
    [] OTHER ->
            /\ OneAtATime /\ OnlyKinds({"apply", "members"})
            /\ Len(plans') + health' <= MaxPlan
            /\ faults' > 0 \/ Len(plans') < MaxPlan   \* two faults, or two plans
            /\ faults' = faults => \A n \in Nodes : leads[n] = lastToken => leads'[n] # 0
MCNext ==
  /\ Next
  /\ UNCHANGED play
  /\ \A c \in Calls : (At(c, "idle") /\ ~At(c, "idle")') => leads[call'[c].node] # 0
  /\ Allowed
MCSpec == MCInit /\ [][MCNext]_<<cpVars, play>>
FairMCSpec == MCSpec /\ Fairness
=============================================================================
