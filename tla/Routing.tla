------------------------------- MODULE Routing -------------------------------
(***************************************************************************)
(* Which backends each node's engine sends traffic to: the eligible ones   *)
(* (not unhealthy, not draining) are computed from the database and pushed *)
(* into the engine's shared dict, by a call that reads where the engine    *)
(* stands, then what is eligible, then pushes (ControlPlane.projectHealth, *)
(* restageMembership).  The leader projects after a change of its own      *)
(* prober's verdicts, a drain, an activation and its start; the others on  *)
(* every tick of the cluster.                                              *)
(*                                                                         *)
(* Abstractions.  One plane and one pool, routed: its slots are the set of *)
(* peers (weights, attributes and discovered endpoints are left out).  The *)
(* head, the verdicts and the drains are read at once.  The apply path is  *)
(* its stages as they touch slots; DpApply and ControlPlane have it whole. *)
(***************************************************************************)
EXTENDS HealthProber

CONSTANTS MaxEpoch, MaxChange, MaxFaults   \* bounds

ASSUME RoutingAssumption == MaxEpoch \in Nat \ {0} /\ {MaxChange, MaxFaults} \subseteq Nat

VARIABLES
  draining,  \* backend_drain
  pending,   \* the head has been edited since it was last applied
  issued,    \* the last activation epoch a plan was given
  active,    \* the epoch of the active operation's row
  engine,    \* each node's nginx: the epoch it serves, and its dict's slots
  call,      \* each node's calls under way, one of a kind
  faults,    \* what is left of MaxFaults
  version,   \* how often the eligible set has changed
  shown,     \* the version each engine's slots were computed from
  due        \* the version each engine is known to lack, if above `shown`

slotVars == <<issued, active, engine, call>>
ghosts == <<version, shown, due>>
routingVars == <<proberVars, draining, pending, slotVars, faults, ghosts>>

Epochs == 1..MaxEpoch
Kinds == {"flips", "drain", "apply", "tick", "boot"}
NoCall == [pc |-> "idle", epoch |-> 1, slots |-> {}, version |-> 0]
CallStates == [pc : {"idle", "epoch", "eligible", "push", "stage", "activate"},
               epoch : Epochs, slots : SUBSET Backends, version : Nat]

RoutingInit ==
  /\ ProberInit
  /\ draining = {} /\ pending = FALSE /\ issued = 1 /\ active = 1
  /\ engine = [n \in Nodes |->
       [epoch |-> 1, slots |-> [e \in Epochs |-> IF e = 1 THEN Backends ELSE {}]]]
  /\ call = [n \in Nodes |-> [k \in Kinds |-> NoCall]]
  /\ faults = MaxFaults
  /\ version = 1 /\ shown = [n \in Nodes |-> 1] /\ due = [n \in Nodes |-> 1]

-----------------------------------------------------------------------------
(* The single reducer: the head's backends but the unhealthy and drained.  *)
Eligible == {b \in head : StateOf(b) # "unhealthy" /\ b \notin draining}
Served(n) == engine[n].slots[engine[n].epoch]

At(n, k, pc) == call[n][k].pc = pc
Quiet(n) == ~prober[n].flipped /\ prober[n].pc # "projecting" /\ \A k \in Kinds : At(n, k, "idle")

Later(x, y) == IF x < y THEN y ELSE x
(* The eligible set may have changed, and the nodes outside `told` do not  *)
(* hear of it.                                                             *)
Counted(told) ==
  /\ version' = IF Eligible' # Eligible THEN version + 1 ELSE version
  /\ due' = [n \in Nodes |-> IF n \in told THEN due[n] ELSE Later(due[n], version')]
(* Node n's engine may lack what is eligible now.                          *)
Lacks(n) == due' = [due EXCEPT ![n] = Later(@, version)]
(* Its slots are those of version v.                                       *)
Shows(n, v) ==
  /\ shown' = [shown EXCEPT ![n] = v]
  /\ due' = [due EXCEPT ![n] = Later(@, v)]

-----------------------------------------------------------------------------
(* projectHealth: the engine's epoch is read, then what is eligible, then  *)
(* the slots are pushed to that epoch, if it still serves or not.          *)
ReadsEpoch(n, k) ==
  /\ At(n, k, "epoch")
  /\ call' = [call EXCEPT ![n][k].pc = "eligible", ![n][k].epoch = engine[n].epoch]
  /\ UNCHANGED <<proberVars, draining, pending, issued, active, engine, faults, ghosts>>
ReadsEligible(n, k) ==
  /\ At(n, k, "eligible")
  /\ call' = [call EXCEPT ![n][k].pc = "push", ![n][k].slots = Eligible,
                          ![n][k].version = version]
  /\ UNCHANGED <<proberVars, draining, pending, issued, active, engine, faults, ghosts>>
Pushes(n, k) ==
  LET r == call[n][k] IN
  /\ At(n, k, "push")
  /\ engine' = [engine EXCEPT ![n].slots[r.epoch] = r.slots]
  /\ IF r.epoch = engine[n].epoch THEN Shows(n, r.version) ELSE UNCHANGED <<shown, due>>
  /\ call' = [call EXCEPT ![n][k] = NoCall]
  /\ IF k = "flips" THEN ChangeHandled(n) ELSE UNCHANGED proberVars
  /\ UNCHANGED <<draining, pending, issued, active, faults, version>>
(* A query or the admin socket fails: the error is logged or answered, and *)
(* nobody tries again.                                                     *)
Fails(n, k) ==
  /\ faults > 0 /\ faults' = faults - 1 /\ ~At(n, k, "idle")
  /\ call' = [call EXCEPT ![n][k] = NoCall] /\ Lacks(n)
  /\ IF k = "flips" THEN ChangeHandled(n) ELSE UNCHANGED proberVars
  /\ UNCHANGED <<draining, pending, issued, active, engine, version, shown>>
(* A call that has computed what is eligible, for an epoch.                *)
Computed(pc, epoch) ==
  [pc |-> pc, epoch |-> epoch, slots |-> Eligible, version |-> version]
Projects(n, k) == ReadsEpoch(n, k) \/ ReadsEligible(n, k) \/ Pushes(n, k)
Projecting == [NoCall EXCEPT !.pc = "epoch"]

-----------------------------------------------------------------------------
(* An apply at the leader: the slots are computed with the generation (or  *)
(* for the change of the membership alone, which is pushed to the epoch    *)
(* that serves), staged under the new epoch, served by its activation, and *)
(* projected again.                                                        *)
Applies(n) ==
  /\ leader = n /\ pending /\ At(n, "apply", "idle")
  /\ pending' = FALSE
  /\ \/ /\ issued < MaxEpoch /\ issued' = issued + 1
        /\ call' = [call EXCEPT ![n]["apply"] = Computed("stage", issued')]
     \/ /\ issued' = issued
        /\ call' = [call EXCEPT ![n]["apply"] = Computed("push", engine[n].epoch)]
  /\ UNCHANGED <<proberVars, draining, active, engine, faults, ghosts>>

(* A tick of a node that does not lead: it projects, or it takes its engine*)
(* to the active epoch first (followActive).                               *)
TicksToFollow(n) ==   \* and nothing in sync
  /\ leader # n /\ At(n, "tick", "idle") /\ engine[n].epoch # active
  /\ call' = [call EXCEPT ![n]["tick"] = Computed("stage", active)]
  /\ UNCHANGED <<proberVars, draining, pending, issued, active, engine, faults, ghosts>>
Ticks(n) ==
  /\ leader # n /\ At(n, "tick", "idle")
  /\ call' = [call EXCEPT ![n]["tick"] =
       IF engine[n].epoch = active THEN Projecting ELSE Computed("stage", active)]
  /\ UNCHANGED <<proberVars, draining, pending, issued, active, engine, faults, ghosts>>

Stages(n, k) ==
  LET r == call[n][k] IN
  /\ At(n, k, "stage")
  /\ engine' = [engine EXCEPT ![n].slots[r.epoch] = r.slots]
  /\ call' = [call EXCEPT ![n][k].pc = "activate"]
  /\ UNCHANGED <<proberVars, draining, pending, issued, active, faults, ghosts>>
(* What follows an activation.                                             *)
OnlyActivates == NoCall   \* and leaves the slots as staged
ThenProjects == Projecting
Activates(n, k) ==
  LET r == call[n][k] IN
  /\ At(n, k, "activate")
  /\ IF r.epoch > engine[n].epoch
     THEN /\ engine' = [engine EXCEPT ![n].epoch = r.epoch]
          /\ Shows(n, IF engine[n].slots[r.epoch] = r.slots THEN r.version ELSE 0)
          /\ active' = Later(active, r.epoch)
          /\ call' = [call EXCEPT ![n][k] = ThenProjects]
     ELSE /\ call' = [call EXCEPT ![n][k] = NoCall]   \* epoch_not_monotonic
          /\ UNCHANGED <<active, engine, shown, due>>
  /\ UNCHANGED <<proberVars, draining, pending, issued, faults, version>>

-----------------------------------------------------------------------------
(* A drain is started or ended at the leader, which then projects.         *)
Drains(n, b) ==
  /\ leader = n /\ b \in head /\ At(n, "drain", "idle") /\ version < MaxChange
  /\ draining' = IF b \in draining THEN draining \ {b} ELSE draining \cup {b}
  /\ call' = [call EXCEPT ![n]["drain"] = Projecting]
  /\ UNCHANGED <<proberVars, pending, issued, active, engine, faults, shown>>
  /\ Counted({n})

(* A commit adds a backend, or removes one with its drain, or is about     *)
(* something else.                                                         *)
Edits(b) ==
  /\ version < MaxChange
  /\ Adds(b) \/ Removes(b)
  /\ draining' = draining \ {b} /\ pending' = TRUE
  /\ UNCHANGED <<slotVars, faults, shown>>
  /\ Counted(Nodes)
EditsElsewhere ==
  /\ version < MaxChange /\ ~pending /\ pending' = TRUE
  /\ UNCHANGED <<proberVars, draining, slotVars, faults, ghosts>>

(* The prober's steps, those that matter here.                             *)
BackendTurns(b) ==
  /\ version < MaxChange /\ Turns(b)
  /\ UNCHANGED <<draining, pending, slotVars, faults, ghosts>>
Probing(n) ==
  /\ \/ \E places \in Targets : SweepStarts(n, places)
     \/ \E i \in DOMAIN prober[n].runs : Answers(n, i)
     \/ Answered(n)
  /\ UNCHANGED <<draining, pending, slotVars, faults, ghosts>>
Writes(n) ==
  /\ WritesResult(n)
  /\ UNCHANGED <<draining, pending, slotVars, faults, shown>>
  /\ Counted({n})
EndsSweep(n) ==
  /\ SweepEnds(n)
  /\ call' = IF prober[n].flipped THEN [call EXCEPT ![n]["flips"] = Projecting] ELSE call
  /\ UNCHANGED <<draining, pending, issued, active, engine, faults, ghosts>>
FailsSweep(n) ==
  /\ faults > 0 /\ faults' = faults - 1
  /\ SweepFails(n) /\ Lacks(n)
  /\ UNCHANGED <<draining, pending, slotVars, version, shown>>

-----------------------------------------------------------------------------
(* A promotion while serving does not project.                             *)
Promoted(n) ==
  /\ Leads(n) /\ Lacks(n)
  /\ UNCHANGED <<draining, pending, slotVars, faults, version, shown>>
(* A process that leads from its start projects then (restageMembership).  *)
Boots(n) ==
  /\ Leads(n) /\ prober[n] = Fresh /\ \A k \in Kinds : At(n, k, "idle")
  /\ call' = [call EXCEPT ![n]["boot"] = Projecting]
  /\ UNCHANGED <<draining, pending, issued, active, engine, faults, ghosts>>
Demoted ==
  /\ Yields
  /\ UNCHANGED <<draining, pending, slotVars, faults, ghosts>>
Crashes(n) ==
  /\ faults > 0 /\ faults' = faults - 1
  /\ Dies(n) /\ Lacks(n)
  /\ call' = [call EXCEPT ![n] = [k \in Kinds |-> NoCall]]
  /\ UNCHANGED <<draining, pending, issued, active, engine, version, shown>>
(* nginx starts again on what is published, with an empty dict.            *)
EngineRestarts(n) ==
  /\ faults > 0 /\ faults' = faults - 1
  /\ engine' = [engine EXCEPT ![n].slots = [e \in Epochs |-> {}]]
  /\ shown' = [shown EXCEPT ![n] = 0]
  /\ UNCHANGED <<proberVars, draining, pending, issued, active, call, version, due>>

Goes(n, k) == Projects(n, k) \/ Stages(n, k) \/ Activates(n, k)
Sweeps(n) == Probing(n) \/ Writes(n) \/ EndsSweep(n)
RoutingNext ==
  \/ \E n \in Nodes :
       \/ \E k \in Kinds : Goes(n, k) \/ Fails(n, k)
       \/ Applies(n) \/ Ticks(n) \/ Sweeps(n) \/ FailsSweep(n)
       \/ \E b \in Backends : Drains(n, b)
       \/ Promoted(n) \/ Boots(n) \/ Crashes(n) \/ EngineRestarts(n)
  \/ Demoted \/ EditsElsewhere
  \/ \E b \in Backends : Edits(b) \/ BackendTurns(b)
RoutingSpec == RoutingInit /\ [][RoutingNext]_routingVars

(* The cluster's timer ticks and its calls go on; the rest comes or not.   *)
Fairness ==
  \A n \in Nodes : WF_routingVars(Ticks(n)) /\ WF_routingVars(Goes(n, "tick"))
FairRoutingSpec == RoutingSpec /\ Fairness
-----------------------------------------------------------------------------
RoutingTypeOK ==
  /\ ProberTypeOK /\ draining \subseteq Backends /\ pending \in BOOLEAN
  /\ issued \in Epochs /\ active \in 1..issued /\ faults \in 0..MaxFaults
  /\ engine \in [Nodes -> [epoch : 1..issued, slots : [Epochs -> SUBSET Backends]]]
  /\ call \in [Nodes -> [Kinds -> CallStates]]
  /\ version \in Nat /\ shown \in [Nodes -> 0..version] /\ due \in [Nodes -> 0..version]

(* The leader's engine sends traffic to the eligible backends and no other *)
(* once its calls are done and nothing failed: every change that it makes  *)
(* is followed by a projection that reads it (plane.ts:477-516, 745;       *)
(* barycenterd.ts:1024).                                                   *)
LeaderServesTheEligible ==
  \A n \in Nodes :
    leader = n /\ ~pending /\ Quiet(n) /\ shown[n] >= due[n] => Served(n) = Eligible

(* A node that does not lead comes to serve the active epoch with what is  *)
(* eligible, again and again, whatever failed before (cluster.ts:61).      *)
FollowersServeTheEligible ==
  \A n \in Nodes : []<>(leader = n \/ (engine[n].epoch = active /\ Served(n) = Eligible))
=============================================================================
