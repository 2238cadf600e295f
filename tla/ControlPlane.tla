---------------------------- MODULE ControlPlane ----------------------------
(***************************************************************************)
(* The control plane (control/plane.ts) and the cluster's followers        *)
(* (control/cluster.ts): how committed plans become operations, what the   *)
(* operations' rows say of the data planes, and how the other nodes follow *)
(* the row that is active.  Every await of a call is a boundary between    *)
(* two steps, so calls interleave, on one node and across nodes.           *)
(*                                                                         *)
(* Abstractions.  A revision is the digest of the configuration rendered   *)
(* from it (ConfigStore has what it holds); its plans are numbered in the  *)
(* order of their epochs, so a plan's number is its epoch and the name of  *)
(* its generation.  A node's data plane is reduced to what its driver's    *)
(* calls show (DpAgent and DpApply have the detail).  Every plane has      *)
(* slots and nginx the Lua modules membership needs.                       *)
(***************************************************************************)
EXTENDS Naturals, FiniteSets, Sequences

CONSTANTS
  Nodes, Planes,
  PlaneOrder,    \* PLANES, in the order the loops over it take them
  Confs,         \* digests of rendered configurations
  Calls, None,
  Keep,          \* generations a sweep keeps besides the protected, 10 in the code
  MaxPlan, MaxToken, MaxHealth, MaxDelta,   \* bounds
  MaxFaults      \* bound: failures, lost answers and crashes

ASSUME ControlAssumption ==
  /\ Planes # {} /\ PlaneOrder \in Seq(Planes) /\ Keep \in Nat /\ MaxFaults \in Nat
  /\ {MaxPlan, MaxToken, MaxHealth, MaxDelta} \subseteq Nat
  /\ Calls \cap Nodes = {}

Epochs == 0..MaxPlan        \* 0: nothing was ever activated
Tokens == 0..MaxToken       \* 0: does not lead
Terminal == {"activated", "partial_exhausted", "failed", "superseded", "no_operation"}

VARIABLES
  revs,      \* config_revisions: the digests; the last one is the head
  plans,     \* plans that were committed: [rev, state]
  rows,      \* operations, in the order of created_at
  lastToken, \* leader_token_seq
  leads,     \* each instance's LeaderElection: its token
  dp,        \* each node's data plane, with its generations' directories
  seen,      \* ControlPlane.lastStatus: the generations it named
  health,    \* what the backends' health is now
  call,      \* the calls in flight; a node's own is the cluster's tick
  faults     \* what is left of MaxFaults

db == <<revs, plans, rows>>
world == <<lastToken, leads, health>>
cpVars == <<revs, plans, rows, lastToken, leads, dp, seen, health, call, faults>>

Positions == [Planes -> [epoch : Epochs, rev : 0..MaxDelta]]
Jobs == [row : Nat, token : Tokens, epoch : Epochs, gen : Epochs, exp : Positions,
         phase : {"running", "stopped"} \cup Terminal]
Verdicts == SUBSET (Nat \X Tokens)   \* of a row's operation, under a token
Directories == [gen : Epochs, rev : Nat, health : 0..MaxHealth]
DataPlanes ==
  [max : Tokens, pos : Positions, pub : Epochs, dirs : Seq(Directories),
   job : Jobs \cup {None}, ended : Verdicts, aborted : Verdicts]
Plans == [rev : 1..MaxPlan, state : {"committed", "operation_bound", "applied"}]
(* History of a row: the node that claimed it, those that cancelled it,    *)
(* and whether recover recorded another operation's activation on it.      *)
Rows == [plan : 1..MaxPlan, rev : 1..MaxPlan, epoch : Epochs, gen : Epochs, token : Tokens,
         planes : SUBSET Planes, phase : {"pending"} \cup Terminal,
         by : Nodes, cancelled : SUBSET Nodes, misread : BOOLEAN]

(* A call: the row it works on, the coordinates it read, and its result.   *)
Idle == [kind |-> "none", node |-> None, pc |-> "idle", plan |-> 0, row |-> 0, before |-> 0,
         epoch |-> 0, gen |-> 0, rev |-> 0, token |-> 0, exp |-> None, todo |-> {},
         out |-> None]
Starts(kind, n, pc) == [Idle EXCEPT !.kind = kind, !.node = n, !.pc = pc]
At(c, pc) == call[c].pc = pc
Goes(c, r) == call' = [call EXCEPT ![c] = r]

-----------------------------------------------------------------------------
(* Queries of the database.                                                *)

HeadRevision == Len(revs)
HasRow(p) == \E i \in DOMAIN rows : rows[i].plan = p
Activated == {i \in DOMAIN rows : rows[i].phase = "activated"}
Outranks(i, j) ==
  rows[i].epoch > rows[j].epoch \/ (rows[i].epoch = rows[j].epoch /\ i >= j)
ActiveRow == IF Activated = {} THEN 0
             ELSE CHOOSE i \in Activated : \A j \in Activated : Outranks(i, j)
ActiveRevision == IF ActiveRow = 0 THEN 0 ELSE rows[ActiveRow].rev
FreshHead == \E p \in DOMAIN plans :
  plans[p].rev = HeadRevision /\ plans[p].state = "committed" /\ ~HasRow(p)
FailedHead ==
  LET ofHead == {i \in DOMAIN rows : rows[i].rev = HeadRevision} IN
  /\ ActiveRevision # HeadRevision /\ ~FreshHead
  /\ \E i \in ofHead : (\A j \in ofHead : j <= i) /\ rows[i].phase = "failed"

(* activeRenderDigest: the digest of the activated row with the highest    *)
(* epoch is taken for what the engine serves.                              *)
SameAsActive(p) ==
  ActiveRow # 0 /\ revs[plans[rows[ActiveRow].plan].rev] = revs[plans[p].rev]

(* A row that took over the epoch of another plan's.                       *)
MembersOnly(row) == row.epoch # row.plan

(* recordPhase, and the plan that is then applied.  What is recorded may   *)
(* be what became of another operation.                                    *)
Recorded(i, phase, another) ==
  /\ rows' = [rows EXCEPT ![i].phase = phase,
                          ![i].misread = @ \/ (another /\ phase = "activated")]
  /\ plans' = [plans EXCEPT ![rows[i].plan].state = IF phase = "activated" THEN "applied" ELSE @]

-----------------------------------------------------------------------------
(* A node's data plane, as the calls of its driver show it.                *)

Unfinished(d) == d.job # None /\ d.job.phase \in {"running", "stopped"}
Running(d) == d.job # None /\ d.job.phase = "running"
(* A loop over PLANES is what is left of it: places in their order.        *)
PlacesOf(planes) == {i \in DOMAIN PlaneOrder : PlaneOrder[i] \in planes}
First(places) == CHOOSE i \in places : \A j \in places : i <= j
MovedPlanes(d) == {p \in Planes : d.pos[p].epoch = d.job.epoch}

(* What status() names as published and unfinished, for sweep to protect.  *)
Named(d) == {d.pub} \cup (IF Unfinished(d) THEN {d.job.gen} ELSE {})

(* reserveAll: under a token that is not stale, from the coordinates that  *)
(* were read, to a higher epoch; the path is free, or it is this operation *)
(* that holds it, which is then resumed.  A fence closes the operation of  *)
(* an earlier leader.                                                      *)
ReservableAfresh(d, r) ==   \* nothing is resumed
  /\ r.token >= d.max /\ <<r.row, r.token>> \notin d.ended \cup d.aborted
  /\ \A p \in Planes : d.pos[p] = r.exp[p] /\ d.pos[p].epoch < r.epoch
  /\ ~Unfinished(d)
Reservable(d, r) ==
  /\ r.token >= d.max /\ <<r.row, r.token>> \notin d.ended \cup d.aborted
  /\ \A p \in Planes : d.pos[p] = r.exp[p] /\ d.pos[p].epoch < r.epoch
  /\ ~Unfinished(d) \/ d.job.row = r.row
Reserved(d, r) ==
  [d EXCEPT !.max = r.token,
            !.job = [row |-> r.row, token |-> r.token, epoch |-> r.epoch, gen |-> r.gen,
                     exp |-> r.exp, phase |-> "running"]]
Fenced(d, token) ==
  [d EXCEPT !.max = token,
            !.job = IF Unfinished(d) /\ @.token < token THEN [@ EXCEPT !.phase = "superseded"]
                    ELSE @]
Finished(d, phase) ==
  [d EXCEPT !.job.phase = phase, !.ended = @ \cup {<<d.job.row, d.job.token>>}]

(* Who waits for the drive of node n's job is answered with `out`; who     *)
(* lost his operation to a fence throws, or finds it superseded, or finds  *)
(* no journal of his own.                                                  *)
Waits(c, n) ==
  /\ call[c].node = n /\ call[c].pc = "wait" /\ dp[n].job # None
  /\ dp[n].job.row = call[c].row /\ dp[n].job.token = call[c].token
Answers(n, out) ==
  [c \in DOMAIN call |->
     IF Waits(c, n) THEN [call[c] EXCEPT !.pc = "note", !.out = out] ELSE call[c]]
Dispossessed == {"failed", "superseded", "no_operation"}

-----------------------------------------------------------------------------
Init ==
  /\ revs = <<>> /\ plans = <<>> /\ rows = <<>> /\ lastToken = 0 /\ health = 0
  /\ leads = [n \in Nodes |-> 0]
  /\ dp = [n \in Nodes |->
       [max |-> 0, pos |-> [p \in Planes |-> [epoch |-> 0, rev |-> 0]], pub |-> 0,
        dirs |-> <<>>, job |-> None, ended |-> {}, aborted |-> {}]]
  /\ seen = [n \in Nodes |-> {}]
  /\ call = [c \in Calls \cup Nodes |-> Idle] /\ faults = MaxFaults

(* commit and rollbackTo make a revision and its plan; replanHead and      *)
(* replanActiveHead another plan for the head.                             *)
Edit(conf) ==
  /\ Len(plans) < MaxPlan
  /\ revs' = Append(revs, conf)
  /\ plans' = Append(plans, [rev |-> HeadRevision + 1, state |-> "committed"])
  /\ UNCHANGED <<rows, world, dp, seen, call, faults>>
Replan ==
  /\ Len(plans) < MaxPlan
  /\ FailedHead \/ (revs # <<>> /\ ActiveRevision = HeadRevision /\ ~FreshHead)
  /\ plans' = Append(plans, [rev |-> HeadRevision, state |-> "committed"])
  /\ UNCHANGED <<revs, rows, world, dp, seen, call, faults>>

(* An instance acquires leadership and fences its data plane (Leadership   *)
(* has what may come between the two), or loses it.                        *)
Promoted(n) ==
  /\ leads[n] = 0 /\ lastToken < MaxToken
  /\ lastToken' = lastToken + 1
  /\ leads' = [leads EXCEPT ![n] = lastToken + 1]
  /\ dp' = [dp EXCEPT ![n] = Fenced(@, lastToken + 1)]
  /\ \E out \in Dispossessed : call' = Answers(n, out)
  /\ UNCHANGED <<db, health, seen, faults>>
Demoted(n) ==
  /\ leads[n] # 0 /\ leads' = [leads EXCEPT ![n] = 0]
  /\ UNCHANGED <<db, lastToken, health, dp, seen, call, faults>>
HealthChanges ==
  /\ health < MaxHealth /\ health' = health + 1
  /\ UNCHANGED <<db, lastToken, leads, dp, seen, call, faults>>

-----------------------------------------------------------------------------
(* apply.                                                                  *)

(* A plan without a row, for the head: what is asked of the database here  *)
(* is not asked again, but for the row, by the claim.                      *)
ApplyLooks(c, n, p) ==
  /\ At(c, "idle") /\ ~HasRow(p) /\ plans[p].rev = HeadRevision
  /\ Goes(c, IF SameAsActive(p)
             THEN [Starts("members", n, "members") EXCEPT
                     !.plan = p, !.rev = plans[p].rev, !.epoch = rows[ActiveRow].epoch]
             ELSE [Starts("apply", n, "build") EXCEPT
                     !.plan = p, !.rev = plans[p].rev, !.epoch = p, !.gen = p])
  /\ UNCHANGED <<db, world, dp, seen, faults>>

(* buildGeneration: the directory, with the slots of the moment in it; one *)
(* of that name must hold the same.  Then a status, for the coordinates.   *)
Made(d, gen) == {i \in DOMAIN d.dirs : d.dirs[i].gen = gen}
Conflicting(d, dir) == \E i \in Made(d, dir.gen) : d.dirs[i] # dir
Build(c) ==
  LET r == call[c]
      d == dp[r.node]
      dir == [gen |-> r.gen, rev |-> r.rev, health |-> health]
  IN /\ At(c, "build")
     /\ IF Conflicting(d, dir)   \* generation_conflict
        THEN Goes(c, Idle) /\ UNCHANGED <<dp, seen>>
        ELSE /\ dp' = [dp EXCEPT ![r.node].dirs =
                         IF Made(d, r.gen) = {} THEN Append(@, dir) ELSE @]
             /\ seen' = [seen EXCEPT ![r.node] = Named(d)]
             /\ Goes(c, [r EXCEPT !.exp = d.pos,
                                  !.pc = IF r.kind = "apply" THEN "claim" ELSE "fence"])
     /\ UNCHANGED <<db, world, faults>>

(* assertLeader and claim: the plan's UNIQUE row decides between calls.    *)
NewRow(r, planes) ==
  [plan |-> r.plan, rev |-> r.rev, epoch |-> r.epoch, gen |-> r.gen, token |-> r.token,
   planes |-> planes, phase |-> "pending", by |-> r.node, cancelled |-> {}, misread |-> FALSE]
ClaimableOnceSeen(r) == r.token # 0   \* without the UNIQUE
Claimable(r) == r.token # 0 /\ ~HasRow(r.plan)
Claim(c) ==
  LET r == [call[c] EXCEPT !.token = leads[call[c].node]] IN
  /\ At(c, "claim")
  /\ IF ~Claimable(r) THEN Goes(c, Idle) /\ UNCHANGED <<plans, rows>>
     ELSE /\ rows' = Append(rows, NewRow(r, Planes))
          /\ plans' = [plans EXCEPT ![r.plan].state =
                         IF @ = "committed" THEN "operation_bound" ELSE @]
          /\ Goes(c, [r EXCEPT !.row = Len(rows) + 1, !.pc = "drive"])
  /\ UNCHANGED <<revs, world, dp, seen, faults>>

(* applyConfig, for an apply or a follower: refused, or driven.            *)
Drive(c) ==
  LET r == call[c] IN
  /\ At(c, "drive")
  /\ IF Reservable(dp[r.node], r)
     THEN dp' = [dp EXCEPT ![r.node] = Reserved(@, r)] /\ Goes(c, [r EXCEPT !.pc = "wait"])
     ELSE UNCHANGED dp /\ Goes(c, [r EXCEPT !.pc = "note", !.out = "failed"])
  /\ UNCHANGED <<db, world, seen, faults>>

(* The drive itself: the pointer, then plane by plane, then a verdict.     *)
Publish(n) ==
  /\ Running(dp[n]) /\ dp[n].pub # dp[n].job.gen
  /\ dp' = [dp EXCEPT ![n].pub = dp[n].job.gen]
  /\ UNCHANGED <<db, world, seen, call, faults>>
(* A plane whose coordinate was moved meanwhile stays where it is.         *)
ToMove(d) == PlacesOf({p \in Planes : d.pos[p] = d.job.exp[p]})
Move(n) ==
  LET d == dp[n]
      p == PlaneOrder[First(ToMove(d))] IN
  /\ Running(d) /\ d.pub = d.job.gen /\ ToMove(d) # {}
  /\ dp' = [dp EXCEPT ![n].pos[p] = [epoch |-> d.job.epoch, rev |-> 0]]
  /\ UNCHANGED <<db, world, seen, call, faults>>
VerdictOfAny(moved) ==   \* one plane that arrived stands for all
  IF moved # {} THEN "activated" ELSE "failed"
Verdict(moved) ==
  IF moved = Planes THEN "activated" ELSE IF moved # {} THEN "partial_exhausted" ELSE "failed"
Ends(n) ==
  /\ Running(dp[n])
  /\ IF ToMove(dp[n]) = {} THEN UNCHANGED faults ELSE faults > 0 /\ faults' = faults - 1
  /\ LET out == Verdict(MovedPlanes(dp[n])) IN
     dp' = [dp EXCEPT ![n] = Finished(@, out)] /\ call' = Answers(n, out)
  /\ UNCHANGED <<db, world, seen>>
(* The answer is lost: applyConfig throws, and the drive goes on.          *)
AnswerLost(c) ==
  /\ At(c, "wait") /\ faults > 0 /\ faults' = faults - 1
  /\ Goes(c, IF call[c].kind = "apply" THEN [call[c] EXCEPT !.pc = "note", !.out = "failed"]
             ELSE Idle)
  /\ UNCHANGED <<db, world, dp, seen>>

(* What came out is recorded; a follower writes no row, and recover writes *)
(* it on the row whose operation was unfinished before.                    *)
Note(c) ==
  LET r == call[c]
      i == CASE r.kind = "apply" -> r.row [] r.kind = "recover" -> r.before [] OTHER -> 0
  IN /\ At(c, "note")
     /\ IF i = 0 THEN UNCHANGED <<plans, rows>> ELSE Recorded(i, r.out, i # r.row)
     /\ Goes(c, IF r.kind # "recover" /\ r.out = "activated" THEN [r EXCEPT !.pc = "sweep"]
                ELSE Idle)
     /\ UNCHANGED <<revs, world, dp, seen, faults>>

(* sweep: what was just made and what the last status named stay, and the  *)
(* newest of the others.                                                   *)
NamedOnly(r) == seen[r.node]   \* what was just made is not protected
Protected(r) == {r.gen} \cup seen[r.node]
Swept(dirs, protect) ==
  LET stays(i) ==
        \/ dirs[i].gen \in protect
        \/ Cardinality({j \in DOMAIN dirs : j > i /\ dirs[j].gen \notin protect}) < Keep
      kept == {i \in DOMAIN dirs : stays(i)}
      at(k) == CHOOSE i \in kept : Cardinality({j \in kept : j <= i}) = k
  IN [k \in 1..Cardinality(kept) |-> dirs[at(k)]]
Sweep(c) ==
  /\ At(c, "sweep")
  /\ dp' = [dp EXCEPT ![call[c].node].dirs = Swept(@, Protected(call[c]))]
  /\ Goes(c, Idle)
  /\ UNCHANGED <<db, world, seen, faults>>

-----------------------------------------------------------------------------
(* applyMembershipOnly: only the planes at the active epoch are touched,   *)
(* one after the other; that another call's row is there goes unnoticed.   *)
Members(c) ==
  LET r == call[c]
      d == dp[r.node]
      touched == PlacesOf({p \in Planes : d.pos[p].epoch = r.epoch})
  IN /\ At(c, "members")
     /\ Goes(c, IF leads[r.node] = 0 \/ touched = {} THEN Idle   \* no_membership_target
                ELSE [r EXCEPT !.pc = "insert", !.token = leads[r.node], !.gen = d.pub,
                               !.exp = d.pos, !.todo = touched])
     /\ UNCHANGED <<db, world, dp, seen, faults>>
Touched(r) == {PlaneOrder[i] : i \in r.todo}
Insert(c) ==
  LET r == call[c] IN
  /\ At(c, "insert")
  /\ IF HasRow(r.plan) THEN UNCHANGED rows /\ Goes(c, [r EXCEPT !.pc = "deltas"])
     ELSE /\ rows' = Append(rows, NewRow(r, Touched(r)))
          /\ Goes(c, [r EXCEPT !.pc = "deltas", !.row = Len(rows) + 1])
  /\ UNCHANGED <<revs, plans, world, dp, seen, faults>>
(* applyMembership on the next plane: the coordinate is the one read, and  *)
(* the push goes through; else the call throws and the row stays pending.  *)
Delta(c) ==
  LET r == call[c]
      d == dp[r.node]
      i == First(r.todo)
      p == PlaneOrder[i]
      admitted == r.token >= d.max /\ d.pos[p] = r.exp[p] /\ <<r.row, r.token>> \notin d.aborted
      onward == [r EXCEPT !.todo = @ \ {i},
                          !.pc = IF r.todo = {i} THEN "members_note" ELSE @]
  IN /\ At(c, "deltas") /\ d.pos[p].rev < MaxDelta
     /\ IF ~admitted THEN Goes(c, Idle) /\ UNCHANGED <<dp, faults>>
        ELSE /\ dp' = [dp EXCEPT ![r.node].pos[p].rev = @ + 1]
             /\ \/ Goes(c, onward) /\ UNCHANGED faults
                \/ Goes(c, Idle) /\ faults > 0 /\ faults' = faults - 1
     /\ UNCHANGED <<db, world, seen>>
MembersNote(c) ==
  LET r == call[c] IN
  /\ At(c, "members_note")
  /\ IF r.row = 0
     THEN plans' = [plans EXCEPT ![r.plan].state = "applied"] /\ UNCHANGED rows
     ELSE Recorded(r.row, "activated", FALSE)
  /\ Goes(c, Idle)
  /\ UNCHANGED <<revs, world, dp, seen, faults>>

-----------------------------------------------------------------------------
(* cancel: what is not activated when the row is read is aborted.          *)
CancelReads(c, n, i) ==
  /\ At(c, "idle") /\ leads[n] # 0 /\ rows[i].phase # "activated"
  /\ Goes(c, [Starts("cancel", n, "abort") EXCEPT !.row = i])
  /\ UNCHANGED <<db, world, dp, seen, faults>>

(* abortConfig: a stale token, or a plane that has its verdict, refuses it *)
(* (terminal); the operation is given up and its journal closed in either  *)
(* case, with what the planes reached.                                     *)
AbortableAnyway(d, i) ==   \* planes that moved are not asked
  rows[i].token >= d.max /\ <<i, rows[i].token>> \notin d.ended
Abortable(d, i) ==
  /\ rows[i].token >= d.max /\ <<i, rows[i].token>> \notin d.ended
  /\ (d.job # None /\ d.job.row = i) => MovedPlanes(d) = {}
Abort(c) ==
  LET r == call[c]
      d == dp[r.node]
      own == Unfinished(d) /\ d.job.row = r.row /\ d.job.token = rows[r.row].token
      closed == IF own THEN Finished(d, Verdict(MovedPlanes(d))) ELSE d
      answered == IF own THEN Answers(r.node, Verdict(MovedPlanes(d))) ELSE call
  IN /\ At(c, "abort")
     /\ dp' = [dp EXCEPT ![r.node] =
                 IF Abortable(d, r.row)
                 THEN [closed EXCEPT !.aborted = @ \cup {<<r.row, rows[r.row].token>>},
                                     !.ended = d.ended, !.max = rows[r.row].token]
                 ELSE closed]
     /\ call' = [answered EXCEPT ![c] =
                   IF Abortable(d, r.row) THEN [r EXCEPT !.pc = "cancelled"] ELSE Idle]
     /\ UNCHANGED <<db, world, seen, faults>>
Cancelled(c) ==
  /\ At(c, "cancelled")
  /\ rows' = [rows EXCEPT ![call[c].row].phase = "failed",
                          ![call[c].row].cancelled = @ \cup {call[c].node}]
  /\ Goes(c, Idle)
  /\ UNCHANGED <<revs, plans, world, dp, seen, faults>>

(* recover: whose operation is unfinished is read before it is driven on.  *)
RecoverReads(c, n) ==
  /\ At(c, "idle") /\ leads[n] # 0
  /\ Goes(c, [Starts("recover", n, "recover") EXCEPT
                !.before = IF Unfinished(dp[n]) THEN dp[n].job.row ELSE 0])
  /\ UNCHANGED <<db, world, dp, seen, faults>>
(* recoverConfig: the journal's operation is driven on, or closed when its *)
(* token is stale, or, ended already, says how it ended.                   *)
Recover(c) ==
  LET r == call[c]
      d == dp[r.node]
      theirs == IF d.job = None THEN 0 ELSE d.job.row
      ended(out) == [r EXCEPT !.pc = "note", !.row = theirs, !.out = out]
  IN /\ At(c, "recover")
     /\ IF Unfinished(d) /\ d.job.token < d.max
        THEN /\ dp' = [dp EXCEPT ![r.node] = Finished(d, "superseded")]
             /\ Goes(c, ended("superseded"))
        ELSE IF Unfinished(d)
        THEN /\ dp' = [dp EXCEPT ![r.node].job.phase = "running"]
             /\ Goes(c, [r EXCEPT !.pc = "wait", !.row = theirs, !.token = d.job.token])
        ELSE Goes(c, ended(IF d.job = None THEN "no_operation" ELSE d.job.phase)) /\ UNCHANGED dp
     /\ UNCHANGED <<db, world, seen, faults>>

-----------------------------------------------------------------------------
(* A tick of the cluster (ClusterNode.tick): who does not lead compares    *)
(* its planes with the active row, and takes them there (followActive).    *)
InSync(n) == \A p \in Planes : dp[n].pos[p].epoch = rows[ActiveRow].epoch
Follows(n) ==
  /\ At(n, "idle") /\ leads[n] = 0
  /\ ActiveRow # 0 /\ ~InSync(n)
  /\ LET a == rows[ActiveRow] IN
     Goes(n, [Starts("follow", n, "build") EXCEPT
                !.row = ActiveRow, !.rev = a.rev, !.epoch = a.epoch, !.gen = a.gen,
                !.token = a.token])
  /\ UNCHANGED <<db, world, dp, seen, faults>>
(* The higher of the last token issued and the operation's fences the node.*)
FollowToken(token) == IF lastToken > token THEN lastToken ELSE token
FollowFences(n) ==
  LET token == FollowToken(call[n].token)
      fences == Unfinished(dp[n]) /\ dp[n].job.token < token
      answered == [out \in Dispossessed |-> IF fences THEN Answers(n, out) ELSE call]
  IN /\ At(n, "fence")
     /\ IF token < dp[n].max THEN Goes(n, Idle) /\ UNCHANGED dp
        ELSE /\ dp' = [dp EXCEPT ![n] = Fenced(@, token)]
             /\ \E out \in Dispossessed :
                  call' = [answered[out] EXCEPT ![n] =
                             [call[n] EXCEPT !.pc = "drive", !.token = token]]
     /\ UNCHANGED <<db, world, seen, faults>>

(* An instance dies with the calls it serves and the drive it runs.        *)
Crash(n) ==
  /\ faults > 0 /\ faults' = faults - 1
  /\ leads' = [leads EXCEPT ![n] = 0]
  /\ dp' = [dp EXCEPT ![n] = IF Running(@) THEN [@ EXCEPT !.job.phase = "stopped"] ELSE @]
  /\ call' = [c \in DOMAIN call |-> IF call[c].node = n THEN Idle ELSE call[c]]
  /\ seen' = [seen EXCEPT ![n] = {}]
  /\ UNCHANGED <<db, lastToken, health>>

-----------------------------------------------------------------------------
Step(c) ==
  \/ Build(c) \/ Claim(c) \/ Drive(c) \/ Note(c) \/ Sweep(c)
  \/ Members(c) \/ Insert(c) \/ Delta(c) \/ MembersNote(c)
  \/ Abort(c) \/ Cancelled(c) \/ Recover(c)
Drives(n) == Publish(n) \/ Move(n) \/ Ends(n)
Requests(c, n) ==
  \/ \E p \in DOMAIN plans : ApplyLooks(c, n, p)
  \/ \E i \in DOMAIN rows : CancelReads(c, n, i)
  \/ RecoverReads(c, n)
Next ==
  \/ \E conf \in Confs : Edit(conf)
  \/ Replan \/ HealthChanges
  \/ \E c \in Calls : AnswerLost(c) \/ \E n \in Nodes : Requests(c, n)
  \/ \E c \in Calls \cup Nodes : Step(c)
  \/ \E n \in Nodes :
       Promoted(n) \/ Demoted(n) \/ Drives(n) \/ Follows(n) \/ FollowFences(n)
       \/ AnswerLost(n) \/ Crash(n)
Spec == Init /\ [][Next]_cpVars

(* The cluster's timer ticks, calls and drives go on; requests, leaders    *)
(* and faults come or not.                                                 *)
Fairness ==
  \A n \in Nodes :
    /\ WF_cpVars(Follows(n)) /\ WF_cpVars(FollowFences(n)) /\ WF_cpVars(Step(n))
    /\ WF_cpVars(Drives(n) /\ UNCHANGED faults)
FairSpec == Spec /\ Fairness
-----------------------------------------------------------------------------
(* Every variable keeps its type, and a plan has one row at most, of its   *)
(* revision, whichever of its applies came first (claim).                  *)
TypeOK ==
  /\ revs \in Seq(Confs) /\ plans \in Seq(Plans) /\ rows \in Seq(Rows)
  /\ lastToken \in Tokens /\ leads \in [Nodes -> Tokens] /\ health \in 0..MaxHealth
  /\ dp \in [Nodes -> DataPlanes] /\ seen \in [Nodes -> SUBSET Epochs]
  /\ faults \in 0..MaxFaults
  /\ \A i, j \in DOMAIN rows : i # j => rows[i].plan # rows[j].plan
  /\ \A i \in DOMAIN rows : rows[i].rev = plans[rows[i].plan].rev

(* What a row calls activated was: some node's planes reached the epoch on *)
(* all the planes the operation was for (recordPhase, recover).  One       *)
(* exception: recover reads whose operation is unfinished and then calls   *)
(* recoverConfig; when other calls came between, it records on the first   *)
(* operation's row what became of a second (misread).                      *)
ActivatedRowsHappened ==
  \A i \in Activated :
    \/ rows[i].misread
    \/ \E n \in Nodes : \A p \in rows[i].planes : dp[n].pos[p].epoch >= rows[i].epoch

(* A sweep leaves the directory nginx's pointer names, and that of the     *)
(* operation under way (sweep's protection by a status read earlier).      *)
WhatIsPublishedIsKept ==
  \A n \in Nodes :
    /\ dp[n].pub # 0 => Made(dp[n], dp[n].pub) # {}
    /\ Unfinished(dp[n]) => Made(dp[n], dp[n].job.gen) # {}

(* A cancelled apply is never recorded as activated, whether it was about  *)
(* to start, under way, or had lost its answer (cancel, abortConfig).      *)
(* Exceptions: a leader that does not know yet that it is deposed aborts   *)
(* another's operation at its own plane, which never had it, so only the   *)
(* cancel of who claimed the row counts; recover may record on the row     *)
(* that another operation was activated (misread); and a change of the     *)
(* membership alone may be, as its planes give no verdict.                 *)
CancelledIsNotActivated ==
  \A i \in Activated :
    \/ MembersOnly(rows[i]) \/ rows[i].misread
    \/ rows[i].by \notin rows[i].cancelled

(* What keeps a follower where it is: a plane at or above the active epoch *)
(* (one that moved, or was moved by an apply whose answer was lost), an    *)
(* operation a dead process left, a verdict, or a directory of that name   *)
(* that holds other slots.                                                 *)
Obstructed(n) ==
  LET a == rows[ActiveRow]
      d == dp[n]
  IN \/ \E p \in Planes : d.pos[p].epoch >= a.epoch
     \/ Unfinished(d) /\ d.job.row # ActiveRow
     \/ <<ActiveRow, FollowToken(a.token)>> \in d.ended \cup d.aborted
     \/ Conflicting(d, [gen |-> a.gen, rev |-> a.rev, health |-> health])

(* A follower that nothing obstructs comes to serve the active generation, *)
(* again and again (the cluster's tick).                                   *)
FollowersConverge ==
  \A n \in Nodes :
    []<>(leads[n] # 0 \/ ActiveRow = 0 \/ InSync(n) \/ Obstructed(n))
=============================================================================
