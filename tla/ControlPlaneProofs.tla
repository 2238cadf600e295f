-------------------------- MODULE ControlPlaneProofs --------------------------
(***************************************************************************)
(* Whatever the nodes, requests, plans and faults: the tables, the data    *)
(* planes and the calls keep their types, and a plan has one row at most.  *)
(* On it rests what the operations' rows tell, of every behaviour.  An     *)
(* activated one: its operation reached its epoch on the planes it was     *)
(* for.  One that was cancelled where it was claimed: it is not activated. *)
(* Both but for the rows that recover took for another operation's: its    *)
(* two reads are steps apart, and the row of the first is what the outcome *)
(* is written on (misread).                                                *)
(***************************************************************************)
EXTENDS ControlPlane, TLAPS, FiniteSetTheorems, WellFoundedInduction

Callers == Calls \cup Nodes
Kinds == {"none", "apply", "members", "cancel", "recover", "follow"}
Stages == {"idle", "build", "claim", "fence", "drive", "wait", "note", "sweep",
           "members", "insert", "deltas", "members_note", "abort", "cancelled", "recover"}
CallRows ==
  [kind : Kinds, node : Nodes \cup {None}, pc : Stages, plan : Epochs, row : Nat, before : Nat,
   epoch : Epochs, gen : Epochs, rev : 0..MaxPlan, token : Tokens, exp : Positions \cup {None},
   todo : SUBSET (DOMAIN PlaneOrder), out : Terminal \cup {None}]

-----------------------------------------------------------------------------
(* The invariants.                                                         *)

(* A call fits the tables: its plan and its row are there.                 *)
CallFits(r, ps, n) ==
  /\ r.row <= n /\ r.before <= n
  /\ r.pc # "idle" => r.node \in Nodes
  /\ r.kind \in {"apply", "members"} => r.plan \in DOMAIN ps /\ r.rev = ps[r.plan].rev
  /\ r.kind = "follow" => r.row # 0
  /\ r.pc = "build" => r.kind \in {"apply", "follow"}
  /\ r.pc = "claim" => r.kind = "apply"
  /\ r.pc = "fence" => r.kind = "follow"
  /\ r.pc \in {"abort", "cancelled"} => r.kind = "cancel"
  /\ r.pc = "recover" => r.kind = "recover"
  /\ r.pc = "drive" => r.kind \in {"apply", "follow"}
  /\ r.pc \in {"members", "insert", "deltas", "members_note"} => r.kind = "members"
  /\ r.pc \in {"drive", "wait", "abort", "cancelled"} => r.row # 0
  /\ r.pc \in {"note", "sweep"} /\ r.kind = "apply" => r.row # 0
  /\ r.pc \in {"claim", "fence", "drive", "insert", "deltas"} => r.exp \in Positions
  /\ r.pc \in {"insert", "deltas"} => r.todo # {}
  /\ r.pc = "note" => r.out \in Terminal
CallsInv ==
  /\ call \in [Callers -> CallRows]
  /\ \A c \in Callers : CallFits(call[c], plans, Len(rows))

(* An operation under way, or the last one, is of a row.                   *)
JobFits(d, n) == d.job # None => d.job.row \in 1..n
DpInv == dp \in [Nodes -> DataPlanes] /\ \A n \in Nodes : JobFits(dp[n], Len(rows))

(* A plan is of a revision, a row of a plan, and no two of the same.       *)
PlansInv ==
  /\ revs \in Seq(Confs) /\ plans \in Seq(Plans)
  /\ Len(revs) <= Len(plans) /\ Len(plans) <= MaxPlan
  /\ \A p \in DOMAIN plans : plans[p].rev <= Len(revs)
RowsInv ==
  /\ rows \in Seq(Rows)
  /\ \A i \in DOMAIN rows :
       rows[i].plan \in DOMAIN plans /\ rows[i].rev = plans[rows[i].plan].rev
  /\ \A i, j \in DOMAIN rows : i # j => rows[i].plan # rows[j].plan
WorldInv ==
  /\ lastToken \in Tokens /\ leads \in [Nodes -> Tokens] /\ health \in 0..MaxHealth
  /\ seen \in [Nodes -> SUBSET Epochs] /\ faults \in 0..MaxFaults
ControlInv == PlansInv /\ RowsInv /\ WorldInv /\ DpInv /\ CallsInv

-----------------------------------------------------------------------------
(* Least and greatest numbers.                                             *)

(* Every set of natural numbers has a least one.                           *)
LEMMA LeastNumber ==
  ASSUME NEW T \in SUBSET Nat, T # {}
  PROVE  \E x \in T : \A y \in T : x <= y
  <1>1. PICK x \in T : \A y \in T : ~(<<y, x>> \in OpToRel(<, Nat))
    BY NatLessThanWellFounded, WFMin
  <1>2. \A y \in T : ~ (y < x)
    BY <1>1 DEF OpToRel
  <1> QED
    BY <1>2

(* A finite one has a greatest: the one with the fewest above it.          *)
LEMMA GreatestNumber ==
  ASSUME NEW S \in SUBSET Nat, S # {}, IsFiniteSet(S)
  PROVE  \E x \in S : \A y \in S : y <= x
  <1> DEFINE Above(x) == {y \in S : y > x}
             T == {Cardinality(Above(x)) : x \in S}
  <1>1. \A x \in S : IsFiniteSet(Above(x)) /\ Cardinality(Above(x)) \in Nat
    BY FS_Subset, FS_CardinalityType
  <1>2. PICK x \in S : \A y \in S : Cardinality(Above(x)) <= Cardinality(Above(y))
    <2> HIDE DEF Above
    <2>1. T \in SUBSET Nat /\ T # {}
      BY <1>1
    <2>2. PICK c \in T : \A y \in T : c <= y
      BY <2>1, LeastNumber
    <2> QED
      BY <2>2
  <1>3. ASSUME NEW y \in S, y > x PROVE FALSE
    <2>1. x \in Nat /\ y \in Nat /\ \A z \in S : z \in Nat
      OBVIOUS
    <2>2. ASSUME NEW z \in Above(y) PROVE z \in Above(x)
      <3>1. z \in S /\ z > y /\ z \in Nat
        BY <2>1, <2>2
      <3>2. z > x
        BY <1>3, <2>1, <3>1
      <3> QED
        BY <3>1, <3>2
    <2>3. y \in Above(x) /\ y \notin Above(y)
      BY <1>3, <2>1
    <2> HIDE DEF Above
    <2>4. Cardinality(Above(y)) <= Cardinality(Above(x)) /\ Cardinality(Above(y)) # Cardinality(Above(x))
      BY <1>1, <2>2, <2>3, FS_Subset
    <2> QED
      BY <1>1, <1>2, <2>4
  <1> QED
    BY <1>3

(* The bounds are numbers.                                                 *)
LEMMA Bounds ==
  /\ MaxPlan \in Nat /\ MaxToken \in Nat /\ MaxHealth \in Nat /\ MaxDelta \in Nat
  /\ MaxFaults \in Nat /\ Keep \in Nat
  BY ControlAssumption

-----------------------------------------------------------------------------
(* What stays when other parts move.                                       *)

(* Rows and plans are added, and a plan keeps its revision.                *)
HistoryGrows ==
  /\ Len(rows) <= Len(rows') /\ Len(plans) <= Len(plans')
  /\ \A p \in DOMAIN plans : p \in DOMAIN plans' /\ plans'[p].rev = plans[p].rev

(* A call that fits still fits when the tables grow.                       *)
LEMMA FitsLonger ==
  ASSUME NEW r, NEW ps, NEW qs, NEW m \in Nat, NEW n \in Nat, m <= n,
         r \in CallRows, CallFits(r, ps, m),
         \A p \in DOMAIN ps : p \in DOMAIN qs /\ qs[p].rev = ps[p].rev
  PROVE  CallFits(r, qs, n)
  <1>1. r.row \in Nat /\ r.before \in Nat
    BY DEF CallRows
  <1> QED
    BY <1>1 DEF CallFits

(* One call goes on, the others stay.                                      *)
LEMMA CallGoes ==
  ASSUME CallsInv, HistoryGrows, rows \in Seq(Rows), rows' \in Seq(Rows),
         NEW c \in Callers, NEW r \in CallRows, CallFits(r, plans', Len(rows')),
         call' = [call EXCEPT ![c] = r]
  PROVE  CallsInv'
  <1>1. Len(rows) \in Nat /\ Len(rows') \in Nat
    OBVIOUS
  <1>2. call' \in [Callers -> CallRows]
    BY DEF CallsInv
  <1>3. ASSUME NEW k \in Callers PROVE CallFits(call'[k], plans', Len(rows'))
    <2>1. CASE k = c
      BY <2>1 DEF CallsInv
    <2>2. CASE k # c
      <3>1. call'[k] = call[k] /\ call[k] \in CallRows /\ CallFits(call[k], plans, Len(rows))
        BY <2>2 DEF CallsInv
      <3> DEFINE x == call[k]
      <3> HIDE DEF x
      <3>2. CallFits(x, plans', Len(rows'))
        BY <1>1, <3>1, FitsLonger DEF HistoryGrows, x
      <3> QED
        BY <3>1, <3>2 DEF x
    <2> QED
      BY <2>1, <2>2
  <1> QED
    BY <1>2, <1>3 DEF CallsInv

(* No call goes on.                                                        *)
LEMMA CallsStay ==
  ASSUME CallsInv, HistoryGrows, rows \in Seq(Rows), rows' \in Seq(Rows), UNCHANGED call
  PROVE  CallsInv'
  <1>1. Len(rows) \in Nat /\ Len(rows') \in Nat
    OBVIOUS
  <1>2. ASSUME NEW k \in Callers PROVE CallFits(call[k], plans', Len(rows'))
    <2>1. call[k] \in CallRows /\ CallFits(call[k], plans, Len(rows))
      BY DEF CallsInv
    <2> DEFINE x == call[k]
    <2> HIDE DEF x
    <2>2. CallFits(x, plans', Len(rows'))
      BY <1>1, <2>1, FitsLonger DEF HistoryGrows, x
    <2> QED
      BY <2>2 DEF x
  <1> QED
    BY <1>2 DEF CallsInv

(* One data plane goes on.                                                 *)
LEMMA DpGoes ==
  ASSUME DpInv, NEW n \in Nodes, NEW d \in DataPlanes, JobFits(d, Len(rows')),
         rows \in Seq(Rows), rows' \in Seq(Rows), Len(rows) <= Len(rows'),
         dp' = [dp EXCEPT ![n] = d]
  PROVE  DpInv'
  <1>1. Len(rows) \in Nat /\ Len(rows') \in Nat
    OBVIOUS
  <1>2. dp' \in [Nodes -> DataPlanes]
    BY DEF DpInv
  <1>3. ASSUME NEW m \in Nodes PROVE JobFits(dp'[m], Len(rows'))
    <2>1. CASE m = n
      BY <2>1 DEF DpInv
    <2>2. CASE m # n
      BY <1>1, <2>2 DEF DpInv, JobFits
    <2> QED
      BY <2>1, <2>2
  <1> QED
    BY <1>2, <1>3 DEF DpInv

(* None goes on.                                                           *)
LEMMA DpStays ==
  ASSUME DpInv, rows \in Seq(Rows), rows' \in Seq(Rows), Len(rows) <= Len(rows'), UNCHANGED dp
  PROVE  DpInv'
  BY DEF DpInv, JobFits

(* The tables stay.                                                        *)
LEMMA DbStays ==
  ASSUME PlansInv, RowsInv, UNCHANGED db
  PROVE  PlansInv' /\ RowsInv' /\ HistoryGrows /\ rows \in Seq(Rows) /\ rows' \in Seq(Rows)
  <1>1. revs' = revs /\ plans' = plans /\ rows' = rows
    BY DEF db
  <1>2. Len(rows) <= Len(rows') /\ Len(plans) <= Len(plans')
    BY <1>1 DEF PlansInv, RowsInv
  <1> QED
    BY <1>1, <1>2 DEF PlansInv, RowsInv, HistoryGrows

-----------------------------------------------------------------------------
(* The tables' types.                                                      *)

(* A plan is of a revision that is there, and within the bounds.           *)
LEMMA PlanFacts ==
  ASSUME PlansInv
  PROVE  /\ revs \in Seq(Confs) /\ plans \in Seq(Plans) /\ Len(revs) \in Nat /\ Len(plans) \in Nat
         /\ Len(revs) <= Len(plans) /\ MaxPlan \in Nat
         /\ \A p \in DOMAIN plans : plans[p].rev <= Len(revs) /\ plans[p].rev \in Nat
  <1>1. ASSUME NEW p \in DOMAIN plans PROVE plans[p].rev <= Len(revs) /\ plans[p].rev \in Nat
    <2>1. plans[p] \in Plans
      BY DEF PlansInv
    <2> QED
      BY <2>1, Bounds DEF PlansInv, Plans
  <1> QED
    BY <1>1, Bounds DEF PlansInv

(* A row is of a revision that is there.                                   *)
LEMMA RowTypes ==
  ASSUME PlansInv, RowsInv, NEW i \in DOMAIN rows
  PROVE  /\ rows[i] \in Rows /\ i \in 1..Len(rows) /\ Len(rows) \in Nat
         /\ rows[i].plan \in DOMAIN plans /\ rows[i].plan \in 1..MaxPlan
         /\ rows[i].rev = plans[rows[i].plan].rev
         /\ rows[i].rev \in 1..Len(revs) /\ Len(revs) \in Nat /\ rows[i].rev \in 1..MaxPlan
         /\ rows[i].epoch \in Epochs /\ rows[i].gen \in Epochs /\ rows[i].token \in Tokens
  <1>1. rows[i] \in Rows /\ i \in 1..Len(rows) /\ Len(rows) \in Nat /\ Len(revs) \in Nat
    BY DEF RowsInv, PlansInv
  <1>2. rows[i].plan \in DOMAIN plans /\ rows[i].rev = plans[rows[i].plan].rev
    BY DEF RowsInv
  <1>3. plans[rows[i].plan].rev <= Len(revs)
    BY <1>2 DEF PlansInv
  <1> QED
    BY <1>1, <1>2, <1>3 DEF Rows

-----------------------------------------------------------------------------
(* The database's queries.                                                 *)

(* Of the activated rows one outranks the others.                          *)
LEMMA ActiveRowIsActivated ==
  ASSUME RowsInv
  PROVE  ActiveRow # 0 => ActiveRow \in Activated
  <1> SUFFICES ASSUME Activated # {} PROVE ActiveRow \in Activated
    BY DEF ActiveRow
  <1>1. ASSUME NEW i \in Activated
        PROVE  i \in 1..Len(rows) /\ rows[i].epoch \in 0..MaxPlan
    <2>1. i \in DOMAIN rows /\ rows \in Seq(Rows)
      BY DEF Activated, RowsInv
    <2>2. rows[i] \in Rows /\ i \in 1..Len(rows)
      BY <2>1
    <2> QED
      BY <2>2 DEF Rows, Epochs
  <1>0. Len(rows) \in Nat /\ MaxPlan \in Nat
    BY Bounds DEF RowsInv
  <1> HIDE DEF Activated
  <1> DEFINE epochs == {rows[i].epoch : i \in Activated}
  <1>2. epochs \in SUBSET (0..MaxPlan) /\ epochs # {}
    BY <1>1
  <1>3. IsFiniteSet(epochs) /\ epochs \in SUBSET Nat
    <2>1. IsFiniteSet(0..MaxPlan)
      BY <1>0, FS_Interval
    <2> HIDE DEF epochs
    <2>2. IsFiniteSet(epochs)
      BY <1>2, <2>1, FS_Subset
    <2>3. \A x \in epochs : x \in Nat
      BY <1>0, <1>2
    <2> QED
      BY <2>2, <2>3
  <1>4. PICK e \in epochs : \A x \in epochs : x <= e
    BY <1>2, <1>3, GreatestNumber
  <1> DEFINE best == {i \in Activated : rows[i].epoch = e}
  <1>5. best # {} /\ best \in SUBSET (1..Len(rows)) /\ best \in SUBSET Nat
    <2>1. \A i \in best : i \in 1..Len(rows) /\ i \in Nat
      BY <1>0, <1>1
    <2>2. PICK i \in Activated : rows[i].epoch = e
      BY <1>4
    <2> QED
      BY <2>1, <2>2
  <1>6. IsFiniteSet(best)
    <2>1. IsFiniteSet(1..Len(rows))
      BY <1>0, FS_Interval
    <2> HIDE DEF best
    <2> QED
      BY <1>5, <2>1, FS_Subset
  <1>7. PICK i \in best : \A j \in best : j <= i
    BY <1>5, <1>6, GreatestNumber
  <1>8. ASSUME NEW j \in Activated PROVE Outranks(i, j)
    <2>1. rows[i].epoch = e /\ rows[j].epoch <= e /\ e \in Nat /\ rows[j].epoch \in Nat
      BY <1>0, <1>1, <1>4, <1>3
    <2>2. CASE rows[j].epoch = e
      BY <1>5, <1>7, <1>1, <2>1, <2>2 DEF Outranks
    <2>3. CASE rows[j].epoch # e
      BY <2>1, <2>3 DEF Outranks
    <2> QED
      BY <2>2, <2>3
  <1>9. \E x \in Activated : \A j \in Activated : Outranks(x, j)
    BY <1>8
  <1> QED
    BY <1>9 DEF ActiveRow

(* It is a row.                                                            *)
LEMMA ActiveRowIsRow ==
  ASSUME RowsInv, ActiveRow # 0
  PROVE  /\ ActiveRow \in 1..Len(rows) /\ ActiveRow \in DOMAIN rows
         /\ rows[ActiveRow] \in Rows /\ Len(rows) \in Nat /\ rows[ActiveRow].phase = "activated"
  BY ActiveRowIsActivated DEF Activated, RowsInv

-----------------------------------------------------------------------------
(* Every action.                                                           *)

(* A call that is over, or not begun.                                      *)
LEMMA IdleFits == Idle \in CallRows /\ \A ps : \A n \in Nat : CallFits(Idle, ps, n)
  BY Bounds DEF Idle, CallRows, CallFits, Kinds, Stages, Epochs, Tokens

(* Nor does it matter to one that is over what the tables become.          *)
LEMMA IdleFitsNow ==
  ASSUME rows' \in Seq(Rows)
  PROVE  CallFits(Idle, plans', Len(rows')) /\ Idle \in CallRows
  <1>1. Len(rows') \in Nat
    OBVIOUS
  <1> QED
    BY <1>1, IdleFits

(* Plans are added.                                                        *)
LEMMA EditKeeps ==
  ASSUME ControlInv, NEW conf \in Confs, Edit(conf)
  PROVE  ControlInv'
  <1>1. /\ Len(plans) < MaxPlan /\ revs' = Append(revs, conf)
        /\ plans' = Append(plans, [rev |-> Len(revs) + 1, state |-> "committed"])
        /\ UNCHANGED <<rows, world, dp, seen, call, faults>>
    BY DEF Edit, HeadRevision
  <1>2. /\ revs \in Seq(Confs) /\ plans \in Seq(Plans) /\ Len(revs) \in Nat /\ Len(plans) \in Nat
        /\ Len(revs) <= Len(plans) /\ MaxPlan \in Nat
        /\ \A p \in DOMAIN plans : plans[p].rev <= Len(revs) /\ plans[p].rev \in Nat
    BY PlanFacts DEF ControlInv
  <1>3. [rev |-> Len(revs) + 1, state |-> "committed"] \in Plans
    BY <1>1, <1>2 DEF Plans
  <1>4. /\ revs' \in Seq(Confs) /\ plans' \in Seq(Plans)
        /\ Len(revs') = Len(revs) + 1 /\ Len(plans') = Len(plans) + 1
    BY <1>1, <1>2, <1>3
  <1>5. \A p \in DOMAIN plans' :
          \/ p \in DOMAIN plans /\ plans'[p] = plans[p]
          \/ p = Len(plans) + 1 /\ plans'[p].rev = Len(revs) + 1
    BY <1>1, <1>2, <1>3
  <1>6. \A p \in DOMAIN plans : p \in DOMAIN plans' /\ plans'[p] = plans[p]
    BY <1>1, <1>2, <1>3
  <1>7. PlansInv'
    BY <1>1, <1>2, <1>4, <1>5 DEF PlansInv
  <1>8. HistoryGrows /\ rows \in Seq(Rows) /\ rows' \in Seq(Rows) /\ Len(rows) <= Len(rows')
    BY <1>1, <1>2, <1>4, <1>6 DEF HistoryGrows, ControlInv, RowsInv
  <1>9. RowsInv'
    BY <1>1, <1>6 DEF ControlInv, RowsInv
  <1>10. CallsInv' /\ DpInv' /\ WorldInv'
    BY <1>1, <1>8, CallsStay, DpStays DEF ControlInv, WorldInv, world
  <1> QED
    BY <1>7, <1>9, <1>10 DEF ControlInv

(* Another plan for the head.                                              *)
LEMMA ReplanKeeps ==
  ASSUME ControlInv, Replan
  PROVE  ControlInv'
  <1>1. /\ Len(plans) < MaxPlan /\ revs' = revs
        /\ plans' = Append(plans, [rev |-> Len(revs), state |-> "committed"])
        /\ UNCHANGED <<rows, world, dp, seen, call, faults>>
    BY DEF Replan, HeadRevision
  <1>2. /\ revs \in Seq(Confs) /\ plans \in Seq(Plans) /\ Len(revs) \in Nat /\ Len(plans) \in Nat
        /\ Len(revs) <= Len(plans) /\ MaxPlan \in Nat
        /\ \A p \in DOMAIN plans : plans[p].rev <= Len(revs) /\ plans[p].rev \in Nat
    BY PlanFacts DEF ControlInv
  <1>3. Len(revs) # 0
    <2>1. CASE FailedHead
      <3>1. PICK i \in DOMAIN rows : rows[i].rev = Len(revs)
        BY <2>1 DEF FailedHead, HeadRevision
      <3> QED
        BY <3>1, RowTypes DEF ControlInv
    <2>2. CASE revs # <<>>
      BY <2>2, <1>2
    <2> QED
      BY <2>1, <2>2 DEF Replan
  <1>4. [rev |-> Len(revs), state |-> "committed"] \in Plans
    BY <1>1, <1>2, <1>3 DEF Plans
  <1>5. plans' \in Seq(Plans) /\ Len(plans') = Len(plans) + 1
    BY <1>1, <1>2, <1>4
  <1>6. \A p \in DOMAIN plans' :
          \/ p \in DOMAIN plans /\ plans'[p] = plans[p]
          \/ p = Len(plans) + 1 /\ plans'[p].rev = Len(revs)
    BY <1>1, <1>2, <1>4
  <1>7. \A p \in DOMAIN plans : p \in DOMAIN plans' /\ plans'[p] = plans[p]
    BY <1>1, <1>2, <1>4
  <1>8. PlansInv'
    BY <1>1, <1>2, <1>5, <1>6 DEF PlansInv
  <1>9. HistoryGrows /\ rows \in Seq(Rows) /\ rows' \in Seq(Rows) /\ Len(rows) <= Len(rows')
    BY <1>1, <1>2, <1>5, <1>7 DEF HistoryGrows, ControlInv, RowsInv
  <1>10. RowsInv'
    BY <1>1, <1>7 DEF ControlInv, RowsInv
  <1>11. CallsInv' /\ DpInv' /\ WorldInv'
    BY <1>1, <1>9, CallsStay, DpStays DEF ControlInv, WorldInv, world
  <1> QED
    BY <1>8, <1>10, <1>11 DEF ControlInv

(* What a call does, it does on a node and with its own record.            *)
LEMMA CallFacts ==
  ASSUME CallsInv, NEW c \in Callers
  PROVE  call[c] \in CallRows /\ CallFits(call[c], plans, Len(rows))
  BY DEF CallsInv

(* A node's data plane has its type, and its operation a row.              *)
LEMMA NodeFacts ==
  ASSUME DpInv, NEW n \in Nodes
  PROVE  dp[n] \in DataPlanes /\ JobFits(dp[n], Len(rows))
  BY DEF DpInv

(* A call that begins.                                                     *)
LEMMA StartsFields ==
  ASSUME NEW kind \in Kinds, NEW n \in Nodes, NEW pc \in Stages
  PROVE  /\ Starts(kind, n, pc) \in CallRows /\ Starts(kind, n, pc).kind = kind
         /\ Starts(kind, n, pc).node = n /\ Starts(kind, n, pc).pc = pc
         /\ Starts(kind, n, pc).row = 0 /\ Starts(kind, n, pc).before = 0
         /\ Starts(kind, n, pc).token = 0
  <1>1. Idle \in CallRows /\ Idle.row = 0 /\ Idle.before = 0 /\ Idle.token = 0
    BY IdleFits DEF Idle
  <1> DEFINE x == Idle
  <1> HIDE DEF x
  <1>2. x \in CallRows /\ x.row = 0 /\ x.before = 0 /\ x.token = 0
        /\ Starts(kind, n, pc) = [x EXCEPT !.kind = kind, !.node = n, !.pc = pc]
    BY <1>1 DEF x, Starts
  <1> QED
    BY <1>2 DEF CallRows

(* The requests.                                                           *)
LEMMA ApplyLooksKeeps ==
  ASSUME ControlInv, NEW c \in Callers, NEW n \in Nodes, NEW p \in DOMAIN plans,
         ApplyLooks(c, n, p)
  PROVE  ControlInv'
  <1>0. /\ {"members", "apply"} \subseteq Kinds /\ {"members", "build"} \subseteq Stages
        /\ 0 \in Epochs /\ 0 \in Tokens
    BY Bounds DEF Kinds, Stages, Epochs, Tokens
  <1>1. plans[p] \in Plans /\ p \in Epochs /\ plans[p].rev \in 0..MaxPlan
    <2>1. plans \in Seq(Plans) /\ Len(plans) <= MaxPlan /\ Len(plans) \in Nat
      BY PlanFacts DEF ControlInv, PlansInv
    <2>2. plans[p] \in Plans /\ p \in 1..Len(plans)
      BY <2>1
    <2> QED
      BY <2>1, <2>2, Bounds DEF Plans, Epochs
  <1>2. ActiveRow # 0 => rows[ActiveRow].epoch \in Epochs
    BY ActiveRowIsRow, RowTypes DEF ControlInv
  <1> DEFINE r == IF SameAsActive(p)
                  THEN [Starts("members", n, "members") EXCEPT
                          !.plan = p, !.rev = plans[p].rev, !.epoch = rows[ActiveRow].epoch]
                  ELSE [Starts("apply", n, "build") EXCEPT
                          !.plan = p, !.rev = plans[p].rev, !.epoch = p, !.gen = p]
  <1>3. call' = [call EXCEPT ![c] = r] /\ UNCHANGED <<db, world, dp, seen, faults>>
    BY DEF ApplyLooks, Goes
  <1>4. r \in CallRows /\ r.row = 0 /\ r.before = 0 /\ r.node = n /\ r.plan = p /\ r.rev = plans[p].rev
        /\ (\/ r.kind = "members" /\ r.pc = "members"
            \/ r.kind = "apply" /\ r.pc = "build")
    <2>1. CASE SameAsActive(p)
      <3> DEFINE x == Starts("members", n, "members")
                 e == rows[ActiveRow].epoch
      <3>1. x \in CallRows /\ x.kind = "members" /\ x.node = n /\ x.pc = "members" /\ x.row = 0
            /\ x.before = 0 /\ e \in Epochs
        BY <1>0, <1>2, <2>1, StartsFields DEF SameAsActive
      <3>2. r = [x EXCEPT !.plan = p, !.rev = plans[p].rev, !.epoch = e]
        BY <2>1
      <3> HIDE DEF x, e, r
      <3> QED
        BY <1>1, <3>1, <3>2 DEF CallRows
    <2>2. CASE ~SameAsActive(p)
      <3> DEFINE x == Starts("apply", n, "build")
      <3>1. x \in CallRows /\ x.kind = "apply" /\ x.node = n /\ x.pc = "build" /\ x.row = 0 /\ x.before = 0
        BY <1>0, StartsFields
      <3>2. r = [x EXCEPT !.plan = p, !.rev = plans[p].rev, !.epoch = p, !.gen = p]
        BY <2>2
      <3> HIDE DEF x, r
      <3> QED
        BY <1>1, <3>1, <3>2 DEF CallRows
    <2> QED
      BY <2>1, <2>2
  <1> HIDE DEF r
  <1>5. PlansInv' /\ RowsInv' /\ HistoryGrows /\ rows \in Seq(Rows) /\ rows' \in Seq(Rows)
    BY <1>3, DbStays DEF ControlInv
  <1>6. CallFits(r, plans', Len(rows'))
    BY <1>3, <1>4, <1>5 DEF CallFits, db
  <1>7. CallsInv'
    BY <1>3, <1>4, <1>5, <1>6, CallGoes DEF ControlInv
  <1>8. DpInv' /\ WorldInv'
    BY <1>3, <1>5, DpStays DEF ControlInv, HistoryGrows, WorldInv, world
  <1> QED
    BY <1>5, <1>7, <1>8 DEF ControlInv

(* buildGeneration.                                                        *)
LEMMA BuildKeeps ==
  ASSUME ControlInv, NEW c \in Callers, Build(c)
  PROVE  ControlInv'
  <1> DEFINE r == call[c]
             d == dp[r.node]
             dir == [gen |-> r.gen, rev |-> r.rev, health |-> health]
             dirs == IF Made(d, r.gen) = {} THEN Append(d.dirs, dir) ELSE d.dirs
             e == [d EXCEPT !.dirs = dirs]
             pc == IF r.kind = "apply" THEN "claim" ELSE "fence"
             q == [r EXCEPT !.exp = d.pos, !.pc = pc]
  <1>1. r \in CallRows /\ CallFits(r, plans, Len(rows)) /\ r.pc = "build" /\ r.node \in Nodes
        /\ r.kind \in {"apply", "follow"}
    BY CallFacts DEF ControlInv, Build, At, CallFits
  <1>2. d \in DataPlanes /\ JobFits(d, Len(rows))
    BY <1>1, NodeFacts DEF ControlInv
  <1>3. UNCHANGED <<db, world, faults>>
        /\ (\/ call' = [call EXCEPT ![c] = Idle] /\ UNCHANGED <<dp, seen>>
            \/ /\ call' = [call EXCEPT ![c] = q]
               /\ dp' = [dp EXCEPT ![r.node].dirs = IF Made(d, r.gen) = {} THEN Append(@, dir) ELSE @]
               /\ seen' = [seen EXCEPT ![r.node] = Named(d)])
    BY DEF Build, Goes
  <1>4. PlansInv' /\ RowsInv' /\ HistoryGrows /\ rows \in Seq(Rows) /\ rows' \in Seq(Rows)
    BY <1>3, DbStays DEF ControlInv
  <1>5. CASE call' = [call EXCEPT ![c] = Idle] /\ UNCHANGED <<dp, seen>>
    <2>1. CallFits(Idle, plans', Len(rows')) /\ Idle \in CallRows
      BY <1>4, IdleFitsNow
    <2>2. CallsInv' /\ DpInv' /\ WorldInv'
      BY <1>3, <1>4, <1>5, <2>1, CallGoes, DpStays DEF ControlInv, HistoryGrows, WorldInv, world
    <2> QED
      BY <1>4, <2>2 DEF ControlInv
  <1>6. CASE /\ call' = [call EXCEPT ![c] = q]
             /\ dp' = [dp EXCEPT ![r.node].dirs = IF Made(d, r.gen) = {} THEN Append(@, dir) ELSE @]
             /\ seen' = [seen EXCEPT ![r.node] = Named(d)]
    <2>1. dp' = [dp EXCEPT ![r.node] = e]
      BY <1>1, <1>6 DEF ControlInv, DpInv
    <2>2. dir \in Directories
      BY <1>1 DEF ControlInv, WorldInv, CallRows, Directories
    <2>3. e \in DataPlanes /\ e.job = d.job
      <3> HIDE DEF d, dir
      <3>1. dirs \in Seq(Directories)
        BY <1>2, <2>2 DEF DataPlanes
      <3> HIDE DEF dirs
      <3> QED
        BY <1>2, <3>1 DEF DataPlanes
    <2>4. q \in CallRows /\ CallFits(q, plans', Len(rows'))
      <3>1. d.pos \in Positions
        BY <1>2 DEF DataPlanes
      <3> DEFINE x == d.pos
      <3> HIDE DEF r, x
      <3>2. q \in CallRows
        BY <1>1, <3>1 DEF CallRows, Stages, x
      <3> QED
        BY <1>1, <3>1, <3>2, <1>3 DEF CallFits, db, x, CallRows
    <2>5. Named(d) \in SUBSET Epochs
      BY <1>2 DEF Named, DataPlanes, Unfinished, Jobs
    <2> HIDE DEF q, e
    <2>6. CallsInv' /\ DpInv'
      <3>1. JobFits(e, Len(rows'))
        BY <1>2, <1>3, <2>3 DEF JobFits, db
      <3> HIDE DEF r, d, dir
      <3>2. CallsInv'
        BY <1>4, <1>6, <2>4, CallGoes DEF ControlInv
      <3>3. Len(rows) <= Len(rows')
        BY <1>4 DEF HistoryGrows
      <3>4. DpInv'
        BY <1>1, <1>4, <2>1, <2>3, <3>1, <3>3, DpGoes DEF ControlInv
      <3> QED
        BY <3>2, <3>4
    <2>7. WorldInv'
      BY <1>1, <1>3, <1>6, <2>5 DEF ControlInv, WorldInv, world
    <2> QED
      BY <1>4, <2>6, <2>7 DEF ControlInv
  <1> QED
    BY <1>3, <1>5, <1>6

(* A call that does not touch the tables goes on, or ends.                 *)
LEMMA OnlyCallGoes ==
  ASSUME ControlInv, NEW c \in Callers, NEW q \in CallRows, CallFits(q, plans, Len(rows)),
         call' = [call EXCEPT ![c] = q],
         UNCHANGED <<db, lastToken, leads, health, seen>>, faults' \in 0..MaxFaults, DpInv'
  PROVE  ControlInv'
  <1>1. PlansInv' /\ RowsInv' /\ HistoryGrows /\ rows \in Seq(Rows) /\ rows' \in Seq(Rows)
    BY DbStays DEF ControlInv
  <1>2. CallFits(q, plans', Len(rows'))
    BY DEF db
  <1>3. CallsInv'
    BY <1>1, <1>2, CallGoes DEF ControlInv
  <1> QED
    BY <1>1, <1>3 DEF ControlInv, WorldInv

(* A drive of a node goes on, and nobody else.                             *)
LEMMA OnlyDpGoes ==
  ASSUME ControlInv, NEW n \in Nodes, NEW d \in DataPlanes, JobFits(d, Len(rows)),
         dp' = [dp EXCEPT ![n] = d],
         UNCHANGED db
  PROVE  DpInv'
  <1>1. rows \in Seq(Rows) /\ rows' = rows /\ DpInv
    BY DEF ControlInv, RowsInv, db
  <1>2. rows' \in Seq(Rows) /\ Len(rows) <= Len(rows') /\ JobFits(d, Len(rows'))
    BY <1>1
  <1> QED
    BY <1>1, <1>2, DpGoes

(* A data plane that reserves: the job is the call's.                      *)
LEMMA ReservedFits ==
  ASSUME NEW d \in DataPlanes, NEW r \in CallRows, r.exp \in Positions, NEW n \in Nat,
         r.row \in 1..n
  PROVE  Reserved(d, r) \in DataPlanes /\ JobFits(Reserved(d, r), n)
  <1> DEFINE j == [row |-> r.row, token |-> r.token, epoch |-> r.epoch, gen |-> r.gen,
                   exp |-> r.exp, phase |-> "running"]
  <1>1. j \in Jobs /\ j.row \in 1..n
    BY DEF Jobs, CallRows
  <1>2. r.token \in Tokens
    BY DEF CallRows
  <1>3. Reserved(d, r) = [d EXCEPT !.max = r.token, !.job = j]
    BY DEF Reserved
  <1> HIDE DEF j
  <1> QED
    BY <1>1, <1>2, <1>3 DEF DataPlanes, JobFits

(* applyConfig.                                                            *)
LEMMA DriveKeeps ==
  ASSUME ControlInv, NEW c \in Callers, Drive(c)
  PROVE  ControlInv'
  <1> DEFINE r == call[c]
  <1>1. r \in CallRows /\ CallFits(r, plans, Len(rows)) /\ r.pc = "drive" /\ r.node \in Nodes
        /\ r.row # 0 /\ r.exp \in Positions /\ r.row <= Len(rows) /\ r.row \in Nat
    BY CallFacts DEF ControlInv, Drive, At, CallFits, CallRows
  <1>2. dp[r.node] \in DataPlanes /\ rows \in Seq(Rows) /\ Len(rows) \in Nat
    BY <1>1, NodeFacts DEF ControlInv, RowsInv
  <1>3. UNCHANGED <<db, world, seen, faults>> /\ faults \in 0..MaxFaults
    BY DEF Drive, ControlInv, WorldInv
  <1>4. CASE Reservable(dp[r.node], r)
    <2> DEFINE q == [r EXCEPT !.pc = "wait"]
               d == Reserved(dp[r.node], r)
    <2>1. call' = [call EXCEPT ![c] = q] /\ dp' = [dp EXCEPT ![r.node] = d]
      BY <1>1, <1>4 DEF Drive, Goes, ControlInv, DpInv
    <2>2. d \in DataPlanes /\ JobFits(d, Len(rows))
      BY <1>1, <1>2, ReservedFits
    <2>3. q \in CallRows /\ CallFits(q, plans, Len(rows))
      <3> HIDE DEF r
      <3> QED
        BY <1>1 DEF CallRows, CallFits, Stages
    <2> HIDE DEF q, d
    <2>4. DpInv'
      BY <1>1, <1>3, <2>1, <2>2, OnlyDpGoes
    <2> QED
      BY <1>3, <2>1, <2>3, <2>4, OnlyCallGoes DEF world
  <1>5. CASE ~Reservable(dp[r.node], r)
    <2> DEFINE q == [r EXCEPT !.pc = "note", !.out = "failed"]
    <2>1. call' = [call EXCEPT ![c] = q] /\ UNCHANGED dp
      BY <1>1, <1>5 DEF Drive, Goes
    <2>3. q \in CallRows /\ CallFits(q, plans, Len(rows))
      <3> HIDE DEF r
      <3> QED
        BY <1>1 DEF CallRows, CallFits, Stages, Terminal
    <2> HIDE DEF q
    <2>4. DpInv'
      BY <1>3, <2>1 DEF ControlInv, DpInv, db
    <2> QED
      BY <1>3, <2>1, <2>3, <2>4, OnlyCallGoes DEF world
  <1> QED
    BY <1>4, <1>5

(* The answer is lost.                                                     *)
LEMMA AnswerLostKeeps ==
  ASSUME ControlInv, NEW c \in Callers, AnswerLost(c)
  PROVE  ControlInv'
  <1> DEFINE r == call[c]
             q == IF r.kind = "apply" THEN [r EXCEPT !.pc = "note", !.out = "failed"] ELSE Idle
  <1>1. r \in CallRows /\ CallFits(r, plans, Len(rows)) /\ r.pc = "wait"
    BY CallFacts DEF ControlInv, AnswerLost, At
  <1>2. /\ UNCHANGED <<db, world, dp, seen>> /\ faults' \in 0..MaxFaults
        /\ call' = [call EXCEPT ![c] = q]
    BY Bounds DEF AnswerLost, Goes, ControlInv, WorldInv
  <1>3. q \in CallRows /\ CallFits(q, plans, Len(rows))
    <2>1. CASE r.kind = "apply"
      <3> HIDE DEF r
      <3> QED
        BY <1>1, <2>1 DEF CallRows, CallFits, Stages, Terminal
    <2>2. CASE r.kind # "apply"
      BY <2>2, IdleFits DEF ControlInv, RowsInv
    <2> QED
      BY <2>1, <2>2
  <1> HIDE DEF q
  <1>4. DpInv'
    BY <1>2 DEF ControlInv, DpInv, db
  <1> QED
    BY <1>2, <1>3, <1>4, OnlyCallGoes DEF world

(* A sequence with one element changed.                                    *)
LEMMA SeqUpdated ==
  ASSUME NEW S, NEW s \in Seq(S), NEW i \in DOMAIN s, NEW x \in S
  PROVE  /\ [s EXCEPT ![i] = x] \in Seq(S) /\ DOMAIN [s EXCEPT ![i] = x] = DOMAIN s
         /\ \A k \in DOMAIN s : [s EXCEPT ![i] = x][k] = IF k = i THEN x ELSE s[k]
         /\ \A k \in DOMAIN s : s[k] \in S
  <1> DEFINE t == [s EXCEPT ![i] = x]
  <1>1. s \in [1..Len(s) -> S] /\ Len(s) \in Nat
    OBVIOUS
  <1>2. t \in [1..Len(s) -> S]
    BY <1>1
  <1>3. t \in Seq(S)
    BY <1>1, <1>2, SMT
  <1> QED
    BY <1>1, <1>3

(* Sequences of one domain have one length.                                *)
LEMMA SameLength ==
  ASSUME NEW S, NEW s \in Seq(S), NEW t \in Seq(S), DOMAIN s = DOMAIN t
  PROVE  Len(s) = Len(t) /\ Len(s) \in Nat
  <1> DEFINE m == Len(s)
             n == Len(t)
  <1>1. m \in Nat /\ n \in Nat /\ 1..m = 1..n
    OBVIOUS
  <1> HIDE DEF m, n
  <1>2. (m > 0 => m \in 1..n) /\ (n > 0 => n \in 1..m)
    BY <1>1
  <1>3. m = n
    BY <1>1, <1>2
  <1> QED
    BY <1>1, <1>3 DEF m, n

(* A row as what came out is recorded on it, and as it is cancelled.       *)
AsRecorded(x, phase, m) == [x EXCEPT !.phase = phase, !.misread = m]
AsCancelled(x, cs) == [x EXCEPT !.phase = "failed", !.cancelled = cs]

(* A row whose state changes stays of its plan.                            *)
LEMMA RowUpdated ==
  ASSUME NEW x \in Rows, NEW phase \in Terminal, NEW m \in BOOLEAN, NEW cs \in SUBSET Nodes
  PROVE  /\ AsRecorded(x, phase, m) \in Rows
         /\ AsRecorded(x, phase, m).plan = x.plan /\ AsRecorded(x, phase, m).rev = x.rev
         /\ AsCancelled(x, cs) \in Rows
         /\ AsCancelled(x, cs).plan = x.plan /\ AsCancelled(x, cs).rev = x.rev
  <1>1. "failed" \in Terminal
    BY DEF Terminal
  <1> QED
    BY <1>1 DEF Rows, AsRecorded, AsCancelled

(* A plan's state changes, its revision never.                             *)
LEMMA PlanUpdated ==
  ASSUME NEW x \in Plans, NEW state \in {"committed", "operation_bound", "applied"}
  PROVE  [x EXCEPT !.state = state] \in Plans /\ [x EXCEPT !.state = state].rev = x.rev
  BY DEF Plans

(* A plan is in one of three states.                                       *)
LEMMA PlanState ==
  ASSUME NEW x \in Plans
  PROVE  x.state \in {"committed", "operation_bound", "applied"}
  BY DEF Plans

(* Rows and plans change their states, and nothing else of them.           *)
StatesMove ==
  /\ revs' = revs /\ DOMAIN rows' = DOMAIN rows /\ DOMAIN plans' = DOMAIN plans
  /\ \A i \in DOMAIN rows : /\ rows'[i] \in Rows /\ rows'[i].plan = rows[i].plan
                            /\ rows'[i].rev = rows[i].rev
  /\ \A p \in DOMAIN plans : plans'[p] \in Plans /\ plans'[p].rev = plans[p].rev

(* Then plans and rows stay what they are of.                              *)
LEMMA StatesMoveKeeps ==
  ASSUME PlansInv, RowsInv, StatesMove, rows' \in Seq(Rows), plans' \in Seq(Plans)
  PROVE  PlansInv' /\ RowsInv' /\ HistoryGrows /\ rows \in Seq(Rows) /\ Len(rows') = Len(rows)
  <1>1. Len(rows') = Len(rows) /\ Len(plans') = Len(plans) /\ Len(rows) \in Nat /\ Len(plans) \in Nat
    <2>1. rows \in Seq(Rows) /\ plans \in Seq(Plans)
      BY DEF PlansInv, RowsInv
    <2> QED
      BY <2>1, SameLength DEF StatesMove
  <1>2. PlansInv'
    BY <1>1 DEF PlansInv, StatesMove
  <1>3. RowsInv'
    <2>1. \A i \in DOMAIN rows' :
            rows'[i].plan \in DOMAIN plans' /\ rows'[i].rev = plans'[rows'[i].plan].rev
      BY DEF RowsInv, StatesMove
    <2>2. \A i, j \in DOMAIN rows' : i # j => rows'[i].plan # rows'[j].plan
      BY DEF RowsInv, StatesMove
    <2> QED
      BY <2>1, <2>2 DEF RowsInv
  <1> QED
    BY <1>1, <1>2, <1>3 DEF HistoryGrows, StatesMove, RowsInv

(* recordPhase.                                                            *)
LEMMA RecordedMoves ==
  ASSUME PlansInv, RowsInv, NEW i \in DOMAIN rows, NEW phase \in Terminal, NEW another,
         Recorded(i, phase, another), revs' = revs
  PROVE  StatesMove /\ rows' \in Seq(Rows) /\ plans' \in Seq(Plans)
  <1>1. /\ rows' = [rows EXCEPT ![i].phase = phase,
                                ![i].misread = @ \/ (another /\ phase = "activated")]
        /\ plans' = [plans EXCEPT ![rows[i].plan].state = IF phase = "activated" THEN "applied" ELSE @]
    BY DEF Recorded
  <1>2. rows \in Seq(Rows) /\ plans \in Seq(Plans) /\ rows[i].plan \in DOMAIN plans
    BY DEF PlansInv, RowsInv
  <1> DEFINE m == rows[i].misread \/ (another /\ phase = "activated")
             row == AsRecorded(rows[i], phase, m)
             p == rows[i].plan
             state == IF phase = "activated" THEN "applied" ELSE plans[p].state
             plan == [plans[p] EXCEPT !.state = state]
  <1>3. rows' = [rows EXCEPT ![i] = row] /\ plans' = [plans EXCEPT ![p] = plan]
    BY <1>1, <1>2 DEF AsRecorded
  <1>4. row \in Rows /\ row.plan = rows[i].plan /\ row.rev = rows[i].rev
    <2>1. rows[i] \in Rows
      BY <1>2
    <2>2. m \in BOOLEAN
      OBVIOUS
    <2> HIDE DEF m
    <2> QED
      BY <2>1, <2>2, RowUpdated
  <1>5. plan \in Plans /\ plan.rev = plans[p].rev
    <2>1. plans[p] \in Plans
      BY <1>2
    <2>2. state \in {"committed", "operation_bound", "applied"}
      BY <2>1, PlanState
    <2> HIDE DEF p, state
    <2> QED
      BY <2>1, <2>2, PlanUpdated
  <1>6. p \in DOMAIN plans
    BY <1>2
  <1> HIDE DEF m, row, p, plan, state
  <1>7. /\ rows' \in Seq(Rows) /\ DOMAIN rows' = DOMAIN rows
        /\ \A k \in DOMAIN rows : rows'[k] = (IF k = i THEN row ELSE rows[k]) /\ rows[k] \in Rows
    BY <1>2, <1>3, <1>4, SeqUpdated
  <1>8. /\ plans' \in Seq(Plans) /\ DOMAIN plans' = DOMAIN plans
        /\ \A k \in DOMAIN plans : plans'[k] = (IF k = p THEN plan ELSE plans[k]) /\ plans[k] \in Plans
    BY <1>2, <1>3, <1>5, <1>6, SeqUpdated
  <1> QED
    BY <1>4, <1>5, <1>7, <1>8 DEF StatesMove

(* A call goes on that changed states of rows.                             *)
LEMMA CallAndStatesGo ==
  ASSUME ControlInv, NEW c \in Callers, NEW q \in CallRows, CallFits(q, plans, Len(rows)),
         call' = [call EXCEPT ![c] = q], StatesMove, rows' \in Seq(Rows), plans' \in Seq(Plans),
         UNCHANGED <<world, dp, seen, faults>>
  PROVE  ControlInv'
  <1>1. PlansInv' /\ RowsInv' /\ HistoryGrows /\ rows \in Seq(Rows) /\ Len(rows') = Len(rows)
    BY StatesMoveKeeps DEF ControlInv
  <1>2. Len(rows) \in Nat
    BY <1>1
  <1>3. CallFits(q, plans', Len(rows'))
    BY <1>1, <1>2, FitsLonger DEF HistoryGrows
  <1>4. CallsInv'
    BY <1>1, <1>2, <1>3, CallGoes DEF ControlInv
  <1>5. DpInv'
    BY <1>1, <1>2, DpStays DEF ControlInv
  <1> QED
    BY <1>1, <1>4, <1>5 DEF ControlInv, WorldInv, world

(* What came out is recorded.                                              *)
LEMMA NoteKeeps ==
  ASSUME ControlInv, NEW c \in Callers, Note(c)
  PROVE  ControlInv'
  <1> DEFINE r == call[c]
             i == CASE r.kind = "apply" -> r.row [] r.kind = "recover" -> r.before [] OTHER -> 0
             q == IF r.kind # "recover" /\ r.out = "activated" THEN [r EXCEPT !.pc = "sweep"]
                  ELSE Idle
  <1>1. r \in CallRows /\ CallFits(r, plans, Len(rows)) /\ r.pc = "note"
    BY CallFacts DEF ControlInv, Note, At
  <1>2. /\ IF i = 0 THEN UNCHANGED <<plans, rows>> ELSE Recorded(i, r.out, i # r.row)
        /\ call' = [call EXCEPT ![c] = q] /\ UNCHANGED <<revs, world, dp, seen, faults>>
    BY DEF Note, Goes
  <1>3. q \in CallRows /\ CallFits(q, plans, Len(rows))
    <2>1. CASE r.kind # "recover" /\ r.out = "activated"
      <3> HIDE DEF r
      <3> QED
        BY <1>1, <2>1 DEF CallRows, CallFits, Stages
    <2>2. CASE ~(r.kind # "recover" /\ r.out = "activated")
      BY <2>2, IdleFits DEF ControlInv, RowsInv
    <2> QED
      BY <2>1, <2>2
  <1>4. i \in 0..Len(rows) /\ r.out \in Terminal /\ Len(rows) \in Nat
    <2>1. r.row \in Nat /\ r.before \in Nat /\ r.row <= Len(rows) /\ r.before <= Len(rows)
          /\ r.out \in Terminal
      BY <1>1 DEF CallRows, CallFits
    <2>2. Len(rows) \in Nat
      BY DEF ControlInv, RowsInv
    <2> HIDE DEF r
    <2> QED
      BY <2>1, <2>2
  <1> HIDE DEF r, i, q
  <1>5. StatesMove /\ rows' \in Seq(Rows) /\ plans' \in Seq(Plans)
    <2>1. CASE i = 0
      <3>1. rows \in Seq(Rows) /\ plans \in Seq(Plans)
        BY DEF ControlInv, PlansInv, RowsInv
      <3>2. \A k \in DOMAIN rows : rows[k] \in Rows
        BY <3>1
      <3>3. \A k \in DOMAIN plans : plans[k] \in Plans
        BY <3>1
      <3> QED
        BY <1>2, <2>1, <3>1, <3>2, <3>3 DEF StatesMove
    <2>2. CASE i # 0
      <3>1. i \in DOMAIN rows
        BY <1>4, <2>2 DEF ControlInv, RowsInv
      <3>2. Recorded(i, r.out, i # r.row) /\ revs' = revs
        BY <1>2, <2>2
      <3> QED
        BY <1>4, <3>1, <3>2, RecordedMoves DEF ControlInv
    <2> QED
      BY <2>1, <2>2
  <1> QED
    BY <1>2, <1>3, <1>5, CallAndStatesGo

(* A change of the membership alone is done.                               *)
LEMMA MembersNoteKeeps ==
  ASSUME ControlInv, NEW c \in Callers, MembersNote(c)
  PROVE  ControlInv'
  <1> DEFINE r == call[c]
             p == r.plan
             plan == [plans[p] EXCEPT !.state = "applied"]
  <1>1. r \in CallRows /\ CallFits(r, plans, Len(rows)) /\ r.pc = "members_note"
        /\ p \in DOMAIN plans /\ r.row \in Nat /\ r.row <= Len(rows) /\ Len(rows) \in Nat
    BY CallFacts DEF ControlInv, MembersNote, At, CallFits, CallRows, RowsInv
  <1>2. /\ IF r.row = 0 THEN plans' = [plans EXCEPT ![p].state = "applied"] /\ UNCHANGED rows
           ELSE Recorded(r.row, "activated", FALSE)
        /\ call' = [call EXCEPT ![c] = Idle] /\ UNCHANGED <<revs, world, dp, seen, faults>>
    BY DEF MembersNote, Goes
  <1>3. rows \in Seq(Rows) /\ plans \in Seq(Plans)
    BY DEF ControlInv, PlansInv, RowsInv
  <1>4. plan \in Plans /\ plan.rev = plans[p].rev
    <2>1. plans[p] \in Plans
      BY <1>1, <1>3
    <2> HIDE DEF p
    <2> QED
      BY <2>1, PlanUpdated
  <1>5. StatesMove /\ rows' \in Seq(Rows) /\ plans' \in Seq(Plans)
    <2>1. CASE r.row = 0
      <3>1. plans' = [plans EXCEPT ![p] = plan] /\ rows' = rows /\ revs' = revs
        BY <1>2, <1>3, <2>1
      <3>0. p \in DOMAIN plans
        BY <1>1
      <3> HIDE DEF r, p, plan
      <3>2. /\ plans' \in Seq(Plans) /\ DOMAIN plans' = DOMAIN plans
            /\ \A k \in DOMAIN plans : plans'[k] = (IF k = p THEN plan ELSE plans[k]) /\ plans[k] \in Plans
        BY <1>3, <1>4, <3>0, <3>1, SeqUpdated
      <3>3. \A k \in DOMAIN rows : rows[k] \in Rows
        BY <1>3
      <3> QED
        BY <1>3, <1>4, <3>1, <3>2, <3>3 DEF StatesMove
    <2>2. CASE r.row # 0
      <3> DEFINE i == r.row
      <3>0. revs' = revs /\ i \in DOMAIN rows
        BY <1>1, <1>2, <1>3, <2>2
      <3>1. Recorded(i, "activated", FALSE)
        BY <1>2, <2>2
      <3>2. "activated" \in Terminal
        BY DEF Terminal
      <3> HIDE DEF i
      <3> QED
        BY <3>0, <3>1, <3>2, RecordedMoves DEF ControlInv
    <2> QED
      BY <2>1, <2>2
  <1>6. Idle \in CallRows /\ CallFits(Idle, plans, Len(rows))
    BY <1>1, IdleFits
  <1> QED
    BY <1>2, <1>5, <1>6, CallAndStatesGo

(* A row is marked as cancelled.                                           *)
LEMMA CancelledKeeps ==
  ASSUME ControlInv, NEW c \in Callers, Cancelled(c)
  PROVE  ControlInv'
  <1> DEFINE i == call[c].row
             cs == rows[i].cancelled \cup {call[c].node}
             row == AsCancelled(rows[i], cs)
  <1>1. call[c] \in CallRows /\ CallFits(call[c], plans, Len(rows)) /\ call[c].pc = "cancelled"
        /\ call[c].node \in Nodes /\ i \in Nat /\ i # 0 /\ i <= Len(rows) /\ Len(rows) \in Nat
    BY CallFacts DEF ControlInv, Cancelled, At, CallFits, CallRows, RowsInv
  <1>2. /\ rows' = [rows EXCEPT ![i].phase = "failed", ![i].cancelled = @ \cup {call[c].node}]
        /\ call' = [call EXCEPT ![c] = Idle] /\ UNCHANGED <<revs, plans, world, dp, seen, faults>>
    BY DEF Cancelled, Goes
  <1>3. rows \in Seq(Rows) /\ plans \in Seq(Plans) /\ i \in DOMAIN rows
    BY <1>1 DEF ControlInv, PlansInv, RowsInv
  <1>4. row \in Rows /\ row.plan = rows[i].plan /\ row.rev = rows[i].rev
    <2>1. rows[i] \in Rows /\ "failed" \in Terminal /\ FALSE \in BOOLEAN
      BY <1>3 DEF Terminal
    <2>2. cs \in SUBSET Nodes
      BY <1>1, <2>1 DEF Rows
    <2> HIDE DEF i, cs
    <2> QED
      BY <2>1, <2>2, RowUpdated
  <1>5. rows' = [rows EXCEPT ![i] = row]
    BY <1>2, <1>3 DEF AsCancelled
  <1> HIDE DEF i, cs, row
  <1>6. /\ rows' \in Seq(Rows) /\ DOMAIN rows' = DOMAIN rows
        /\ \A k \in DOMAIN rows : rows'[k] = (IF k = i THEN row ELSE rows[k]) /\ rows[k] \in Rows
    BY <1>3, <1>4, <1>5, SeqUpdated
  <1>8. \A k \in DOMAIN plans : plans[k] \in Plans
    BY <1>3
  <1>9. StatesMove
    BY <1>2, <1>3, <1>4, <1>6, <1>8 DEF StatesMove
  <1>10. Idle \in CallRows /\ CallFits(Idle, plans, Len(rows))
    BY <1>1, IdleFits
  <1> QED
    BY <1>2, <1>3, <1>6, <1>9, <1>10, CallAndStatesGo

(* A row is added.                                                         *)
LEMMA RowAdded ==
  ASSUME PlansInv, RowsInv, NEW row \in Rows, row.plan \in DOMAIN plans,
         row.rev = plans[row.plan].rev, ~HasRow(row.plan), rows' = Append(rows, row),
         revs' = revs, plans' \in Seq(Plans), DOMAIN plans' = DOMAIN plans,
         \A p \in DOMAIN plans : plans'[p].rev = plans[p].rev
  PROVE  /\ PlansInv' /\ RowsInv' /\ HistoryGrows /\ rows \in Seq(Rows) /\ rows' \in Seq(Rows)
         /\ Len(rows) \in Nat /\ Len(rows') = Len(rows) + 1
  <1>1. rows \in Seq(Rows) /\ plans \in Seq(Plans) /\ Len(rows) \in Nat
    BY DEF PlansInv, RowsInv
  <1>2. Len(plans') = Len(plans) /\ Len(plans) \in Nat
    BY <1>1, SameLength
  <1>3. rows' \in Seq(Rows) /\ Len(rows') = Len(rows) + 1 /\ DOMAIN rows' = 1..(Len(rows) + 1)
        /\ DOMAIN rows = 1..Len(rows)
    BY <1>1
  <1>4. \A i \in DOMAIN rows : rows'[i] = rows[i]
    BY <1>1
  <1>5. rows'[Len(rows) + 1] = row
    BY <1>1
  <1>6. \A i \in DOMAIN rows' : i \in DOMAIN rows \/ i = Len(rows) + 1
    BY <1>1, <1>3
  <1>7. \A i \in DOMAIN rows : rows[i].plan # row.plan
    BY DEF HasRow
  <1>8. PlansInv'
    BY <1>2 DEF PlansInv
  <1>9. RowsInv'
    <2>1. ASSUME NEW i \in DOMAIN rows'
          PROVE  rows'[i].plan \in DOMAIN plans' /\ rows'[i].rev = plans'[rows'[i].plan].rev
      <3>1. CASE i \in DOMAIN rows
        BY SMTT(30), <1>4, <3>1 DEF RowsInv
      <3>2. CASE i = Len(rows) + 1
        BY <1>5, <3>2
      <3> QED
        BY <1>6, <3>1, <3>2
    <2>2. ASSUME NEW i \in DOMAIN rows', NEW j \in DOMAIN rows', i # j
          PROVE  rows'[i].plan # rows'[j].plan
      <3>1. CASE i \in DOMAIN rows /\ j \in DOMAIN rows
        BY <1>4, <2>2, <3>1 DEF RowsInv
      <3>2. CASE ~(i \in DOMAIN rows /\ j \in DOMAIN rows)
        BY <1>4, <1>5, <1>6, <1>7, <2>2, <3>2
      <3> QED
        BY <3>1, <3>2
    <2> QED
      BY <1>3, <2>1, <2>2 DEF RowsInv
  <1>10. HistoryGrows
    BY <1>1, <1>2, <1>3 DEF HistoryGrows
  <1> QED
    BY <1>1, <1>3, <1>8, <1>9, <1>10

(* A call goes on that added one.                                          *)
LEMMA CallAndRowGo ==
  ASSUME ControlInv, NEW c \in Callers, NEW row \in Rows, row.plan \in DOMAIN plans,
         row.rev = plans[row.plan].rev, ~HasRow(row.plan), rows' = Append(rows, row),
         revs' = revs, plans' \in Seq(Plans), DOMAIN plans' = DOMAIN plans,
         \A p \in DOMAIN plans : plans'[p].rev = plans[p].rev,
         NEW q \in CallRows, CallFits(q, plans', Len(rows) + 1), call' = [call EXCEPT ![c] = q],
         UNCHANGED <<world, dp, seen, faults>>
  PROVE  ControlInv'
  <1>1. /\ PlansInv' /\ RowsInv' /\ HistoryGrows /\ rows \in Seq(Rows) /\ rows' \in Seq(Rows)
        /\ Len(rows) \in Nat /\ Len(rows') = Len(rows) + 1
    BY RowAdded DEF ControlInv
  <1>2. CallsInv'
    BY <1>1, CallGoes DEF ControlInv
  <1>3. DpInv'
    BY <1>1, DpStays DEF ControlInv
  <1> QED
    BY <1>1, <1>2, <1>3 DEF ControlInv, WorldInv, world

(* A row of a call.                                                        *)
LEMMA NewRowTypes ==
  ASSUME ControlInv, NEW r \in CallRows, r.plan \in DOMAIN plans, r.rev = plans[r.plan].rev,
         r.node \in Nodes, NEW planes \in SUBSET Planes
  PROVE  /\ NewRow(r, planes) \in Rows /\ NewRow(r, planes).plan = r.plan
         /\ NewRow(r, planes).rev = r.rev
  <1>1. r.plan \in 1..MaxPlan
    <2>1. Len(plans) <= MaxPlan /\ plans \in Seq(Plans) /\ r.plan \in 1..Len(plans) /\ Len(plans) \in Nat
      BY DEF ControlInv, PlansInv
    <2> QED
      BY <2>1, Bounds
  <1>2. r.rev \in 1..MaxPlan
    <2>1. plans[r.plan] \in Plans
      BY DEF ControlInv, PlansInv
    <2> QED
      BY <2>1 DEF Plans
  <1> QED
    BY <1>1, <1>2 DEF NewRow, Rows, CallRows

(* claim.                                                                  *)
LEMMA ClaimKeeps ==
  ASSUME ControlInv, NEW c \in Callers, Claim(c)
  PROVE  ControlInv'
  <1> DEFINE o == call[c]
             r == [o EXCEPT !.token = leads[o.node]]
             p == r.plan
             q == [r EXCEPT !.row = Len(rows) + 1, !.pc = "drive"]
             state == IF plans[p].state = "committed" THEN "operation_bound" ELSE plans[p].state
             plan == [plans[p] EXCEPT !.state = state]
             row == NewRow(r, Planes)
  <1>1. o \in CallRows /\ CallFits(o, plans, Len(rows)) /\ o.pc = "claim" /\ o.kind = "apply"
        /\ o.node \in Nodes /\ o.plan \in DOMAIN plans /\ o.rev = plans[o.plan].rev
        /\ o.exp \in Positions
    BY CallFacts DEF ControlInv, Claim, At, CallFits
  <1>2. leads[o.node] \in Tokens /\ plans \in Seq(Plans) /\ Len(rows) \in Nat
    BY <1>1 DEF ControlInv, WorldInv, PlansInv, RowsInv
  <1>3. /\ UNCHANGED <<revs, world, dp, seen, faults>>
        /\ (\/ call' = [call EXCEPT ![c] = Idle] /\ UNCHANGED <<plans, rows>>
            \/ /\ Claimable(r) /\ rows' = Append(rows, row)
               /\ plans' = [plans EXCEPT ![p].state = IF @ = "committed" THEN "operation_bound" ELSE @]
               /\ call' = [call EXCEPT ![c] = q])
    BY DEF Claim, Goes
  <1>4. CASE call' = [call EXCEPT ![c] = Idle] /\ UNCHANGED <<plans, rows>>
    <2>1. Idle \in CallRows /\ CallFits(Idle, plans, Len(rows))
      BY <1>2, IdleFits
    <2>2. DpInv' /\ faults' \in 0..MaxFaults
      BY <1>3, <1>4 DEF ControlInv, DpInv, WorldInv
    <2> QED
      BY <1>3, <1>4, <2>1, <2>2, OnlyCallGoes DEF world, db
  <1>5. CASE /\ Claimable(r) /\ rows' = Append(rows, row)
             /\ plans' = [plans EXCEPT ![p].state = IF @ = "committed" THEN "operation_bound" ELSE @]
             /\ call' = [call EXCEPT ![c] = q]
    <2>1. /\ r \in CallRows /\ r.plan = o.plan /\ r.rev = o.rev /\ r.row = o.row /\ r.before = o.before
          /\ r.kind = "apply" /\ r.node \in Nodes /\ r.exp \in Positions /\ r.before <= Len(rows)
          /\ r.before \in Nat
      <3> HIDE DEF o
      <3> QED
        BY <1>1, <1>2 DEF CallRows, CallFits
    <2>2. p \in DOMAIN plans /\ ~HasRow(p) /\ plans[p] \in Plans
      BY <1>1, <1>2, <1>5, <2>1 DEF Claimable
    <2>3. row \in Rows /\ row.plan = p /\ row.rev = plans[p].rev
      <3> HIDE DEF o, r
      <3> QED
        BY <1>1, <2>1, <2>2, NewRowTypes
    <2>4. plan \in Plans /\ plan.rev = plans[p].rev
      <3>1. state \in {"committed", "operation_bound", "applied"}
        BY <2>2, PlanState
      <3> HIDE DEF p, state
      <3> QED
        BY <2>2, <3>1, PlanUpdated
    <2>5. plans' = [plans EXCEPT ![p] = plan]
      BY <1>2, <1>5, <2>2
    <2>6. q \in CallRows /\ q.row = Len(rows) + 1 /\ q.pc = "drive" /\ q.kind = "apply"
          /\ q.plan = p /\ q.rev = r.rev /\ q.node = r.node /\ q.exp = r.exp /\ q.before = r.before
      <3> DEFINE m == Len(rows) + 1
                 x == r
      <3>1. m \in Nat /\ x \in CallRows /\ x.kind = "apply" /\ "drive" \in Stages
        BY <1>2, <2>1 DEF Stages
      <3>2. q = [x EXCEPT !.row = m, !.pc = "drive"]
        OBVIOUS
      <3>3. m = Len(rows) + 1 /\ x = r /\ r.plan = p
        OBVIOUS
      <3> HIDE DEF o, p, q, r, m, x
      <3>4. q \in CallRows /\ q.row = m /\ q.pc = "drive" /\ q.kind = x.kind
            /\ q.plan = x.plan /\ q.rev = x.rev /\ q.node = x.node /\ q.exp = x.exp /\ q.before = x.before
        BY <3>1, <3>2 DEF CallRows
      <3> QED
        BY <3>1, <3>3, <3>4
    <2> HIDE DEF o, r, p, q, state, plan, row
    <2>7. /\ plans' \in Seq(Plans) /\ DOMAIN plans' = DOMAIN plans
          /\ \A k \in DOMAIN plans : plans'[k] = IF k = p THEN plan ELSE plans[k]
      BY <1>2, <2>2, <2>4, <2>5, SeqUpdated
    <2>8. \A k \in DOMAIN plans : plans'[k].rev = plans[k].rev
      BY <2>4, <2>7
    <2>9. CallFits(q, plans', Len(rows) + 1)
      BY <1>1, <1>2, <2>1, <2>2, <2>6, <2>7, <2>8 DEF CallFits, p
    <2>10. row.plan \in DOMAIN plans /\ row.rev = plans[row.plan].rev /\ ~HasRow(row.plan)
           /\ revs' = revs
      BY <1>3, <2>2, <2>3
    <2> QED
      BY <1>3, <1>5, <2>3, <2>6, <2>7, <2>8, <2>9, <2>10, CallAndRowGo
  <1> QED
    BY <1>3, <1>4, <1>5

(* The row of a change of the membership alone.                            *)
LEMMA InsertKeeps ==
  ASSUME ControlInv, NEW c \in Callers, Insert(c)
  PROVE  ControlInv'
  <1> DEFINE r == call[c]
             row == NewRow(r, Touched(r))
             q == [r EXCEPT !.pc = "deltas", !.row = Len(rows) + 1]
             same == [r EXCEPT !.pc = "deltas"]
  <1>1. r \in CallRows /\ CallFits(r, plans, Len(rows)) /\ r.pc = "insert" /\ r.kind = "members"
        /\ r.node \in Nodes /\ r.plan \in DOMAIN plans /\ r.rev = plans[r.plan].rev
        /\ r.exp \in Positions /\ r.todo # {}
    BY CallFacts DEF ControlInv, Insert, At, CallFits
  <1>2. Len(rows) \in Nat /\ plans \in Seq(Plans)
    BY DEF ControlInv, PlansInv, RowsInv
  <1>3. /\ UNCHANGED <<revs, plans, world, dp, seen, faults>>
        /\ (\/ call' = [call EXCEPT ![c] = same] /\ UNCHANGED rows
            \/ /\ ~HasRow(r.plan) /\ rows' = Append(rows, row)
               /\ call' = [call EXCEPT ![c] = q])
    BY DEF Insert, Goes
  <1>4. CASE call' = [call EXCEPT ![c] = same] /\ UNCHANGED rows
    <2>1. same \in CallRows /\ CallFits(same, plans, Len(rows))
      <3> HIDE DEF r
      <3> QED
        BY <1>1 DEF CallRows, CallFits, Stages
    <2>2. DpInv' /\ faults' \in 0..MaxFaults
      BY <1>3, <1>4 DEF ControlInv, DpInv, WorldInv
    <2> HIDE DEF same
    <2> QED
      BY <1>3, <1>4, <2>1, <2>2, OnlyCallGoes DEF world, db
  <1>5. CASE /\ ~HasRow(r.plan) /\ rows' = Append(rows, row)
             /\ call' = [call EXCEPT ![c] = q]
    <2>1. Touched(r) \in SUBSET Planes
      BY <1>1, ControlAssumption DEF Touched, CallRows
    <2>2. row \in Rows /\ row.plan = r.plan /\ row.rev = r.rev
      <3> HIDE DEF r
      <3> QED
        BY <1>1, <2>1, NewRowTypes
    <2>3. q \in CallRows /\ CallFits(q, plans, Len(rows) + 1)
      <3> DEFINE m == Len(rows) + 1
      <3>1. m \in Nat /\ m # 0 /\ r.before <= m
        BY <1>1, <1>2 DEF CallRows, CallFits
      <3>2. q = [r EXCEPT !.pc = "deltas", !.row = m] /\ m = Len(rows) + 1
        OBVIOUS
      <3> HIDE DEF r, q, m
      <3>3. q \in CallRows /\ q.row = m /\ q.pc = "deltas" /\ q.kind = "members" /\ q.plan = r.plan
            /\ q.rev = r.rev /\ q.node = r.node /\ q.exp = r.exp /\ q.before = r.before
            /\ q.todo = r.todo
        BY <1>1, <3>1, <3>2 DEF CallRows, Stages
      <3>4. CallFits(q, plans, m)
        BY <1>1, <3>1, <3>3 DEF CallFits
      <3> QED
        BY <3>2, <3>3, <3>4
    <2> HIDE DEF q, row, r
    <2>4. plans' = plans /\ plans' \in Seq(Plans)
      BY <1>2, <1>3
    <2> QED
      BY <1>1, <1>3, <1>5, <2>2, <2>3, <2>4, CallAndRowGo
  <1> QED
    BY <1>3, <1>4, <1>5

-----------------------------------------------------------------------------
(* The sweep.                                                              *)

(* In a finite set of numbers there is one of every rank.                  *)
LEMMA Ranked ==
  ASSUME NEW S \in SUBSET Nat, IsFiniteSet(S), NEW k \in 1..Cardinality(S)
  PROVE  \E i \in S : Cardinality({j \in S : j <= i}) = k
  <1> DEFINE UpTo(i) == {j \in S : j <= i}
             m == Cardinality(S)
             rank == [i \in S |-> Cardinality(UpTo(i))]
  <1>1. m \in Nat
    BY FS_CardinalityType
  <1>2. \A i \in S : UpTo(i) \in SUBSET S /\ IsFiniteSet(UpTo(i)) /\ Cardinality(UpTo(i)) \in 1..m
    <2> TAKE i \in S
    <2>1. UpTo(i) \in SUBSET S /\ i \in UpTo(i)
      OBVIOUS
    <2> HIDE DEF UpTo
    <2>2. IsFiniteSet(UpTo(i)) /\ Cardinality(UpTo(i)) <= m /\ Cardinality(UpTo(i)) \in Nat
      BY <2>1, FS_Subset, FS_CardinalityType
    <2>3. Cardinality(UpTo(i)) # 0
      BY <2>1, <2>2, FS_EmptySet
    <2> QED
      BY <1>1, <2>1, <2>2, <2>3
  <1>3. ASSUME NEW i \in S, NEW j \in S, i < j
        PROVE  Cardinality(UpTo(i)) # Cardinality(UpTo(j))
    <2>1. i \in Nat /\ j \in Nat /\ \A x \in S : x \in Nat
      OBVIOUS
    <2>2. \A x \in S : x <= i => x <= j
      BY <1>3, <2>1
    <2>3. ~ (j <= i) /\ j <= j
      BY <1>3, <2>1
    <2>4. UpTo(i) \in SUBSET UpTo(j) /\ j \in UpTo(j) /\ j \notin UpTo(i)
      <3>1. \A x \in UpTo(i) : x \in UpTo(j)
        BY <2>2
      <3>2. j \in UpTo(j) /\ j \notin UpTo(i)
        BY <2>3
      <3> QED
        BY <3>1, <3>2
    <2> HIDE DEF UpTo
    <2> QED
      BY <1>2, <2>4, FS_Subset
  <1>4. rank \in [S -> 1..m]
    <2> HIDE DEF UpTo, m
    <2> QED
      BY <1>2
  <1>5. ASSUME NEW i \in S, NEW j \in S, rank[i] = rank[j] PROVE i = j
    <2>1. rank[i] = Cardinality(UpTo(i)) /\ rank[j] = Cardinality(UpTo(j)) /\ i \in Nat /\ j \in Nat
      OBVIOUS
    <2> HIDE DEF UpTo, rank
    <2>2. ~ (i < j) /\ ~ (j < i)
      BY <1>3, <1>5, <2>1
    <2> QED
      BY <2>1, <2>2
  <1>6. IsFiniteSet(1..m) /\ Cardinality(1..m) = m
    BY <1>1, FS_Interval
  <1>7. \E i \in S : rank[i] = k
    <2> HIDE DEF rank
    <2>1. rank \in Injection(S, 1..m)
      BY <1>4, <1>5 DEF Injection, IsInjective
    <2>2. rank \in Surjection(S, 1..m)
      BY <1>6, <2>1, FS_Injection
    <2> QED
      BY <2>2 DEF Surjection
  <1> QED
    BY <1>7

(* What is left of the directories is directories.                         *)
LEMMA SweptTypes ==
  ASSUME NEW dirs \in Seq(Directories), NEW protect
  PROVE  Swept(dirs, protect) \in Seq(Directories)
  <1> DEFINE stays(i) ==
               \/ dirs[i].gen \in protect
               \/ Cardinality({j \in DOMAIN dirs : j > i /\ dirs[j].gen \notin protect}) < Keep
             kept == {i \in DOMAIN dirs : stays(i)}
             at(k) == CHOOSE i \in kept : Cardinality({j \in kept : j <= i}) = k
  <1>1. kept \in SUBSET (1..Len(dirs)) /\ kept \in SUBSET Nat /\ Len(dirs) \in Nat
    OBVIOUS
  <1>2. Swept(dirs, protect) = [k \in 1..Cardinality(kept) |-> dirs[at(k)]]
    BY DEF Swept
  <1>3. \A i \in kept : dirs[i] \in Directories
    BY <1>1
  <1> HIDE DEF kept
  <1>4. IsFiniteSet(kept) /\ Cardinality(kept) \in Nat
    <2>1. IsFiniteSet(1..Len(dirs))
      BY <1>1, FS_Interval
    <2> QED
      BY <1>1, <2>1, FS_Subset, FS_CardinalityType
  <1>5. ASSUME NEW k \in 1..Cardinality(kept) PROVE dirs[at(k)] \in Directories
    BY <1>1, <1>3, <1>4, Ranked
  <1> DEFINE m == Cardinality(kept)
             after == [k \in 1..m |-> dirs[at(k)]]
  <1>6. m \in Nat /\ \A k \in 1..m : dirs[at(k)] \in Directories
    BY <1>4, <1>5
  <1>7. Swept(dirs, protect) = after
    BY <1>2
  <1> HIDE DEF at, m
  <1>8. after \in [1..m -> Directories]
    BY <1>6
  <1> HIDE DEF after
  <1>9. after \in Seq(Directories)
    BY <1>6, <1>8, SMT
  <1> QED
    BY <1>7, <1>9

(* sweep.                                                                  *)
LEMMA SweepKeeps ==
  ASSUME ControlInv, NEW c \in Callers, Sweep(c)
  PROVE  ControlInv'
  <1> DEFINE r == call[c]
             d == dp[r.node]
             dirs == Swept(d.dirs, Protected(r))
             e == [d EXCEPT !.dirs = dirs]
  <1>1. r \in CallRows /\ CallFits(r, plans, Len(rows)) /\ r.pc = "sweep" /\ r.node \in Nodes
    BY CallFacts DEF ControlInv, Sweep, At, CallFits
  <1>2. d \in DataPlanes /\ JobFits(d, Len(rows)) /\ Len(rows) \in Nat
    BY <1>1, NodeFacts DEF ControlInv, RowsInv
  <1>3. dp' = [dp EXCEPT ![r.node] = e] /\ call' = [call EXCEPT ![c] = Idle]
        /\ UNCHANGED <<db, world, seen, faults>> /\ faults \in 0..MaxFaults
    BY <1>1 DEF Sweep, Goes, ControlInv, DpInv, WorldInv
  <1>4. e \in DataPlanes /\ JobFits(e, Len(rows))
    <2> HIDE DEF d, r
    <2>1. d.dirs \in Seq(Directories)
      BY <1>2 DEF DataPlanes
    <2>2. dirs \in Seq(Directories)
      BY <2>1, SweptTypes
    <2> HIDE DEF dirs
    <2> QED
      BY <1>2, <2>2 DEF DataPlanes, JobFits
  <1> HIDE DEF e
  <1>5. DpInv'
    BY <1>1, <1>3, <1>4, OnlyDpGoes
  <1>6. Idle \in CallRows /\ CallFits(Idle, plans, Len(rows))
    BY <1>2, IdleFits
  <1> QED
    BY <1>3, <1>5, <1>6, OnlyCallGoes DEF world

-----------------------------------------------------------------------------
(* The membership alone.                                                   *)

(* A loop over the planes takes one of its own next.                       *)
LEMMA FirstOfPlaces ==
  ASSUME NEW places \in SUBSET (DOMAIN PlaneOrder), places # {}
  PROVE  First(places) \in places /\ PlaneOrder[First(places)] \in Planes
  <1>1. PlaneOrder \in Seq(Planes) /\ places \in SUBSET Nat
    BY ControlAssumption
  <1>2. \E i \in places : \A j \in places : i <= j
    BY <1>1, LeastNumber
  <1> QED
    BY <1>1, <1>2 DEF First

(* applyMembershipOnly begins.                                             *)
LEMMA MembersKeeps ==
  ASSUME ControlInv, NEW c \in Callers, Members(c)
  PROVE  ControlInv'
  <1> DEFINE r == call[c]
             d == dp[r.node]
             touched == PlacesOf({p \in Planes : d.pos[p].epoch = r.epoch})
             q == [r EXCEPT !.pc = "insert", !.token = leads[r.node], !.gen = d.pub,
                            !.exp = d.pos, !.todo = touched]
  <1>1. r \in CallRows /\ CallFits(r, plans, Len(rows)) /\ r.pc = "members" /\ r.node \in Nodes
        /\ r.kind = "members"
    BY CallFacts DEF ControlInv, Members, At, CallFits
  <1>2. d \in DataPlanes /\ Len(rows) \in Nat /\ leads[r.node] \in Tokens
    BY <1>1, NodeFacts DEF ControlInv, RowsInv, WorldInv
  <1>3. UNCHANGED <<db, world, dp, seen, faults>> /\ faults \in 0..MaxFaults
        /\ (\/ call' = [call EXCEPT ![c] = Idle]
            \/ touched # {} /\ call' = [call EXCEPT ![c] = q])
    BY DEF Members, Goes, ControlInv, WorldInv
  <1>4. DpInv'
    BY <1>3 DEF ControlInv, DpInv, db
  <1>5. CASE call' = [call EXCEPT ![c] = Idle]
    <2>1. Idle \in CallRows /\ CallFits(Idle, plans, Len(rows))
      BY <1>2, IdleFits
    <2> QED
      BY <1>3, <1>4, <1>5, <2>1, OnlyCallGoes DEF world
  <1>6. CASE touched # {} /\ call' = [call EXCEPT ![c] = q]
    <2> DEFINE t == leads[r.node]
               g == d.pub
               e == d.pos
    <2>1. touched \in SUBSET (DOMAIN PlaneOrder) /\ t \in Tokens /\ g \in Epochs /\ e \in Positions
          /\ "insert" \in Stages
      BY <1>2 DEF PlacesOf, DataPlanes, Stages
    <2> DEFINE y == [r EXCEPT !.pc = "insert", !.token = t, !.gen = g]
    <2>2. q = [y EXCEPT !.exp = e, !.todo = touched]
      OBVIOUS
    <2> HIDE DEF r, t, g, e, touched, q
    <2>5. y \in CallRows /\ y.pc = "insert" /\ y.kind = r.kind /\ y.node = r.node /\ y.row = r.row
          /\ y.before = r.before /\ y.plan = r.plan /\ y.rev = r.rev
      BY <1>1, <2>1 DEF CallRows
    <2> HIDE DEF y
    <2>3. q \in CallRows /\ q.pc = "insert" /\ q.kind = r.kind /\ q.node = r.node /\ q.row = r.row
          /\ q.before = r.before /\ q.plan = r.plan /\ q.rev = r.rev /\ q.exp = e /\ q.todo = touched
      BY <2>1, <2>2, <2>5 DEF CallRows
    <2>4. CallFits(q, plans, Len(rows))
      BY <1>1, <1>6, <2>1, <2>3 DEF CallFits
    <2> QED
      BY <1>3, <1>4, <1>6, <2>3, <2>4, OnlyCallGoes DEF world
  <1> QED
    BY <1>3, <1>5, <1>6

(* applyMembership on one plane.                                           *)
LEMMA DeltaKeeps ==
  ASSUME ControlInv, NEW c \in Callers, Delta(c)
  PROVE  ControlInv'
  <1> DEFINE r == call[c]
             d == dp[r.node]
             i == First(r.todo)
             p == PlaneOrder[i]
             q == [r EXCEPT !.todo = @ \ {i}, !.pc = IF r.todo = {i} THEN "members_note" ELSE @]
             e == [d EXCEPT !.pos[p].rev = @ + 1]
  <1>4. /\ call[c].pc = "deltas" /\ UNCHANGED <<db, world, seen>> /\ d.pos[p].rev < MaxDelta
        /\ (\/ call' = [call EXCEPT ![c] = Idle] /\ UNCHANGED <<dp, faults>>
            \/ /\ dp' = [dp EXCEPT ![r.node].pos[p].rev = @ + 1]
               /\ \/ call' = [call EXCEPT ![c] = q] /\ UNCHANGED faults
                  \/ call' = [call EXCEPT ![c] = Idle] /\ faults > 0 /\ faults' = faults - 1)
    BY ZenonT(60) DEF Delta, Goes, At
  <1> HIDE DEF d, i, p, q, e
  <1>1. r \in CallRows /\ CallFits(r, plans, Len(rows)) /\ r.pc = "deltas" /\ r.node \in Nodes
        /\ r.kind = "members" /\ r.todo # {} /\ r.todo \in SUBSET (DOMAIN PlaneOrder)
    <2>1. r \in CallRows /\ CallFits(r, plans, Len(rows)) /\ r.pc = "deltas"
      BY <1>4, CallFacts DEF ControlInv
    <2> HIDE DEF r
    <2> QED
      BY <2>1 DEF CallFits, CallRows
  <1>2. d \in DataPlanes /\ JobFits(d, Len(rows)) /\ Len(rows) \in Nat
    BY <1>1, NodeFacts DEF ControlInv, RowsInv, d
  <1>3. i \in r.todo /\ p \in Planes
    <2> DEFINE todo == r.todo
    <2>1. todo \in SUBSET (DOMAIN PlaneOrder) /\ todo # {}
      BY <1>1
    <2> HIDE DEF todo
    <2>2. First(todo) \in todo /\ PlaneOrder[First(todo)] \in Planes
      BY <2>1, FirstOfPlaces
    <2> QED
      BY <2>2 DEF todo, i, p
  <1>5. Idle \in CallRows /\ CallFits(Idle, plans, Len(rows))
    BY <1>2, IdleFits
  <1>6. faults' \in 0..MaxFaults
    BY <1>4, Bounds DEF ControlInv, WorldInv
  <1>7. CASE call' = [call EXCEPT ![c] = Idle] /\ UNCHANGED <<dp, faults>>
    <2>1. DpInv'
      BY <1>4, <1>7 DEF ControlInv, DpInv, db
    <2> QED
      BY <1>4, <1>5, <1>6, <1>7, <2>1, OnlyCallGoes DEF world
  <1>8. CASE dp' = [dp EXCEPT ![r.node].pos[p].rev = @ + 1]
    <2>1. dp' = [dp EXCEPT ![r.node] = e]
      <3> HIDE DEF r
      <3> QED
        BY <1>1, <1>8 DEF ControlInv, DpInv, d, e
    <2>2. e \in DataPlanes /\ JobFits(e, Len(rows))
      <3>0. d.pos \in [Planes -> [epoch : Epochs, rev : 0..MaxDelta]]
        BY <1>2 DEF DataPlanes, Positions
      <3> DEFINE at == d.pos[p]
                 moved == [at EXCEPT !.rev = @ + 1]
                 before == d.pos
                 pos == [before EXCEPT ![p] = moved]
      <3>1. at \in [epoch : Epochs, rev : 0..MaxDelta] /\ at.rev < MaxDelta
        BY <1>3, <1>4, <3>0
      <3> HIDE DEF at
      <3>2. moved \in [epoch : Epochs, rev : 0..MaxDelta]
        BY <3>1, Bounds
      <3>3. e = [d EXCEPT !.pos = pos]
        BY <1>2 DEF DataPlanes, at, e
      <3> HIDE DEF moved, r
      <3>4. pos \in Positions
        <4>1. before \in [Planes -> [epoch : Epochs, rev : 0..MaxDelta]]
          BY <3>0
        <4> HIDE DEF before
        <4> QED
          BY <3>2, <4>1 DEF Positions
      <3> HIDE DEF pos
      <3> QED
        BY <1>2, <3>3, <3>4 DEF DataPlanes, JobFits
    <2>3. DpInv'
      BY <1>1, <1>4, <2>1, <2>2, OnlyDpGoes
    <2>4. q \in CallRows /\ CallFits(q, plans, Len(rows))
      <3> DEFINE todo == r.todo \ {i}
                 pc == IF r.todo = {i} THEN "members_note" ELSE r.pc
      <3>1. todo \in SUBSET (DOMAIN PlaneOrder) /\ pc \in {"deltas", "members_note"}
            /\ (pc = "deltas" => todo # {})
        BY <1>1, <1>3
      <3>5. pc \in Stages
        BY <3>1 DEF Stages
      <3>2. q = [r EXCEPT !.todo = todo, !.pc = pc]
        BY DEF q
      <3> HIDE DEF r, todo, pc
      <3>3. q \in CallRows /\ q.pc = pc /\ q.kind = r.kind /\ q.node = r.node /\ q.row = r.row
            /\ q.before = r.before /\ q.plan = r.plan /\ q.rev = r.rev /\ q.exp = r.exp /\ q.todo = todo
        BY <1>1, <3>1, <3>2, <3>5 DEF CallRows
      <3> QED
        BY <1>1, <3>1, <3>3 DEF CallFits
    <2>5. call' = [call EXCEPT ![c] = q] \/ call' = [call EXCEPT ![c] = Idle]
      BY <1>4
    <2> QED
      BY <1>4, <1>5, <1>6, <2>3, <2>4, <2>5, OnlyCallGoes DEF world
  <1> QED
    BY <1>4, <1>7, <1>8

-----------------------------------------------------------------------------
(* cancel and recover.                                                     *)

(* cancel reads its row.                                                   *)
LEMMA CancelReadsKeeps ==
  ASSUME ControlInv, NEW c \in Callers, NEW n \in Nodes, NEW i \in DOMAIN rows,
         CancelReads(c, n, i)
  PROVE  ControlInv'
  <1> DEFINE x == Starts("cancel", n, "abort")
             q == [x EXCEPT !.row = i]
  <1>1. x \in CallRows /\ x.kind = "cancel" /\ x.node = n /\ x.pc = "abort" /\ x.row = 0
        /\ x.before = 0
    BY StartsFields DEF Kinds, Stages
  <1>2. i \in Nat /\ i # 0 /\ i <= Len(rows) /\ Len(rows) \in Nat
    BY DEF ControlInv, RowsInv
  <1>3. call' = [call EXCEPT ![c] = q] /\ UNCHANGED <<db, world, dp, seen, faults>>
        /\ faults \in 0..MaxFaults
    BY DEF CancelReads, Goes, ControlInv, WorldInv
  <1> HIDE DEF x
  <1>4. q \in CallRows /\ q.kind = "cancel" /\ q.node = n /\ q.pc = "abort" /\ q.row = i
        /\ q.before = 0
    BY <1>1, <1>2 DEF CallRows
  <1> HIDE DEF q
  <1>5. CallFits(q, plans, Len(rows))
    BY <1>2, <1>4 DEF CallFits
  <1>6. DpInv'
    BY <1>3 DEF ControlInv, DpInv, db
  <1> QED
    BY <1>3, <1>4, <1>5, <1>6, OnlyCallGoes DEF world

(* recover reads whose operation is unfinished.                            *)
LEMMA RecoverReadsKeeps ==
  ASSUME ControlInv, NEW c \in Callers, NEW n \in Nodes, RecoverReads(c, n)
  PROVE  ControlInv'
  <1> DEFINE x == Starts("recover", n, "recover")
             b == IF Unfinished(dp[n]) THEN dp[n].job.row ELSE 0
             q == [x EXCEPT !.before = b]
  <1>1. x \in CallRows /\ x.kind = "recover" /\ x.node = n /\ x.pc = "recover" /\ x.row = 0
        /\ x.before = 0
    BY StartsFields DEF Kinds, Stages
  <1>2. b \in Nat /\ b <= Len(rows) /\ Len(rows) \in Nat
    <2>1. dp[n] \in DataPlanes /\ JobFits(dp[n], Len(rows)) /\ Len(rows) \in Nat
      BY NodeFacts DEF ControlInv, RowsInv
    <2> QED
      BY <2>1 DEF JobFits, Unfinished
  <1>3. call' = [call EXCEPT ![c] = q] /\ UNCHANGED <<db, world, dp, seen, faults>>
        /\ faults \in 0..MaxFaults
    BY DEF RecoverReads, Goes, ControlInv, WorldInv
  <1> HIDE DEF x, b
  <1>4. q \in CallRows /\ q.kind = "recover" /\ q.node = n /\ q.pc = "recover" /\ q.row = 0
        /\ q.before = b
    BY <1>1, <1>2 DEF CallRows
  <1> HIDE DEF q
  <1>5. CallFits(q, plans, Len(rows))
    BY <1>2, <1>4 DEF CallFits
  <1>6. DpInv'
    BY <1>3 DEF ControlInv, DpInv, db
  <1> QED
    BY <1>3, <1>4, <1>5, <1>6, OnlyCallGoes DEF world

-----------------------------------------------------------------------------
(* The drives, and whom they answer.                                       *)

(* A job that ends.                                                        *)
LEMMA FinishedFits ==
  ASSUME NEW d \in DataPlanes, NEW n \in Nat, JobFits(d, n), d.job # None, NEW out \in Terminal
  PROVE  /\ Finished(d, out) \in DataPlanes /\ JobFits(Finished(d, out), n)
         /\ Finished(d, out).max = d.max /\ Finished(d, out).pos = d.pos
         /\ Finished(d, out).aborted = d.aborted
  <1> DEFINE j == d.job
             k == [j EXCEPT !.phase = out]
             who == d.ended \cup {<<j.row, j.token>>}
  <1>1. j \in Jobs /\ j.row \in 1..n
    BY DEF DataPlanes, JobFits
  <1>2. who \in Verdicts
    BY <1>1 DEF DataPlanes, Verdicts, Jobs
  <1>3. Finished(d, out) = [d EXCEPT !.job = k, !.ended = who]
    BY DEF Finished, DataPlanes
  <1> HIDE DEF j, who
  <1>4. k \in Jobs /\ k.row = j.row
    BY <1>1 DEF Jobs
  <1> HIDE DEF k
  <1> QED
    BY <1>1, <1>2, <1>3, <1>4 DEF DataPlanes, JobFits

(* A data plane that is fenced.                                            *)
LEMMA FencedFits ==
  ASSUME NEW d \in DataPlanes, NEW n \in Nat, JobFits(d, n), NEW token \in Tokens
  PROVE  Fenced(d, token) \in DataPlanes /\ JobFits(Fenced(d, token), n)
  <1> DEFINE j == d.job
             k == IF Unfinished(d) /\ j.token < token THEN [j EXCEPT !.phase = "superseded"] ELSE j
  <1>1. j \in Jobs \cup {None} /\ (j # None => j.row \in 1..n)
    BY DEF DataPlanes, JobFits
  <1>2. Fenced(d, token) = [d EXCEPT !.max = token, !.job = k]
    BY DEF Fenced, DataPlanes
  <1>3. k \in Jobs \cup {None} /\ (k # None => k.row \in 1..n)
    <2>1. CASE Unfinished(d) /\ j.token < token
      <3>1. j \in Jobs /\ j.row \in 1..n
        BY <1>1, <2>1 DEF Unfinished
      <3>2. k = [j EXCEPT !.phase = "superseded"]
        BY <2>1
      <3> HIDE DEF j, k
      <3>3. k \in Jobs /\ k.row = j.row
        BY <3>1, <3>2 DEF Jobs, Terminal
      <3> QED
        BY <3>1, <3>3
    <2>2. CASE ~(Unfinished(d) /\ j.token < token)
      BY <1>1, <2>2
    <2> QED
      BY <2>1, <2>2
  <1> HIDE DEF k
  <1> QED
    BY <1>2, <1>3 DEF DataPlanes, JobFits

(* A job whose drive is stopped, or goes on.                               *)
LEMMA PhaseFits ==
  ASSUME NEW d \in DataPlanes, NEW n \in Nat, JobFits(d, n), d.job # None,
         NEW phase \in {"running", "stopped"}
  PROVE  /\ [d EXCEPT !.job.phase = phase] \in DataPlanes
         /\ JobFits([d EXCEPT !.job.phase = phase], n)
  <1> DEFINE j == d.job
             k == [j EXCEPT !.phase = phase]
             e == [d EXCEPT !.job.phase = phase]
  <1>1. j \in Jobs /\ j.row \in 1..n
    BY DEF DataPlanes, JobFits
  <1>2. e = [d EXCEPT !.job = k]
    BY DEF DataPlanes
  <1> HIDE DEF j
  <1>3. k \in Jobs /\ k.row = j.row
    BY <1>1 DEF Jobs
  <1> HIDE DEF k, e
  <1>4. e \in DataPlanes /\ JobFits(e, n)
    BY <1>1, <1>2, <1>3 DEF DataPlanes, JobFits
  <1> QED
    BY <1>4 DEF e

(* A verdict is one of the ends.                                           *)
LEMMA VerdictEnds == \A moved : Verdict(moved) \in Terminal
  BY DEF Verdict, Terminal

(* A call that is answered goes on to note it.                             *)
Answered(x, out) == [x EXCEPT !.pc = "note", !.out = out]
EndedAs(x, row, out) == [x EXCEPT !.pc = "note", !.row = row, !.out = out]

(* Such a call still fits.                                                 *)
LEMMA AnsweredFits ==
  ASSUME NEW x \in CallRows, NEW ps, NEW n, CallFits(x, ps, n), x.pc = "wait", NEW out \in Terminal
  PROVE  Answered(x, out) \in CallRows /\ CallFits(Answered(x, out), ps, n)
  <1> DEFINE y == [x EXCEPT !.pc = "note", !.out = out]
  <1>1. "note" \in Stages
    BY DEF Stages
  <1>2. y \in CallRows /\ y.pc = "note" /\ y.out = out /\ y.kind = x.kind /\ y.node = x.node
        /\ y.row = x.row /\ y.before = x.before /\ y.plan = x.plan /\ y.rev = x.rev
    BY <1>1 DEF CallRows
  <1> HIDE DEF y
  <1>3. CallFits(y, ps, n)
    BY <1>2 DEF CallFits
  <1> QED
    BY <1>2, <1>3 DEF y, Answered

(* All who wait for a drive are.                                           *)
LEMMA AnswersFit ==
  ASSUME ControlInv, NEW n \in Nodes, NEW out \in Terminal
  PROVE  /\ Answers(n, out) \in [Callers -> CallRows]
         /\ \A c \in Callers : CallFits(Answers(n, out)[c], plans, Len(rows))
  <1>1. call \in [Callers -> CallRows]
    BY DEF ControlInv, CallsInv
  <1>2. \A c \in Callers :
          /\ Waits(c, n) => Answers(n, out)[c] = Answered(call[c], out)
          /\ ~Waits(c, n) => Answers(n, out)[c] = call[c]
    BY <1>1 DEF Answers, Answered
  <1>3. ASSUME NEW c \in Callers
        PROVE  Answers(n, out)[c] \in CallRows /\ CallFits(Answers(n, out)[c], plans, Len(rows))
    <2>1. call[c] \in CallRows /\ CallFits(call[c], plans, Len(rows))
      BY CallFacts DEF ControlInv
    <2>2. CASE Waits(c, n)
      <3> DEFINE x == call[c]
      <3>1. x.pc = "wait" /\ x \in CallRows /\ CallFits(x, plans, Len(rows))
        BY <2>1, <2>2 DEF Waits
      <3>2. Answers(n, out)[c] = Answered(x, out)
        BY <1>2, <2>2
      <3> HIDE DEF x
      <3> QED
        BY <3>1, <3>2, AnsweredFits
    <2>3. CASE ~Waits(c, n)
      BY <1>2, <2>1, <2>3
    <2> QED
      BY <2>2, <2>3
  <1>4. Answers(n, out) = [c \in Callers |-> Answers(n, out)[c]]
    BY <1>1 DEF Answers
  <1> QED
    BY <1>3, <1>4

(* Calls go on and the tables stay.                                        *)
LEMMA CallsGo ==
  ASSUME ControlInv, call' \in [Callers -> CallRows],
         \A c \in Callers : CallFits(call'[c], plans, Len(rows)),
         UNCHANGED db, DpInv', WorldInv'
  PROVE  ControlInv'
  <1>1. PlansInv' /\ RowsInv' /\ plans' = plans /\ rows' = rows
    BY DbStays DEF ControlInv, db
  <1>2. CallsInv'
    BY <1>1 DEF CallsInv
  <1> QED
    BY <1>1, <1>2 DEF ControlInv

(* The calls as they are.                                                  *)
LEMMA CallsAsTheyAre ==
  ASSUME ControlInv, UNCHANGED call
  PROVE  /\ call' \in [Callers -> CallRows]
         /\ \A c \in Callers : CallFits(call'[c], plans, Len(rows))
  BY DEF ControlInv, CallsInv

(* The pointer.                                                            *)
LEMMA PublishKeeps ==
  ASSUME ControlInv, NEW n \in Nodes, Publish(n)
  PROVE  ControlInv'
  <1> DEFINE d == dp[n]
             gen == d.job.gen
             e == [d EXCEPT !.pub = gen]
  <1>1. d \in DataPlanes /\ JobFits(d, Len(rows))
    BY NodeFacts DEF ControlInv
  <1>2. dp' = [dp EXCEPT ![n] = e] /\ d.job # None /\ UNCHANGED <<db, world, seen, call, faults>>
    BY DEF Publish, Running, ControlInv, DpInv
  <1>3. gen \in Epochs
    BY <1>1, <1>2 DEF DataPlanes, Jobs
  <1>4. e \in DataPlanes /\ JobFits(e, Len(rows))
    <2> HIDE DEF d, gen
    <2> QED
      BY <1>1, <1>3 DEF DataPlanes, JobFits
  <1> HIDE DEF e
  <1>5. DpInv' /\ WorldInv'
    BY <1>2, <1>4, OnlyDpGoes DEF ControlInv, WorldInv, world
  <1> QED
    BY <1>2, <1>5, CallsAsTheyAre, CallsGo

(* A plane moves.                                                          *)
LEMMA MoveKeeps ==
  ASSUME ControlInv, NEW n \in Nodes, Move(n)
  PROVE  ControlInv'
  <1> DEFINE d == dp[n]
             p == PlaneOrder[First(ToMove(d))]
             at == [epoch |-> d.job.epoch, rev |-> 0]
             before == d.pos
             pos == [before EXCEPT ![p] = at]
             e == [d EXCEPT !.pos = pos]
  <1>1. d \in DataPlanes /\ JobFits(d, Len(rows))
    BY NodeFacts DEF ControlInv
  <1>2. dp' = [dp EXCEPT ![n].pos[p] = at] /\ d.job # None /\ ToMove(d) # {}
        /\ UNCHANGED <<db, world, seen, call, faults>>
    BY DEF Move, Running
  <1>3. p \in Planes
    <2>1. ToMove(d) \in SUBSET (DOMAIN PlaneOrder)
      BY DEF ToMove, PlacesOf
    <2> QED
      BY <1>2, <2>1, FirstOfPlaces
  <1>4. at \in [epoch : Epochs, rev : 0..MaxDelta]
    BY <1>1, <1>2, Bounds DEF DataPlanes, Jobs
  <1>5. before \in [Planes -> [epoch : Epochs, rev : 0..MaxDelta]]
    BY <1>1 DEF DataPlanes, Positions
  <1>6. dp' = [dp EXCEPT ![n] = e]
    <2> HIDE DEF p, at
    <2> QED
      BY <1>2 DEF ControlInv, DpInv
  <1> HIDE DEF d, p, at, before
  <1>7. pos \in Positions
    BY <1>3, <1>4, <1>5 DEF Positions
  <1> HIDE DEF pos
  <1>8. e \in DataPlanes /\ JobFits(e, Len(rows))
    BY <1>1, <1>7 DEF DataPlanes, JobFits
  <1> HIDE DEF e
  <1>9. DpInv' /\ WorldInv'
    BY <1>2, <1>6, <1>8, OnlyDpGoes DEF ControlInv, WorldInv, world
  <1> QED
    BY <1>2, <1>9, CallsAsTheyAre, CallsGo

(* A drive ends.                                                           *)
LEMMA EndsKeeps ==
  ASSUME ControlInv, NEW n \in Nodes, Ends(n)
  PROVE  ControlInv'
  <1> DEFINE d == dp[n]
             out == Verdict(MovedPlanes(d))
             e == Finished(d, out)
  <1>1. d \in DataPlanes /\ JobFits(d, Len(rows)) /\ Len(rows) \in Nat
    BY NodeFacts DEF ControlInv, RowsInv
  <1>2. dp' = [dp EXCEPT ![n] = e] /\ d.job # None /\ call' = Answers(n, out)
        /\ UNCHANGED <<db, world, seen>>
    BY DEF Ends, Running, ControlInv, DpInv
  <1>3. faults' \in 0..MaxFaults
    <2>1. faults' = faults \/ (faults > 0 /\ faults' = faults - 1)
      BY DEF Ends
    <2> QED
      BY <2>1, Bounds DEF ControlInv, WorldInv
  <1>4. out \in Terminal
    BY VerdictEnds
  <1> HIDE DEF d, out
  <1>5. e \in DataPlanes /\ JobFits(e, Len(rows))
    BY <1>1, <1>2, <1>4, FinishedFits
  <1> HIDE DEF e
  <1>6. DpInv' /\ WorldInv'
    BY <1>2, <1>3, <1>5, OnlyDpGoes DEF ControlInv, WorldInv, world
  <1>7. /\ call' \in [Callers -> CallRows]
        /\ \A c \in Callers : CallFits(call'[c], plans, Len(rows))
    BY <1>2, <1>4, AnswersFit
  <1> QED
    BY <1>2, <1>6, <1>7, CallsGo

(* A new leader fences his node.                                           *)
LEMMA PromotedKeeps ==
  ASSUME ControlInv, NEW n \in Nodes, Promoted(n)
  PROVE  ControlInv'
  <1> DEFINE d == dp[n]
             token == lastToken + 1
             e == Fenced(d, token)
  <1>1. d \in DataPlanes /\ JobFits(d, Len(rows)) /\ Len(rows) \in Nat
    BY NodeFacts DEF ControlInv, RowsInv
  <1>2. dp' = [dp EXCEPT ![n] = e] /\ lastToken < MaxToken /\ lastToken' = token
        /\ leads' = [leads EXCEPT ![n] = token] /\ UNCHANGED <<db, health, seen, faults>>
    BY DEF Promoted, ControlInv, DpInv
  <1>3. token \in Tokens
    BY <1>2, Bounds DEF ControlInv, WorldInv, Tokens
  <1>4. PICK out \in Dispossessed : call' = Answers(n, out)
    BY DEF Promoted
  <1>5. out \in Terminal
    BY DEF Dispossessed, Terminal
  <1> HIDE DEF d, token
  <1>6. e \in DataPlanes /\ JobFits(e, Len(rows))
    BY <1>1, <1>3, FencedFits
  <1> HIDE DEF e
  <1>7. DpInv' /\ WorldInv'
    BY <1>2, <1>3, <1>6, OnlyDpGoes DEF ControlInv, WorldInv
  <1>8. /\ call' \in [Callers -> CallRows]
        /\ \A c \in Callers : CallFits(call'[c], plans, Len(rows))
    BY <1>4, <1>5, AnswersFit
  <1> QED
    BY <1>2, <1>7, <1>8, CallsGo

(* One is a leader no more.                                                *)
LEMMA DemotedKeeps ==
  ASSUME ControlInv, NEW n \in Nodes, Demoted(n)
  PROVE  ControlInv'
  <1>1. leads' = [leads EXCEPT ![n] = 0] /\ UNCHANGED <<db, lastToken, health, dp, seen, call, faults>>
    BY DEF Demoted
  <1>2. WorldInv' /\ DpInv'
    BY <1>1, Bounds DEF ControlInv, WorldInv, DpInv, db, Tokens
  <1> QED
    BY <1>1, <1>2, CallsAsTheyAre, CallsGo

(* The backends' health changes.                                           *)
LEMMA HealthChangesKeeps ==
  ASSUME ControlInv, HealthChanges
  PROVE  ControlInv'
  <1>1. health < MaxHealth /\ health' = health + 1
        /\ UNCHANGED <<db, lastToken, leads, dp, seen, call, faults>>
    BY DEF HealthChanges
  <1>2. WorldInv' /\ DpInv'
    BY <1>1, Bounds DEF ControlInv, WorldInv, DpInv, db
  <1> QED
    BY <1>1, <1>2, CallsAsTheyAre, CallsGo

(* abortConfig.                                                            *)
LEMMA AbortKeeps ==
  ASSUME ControlInv, NEW c \in Callers, Abort(c)
  PROVE  ControlInv'
  <1> DEFINE r == call[c]
             d == dp[r.node]
             out == Verdict(MovedPlanes(d))
             own == Unfinished(d) /\ d.job.row = r.row /\ d.job.token = rows[r.row].token
             closed == IF own THEN Finished(d, out) ELSE d
             answered == IF own THEN Answers(r.node, out) ELSE call
             token == rows[r.row].token
             e == IF Abortable(d, r.row)
                  THEN [closed EXCEPT !.aborted = @ \cup {<<r.row, rows[r.row].token>>},
                                      !.ended = d.ended, !.max = rows[r.row].token]
                  ELSE closed
             q == IF Abortable(d, r.row) THEN [r EXCEPT !.pc = "cancelled"] ELSE Idle
  <1>1. r \in CallRows /\ CallFits(r, plans, Len(rows)) /\ r.pc = "abort" /\ r.node \in Nodes
        /\ r.row # 0 /\ r.row <= Len(rows) /\ r.row \in Nat
    BY CallFacts DEF ControlInv, Abort, At, CallFits, CallRows
  <1>2. d \in DataPlanes /\ JobFits(d, Len(rows)) /\ Len(rows) \in Nat
    BY <1>1, NodeFacts DEF ControlInv, RowsInv
  <1>3. dp' = [dp EXCEPT ![r.node] = e] /\ call' = [answered EXCEPT ![c] = q]
        /\ UNCHANGED <<db, world, seen, faults>>
    BY DEF Abort
  <1>4. r.row \in DOMAIN rows /\ token \in Tokens
    <2>1. r.row \in DOMAIN rows
      BY <1>1, <1>2 DEF ControlInv, RowsInv
    <2> QED
      BY <2>1, RowTypes DEF ControlInv
  <1>5. out \in Terminal
    BY VerdictEnds
  <1>6. closed \in DataPlanes /\ JobFits(closed, Len(rows))
    <2>1. own => d.job # None
      BY DEF Unfinished
    <2> HIDE DEF d, out, own
    <2> QED
      BY <1>2, <1>5, <2>1, FinishedFits
  <1>7. e \in DataPlanes /\ JobFits(e, Len(rows))
    <2> DEFINE row == r.row
               ended == d.ended
               aborted == closed.aborted \cup {<<row, token>>}
    <2>1. ended \in Verdicts /\ aborted \in Verdicts
      <3>1. row \in Nat
        BY <1>1
      <3> HIDE DEF row, d, closed, token
      <3> QED
        BY <1>2, <1>4, <1>6, <3>1 DEF DataPlanes, Verdicts
    <2>2. e = IF Abortable(d, row)
              THEN [closed EXCEPT !.aborted = aborted, !.ended = ended, !.max = token] ELSE closed
      <3> HIDE DEF d, r, closed
      <3> QED
        BY <1>6 DEF DataPlanes
    <2> HIDE DEF row, ended, aborted, token, closed, e, d
    <2> QED
      BY <1>4, <1>6, <2>1, <2>2 DEF DataPlanes, JobFits
  <1>8. q \in CallRows /\ CallFits(q, plans, Len(rows))
    <2> HIDE DEF r, d
    <2>1. CASE Abortable(d, r.row)
      BY <1>1, <2>1 DEF CallRows, CallFits, Stages
    <2>2. CASE ~Abortable(d, r.row)
      BY <1>2, <2>2, IdleFits
    <2> QED
      BY <2>1, <2>2
  <1>9. /\ answered \in [Callers -> CallRows]
        /\ \A k \in Callers : CallFits(answered[k], plans, Len(rows))
    <2> DEFINE n == r.node
    <2>1. answered = IF own THEN Answers(n, out) ELSE call
      OBVIOUS
    <2>2. n \in Nodes
      BY <1>1
    <2> HIDE DEF own, answered, out, n
    <2> QED
      BY <1>5, <2>1, <2>2, AnswersFit DEF ControlInv, CallsInv
  <1> HIDE DEF e, q, answered
  <1>10. /\ call' \in [Callers -> CallRows]
         /\ \A k \in Callers : CallFits(call'[k], plans, Len(rows))
    BY <1>3, <1>8, <1>9
  <1>11. DpInv' /\ WorldInv'
    BY <1>1, <1>3, <1>7, OnlyDpGoes DEF ControlInv, WorldInv, world
  <1> QED
    BY <1>3, <1>10, <1>11, CallsGo

(* recoverConfig.                                                          *)
LEMMA RecoverKeeps ==
  ASSUME ControlInv, NEW c \in Callers, Recover(c)
  PROVE  ControlInv'
  <1> DEFINE r == call[c]
             d == dp[r.node]
             theirs == IF d.job = None THEN 0 ELSE d.job.row
  <1>1. r \in CallRows /\ CallFits(r, plans, Len(rows)) /\ r.pc = "recover" /\ r.node \in Nodes
    BY CallFacts DEF ControlInv, Recover, At, CallFits
  <1>2. d \in DataPlanes /\ JobFits(d, Len(rows)) /\ Len(rows) \in Nat
    BY <1>1, NodeFacts DEF ControlInv, RowsInv
  <1>3. UNCHANGED <<db, world, seen, faults>> /\ faults \in 0..MaxFaults
    BY DEF Recover, ControlInv, WorldInv
  <1>9. theirs \in Nat /\ theirs <= Len(rows)
    BY <1>2 DEF JobFits
  <1>4. ASSUME NEW out \in Terminal
        PROVE  /\ EndedAs(r, theirs, out) \in CallRows
               /\ CallFits(EndedAs(r, theirs, out), plans, Len(rows))
    <2> HIDE DEF r, theirs
    <2> DEFINE q == [r EXCEPT !.pc = "note", !.row = theirs, !.out = out]
    <2>1. "note" \in Stages
      BY DEF Stages
    <2>2. q \in CallRows /\ q.pc = "note" /\ q.out = out /\ q.kind = r.kind /\ q.node = r.node
          /\ q.row = theirs /\ q.before = r.before /\ q.plan = r.plan /\ q.rev = r.rev
      BY <1>1, <1>9, <2>1 DEF CallRows
    <2> HIDE DEF q
    <2>3. r.kind = "recover"
      BY <1>1 DEF CallFits
    <2>4. CallFits(q, plans, Len(rows))
      BY <1>1, <1>9, <2>2, <2>3 DEF CallFits
    <2> QED
      BY <2>2, <2>4 DEF q, EndedAs
  <1>5. CASE Unfinished(d) /\ d.job.token < d.max
    <2> DEFINE e == Finished(d, "superseded")
               q == EndedAs(r, theirs, "superseded")
    <2>1. dp' = [dp EXCEPT ![r.node] = e] /\ call' = [call EXCEPT ![c] = q] /\ d.job # None
      BY <1>1, <1>5 DEF Recover, Goes, ControlInv, DpInv, Unfinished, EndedAs
    <2>2. "superseded" \in Terminal
      BY DEF Terminal
    <2> HIDE DEF r, d, theirs
    <2>3. e \in DataPlanes /\ JobFits(e, Len(rows))
      BY <1>2, <2>1, <2>2, FinishedFits
    <2>4. q \in CallRows /\ CallFits(q, plans, Len(rows))
      BY <1>4, <2>2
    <2> HIDE DEF e, q
    <2>5. DpInv'
      BY <1>1, <1>3, <2>1, <2>3, OnlyDpGoes
    <2> QED
      BY <1>3, <2>1, <2>4, <2>5, OnlyCallGoes DEF world
  <1>6. CASE Unfinished(d) /\ ~(d.job.token < d.max)
    <2> DEFINE e == [d EXCEPT !.job.phase = "running"]
               row == d.job.row
               token == d.job.token
               q == [r EXCEPT !.pc = "wait", !.row = row, !.token = token]
    <2>1. dp' = [dp EXCEPT ![r.node] = e] /\ call' = [call EXCEPT ![c] = q] /\ d.job # None
      BY <1>1, <1>6 DEF Recover, Goes, ControlInv, DpInv, Unfinished
    <2>2. row \in 1..Len(rows) /\ token \in Tokens
      BY <1>2, <2>1 DEF JobFits, DataPlanes, Jobs
    <2> HIDE DEF d
    <2>3. e \in DataPlanes /\ JobFits(e, Len(rows))
      BY <1>2, <2>1, PhaseFits
    <2>4. q \in CallRows /\ CallFits(q, plans, Len(rows))
      <3>1. row \in Nat /\ row # 0 /\ row <= Len(rows) /\ "wait" \in Stages
        BY <1>2, <2>2 DEF Stages
      <3> HIDE DEF r, row, token
      <3>2. q \in CallRows /\ q.pc = "wait" /\ q.kind = r.kind /\ q.node = r.node
            /\ q.row = row /\ q.before = r.before /\ q.plan = r.plan /\ q.rev = r.rev
        BY <1>1, <2>2, <3>1 DEF CallRows
      <3> QED
        BY <1>1, <3>1, <3>2 DEF CallFits
    <2> HIDE DEF e, q, r
    <2>5. DpInv'
      BY <1>1, <1>3, <2>1, <2>3, OnlyDpGoes
    <2> QED
      BY <1>3, <2>1, <2>4, <2>5, OnlyCallGoes DEF world
  <1>7. CASE ~Unfinished(d)
    <2> DEFINE out == IF d.job = None THEN "no_operation" ELSE d.job.phase
               q == EndedAs(r, theirs, out)
    <2>1. call' = [call EXCEPT ![c] = q] /\ UNCHANGED dp
      BY <1>7 DEF Recover, Goes, EndedAs
    <2>2. out \in Terminal
      BY <1>2, <1>7 DEF DataPlanes, Jobs, Unfinished, Terminal
    <2> HIDE DEF r, d, theirs, out
    <2>3. q \in CallRows /\ CallFits(q, plans, Len(rows))
      BY <1>4, <2>2
    <2> HIDE DEF q
    <2>4. DpInv'
      BY <1>3, <2>1 DEF ControlInv, DpInv, db
    <2> QED
      BY <1>3, <2>1, <2>3, <2>4, OnlyCallGoes DEF world
  <1> QED
    BY <1>5, <1>6, <1>7

-----------------------------------------------------------------------------
(* The cluster.                                                            *)

(* A follower takes the active row.                                        *)
LEMMA FollowsKeeps ==
  ASSUME ControlInv, NEW n \in Nodes, Follows(n)
  PROVE  ControlInv'
  <1> DEFINE x == Starts("follow", n, "build")
             a == rows[ActiveRow]
             i == ActiveRow
             y == [x EXCEPT !.row = i, !.rev = a.rev, !.epoch = a.epoch]
             q == [y EXCEPT !.gen = a.gen, !.token = a.token]
  <1>1. x \in CallRows /\ x.kind = "follow" /\ x.node = n /\ x.pc = "build" /\ x.row = 0
        /\ x.before = 0
    BY StartsFields DEF Kinds, Stages
  <1>2. /\ i # 0 /\ call' = [call EXCEPT ![n] = q] /\ UNCHANGED <<db, world, dp, seen, faults>>
        /\ faults \in 0..MaxFaults
    BY DEF Follows, Goes, ControlInv, WorldInv
  <1>3. i \in Nat /\ i <= Len(rows) /\ i \in DOMAIN rows
    BY <1>2, ActiveRowIsRow DEF ControlInv
  <1>4. a \in Rows /\ a.rev \in 0..MaxPlan /\ a.epoch \in Epochs /\ a.gen \in Epochs
        /\ a.token \in Tokens
    BY <1>3, RowTypes, Bounds DEF ControlInv
  <1> HIDE DEF x, i, a
  <1>5. y \in CallRows /\ y.kind = "follow" /\ y.node = n /\ y.pc = "build" /\ y.row = i
        /\ y.before = 0
    BY <1>1, <1>3, <1>4 DEF CallRows
  <1> HIDE DEF y
  <1>6. q \in CallRows /\ q.kind = "follow" /\ q.node = n /\ q.pc = "build" /\ q.row = i
        /\ q.before = 0
    BY <1>4, <1>5 DEF CallRows
  <1> HIDE DEF q
  <1>7. CallFits(q, plans, Len(rows))
    BY <1>2, <1>3, <1>6 DEF CallFits, ControlInv, RowsInv
  <1>8. DpInv'
    BY <1>2 DEF ControlInv, DpInv, db
  <1> QED
    BY <1>2, <1>6, <1>7, <1>8, OnlyCallGoes DEF world, Callers

(* It fences its own node.                                                 *)
LEMMA FollowFencesKeeps ==
  ASSUME ControlInv, NEW n \in Nodes, FollowFences(n)
  PROVE  ControlInv'
  <1> DEFINE r == call[n]
             d == dp[n]
             token == FollowToken(r.token)
             fences == Unfinished(d) /\ d.job.token < token
             e == Fenced(d, token)
             q == [r EXCEPT !.pc = "drive", !.token = token]
  <1>0. n \in Callers
    BY DEF Callers
  <1>1. r \in CallRows /\ CallFits(r, plans, Len(rows)) /\ r.pc = "fence" /\ r.node \in Nodes
        /\ r.kind = "follow" /\ r.exp \in Positions
    BY <1>0, CallFacts DEF ControlInv, FollowFences, At, CallFits
  <1>2. d \in DataPlanes /\ JobFits(d, Len(rows)) /\ Len(rows) \in Nat
    BY NodeFacts DEF ControlInv, RowsInv
  <1>3. token \in Tokens
    BY <1>1 DEF FollowToken, ControlInv, WorldInv, CallRows
  <1>4. UNCHANGED <<db, world, seen, faults>> /\ faults \in 0..MaxFaults
    BY DEF FollowFences, ControlInv, WorldInv
  <1>5. CASE token < d.max
    <2>1. call' = [call EXCEPT ![n] = Idle] /\ UNCHANGED dp
      BY <1>5 DEF FollowFences, Goes
    <2>2. Idle \in CallRows /\ CallFits(Idle, plans, Len(rows))
      BY <1>2, IdleFits
    <2>3. DpInv'
      BY <1>4, <2>1 DEF ControlInv, DpInv, db
    <2> QED
      BY <1>0, <1>4, <2>1, <2>2, <2>3, OnlyCallGoes DEF world
  <1>6. CASE ~(token < d.max)
    <2>1. dp' = [dp EXCEPT ![n] = e]
      BY <1>6 DEF FollowFences, ControlInv, DpInv
    <2>2. PICK out \in Dispossessed :
            call' = [IF fences THEN Answers(n, out) ELSE call EXCEPT ![n] = q]
      BY <1>6 DEF FollowFences
    <2>3. out \in Terminal
      BY DEF Dispossessed, Terminal
    <2>4. q \in CallRows /\ CallFits(q, plans, Len(rows))
      <3> HIDE DEF r, token
      <3>1. "drive" \in Stages
        BY DEF Stages
      <3>2. q \in CallRows /\ q.pc = "drive" /\ q.kind = r.kind /\ q.node = r.node /\ q.exp = r.exp
            /\ q.row = r.row /\ q.before = r.before /\ q.plan = r.plan /\ q.rev = r.rev
        BY <1>1, <1>3, <3>1 DEF CallRows
      <3> HIDE DEF q
      <3> QED
        BY <1>1, <3>2 DEF CallFits
    <2> DEFINE answered == IF fences THEN Answers(n, out) ELSE call
    <2>5. call' = [answered EXCEPT ![n] = q]
      BY <2>2
    <2> HIDE DEF fences, q, token, d, r
    <2>6. /\ answered \in [Callers -> CallRows]
          /\ \A k \in Callers : CallFits(answered[k], plans, Len(rows))
      BY <2>3, AnswersFit DEF ControlInv, CallsInv
    <2> HIDE DEF answered
    <2>7. /\ call' \in [Callers -> CallRows]
          /\ \A k \in Callers : CallFits(call'[k], plans, Len(rows))
      BY <1>0, <2>4, <2>5, <2>6
    <2>8. e \in DataPlanes /\ JobFits(e, Len(rows))
      BY <1>2, <1>3, FencedFits
    <2> HIDE DEF e
    <2>9. DpInv' /\ WorldInv'
      BY <1>4, <2>1, <2>8, OnlyDpGoes DEF ControlInv, WorldInv, world
    <2> QED
      BY <1>4, <2>7, <2>9, CallsGo
  <1> QED
    BY <1>5, <1>6

(* An instance dies.                                                       *)
LEMMA CrashKeeps ==
  ASSUME ControlInv, NEW n \in Nodes, Crash(n)
  PROVE  ControlInv'
  <1> DEFINE d == dp[n]
             e == IF Running(d) THEN [d EXCEPT !.job.phase = "stopped"] ELSE d
  <1>1. d \in DataPlanes /\ JobFits(d, Len(rows)) /\ Len(rows) \in Nat
    BY NodeFacts DEF ControlInv, RowsInv
  <1>2. /\ faults > 0 /\ faults' = faults - 1 /\ leads' = [leads EXCEPT ![n] = 0]
        /\ dp' = [dp EXCEPT ![n] = e]
        /\ call' = [c \in DOMAIN call |-> IF call[c].node = n THEN Idle ELSE call[c]]
        /\ seen' = [seen EXCEPT ![n] = {}] /\ UNCHANGED <<db, lastToken, health>>
    BY DEF Crash, ControlInv, DpInv
  <1>3. e \in DataPlanes /\ JobFits(e, Len(rows))
    <2>1. Running(d) => d.job # None
      BY DEF Running
    <2> HIDE DEF d
    <2> QED
      BY <1>1, <2>1, PhaseFits
  <1> HIDE DEF e
  <1>4. DpInv' /\ WorldInv'
    <2>1. WorldInv'
      BY <1>2, Bounds DEF ControlInv, WorldInv, Tokens
    <2> QED
      BY <1>2, <1>3, <2>1, OnlyDpGoes
  <1>5. Idle \in CallRows /\ CallFits(Idle, plans, Len(rows))
    BY <1>1, IdleFits
  <1>6. /\ call' \in [Callers -> CallRows]
        /\ \A k \in Callers : CallFits(call'[k], plans, Len(rows))
    BY <1>2, <1>5 DEF ControlInv, CallsInv
  <1> QED
    BY <1>2, <1>4, <1>6, CallsGo

-----------------------------------------------------------------------------
(* The invariant is one.                                                   *)

(* At the start there is nothing.                                          *)
LEMMA ControlInit ==
  ASSUME Init
  PROVE  ControlInv
  <1>1. /\ revs = <<>> /\ plans = <<>> /\ rows = <<>> /\ lastToken = 0 /\ health = 0
        /\ leads = [n \in Nodes |-> 0] /\ seen = [n \in Nodes |-> {}]
        /\ call = [c \in Callers |-> Idle] /\ faults = MaxFaults
    BY DEF Init, Callers
  <1>2. WorldInv
    BY <1>1, Bounds DEF WorldInv, Tokens
  <1>3. PlansInv /\ RowsInv /\ Len(rows) = 0
    BY <1>1, Bounds DEF PlansInv, RowsInv
  <1>4. CallsInv
    BY <1>1, <1>3, IdleFits DEF CallsInv
  <1>5. DpInv
    <2> DEFINE pos == [p \in Planes |-> [epoch |-> 0, rev |-> 0]]
               d == [max |-> 0, pos |-> pos, pub |-> 0, dirs |-> <<>>, job |-> None,
                     ended |-> {}, aborted |-> {}]
    <2>1. dp = [n \in Nodes |-> d]
      BY DEF Init
    <2>2. pos \in Positions
      BY Bounds DEF Positions, Epochs
    <2> HIDE DEF pos
    <2>3. d \in DataPlanes /\ d.job = None
      <3>1. 0 \in Epochs /\ 0 \in Tokens /\ {} \in Verdicts /\ <<>> \in Seq(Directories)
        BY Bounds DEF Epochs, Tokens, Verdicts
      <3> QED
        BY <2>2, <3>1 DEF DataPlanes
    <2> HIDE DEF d
    <2> QED
      BY <2>1, <2>3 DEF DpInv, JobFits
  <1> QED
    BY <1>2, <1>3, <1>4, <1>5 DEF ControlInv

(* A step of a call.                                                       *)
LEMMA StepKeeps ==
  ASSUME ControlInv, NEW c \in Callers, Step(c)
  PROVE  ControlInv'
  BY BuildKeeps, ClaimKeeps, DriveKeeps, NoteKeeps, SweepKeeps, MembersKeeps, InsertKeeps,
     DeltaKeeps, MembersNoteKeeps, AbortKeeps, CancelledKeeps, RecoverKeeps DEF Step

(* A step of an instance or of its data plane.                             *)
LEMMA NodeStepKeeps ==
  ASSUME ControlInv, NEW n \in Nodes,
         Promoted(n) \/ Demoted(n) \/ Drives(n) \/ Follows(n) \/ FollowFences(n)
         \/ AnswerLost(n) \/ Crash(n)
  PROVE  ControlInv'
  <1>1. n \in Callers
    BY DEF Callers
  <1> QED
    BY <1>1, PromotedKeeps, DemotedKeeps, PublishKeeps, MoveKeeps, EndsKeeps, FollowsKeeps,
       FollowFencesKeeps, AnswerLostKeeps, CrashKeeps DEF Drives

(* Every step keeps it.                                                    *)
LEMMA ControlStep ==
  ASSUME ControlInv, [Next]_cpVars
  PROVE  ControlInv'
  <1>1. CASE Next
    <2>1. CASE \E conf \in Confs : Edit(conf)
      BY <2>1, EditKeeps
    <2>2. CASE Replan \/ HealthChanges
      BY <2>2, ReplanKeeps, HealthChangesKeeps
    <2>3. ASSUME NEW c \in Calls, AnswerLost(c) \/ \E n \in Nodes : Requests(c, n)
          PROVE  ControlInv'
      <3>1. c \in Callers
        BY DEF Callers
      <3> QED
        BY <2>3, <3>1, AnswerLostKeeps, ApplyLooksKeeps, CancelReadsKeeps, RecoverReadsKeeps
           DEF Requests
    <2>4. CASE \E c \in Calls \cup Nodes : Step(c)
      BY <2>4, StepKeeps DEF Callers
    <2>5. CASE \E n \in Nodes :
                 Promoted(n) \/ Demoted(n) \/ Drives(n) \/ Follows(n) \/ FollowFences(n)
                 \/ AnswerLost(n) \/ Crash(n)
      BY <2>5, NodeStepKeeps
    <2> QED
      BY <1>1, <2>1, <2>2, <2>3, <2>4, <2>5 DEF Next
  <1>2. CASE UNCHANGED cpVars
    <2>1. UNCHANGED <<db, lastToken, leads, health, dp, seen, call, faults>>
      BY <1>2 DEF cpVars, db
    <2>2. DpInv' /\ WorldInv'
      BY <2>1 DEF ControlInv, DpInv, WorldInv, db
    <2> QED
      BY <2>1, <2>2, CallsAsTheyAre, CallsGo
  <1> QED
    BY <1>1, <1>2

(* Every variable keeps its type, and a plan has one row at most, of its   *)
(* revision, whichever of the applies that saw it came first (claim's      *)
(* UNIQUE plan, insert of applyMembershipOnly).                            *)
THEOREM ControlTypeCorrect == Spec => []TypeOK
  <1>1. ControlInv => TypeOK
    BY DEF ControlInv, PlansInv, RowsInv, WorldInv, DpInv, TypeOK
  <1> QED
    BY <1>1, ControlInit, ControlStep, PTL DEF Spec

-----------------------------------------------------------------------------
(* The invariant.                                                          *)

(* A row's planes are at its epoch, or beyond.                             *)
Reached(d, row) == \A p \in row.planes : row.epoch <= d.pos[p].epoch

(* A data plane's operation is of its row's epoch, which is above what it  *)
(* came from, and once it is activated every plane has it.                 *)
JobTells(d, rs) ==
  d.job # None =>
    /\ d.job.epoch = rs[d.job.row].epoch
    /\ \A p \in Planes : d.job.exp[p].epoch < d.job.epoch
    /\ d.job.phase = "activated" => \A p \in Planes : d.job.epoch <= d.pos[p].epoch

(* A call drives its row's epoch, and has seen what it is about to record  *)
(* as activated, unless it is another operation's that recover records.    *)
CallTells(r, ds, rs) ==
  /\ r.kind = "follow" \/ (r.kind = "apply" /\ r.pc \in {"drive", "wait", "note", "sweep"})
       => r.epoch = rs[r.row].epoch
  /\ r.pc = "note" /\ r.out = "activated" =>
       /\ r.kind = "apply" => Reached(ds[r.node], rs[r.row])
       /\ r.kind = "recover" /\ r.before # 0 /\ r.row = r.before =>
            Reached(ds[r.node], rs[r.before])
  /\ r.pc \in {"members", "insert"} => r.row = 0
  /\ r.pc = "insert" => \A i \in r.todo : r.epoch <= ds[r.node].pos[PlaneOrder[i]].epoch
  /\ r.pc \in {"deltas", "members_note"} /\ r.row # 0 => Reached(ds[r.node], rs[r.row])

(* An activated row is of an operation that got there, on some node, or    *)
(* says what became of another.                                            *)
RowTells(row, ds) ==
  row.phase = "activated" => row.misread \/ \E n \in Nodes : Reached(ds[n], row)

HistoryInv ==
  /\ ControlInv
  /\ \A n \in Nodes : JobTells(dp[n], rows)
  /\ \A c \in Callers : CallTells(call[c], dp, rows)
  /\ \A i \in DOMAIN rows : RowTells(rows[i], dp)

-----------------------------------------------------------------------------
(* What stands when the rest moves.                                        *)

(* Rows are added, and none changes what it was for.                       *)
RowsStand(rs, ss) ==
  \A i \in DOMAIN rs :
    /\ i \in DOMAIN ss /\ ss[i].epoch = rs[i].epoch /\ ss[i].planes = rs[i].planes
    /\ rs[i].misread => ss[i].misread

(* No plane goes back to an earlier epoch.                                 *)
Rise(ds, es) ==
  \A n \in Nodes : \A p \in Planes :
    /\ ds[n].pos[p].epoch \in Nat /\ es[n].pos[p].epoch \in Nat
    /\ ds[n].pos[p].epoch <= es[n].pos[p].epoch

(* Where a row was reached, it stays reached.                              *)
LEMMA ReachedStays ==
  ASSUME NEW ds, NEW es, Rise(ds, es), NEW n \in Nodes, NEW x, NEW y,
         x.epoch \in Nat, x.planes \in SUBSET Planes, y.epoch = x.epoch, y.planes = x.planes,
         Reached(ds[n], x)
  PROVE  Reached(es[n], y)
  <1>1. ASSUME NEW p \in y.planes PROVE y.epoch <= es[n].pos[p].epoch
    <2>1. p \in Planes /\ x.epoch <= ds[n].pos[p].epoch
      BY DEF Reached
    <2> DEFINE a == ds[n].pos[p].epoch
               b == es[n].pos[p].epoch
    <2>2. a \in Nat /\ b \in Nat /\ a <= b /\ x.epoch <= a /\ x.epoch \in Nat
      BY <2>1 DEF Rise
    <2> HIDE DEF a, b
    <2>3. x.epoch <= b
      BY <2>2
    <2> QED
      BY <2>3 DEF b
  <1> QED
    BY <1>1 DEF Reached

(* A job tells the same while nobody changes it.                           *)
LEMMA JobTellsOn ==
  ASSUME NEW ds, NEW es, Rise(ds, es), NEW rs, NEW ss, RowsStand(rs, ss), NEW n \in Nodes,
         es[n].job = ds[n].job, JobTells(ds[n], rs),
         ds[n].job # None => ds[n].job.row \in DOMAIN rs /\ ds[n].job.epoch \in Nat
  PROVE  JobTells(es[n], ss)
  <1> SUFFICES ASSUME es[n].job # None PROVE JobTells(es[n], ss)
    BY DEF JobTells
  <1> DEFINE j == ds[n].job
  <1>1. j # None /\ j.row \in DOMAIN rs /\ j.epoch \in Nat /\ es[n].job = j
    OBVIOUS
  <1>2. j.epoch = rs[j.row].epoch /\ (\A p \in Planes : j.exp[p].epoch < j.epoch)
        /\ (j.phase = "activated" => \A p \in Planes : j.epoch <= ds[n].pos[p].epoch)
    BY <1>1 DEF JobTells
  <1> HIDE DEF j
  <1>3. j.epoch = ss[j.row].epoch
    BY <1>1, <1>2 DEF RowsStand
  <1>4. ASSUME j.phase = "activated", NEW p \in Planes PROVE j.epoch <= es[n].pos[p].epoch
    <2> DEFINE a == ds[n].pos[p].epoch
               b == es[n].pos[p].epoch
    <2>1. a \in Nat /\ b \in Nat /\ a <= b /\ j.epoch <= a
      BY <1>2, <1>4 DEF Rise
    <2> HIDE DEF a, b
    <2>2. j.epoch <= b
      BY <1>1, <2>1
    <2> QED
      BY <2>2 DEF b
  <1> QED
    BY <1>1, <1>2, <1>3, <1>4 DEF JobTells

(* The rows a call names are there.                                        *)
RowsTyped(rs) ==
  \A i \in DOMAIN rs : rs[i].epoch \in Nat /\ rs[i].planes \in SUBSET Planes

(* A call tells the same while it waits.                                   *)
LEMMA CallTellsOn ==
  ASSUME NEW ds, NEW es, Rise(ds, es), NEW rs, NEW ss, RowsStand(rs, ss), RowsTyped(rs),
         NEW r \in CallRows, NEW ps, NEW n \in Nat, DOMAIN rs = 1..n, CallFits(r, ps, n),
         CallTells(r, ds, rs)
  PROVE  CallTells(r, es, ss)
  <1>0. r.row \in Nat /\ r.before \in Nat /\ r.row <= n /\ r.before <= n /\ r.epoch \in Nat
        /\ (r.pc # "idle" => r.node \in Nodes)
    BY Bounds DEF CallRows, CallFits, Epochs
  <1>1. \A i \in DOMAIN rs : rs[i].epoch \in Nat /\ rs[i].planes \in SUBSET Planes
                             /\ i \in DOMAIN ss /\ ss[i].epoch = rs[i].epoch /\ ss[i].planes = rs[i].planes
    BY DEF RowsTyped, RowsStand
  <1>2. (r.row # 0 => r.row \in DOMAIN rs) /\ (r.before # 0 => r.before \in DOMAIN rs)
    BY <1>0
  <1>3. ASSUME r.kind = "follow" \/ (r.kind = "apply" /\ r.pc \in {"drive", "wait", "note", "sweep"})
        PROVE  r.epoch = ss[r.row].epoch
    <2>1. r.row # 0
      BY <1>3 DEF CallFits
    <2>2. r.epoch = rs[r.row].epoch
      BY <1>3 DEF CallTells
    <2> QED
      BY <1>1, <1>2, <2>1, <2>2
  <1>4. ASSUME r.pc = "note", r.out = "activated", r.kind = "apply"
        PROVE  Reached(es[r.node], ss[r.row])
    <2>1. r.row # 0 /\ Reached(ds[r.node], rs[r.row]) /\ r.node \in Nodes
      BY <1>0, <1>4 DEF CallTells, CallFits
    <2>2. r.row \in DOMAIN rs
      BY <1>2, <2>1
    <2> QED
      BY <1>1, <2>1, <2>2, ReachedStays
  <1>5. ASSUME r.pc = "note", r.out = "activated", r.kind = "recover", r.before # 0,
               r.row = r.before
        PROVE  Reached(es[r.node], ss[r.before])
    <2>1. Reached(ds[r.node], rs[r.before]) /\ r.node \in Nodes
      BY <1>0, <1>5 DEF CallTells
    <2>2. r.before \in DOMAIN rs
      BY <1>2, <1>5
    <2> QED
      BY <1>1, <2>1, <2>2, ReachedStays
  <1>6. ASSUME r.pc = "insert", NEW i \in r.todo
        PROVE  r.epoch <= es[r.node].pos[PlaneOrder[i]].epoch
    <2>1. r.epoch <= ds[r.node].pos[PlaneOrder[i]].epoch /\ r.node \in Nodes
      BY <1>0, <1>6 DEF CallTells
    <2>2. PlaneOrder[i] \in Planes
      BY ControlAssumption DEF CallRows
    <2> DEFINE p == PlaneOrder[i]
               a == ds[r.node].pos[p].epoch
               b == es[r.node].pos[p].epoch
    <2>3. a \in Nat /\ b \in Nat /\ a <= b /\ r.epoch <= a
      BY <2>1, <2>2 DEF Rise
    <2> HIDE DEF a, b
    <2>4. r.epoch <= b
      BY <1>0, <2>3
    <2> QED
      BY <2>4 DEF b
  <1>7. ASSUME r.pc \in {"deltas", "members_note"}, r.row # 0
        PROVE  Reached(es[r.node], ss[r.row])
    <2>1. Reached(ds[r.node], rs[r.row]) /\ r.node \in Nodes
      BY <1>0, <1>7 DEF CallTells
    <2>2. r.row \in DOMAIN rs
      BY <1>2, <1>7
    <2> QED
      BY <1>1, <2>1, <2>2, ReachedStays
  <1>9. r.pc \in {"members", "insert"} => r.row = 0
    BY DEF CallTells
  <1> QED
    BY <1>3, <1>4, <1>5, <1>6, <1>7, <1>9 DEF CallTells

(* Rows and positions are numbers.                                         *)
LEMMA RowsAreTyped ==
  ASSUME RowsInv
  PROVE  RowsTyped(rows) /\ Len(rows) \in Nat /\ DOMAIN rows = 1..Len(rows)
  <1>1. rows \in Seq(Rows)
    BY DEF RowsInv
  <1>2. ASSUME NEW i \in DOMAIN rows PROVE rows[i].epoch \in Nat /\ rows[i].planes \in SUBSET Planes
    <2>1. rows[i] \in Rows
      BY <1>1
    <2> QED
      BY <2>1, Bounds DEF Rows, Epochs
  <1> QED
    BY <1>1, <1>2 DEF RowsTyped

(* A plane is at an epoch.                                                 *)
LEMMA PositionFacts ==
  ASSUME NEW d \in DataPlanes, NEW p \in Planes
  PROVE  d.pos[p].epoch \in Nat /\ d.pos[p].epoch \in Epochs /\ d.pos \in Positions
  BY Bounds DEF DataPlanes, Positions, Epochs

(* Positions that stay do not go back.                                     *)
LEMMA SamePositionsRise ==
  ASSUME DpInv, DpInv', \A n \in Nodes : dp'[n].pos = dp[n].pos
  PROVE  Rise(dp, dp')
  <1>1. ASSUME NEW n \in Nodes, NEW p \in Planes
        PROVE  dp[n].pos[p].epoch \in Nat /\ dp'[n].pos[p].epoch = dp[n].pos[p].epoch
    <2>1. dp[n] \in DataPlanes
      BY NodeFacts
    <2> QED
      BY <2>1, PositionFacts
  <1> QED
    BY <1>1 DEF Rise

(* The rows as they are.                                                   *)
LEMMA SameRowsStand ==
  ASSUME rows' = rows
  PROVE  RowsStand(rows, rows')
  BY DEF RowsStand

(* It is enough to look at what a step changes.                            *)
LEMMA HistoryGoesOn ==
  ASSUME HistoryInv, ControlInv', RowsStand(rows, rows'), Rise(dp, dp'),
         \A n \in Nodes : dp'[n].job = dp[n].job \/ JobTells(dp'[n], rows'),
         \A c \in Callers : call'[c] = call[c] \/ CallTells(call'[c], dp', rows'),
         \A i \in DOMAIN rows' :
           \/ i \in DOMAIN rows /\ rows[i].phase = "activated"
           \/ RowTells(rows'[i], dp')
  PROVE  HistoryInv'
  <1>1. RowsTyped(rows) /\ Len(rows) \in Nat /\ DOMAIN rows = 1..Len(rows)
    BY RowsAreTyped DEF HistoryInv, ControlInv
  <1>2. ASSUME NEW n \in Nodes, dp'[n].job = dp[n].job PROVE JobTells(dp'[n], rows')
    <2>1. dp[n] \in DataPlanes /\ JobFits(dp[n], Len(rows)) /\ JobTells(dp[n], rows)
      BY NodeFacts DEF HistoryInv, ControlInv
    <2>2. dp[n].job # None => dp[n].job.row \in DOMAIN rows /\ dp[n].job.epoch \in Nat
      BY <1>1, <2>1, Bounds DEF JobFits, DataPlanes, Jobs, Epochs
    <2> QED
      BY <1>2, <2>1, <2>2, JobTellsOn
  <1>3. ASSUME NEW c \in Callers, call'[c] = call[c] PROVE CallTells(call'[c], dp', rows')
    <2>1. call[c] \in CallRows /\ CallFits(call[c], plans, Len(rows)) /\ CallTells(call[c], dp, rows)
      BY CallFacts DEF HistoryInv, ControlInv
    <2> DEFINE x == call[c]
    <2>2. x \in CallRows /\ CallFits(x, plans, Len(rows)) /\ CallTells(x, dp, rows)
      BY <2>1
    <2> HIDE DEF x
    <2>3. CallTells(x, dp', rows')
      BY <1>1, <2>2, CallTellsOn
    <2> QED
      BY <1>3, <2>3 DEF x
  <1>4. ASSUME NEW i \in DOMAIN rows', i \in DOMAIN rows, rows[i].phase = "activated"
        PROVE  RowTells(rows'[i], dp')
    <2>0. CASE rows[i].misread
      BY <1>4, <2>0 DEF RowTells, RowsStand
    <2> SUFFICES ASSUME ~rows[i].misread PROVE RowTells(rows'[i], dp')
      BY <2>0
    <2>1. PICK n \in Nodes : Reached(dp[n], rows[i])
      BY <1>4 DEF HistoryInv, RowTells
    <2>2. rows[i].epoch \in Nat /\ rows[i].planes \in SUBSET Planes
      BY <1>1, <1>4 DEF RowsTyped
    <2>3. rows'[i].epoch = rows[i].epoch /\ rows'[i].planes = rows[i].planes
      BY <1>4 DEF RowsStand
    <2>4. Reached(dp'[n], rows'[i])
      BY <2>1, <2>2, <2>3, ReachedStays
    <2> QED
      BY <2>4 DEF RowTells
  <1> QED
    BY <1>2, <1>3, <1>4 DEF HistoryInv

-----------------------------------------------------------------------------
(* The steps that touch neither rows nor data planes.                      *)

(* A call that is over tells nothing.                                      *)
LEMMA IdleTells == \A ds, rs : CallTells(Idle, ds, rs)
  BY DEF Idle, CallTells

(* No row, no plane and no operation moves.                                *)
LEMMA OnlyCallsTell ==
  ASSUME HistoryInv, ControlInv', rows' = rows,
         \A n \in Nodes : dp'[n].pos = dp[n].pos /\ dp'[n].job = dp[n].job,
         \A c \in Callers : call'[c] = call[c] \/ CallTells(call'[c], dp', rows')
  PROVE  HistoryInv'
  <1>1. RowsStand(rows, rows') /\ Rise(dp, dp')
    BY SameRowsStand, SamePositionsRise DEF HistoryInv, ControlInv
  <1>2. \A i \in DOMAIN rows' :
          \/ i \in DOMAIN rows /\ rows[i].phase = "activated"
          \/ RowTells(rows'[i], dp')
    BY DEF RowTells
  <1> QED
    BY <1>1, <1>2, HistoryGoesOn

(* Then one call goes on with what it tells.                               *)
LEMMA OneCallTells ==
  ASSUME HistoryInv, ControlInv', rows' = rows, dp' = dp,
         NEW c \in Callers, NEW q, call' = [call EXCEPT ![c] = q], CallTells(q, dp', rows')
  PROVE  HistoryInv'
  <1>1. \A k \in Callers : call'[k] = call[k] \/ CallTells(call'[k], dp', rows')
    BY DEF HistoryInv, ControlInv, CallsInv
  <1> QED
    BY <1>1, OnlyCallsTell

(* Requests and reads.                                                     *)
LEMMA RequestsTell ==
  ASSUME HistoryInv, ControlInv', NEW c \in Callers, NEW n \in Nodes, Requests(c, n)
  PROVE  HistoryInv'
  <1>2. ASSUME NEW p \in DOMAIN plans, ApplyLooks(c, n, p) PROVE HistoryInv'
    <2> DEFINE x == Starts("members", n, "members")
               y == Starts("apply", n, "build")
               q == IF SameAsActive(p)
                    THEN [x EXCEPT !.plan = p, !.rev = plans[p].rev, !.epoch = rows[ActiveRow].epoch]
                    ELSE [y EXCEPT !.plan = p, !.rev = plans[p].rev, !.epoch = p, !.gen = p]
    <2>1. call' = [call EXCEPT ![c] = q] /\ rows' = rows /\ dp' = dp
      BY <1>2 DEF ApplyLooks, Goes, db
    <2>2. /\ x.kind = "members" /\ x.pc = "members" /\ x.row = 0 /\ x \in CallRows
          /\ y.kind = "apply" /\ y.pc = "build" /\ y \in CallRows
      BY StartsFields DEF Kinds, Stages
    <2> HIDE DEF x, y
    <2>3. (q.kind = "members" /\ q.pc = "members" /\ q.row = 0) \/ (q.kind = "apply" /\ q.pc = "build")
      BY <2>2 DEF CallRows
    <2> HIDE DEF q
    <2>4. CallTells(q, dp', rows')
      BY <2>3 DEF CallTells
    <2> QED
      BY <2>1, <2>4, OneCallTells
  <1>3. ASSUME NEW i \in DOMAIN rows, CancelReads(c, n, i) PROVE HistoryInv'
    <2> DEFINE x == Starts("cancel", n, "abort")
               q == [x EXCEPT !.row = i]
    <2>1. call' = [call EXCEPT ![c] = q] /\ rows' = rows /\ dp' = dp
      BY <1>3 DEF CancelReads, Goes, db
    <2>2. x.kind = "cancel" /\ x.pc = "abort" /\ x \in CallRows
      BY StartsFields DEF Kinds, Stages
    <2> HIDE DEF x
    <2>3. q.kind = "cancel" /\ q.pc = "abort"
      BY <2>2 DEF CallRows
    <2> HIDE DEF q
    <2>4. CallTells(q, dp', rows')
      BY <2>3 DEF CallTells
    <2> QED
      BY <2>1, <2>4, OneCallTells
  <1>4. CASE RecoverReads(c, n)
    <2> DEFINE x == Starts("recover", n, "recover")
               q == [x EXCEPT !.before = IF Unfinished(dp[n]) THEN dp[n].job.row ELSE 0]
    <2>1. call' = [call EXCEPT ![c] = q] /\ rows' = rows /\ dp' = dp
      BY <1>4 DEF RecoverReads, Goes, db
    <2>2. x.kind = "recover" /\ x.pc = "recover" /\ x \in CallRows
      BY StartsFields DEF Kinds, Stages
    <2> HIDE DEF x
    <2>3. q.kind = "recover" /\ q.pc = "recover"
      BY <2>2 DEF CallRows
    <2> HIDE DEF q
    <2>4. CallTells(q, dp', rows')
      BY <2>3 DEF CallTells
    <2> QED
      BY <2>1, <2>4, OneCallTells
  <1> QED
    BY <1>2, <1>3, <1>4 DEF Requests

(* A follower begins with the active row.                                  *)
LEMMA FollowsTells ==
  ASSUME HistoryInv, ControlInv', NEW n \in Nodes, Follows(n)
  PROVE  HistoryInv'
  <1> DEFINE x == Starts("follow", n, "build")
             i == ActiveRow
             epoch == rows[i].epoch
             q == [x EXCEPT !.row = i, !.rev = rows[i].rev, !.epoch = epoch, !.gen = rows[i].gen,
                            !.token = rows[i].token]
  <1>1. call' = [call EXCEPT ![n] = q] /\ rows' = rows /\ dp' = dp
    BY DEF Follows, Goes, db
  <1>2. x.kind = "follow" /\ x.pc = "build" /\ x \in CallRows
    BY StartsFields DEF Kinds, Stages
  <1>3. epoch = rows'[i].epoch
    BY <1>1
  <1> HIDE DEF x, i, epoch
  <1>4. q.kind = "follow" /\ q.pc = "build" /\ q.row = i /\ q.epoch = epoch
    BY <1>2 DEF CallRows
  <1> HIDE DEF q
  <1>5. CallTells(q, dp', rows')
    BY <1>3, <1>4 DEF CallTells
  <1> QED
    BY <1>1, <1>5, OneCallTells DEF Callers

(* applyMembershipOnly sees its planes at the epoch it takes.              *)
LEMMA MembersTells ==
  ASSUME HistoryInv, ControlInv', NEW c \in Callers, Members(c)
  PROVE  HistoryInv'
  <1> DEFINE r == call[c]
             d == dp[r.node]
             touched == PlacesOf({p \in Planes : d.pos[p].epoch = r.epoch})
             q == [r EXCEPT !.pc = "insert", !.token = leads[r.node], !.gen = d.pub,
                            !.exp = d.pos, !.todo = touched]
  <1>1. r \in CallRows /\ CallFits(r, plans, Len(rows)) /\ r.pc = "members" /\ r.node \in Nodes
        /\ r.kind = "members" /\ CallTells(r, dp, rows)
    BY CallFacts DEF HistoryInv, ControlInv, Members, At, CallFits
  <1>2. /\ rows' = rows /\ dp' = dp
        /\ (\/ call' = [call EXCEPT ![c] = Idle]
            \/ call' = [call EXCEPT ![c] = q])
    BY DEF Members, Goes, db
  <1>3. CASE call' = [call EXCEPT ![c] = Idle]
    BY <1>2, <1>3, IdleTells, OneCallTells
  <1>4. CASE call' = [call EXCEPT ![c] = q]
    <2>1. d \in DataPlanes
      BY <1>1, NodeFacts DEF HistoryInv, ControlInv
    <2>2. \A i \in touched : r.epoch <= d.pos[PlaneOrder[i]].epoch
      <3> SUFFICES ASSUME NEW i \in touched PROVE r.epoch <= d.pos[PlaneOrder[i]].epoch
        OBVIOUS
      <3> DEFINE p == PlaneOrder[i]
      <3>1. p \in Planes /\ d.pos[p].epoch = r.epoch
        BY DEF PlacesOf
      <3>2. r.epoch \in Nat
        BY <1>1, Bounds DEF CallRows, Epochs
      <3> QED
        BY <3>1, <3>2
    <2>3. r.row = 0
      BY <1>1 DEF CallTells
    <2> DEFINE t == leads[r.node]
               y == [r EXCEPT !.pc = "insert", !.token = t, !.gen = d.pub]
    <2>4. q = [y EXCEPT !.exp = d.pos, !.todo = touched]
      OBVIOUS
    <2>5. dp'[r.node] = d
      BY <1>2
    <2> HIDE DEF r, d, t, touched, q
    <2>6. y.pc = "insert" /\ y.kind = "members" /\ y.node = r.node /\ y.row = 0 /\ y.epoch = r.epoch
      BY <1>1, <2>3 DEF CallRows
    <2>7. DOMAIN y = DOMAIN r
      OBVIOUS
    <2>8. q.pc = "insert" /\ q.kind = "members" /\ q.node = r.node /\ q.row = 0 /\ q.epoch = r.epoch
          /\ q.todo = touched
      BY <1>1, <2>4, <2>6, <2>7 DEF CallRows
    <2> HIDE DEF y
    <2>9. CallTells(q, dp', rows')
      BY <2>2, <2>5, <2>8 DEF CallTells
    <2> QED
      BY <1>2, <1>4, <2>9, OneCallTells
  <1> QED
    BY <1>2, <1>3, <1>4

(* An answer is lost.                                                      *)
LEMMA AnswerLostTells ==
  ASSUME HistoryInv, ControlInv', NEW c \in Callers, AnswerLost(c)
  PROVE  HistoryInv'
  <1> DEFINE r == call[c]
             q == [r EXCEPT !.pc = "note", !.out = "failed"]
  <1>1. r \in CallRows /\ r.pc = "wait" /\ CallTells(r, dp, rows)
    BY CallFacts DEF HistoryInv, ControlInv, AnswerLost, At
  <1>2. /\ rows' = rows /\ dp' = dp
        /\ (\/ call' = [call EXCEPT ![c] = Idle]
            \/ r.kind = "apply" /\ call' = [call EXCEPT ![c] = q])
    BY DEF AnswerLost, Goes, db
  <1>3. CASE call' = [call EXCEPT ![c] = Idle]
    BY <1>2, <1>3, IdleTells, OneCallTells
  <1>4. CASE r.kind = "apply" /\ call' = [call EXCEPT ![c] = q]
    <2> HIDE DEF r
    <2>1. q.pc = "note" /\ q.out = "failed" /\ q.kind = "apply" /\ q.row = r.row /\ q.epoch = r.epoch
      BY <1>1, <1>4 DEF CallRows
    <2> HIDE DEF q
    <2>2. CallTells(q, dp', rows')
      BY <1>1, <1>2, <1>4, <2>1 DEF CallTells
    <2> QED
      BY <1>2, <1>4, <2>2, OneCallTells
  <1> QED
    BY <1>2, <1>3, <1>4

-----------------------------------------------------------------------------
(* The directories.                                                        *)

(* buildGeneration.                                                        *)
LEMMA BuildTells ==
  ASSUME HistoryInv, ControlInv', NEW c \in Callers, Build(c)
  PROVE  HistoryInv'
  <1> DEFINE r == call[c]
             d == dp[r.node]
             dir == [gen |-> r.gen, rev |-> r.rev, health |-> health]
             pc == IF r.kind = "apply" THEN "claim" ELSE "fence"
             x == d.pos
             q == [r EXCEPT !.exp = x, !.pc = pc]
  <1>1. r \in CallRows /\ CallFits(r, plans, Len(rows)) /\ r.pc = "build" /\ r.node \in Nodes
        /\ r.kind \in {"apply", "follow"} /\ CallTells(r, dp, rows)
    BY CallFacts DEF HistoryInv, ControlInv, Build, At, CallFits
  <1>2. rows' = rows
        /\ (\/ call' = [call EXCEPT ![c] = Idle] /\ UNCHANGED dp
            \/ /\ call' = [call EXCEPT ![c] = q]
               /\ dp' = [dp EXCEPT ![r.node].dirs = IF Made(d, r.gen) = {} THEN Append(@, dir) ELSE @])
    BY DEF Build, Goes, db
  <1>3. CASE call' = [call EXCEPT ![c] = Idle] /\ UNCHANGED dp
    BY <1>2, <1>3, IdleTells, OneCallTells
  <1>4. CASE /\ call' = [call EXCEPT ![c] = q]
             /\ dp' = [dp EXCEPT ![r.node].dirs = IF Made(d, r.gen) = {} THEN Append(@, dir) ELSE @]
    <2> DEFINE dirs == IF Made(d, r.gen) = {} THEN Append(d.dirs, dir) ELSE d.dirs
               e == [d EXCEPT !.dirs = dirs]
    <2>0. dp \in [Nodes -> DataPlanes]
      BY DEF HistoryInv, ControlInv, DpInv
    <2>1. dp' = [dp EXCEPT ![r.node] = e] /\ d \in DataPlanes
      BY <1>1, <1>4, <2>0
    <2>2. pc \in {"claim", "fence"}
      OBVIOUS
    <2> HIDE DEF r, d, dirs, pc, x
    <2>3. e.pos = d.pos /\ e.job = d.job
      BY <2>1 DEF DataPlanes
    <2> HIDE DEF e
    <2>4. \A n \in Nodes : dp'[n].pos = dp[n].pos /\ dp'[n].job = dp[n].job
      BY <2>0, <2>1, <2>3 DEF d
    <2>5. q.kind = r.kind /\ q.pc = pc /\ q.row = r.row /\ q.epoch = r.epoch
      BY <1>1 DEF CallRows
    <2> HIDE DEF q
    <2>6. CallTells(q, dp', rows')
      BY <1>1, <1>2, <2>2, <2>5 DEF CallTells
    <2>7. \A k \in Callers : call'[k] = call[k] \/ CallTells(call'[k], dp', rows')
      BY <1>4, <2>6 DEF HistoryInv, ControlInv, CallsInv
    <2> QED
      BY <1>2, <2>4, <2>7, OnlyCallsTell
  <1> QED
    BY <1>2, <1>3, <1>4

(* sweep.                                                                  *)
LEMMA SweepTells ==
  ASSUME HistoryInv, ControlInv', NEW c \in Callers, Sweep(c)
  PROVE  HistoryInv'
  <1> DEFINE n == call[c].node
             d == dp[n]
             dirs == Swept(d.dirs, Protected(call[c]))
             e == [d EXCEPT !.dirs = dirs]
  <1>1. n \in Nodes
    BY CallFacts DEF HistoryInv, ControlInv, Sweep, At, CallFits
  <1>2. dp \in [Nodes -> DataPlanes]
    BY DEF HistoryInv, ControlInv, DpInv
  <1>3. dp' = [dp EXCEPT ![n] = e] /\ rows' = rows /\ call' = [call EXCEPT ![c] = Idle]
        /\ d \in DataPlanes
    BY <1>1, <1>2 DEF Sweep, Goes, db
  <1> HIDE DEF n, d, dirs
  <1>4. e.pos = d.pos /\ e.job = d.job
    BY <1>3 DEF DataPlanes
  <1> HIDE DEF e
  <1>5. \A m \in Nodes : dp'[m].pos = dp[m].pos /\ dp'[m].job = dp[m].job
    BY <1>2, <1>3, <1>4 DEF d
  <1>6. \A k \in Callers : call'[k] = call[k] \/ CallTells(call'[k], dp', rows')
    BY <1>3, IdleTells DEF HistoryInv, ControlInv, CallsInv
  <1> QED
    BY <1>3, <1>5, <1>6, OnlyCallsTell

(* The pointer.                                                            *)
LEMMA PublishTells ==
  ASSUME HistoryInv, ControlInv', NEW n \in Nodes, Publish(n)
  PROVE  HistoryInv'
  <1> DEFINE d == dp[n]
             gen == d.job.gen
             e == [d EXCEPT !.pub = gen]
  <1>1. dp \in [Nodes -> DataPlanes]
    BY DEF HistoryInv, ControlInv, DpInv
  <1>2. dp' = [dp EXCEPT ![n] = e] /\ rows' = rows /\ call' = call /\ d \in DataPlanes
    BY <1>1 DEF Publish, db
  <1> HIDE DEF d, gen
  <1>3. e.pos = d.pos /\ e.job = d.job
    BY <1>2 DEF DataPlanes
  <1> HIDE DEF e
  <1>4. \A m \in Nodes : dp'[m].pos = dp[m].pos /\ dp'[m].job = dp[m].job
    BY <1>1, <1>2, <1>3 DEF d
  <1> QED
    BY <1>2, <1>4, OnlyCallsTell

-----------------------------------------------------------------------------
(* The rows.                                                               *)

(* A row that is for what it was for, and says something else of it.       *)
RowSays(i, row) ==
  /\ i \in DOMAIN rows /\ rows' = [rows EXCEPT ![i] = row]
  /\ row.epoch = rows[i].epoch /\ row.planes = rows[i].planes
  /\ rows[i].misread => row.misread

(* It tells the truth if what it says is so where the call worked.         *)
LEMMA RowSaysTells ==
  ASSUME HistoryInv, ControlInv', dp' = dp, NEW i, NEW row, RowSays(i, row),
         row.phase = "activated" => row.misread \/ \E n \in Nodes : Reached(dp[n], rows[i]),
         NEW c \in Callers, NEW q, call' = [call EXCEPT ![c] = q], CallTells(q, dp', rows')
  PROVE  HistoryInv'
  <1>1. rows \in Seq(Rows) /\ RowsTyped(rows)
    BY RowsAreTyped DEF HistoryInv, ControlInv, RowsInv
  <1>2. DOMAIN rows' = DOMAIN rows /\ rows'[i] = row
        /\ \A k \in DOMAIN rows : k # i => rows'[k] = rows[k]
    BY <1>1 DEF RowSays
  <1>3. RowsStand(rows, rows')
    BY <1>2 DEF RowsStand, RowSays
  <1>4. Rise(dp, dp')
    BY SamePositionsRise DEF HistoryInv, ControlInv
  <1>5. ASSUME NEW k \in DOMAIN rows'
        PROVE  (k \in DOMAIN rows /\ rows[k].phase = "activated") \/ RowTells(rows'[k], dp')
    <2>1. CASE k # i
      BY <1>2, <2>1 DEF RowTells
    <2>2. CASE k = i
      <3>1. row.phase = "activated" => row.misread \/ \E n \in Nodes : Reached(dp'[n], row)
        BY DEF Reached, RowSays
      <3> QED
        BY <1>2, <2>2, <3>1 DEF RowTells
    <2> QED
      BY <2>1, <2>2
  <1>6. \A k \in Callers : call'[k] = call[k] \/ CallTells(call'[k], dp', rows')
    BY DEF HistoryInv, ControlInv, CallsInv
  <1> QED
    BY <1>3, <1>4, <1>5, <1>6, HistoryGoesOn

(* recordPhase says what came out.                                         *)
LEMMA RecordedSays ==
  ASSUME ControlInv, NEW i \in DOMAIN rows, NEW phase \in Terminal, NEW another,
         Recorded(i, phase, another)
  PROVE  \E row : /\ RowSays(i, row) /\ row.phase = phase
                  /\ another /\ phase = "activated" => row.misread
  <1> DEFINE x == rows[i]
             m == x.misread \/ (another /\ phase = "activated")
             row == AsRecorded(x, phase, m)
  <1>1. x \in Rows /\ rows \in Seq(Rows)
    BY DEF ControlInv, RowsInv
  <1>2. rows' = [rows EXCEPT ![i] = row]
    BY <1>1 DEF Recorded, AsRecorded
  <1>4. (another /\ phase = "activated" => m) /\ (x.misread => m)
    OBVIOUS
  <1> HIDE DEF m, x
  <1>3. row.epoch = x.epoch /\ row.planes = x.planes /\ row.phase = phase /\ row.misread = m
    BY <1>1 DEF Rows, AsRecorded
  <1> HIDE DEF row
  <1>5. RowSays(i, row) /\ row.phase = phase /\ (another /\ phase = "activated" => row.misread)
    BY <1>2, <1>3, <1>4 DEF RowSays, x
  <1> QED
    BY <1>5

(* What came out is recorded.                                              *)
LEMMA NoteTells ==
  ASSUME HistoryInv, ControlInv', NEW c \in Callers, Note(c)
  PROVE  HistoryInv'
  <1> DEFINE r == call[c]
             i == CASE r.kind = "apply" -> r.row [] r.kind = "recover" -> r.before [] OTHER -> 0
             s == [r EXCEPT !.pc = "sweep"]
             q == IF r.kind # "recover" /\ r.out = "activated" THEN s ELSE Idle
  <1>1. r \in CallRows /\ CallFits(r, plans, Len(rows)) /\ r.pc = "note" /\ CallTells(r, dp, rows)
    BY CallFacts DEF HistoryInv, ControlInv, Note, At
  <1>2. /\ IF i = 0 THEN UNCHANGED <<plans, rows>> ELSE Recorded(i, r.out, i # r.row)
        /\ call' = [call EXCEPT ![c] = q] /\ dp' = dp
    BY DEF Note, Goes
  <1>3. r.out \in Terminal /\ r.node \in Nodes /\ r.row \in Nat /\ r.before \in Nat
        /\ r.row <= Len(rows) /\ r.before <= Len(rows) /\ (r.kind = "apply" => r.row # 0)
    <2> HIDE DEF r
    <2> QED
      BY <1>1 DEF CallFits, CallRows
  <1>4. i # 0 => i \in DOMAIN rows
    <2>1. Len(rows) \in Nat /\ DOMAIN rows = 1..Len(rows)
      BY RowsAreTyped DEF HistoryInv, ControlInv
    <2>2. i = r.row \/ i = r.before \/ i = 0
      OBVIOUS
    <2> HIDE DEF r, i
    <2> QED
      BY <1>3, <2>1, <2>2
  <1>5. ASSUME i # 0, i = r.row, r.out = "activated" PROVE Reached(dp[r.node], rows[i])
    <2>1. CASE r.kind = "apply"
      BY <1>1, <1>5, <2>1 DEF CallTells
    <2>2. CASE r.kind = "recover"
      BY <1>1, <1>5, <2>2 DEF CallTells
    <2> QED
      BY <1>5, <2>1, <2>2
  <1>6. (s.pc = "sweep" /\ s.kind = r.kind /\ s.row = r.row /\ s.epoch = r.epoch)
    <2> HIDE DEF r
    <2> QED
      BY <1>1 DEF CallRows
  <1> HIDE DEF r, i, s
  <1>7. ASSUME RowsStand(rows, rows') PROVE CallTells(q, dp', rows')
    <2>1. CASE r.kind # "recover" /\ r.out = "activated"
      <3>1. r.kind = "follow" \/ r.kind = "apply" => r.epoch = rows[r.row].epoch /\ r.row \in DOMAIN rows
        <4>1. r.kind = "follow" \/ r.kind = "apply" => r.row # 0
          BY <1>1 DEF CallFits
        <4>2. r.row # 0 => r.row \in DOMAIN rows
          BY <1>3, RowsAreTyped DEF HistoryInv, ControlInv
        <4> QED
          BY <1>1, <4>1, <4>2 DEF CallTells
      <3>2. r.kind = "follow" \/ r.kind = "apply" => r.epoch = rows'[r.row].epoch
        BY <1>7, <3>1 DEF RowsStand
      <3>3. q = s
        BY <2>1
      <3> HIDE DEF q
      <3> QED
        BY <1>6, <3>2, <3>3 DEF CallTells
    <2>2. CASE ~(r.kind # "recover" /\ r.out = "activated")
      BY <2>2, IdleTells
    <2> QED
      BY <2>1, <2>2
  <1> HIDE DEF q
  <1>8. CASE i = 0
    BY <1>2, <1>7, <1>8, SameRowsStand, OneCallTells
  <1>9. CASE i # 0
    <2>0. Recorded(i, r.out, i # r.row) /\ i \in DOMAIN rows /\ r.out \in Terminal
      BY <1>2, <1>3, <1>4, <1>9
    <2>1. PICK row : /\ RowSays(i, row) /\ row.phase = r.out
                     /\ i # r.row /\ r.out = "activated" => row.misread
      BY <2>0, RecordedSays DEF HistoryInv
    <2>2. RowsStand(rows, rows')
      BY <2>1 DEF RowsStand, RowSays, HistoryInv, ControlInv, RowsInv
    <2>3. row.phase = "activated" => row.misread \/ \E n \in Nodes : Reached(dp[n], rows[i])
      BY <1>3, <1>5, <1>9, <2>1
    <2> QED
      BY <1>2, <1>7, <2>1, <2>2, <2>3, RowSaysTells
  <1> QED
    BY <1>8, <1>9

(* A change of the membership alone is done.                               *)
LEMMA MembersNoteTells ==
  ASSUME HistoryInv, ControlInv', NEW c \in Callers, MembersNote(c)
  PROVE  HistoryInv'
  <1> DEFINE r == call[c]
             i == r.row
  <1>1. r \in CallRows /\ CallFits(r, plans, Len(rows)) /\ r.pc = "members_note"
        /\ CallTells(r, dp, rows)
    BY CallFacts DEF HistoryInv, ControlInv, MembersNote, At
  <1>2. /\ IF i = 0 THEN rows' = rows ELSE Recorded(i, "activated", FALSE)
        /\ call' = [call EXCEPT ![c] = Idle] /\ dp' = dp
    BY DEF MembersNote, Goes
  <1>3. i # 0 => i \in DOMAIN rows
    BY <1>1, RowsAreTyped DEF CallFits, CallRows, HistoryInv, ControlInv
  <1>4. i # 0 => Reached(dp[r.node], rows[i]) /\ r.node \in Nodes
    BY <1>1 DEF CallTells, CallFits
  <1> HIDE DEF r, i
  <1>5. CASE i = 0
    BY <1>2, <1>5, IdleTells, OneCallTells
  <1>6. CASE i # 0
    <2>1. PICK row : RowSays(i, row)
      <3>1. "activated" \in Terminal /\ Recorded(i, "activated", FALSE) /\ i \in DOMAIN rows
        BY <1>2, <1>3, <1>6 DEF Terminal
      <3> QED
        BY <3>1, RecordedSays DEF HistoryInv
    <2>2. CallTells(Idle, dp', rows')
      BY IdleTells
    <2> QED
      BY <1>2, <1>4, <1>6, <2>1, <2>2, RowSaysTells
  <1> QED
    BY <1>5, <1>6

(* A row is marked as cancelled.                                           *)
LEMMA CancelledTells ==
  ASSUME HistoryInv, ControlInv', NEW c \in Callers, Cancelled(c)
  PROVE  HistoryInv'
  <1> DEFINE i == call[c].row
             x == rows[i]
             cs == x.cancelled \cup {call[c].node}
             row == AsCancelled(x, cs)
  <1>1. call[c] \in CallRows /\ CallFits(call[c], plans, Len(rows)) /\ call[c].pc = "cancelled"
    BY CallFacts DEF HistoryInv, ControlInv, Cancelled, At
  <1>2. rows' = [rows EXCEPT ![i].phase = "failed", ![i].cancelled = @ \cup {call[c].node}]
        /\ call' = [call EXCEPT ![c] = Idle] /\ dp' = dp
    BY DEF Cancelled, Goes
  <1>3. i \in DOMAIN rows
    BY <1>1, RowsAreTyped DEF CallFits, CallRows, HistoryInv, ControlInv
  <1>8. rows \in Seq(Rows)
    BY DEF HistoryInv, ControlInv, RowsInv
  <1>9. rows' = [rows EXCEPT ![i] = row]
    BY <1>2, <1>3, <1>8 DEF AsCancelled
  <1>4. rows' = [rows EXCEPT ![i] = row] /\ x \in Rows
    BY <1>3, <1>8, <1>9
  <1> HIDE DEF i, x, cs
  <1>5. row.epoch = x.epoch /\ row.planes = x.planes /\ row.phase = "failed"
        /\ row.misread = x.misread
    BY <1>4 DEF Rows, AsCancelled
  <1> HIDE DEF row
  <1>6. RowSays(i, row)
    BY <1>3, <1>4, <1>5 DEF RowSays, x
  <1>7. CallTells(Idle, dp', rows')
    BY IdleTells
  <1> QED
    BY <1>2, <1>5, <1>6, <1>7, RowSaysTells

(* A row that is added is pending.                                         *)
LEMMA RowAddedTells ==
  ASSUME HistoryInv, ControlInv', dp' = dp, NEW row, rows' = Append(rows, row),
         row.phase = "pending",
         NEW c \in Callers, NEW q, call' = [call EXCEPT ![c] = q], CallTells(q, dp', rows')
  PROVE  HistoryInv'
  <1>1. rows \in Seq(Rows)
    BY DEF HistoryInv, ControlInv, RowsInv
  <1>2. /\ Len(rows) \in Nat /\ DOMAIN rows' = 1..(Len(rows) + 1) /\ DOMAIN rows = 1..Len(rows)
        /\ rows'[Len(rows) + 1] = row /\ \A k \in DOMAIN rows : rows'[k] = rows[k]
    BY <1>1
  <1>3. \A k \in DOMAIN rows' : k \in DOMAIN rows \/ k = Len(rows) + 1
    BY <1>2
  <1>4. \A k \in DOMAIN rows : k \in DOMAIN rows'
    BY <1>2
  <1>5. RowsStand(rows, rows')
    BY <1>2, <1>4 DEF RowsStand
  <1>6. Rise(dp, dp')
    BY SamePositionsRise DEF HistoryInv, ControlInv
  <1>7. ASSUME NEW k \in DOMAIN rows'
        PROVE  (k \in DOMAIN rows /\ rows[k].phase = "activated") \/ RowTells(rows'[k], dp')
    BY <1>2, <1>3 DEF RowTells
  <1>8. \A k \in Callers : call'[k] = call[k] \/ CallTells(call'[k], dp', rows')
    BY DEF HistoryInv, ControlInv, CallsInv
  <1> QED
    BY <1>5, <1>6, <1>7, <1>8, HistoryGoesOn

(* claim.                                                                  *)
LEMMA ClaimTells ==
  ASSUME HistoryInv, ControlInv', NEW c \in Callers, Claim(c)
  PROVE  HistoryInv'
  <1> DEFINE o == call[c]
             t == leads[o.node]
             r == [o EXCEPT !.token = t]
             m == Len(rows) + 1
             q == [r EXCEPT !.row = m, !.pc = "drive"]
             row == NewRow(r, Planes)
  <1>1. o \in CallRows /\ o.pc = "claim" /\ o.kind = "apply"
    BY CallFacts DEF HistoryInv, ControlInv, Claim, At, CallFits
  <1>2. /\ dp' = dp
        /\ (\/ call' = [call EXCEPT ![c] = Idle] /\ rows' = rows
            \/ rows' = Append(rows, row) /\ call' = [call EXCEPT ![c] = q])
    BY DEF Claim, Goes
  <1>3. CASE call' = [call EXCEPT ![c] = Idle] /\ rows' = rows
    BY <1>2, <1>3, IdleTells, OneCallTells
  <1>4. CASE rows' = Append(rows, row) /\ call' = [call EXCEPT ![c] = q]
    <2>1. row.phase = "pending" /\ row.epoch = r.epoch
      BY DEF NewRow
    <2>2. rows'[m] = row
      BY <1>4 DEF HistoryInv, ControlInv, RowsInv
    <2> HIDE DEF o, t, m, row
    <2>3. q.kind = "apply" /\ q.pc = "drive" /\ q.row = m /\ q.epoch = r.epoch
      BY <1>1 DEF CallRows
    <2> HIDE DEF q, r
    <2>4. CallTells(q, dp', rows')
      BY <2>1, <2>2, <2>3 DEF CallTells
    <2> QED
      BY <1>2, <1>4, <2>1, <2>4, RowAddedTells
  <1> QED
    BY <1>2, <1>3, <1>4

(* The row of a change of the membership alone.                            *)
LEMMA InsertTells ==
  ASSUME HistoryInv, ControlInv', NEW c \in Callers, Insert(c)
  PROVE  HistoryInv'
  <1> DEFINE r == call[c]
             m == Len(rows) + 1
             row == NewRow(r, Touched(r))
             q == [r EXCEPT !.pc = "deltas", !.row = m]
             same == [r EXCEPT !.pc = "deltas"]
  <1>1. r \in CallRows /\ CallFits(r, plans, Len(rows)) /\ r.pc = "insert" /\ r.kind = "members"
        /\ CallTells(r, dp, rows)
    BY CallFacts DEF HistoryInv, ControlInv, Insert, At, CallFits
  <1>2. /\ dp' = dp
        /\ (\/ call' = [call EXCEPT ![c] = same] /\ rows' = rows
            \/ rows' = Append(rows, row) /\ call' = [call EXCEPT ![c] = q])
    BY DEF Insert, Goes
  <1>3. r.row = 0 /\ \A i \in r.todo : r.epoch <= dp[r.node].pos[PlaneOrder[i]].epoch
    BY <1>1 DEF CallTells
  <1>4. CASE call' = [call EXCEPT ![c] = same] /\ rows' = rows
    <2> HIDE DEF r
    <2>1. same.pc = "deltas" /\ same.kind = "members" /\ same.row = 0
      BY <1>1, <1>3 DEF CallRows
    <2> HIDE DEF same
    <2>2. CallTells(same, dp', rows')
      BY <2>1 DEF CallTells
    <2> QED
      BY <1>2, <1>4, <2>2, OneCallTells
  <1>5. CASE rows' = Append(rows, row) /\ call' = [call EXCEPT ![c] = q]
    <2>1. row.phase = "pending" /\ row.epoch = r.epoch /\ row.planes = Touched(r)
      BY DEF NewRow
    <2>2. rows'[m] = row
      BY <1>5 DEF HistoryInv, ControlInv, RowsInv
    <2>3. Reached(dp[r.node], row)
      <3> HIDE DEF r, row
      <3> QED
        BY <1>3, <2>1 DEF Reached, Touched
    <2> HIDE DEF r, m, row
    <2>4. q.kind = "members" /\ q.pc = "deltas" /\ q.row = m /\ q.node = r.node
      BY <1>1 DEF CallRows
    <2> HIDE DEF q
    <2>5. CallTells(q, dp', rows')
      BY <1>2, <2>2, <2>3, <2>4 DEF CallTells
    <2> QED
      BY <1>2, <1>5, <2>1, <2>5, RowAddedTells
  <1> QED
    BY <1>2, <1>4, <1>5

-----------------------------------------------------------------------------
(* The data planes.                                                        *)

(* One data plane goes on, and with it some calls.                         *)
LEMMA PlaneTells ==
  ASSUME HistoryInv, ControlInv', rows' = rows, NEW n \in Nodes, NEW e, dp' = [dp EXCEPT ![n] = e],
         \A p \in Planes : dp[n].pos[p].epoch <= e.pos[p].epoch,
         e.job = dp[n].job \/ JobTells(e, rows),
         \A c \in Callers : call'[c] = call[c] \/ CallTells(call'[c], dp', rows')
  PROVE  HistoryInv'
  <1>1. dp \in [Nodes -> DataPlanes] /\ dp' \in [Nodes -> DataPlanes] /\ dp'[n] = e
    BY DEF HistoryInv, ControlInv, DpInv
  <1>2. \A m \in Nodes : m # n => dp'[m] = dp[m]
    BY <1>1
  <1>3. ASSUME NEW m \in Nodes, NEW p \in Planes
        PROVE  /\ dp[m].pos[p].epoch \in Nat /\ dp'[m].pos[p].epoch \in Nat
               /\ dp[m].pos[p].epoch <= dp'[m].pos[p].epoch
    <2>1. dp[m] \in DataPlanes /\ dp'[m] \in DataPlanes
      BY <1>1
    <2>2. dp[m].pos[p].epoch \in Nat /\ dp'[m].pos[p].epoch \in Nat
      BY <2>1, PositionFacts
    <2>3. CASE m = n
      BY <1>1, <2>2, <2>3
    <2>4. CASE m # n
      BY <1>2, <2>2, <2>4
    <2> QED
      BY <2>3, <2>4
  <1>4. Rise(dp, dp')
    BY <1>3 DEF Rise
  <1>5. \A m \in Nodes : dp'[m].job = dp[m].job \/ JobTells(dp'[m], rows')
    BY <1>1, <1>2
  <1>6. RowsStand(rows, rows')
    BY SameRowsStand
  <1>7. \A i \in DOMAIN rows' : (i \in DOMAIN rows /\ rows[i].phase = "activated") \/ RowTells(rows'[i], dp')
    BY DEF RowTells
  <1> QED
    BY <1>4, <1>5, <1>6, <1>7, HistoryGoesOn

(* Its planes stay where they are.                                         *)
LEMMA SamePositions ==
  ASSUME DpInv, NEW n \in Nodes, NEW e, e.pos = dp[n].pos
  PROVE  \A p \in Planes : dp[n].pos[p].epoch <= e.pos[p].epoch
  <1>1. dp[n] \in DataPlanes
    BY NodeFacts
  <1>2. ASSUME NEW p \in Planes PROVE dp[n].pos[p].epoch <= e.pos[p].epoch
    <2> DEFINE a == dp[n].pos[p].epoch
    <2>1. a \in Nat /\ e.pos[p].epoch = a
      BY <1>1, PositionFacts
    <2> HIDE DEF a
    <2> QED
      BY <2>1 DEF a
  <1> QED
    BY <1>2

(* An operation changes its phase: it tells the same, or what its verdict  *)
(* says.                                                                   *)
LEMMA PhaseTells ==
  ASSUME NEW d \in DataPlanes, NEW rs, JobTells(d, rs), d.job # None, NEW phase, NEW e,
         e.pos = d.pos, e.job = [d.job EXCEPT !.phase = phase],
         phase = "activated" => \A p \in Planes : d.job.epoch <= d.pos[p].epoch
  PROVE  JobTells(e, rs)
  <1> DEFINE j == d.job
             k == [j EXCEPT !.phase = phase]
  <1>1. j \in Jobs /\ e.job = k /\ e.pos = d.pos
    BY DEF DataPlanes
  <1>2. j.epoch = rs[j.row].epoch /\ (\A p \in Planes : j.exp[p].epoch < j.epoch)
        /\ (phase = "activated" => \A p \in Planes : j.epoch <= d.pos[p].epoch)
    BY DEF JobTells
  <1> HIDE DEF j
  <1>3. k.row = j.row /\ k.epoch = j.epoch /\ k.exp = j.exp /\ k.phase = phase
    BY <1>1 DEF Jobs
  <1> HIDE DEF k
  <1> QED
    BY <1>1, <1>2, <1>3 DEF JobTells

(* Who is answered that all planes moved may record it.                    *)
LEMMA AnswersTell ==
  ASSUME HistoryInv, NEW n \in Nodes, NEW out \in Terminal, rows' = rows,
         dp'[n].pos = dp[n].pos,
         out = "activated" => \A p \in Planes : dp[n].job.epoch <= dp[n].pos[p].epoch
  PROVE  \A c \in Callers :
           \/ Answers(n, out)[c] = call[c]
           \/ CallTells(Answers(n, out)[c], dp', rows')
  <1>0. \A c \in Callers : ~Waits(c, n) => Answers(n, out)[c] = call[c]
    BY DEF Answers, HistoryInv, ControlInv, CallsInv
  <1> SUFFICES ASSUME NEW c \in Callers, Waits(c, n)
               PROVE  CallTells(Answers(n, out)[c], dp', rows')
    BY <1>0
  <1> DEFINE r == call[c]
             q == Answered(r, out)
             d == dp[n]
  <1>1. Answers(n, out)[c] = q
    BY DEF Answers, Answered, HistoryInv, ControlInv, CallsInv
  <1>2. r \in CallRows /\ CallTells(r, dp, rows) /\ r.pc = "wait" /\ r.node = n /\ r.row # 0
        /\ r.row \in DOMAIN rows /\ d.job # None /\ d.job.row = r.row
    <2>1. r \in CallRows /\ CallTells(r, dp, rows) /\ CallFits(r, plans, Len(rows))
      BY CallFacts DEF HistoryInv, ControlInv
    <2>2. r.pc = "wait" /\ r.node = n /\ d.job # None /\ d.job.row = r.row
      BY DEF Waits
    <2> HIDE DEF r, d
    <2> QED
      BY <2>1, <2>2, RowsAreTyped DEF CallFits, CallRows, HistoryInv, ControlInv
  <1>3. out = "activated" => Reached(dp'[n], rows'[r.row])
    <2> SUFFICES ASSUME out = "activated" PROVE Reached(dp'[n], rows[r.row])
      OBVIOUS
    <2>1. d.job.epoch = rows[r.row].epoch
      BY <1>2 DEF HistoryInv, JobTells
    <2>2. rows[r.row].planes \in SUBSET Planes
      BY <1>2, RowsAreTyped DEF RowsTyped, HistoryInv, ControlInv
    <2> QED
      BY <2>1, <2>2 DEF Reached
  <1>4. q.pc = "note" /\ q.out = out /\ q.kind = r.kind /\ q.node = n /\ q.row = r.row
        /\ q.before = r.before /\ q.epoch = r.epoch
    <2> HIDE DEF r
    <2> QED
      BY <1>2 DEF Answered, CallRows
  <1>6. r.kind \in {"follow", "apply"} => r.epoch = rows'[r.row].epoch
    BY <1>2 DEF CallTells
  <1> HIDE DEF r, q, d
  <1>7. CallTells(q, dp', rows')
    BY <1>3, <1>4, <1>6 DEF CallTells
  <1> QED
    BY <1>1, <1>7

(* A verdict that all moved is so.                                         *)
LEMMA VerdictTells ==
  ASSUME NEW d \in DataPlanes, d.job # None, Verdict(MovedPlanes(d)) = "activated"
  PROVE  \A p \in Planes : d.job.epoch <= d.pos[p].epoch
  <1>1. MovedPlanes(d) = Planes
    BY DEF Verdict
  <1>2. ASSUME NEW p \in Planes PROVE d.job.epoch <= d.pos[p].epoch
    <2>1. d.pos[p].epoch = d.job.epoch
      BY <1>1 DEF MovedPlanes
    <2>2. d.pos[p].epoch \in Nat
      BY PositionFacts
    <2> QED
      BY <2>1, <2>2
  <1> QED
    BY <1>2

(* A drive ends.                                                           *)
LEMMA EndsTells ==
  ASSUME HistoryInv, ControlInv', NEW n \in Nodes, Ends(n)
  PROVE  HistoryInv'
  <1> DEFINE d == dp[n]
             out == Verdict(MovedPlanes(d))
             e == Finished(d, out)
  <1>1. dp \in [Nodes -> DataPlanes] /\ d \in DataPlanes /\ JobTells(d, rows)
    BY DEF HistoryInv, ControlInv, DpInv
  <1>2. dp' = [dp EXCEPT ![n] = e] /\ d.job # None /\ call' = Answers(n, out) /\ rows' = rows
    BY <1>1 DEF Ends, Running, db
  <1>3. out \in Terminal /\ (out = "activated" => \A p \in Planes : d.job.epoch <= d.pos[p].epoch)
    BY <1>1, <1>2, VerdictEnds, VerdictTells
  <1> HIDE DEF d, out
  <1>4. e.pos = d.pos /\ e.job = [d.job EXCEPT !.phase = out]
    BY <1>1 DEF Finished, DataPlanes
  <1> HIDE DEF e
  <1>5. JobTells(e, rows)
    BY <1>1, <1>2, <1>3, <1>4, PhaseTells
  <1>6. \A c \in Callers : call'[c] = call[c] \/ CallTells(call'[c], dp', rows')
    <2>1. dp'[n].pos = dp[n].pos
      BY <1>1, <1>2, <1>4 DEF d
    <2> QED
      BY <1>2, <1>3, <2>1, AnswersTell DEF d
  <1>7. \A p \in Planes : dp[n].pos[p].epoch <= e.pos[p].epoch
    BY <1>4, SamePositions DEF HistoryInv, ControlInv, d
  <1> QED
    BY <1>2, <1>5, <1>6, <1>7, PlaneTells

(* A plane moves, up.                                                      *)
LEMMA MoveTells ==
  ASSUME HistoryInv, ControlInv', NEW n \in Nodes, Move(n)
  PROVE  HistoryInv'
  <1> DEFINE d == dp[n]
             p == PlaneOrder[First(ToMove(d))]
             at == [epoch |-> d.job.epoch, rev |-> 0]
             before == d.pos
             pos == [before EXCEPT ![p] = at]
             e == [d EXCEPT !.pos = pos]
  <1>1. dp \in [Nodes -> DataPlanes] /\ d \in DataPlanes /\ JobTells(d, rows)
    BY DEF HistoryInv, ControlInv, DpInv
  <1>2. dp' = [dp EXCEPT ![n].pos[p] = at] /\ d.job # None /\ ToMove(d) # {} /\ rows' = rows
        /\ call' = call
    BY DEF Move, Running, db
  <1>3. p \in Planes /\ d.pos[p] = d.job.exp[p]
    <2>1. ToMove(d) \in SUBSET (DOMAIN PlaneOrder)
      BY DEF ToMove, PlacesOf
    <2>2. First(ToMove(d)) \in ToMove(d) /\ p \in Planes
      BY <1>2, <2>1, FirstOfPlaces
    <2> DEFINE i == First(ToMove(d))
    <2>3. i \in ToMove(d) /\ p = PlaneOrder[i]
      BY <2>2
    <2> HIDE DEF i, d, p
    <2>4. d.pos[p] = d.job.exp[p]
      BY <2>3 DEF ToMove, PlacesOf
    <2> QED
      BY <2>2, <2>4
  <1>4. d.pos[p].epoch < d.job.epoch
    BY <1>1, <1>2, <1>3 DEF JobTells
  <1>5. dp' = [dp EXCEPT ![n] = e]
    <2> HIDE DEF p, at
    <2> QED
      BY <1>1, <1>2
  <1>6. before \in [Planes -> [epoch : Epochs, rev : 0..MaxDelta]] /\ at.epoch = d.job.epoch
        /\ d.job.epoch \in Nat
    BY <1>1, <1>2, Bounds DEF DataPlanes, Positions, Jobs, Epochs
  <1>7. \A x \in Planes : d.pos[x].epoch \in Nat
    BY <1>1, PositionFacts
  <1>8. before = d.pos
    OBVIOUS
  <1>9. d = dp[n]
    OBVIOUS
  <1> HIDE DEF d, p, at, before
  <1>10. \A x \in Planes : pos[x] = IF x = p THEN at ELSE before[x]
    BY <1>6
  <1> HIDE DEF pos
  <1>11. e.pos = pos /\ e.job = d.job
    BY <1>1 DEF DataPlanes
  <1> HIDE DEF e
  <1>12. ASSUME NEW x \in Planes PROVE d.pos[x].epoch <= e.pos[x].epoch
    <2>1. CASE x = p
      <3> DEFINE a == d.pos[p].epoch
      <3>1. a \in Nat /\ a < d.job.epoch /\ e.pos[x].epoch = d.job.epoch
        BY <1>3, <1>4, <1>6, <1>7, <1>10, <1>11, <2>1
      <3> HIDE DEF a
      <3>2. a <= e.pos[x].epoch
        BY <1>6, <3>1
      <3> QED
        BY <2>1, <3>2 DEF a
    <2>2. CASE x # p
      <3> DEFINE a == d.pos[x].epoch
      <3>1. a \in Nat /\ e.pos[x].epoch = a
        BY <1>7, <1>8, <1>10, <1>11, <2>2
      <3> HIDE DEF a
      <3>2. a <= e.pos[x].epoch
        BY <3>1
      <3> QED
        BY <3>2 DEF a
    <2> QED
      BY <2>1, <2>2
  <1>13. e.job = dp[n].job /\ \A x \in Planes : dp[n].pos[x].epoch <= e.pos[x].epoch
    BY <1>9, <1>11, <1>12
  <1>14. rows' = rows /\ \A k \in Callers : call'[k] = call[k]
    BY <1>2
  <1> QED
    BY <1>5, <1>13, <1>14, PlaneTells

(* A push within an epoch.                                                 *)
LEMMA DeltaTells ==
  ASSUME HistoryInv, ControlInv', NEW c \in Callers, Delta(c)
  PROVE  HistoryInv'
  <1> DEFINE r == call[c]
             n == r.node
             d == dp[n]
             i == First(r.todo)
             p == PlaneOrder[i]
             q == [r EXCEPT !.todo = @ \ {i}, !.pc = IF r.todo = {i} THEN "members_note" ELSE @]
             e == [d EXCEPT !.pos[p].rev = @ + 1]
  <1>1. /\ call[c].pc = "deltas" /\ UNCHANGED rows
        /\ (\/ call' = [call EXCEPT ![c] = Idle] /\ UNCHANGED <<dp, faults>>
            \/ /\ dp' = [dp EXCEPT ![n].pos[p].rev = @ + 1]
               /\ \/ call' = [call EXCEPT ![c] = q] /\ UNCHANGED faults
                  \/ call' = [call EXCEPT ![c] = Idle] /\ faults > 0 /\ faults' = faults - 1)
    BY ZenonT(60) DEF Delta, Goes, At, db
  <1> HIDE DEF d, i, p, q, e
  <1>2. r \in CallRows /\ CallFits(r, plans, Len(rows)) /\ r.pc = "deltas" /\ n \in Nodes
        /\ r.kind = "members" /\ CallTells(r, dp, rows)
    <2>1. r \in CallRows /\ CallFits(r, plans, Len(rows)) /\ r.pc = "deltas" /\ CallTells(r, dp, rows)
      BY <1>1, CallFacts DEF HistoryInv, ControlInv
    <2> HIDE DEF r
    <2> QED
      BY <2>1 DEF CallFits, CallRows
  <1>3. CASE call' = [call EXCEPT ![c] = Idle] /\ UNCHANGED <<dp, faults>>
    BY <1>1, <1>3, IdleTells, OneCallTells
  <1>4. CASE dp' = [dp EXCEPT ![n].pos[p].rev = @ + 1]
    <2>1. dp \in [Nodes -> DataPlanes] /\ d \in DataPlanes
      BY <1>2 DEF HistoryInv, ControlInv, DpInv, d
    <2>2. dp' = [dp EXCEPT ![n] = e]
      <3> HIDE DEF n
      <3> QED
        BY <1>2, <1>4, <2>1 DEF d, e
    <2> DEFINE before == d.pos
    <2>3. e.job = d.job /\ \A x \in Planes : e.pos[x].epoch = before[x].epoch
      <3> DEFINE at == before[p]
                 moved == [at EXCEPT !.rev = @ + 1]
                 pos == [before EXCEPT ![p] = moved]
      <3>1. e = [d EXCEPT !.pos = pos]
        BY <2>1 DEF DataPlanes, e
      <3>2. before \in [Planes -> [epoch : Epochs, rev : 0..MaxDelta]]
        BY <2>1 DEF DataPlanes, Positions
      <3> HIDE DEF before
      <3>3. p \in Planes => at \in [epoch : Epochs, rev : 0..MaxDelta]
        BY <3>2
      <3> HIDE DEF at
      <3>4. p \in Planes => moved.epoch = at.epoch
        BY <3>3
      <3> HIDE DEF moved
      <3>5. \A x \in Planes : pos[x] = IF x = p THEN moved ELSE before[x]
        BY <3>2
      <3>6. \A x \in Planes : pos[x].epoch = before[x].epoch
        BY <3>4, <3>5 DEF at
      <3> HIDE DEF pos
      <3>7. e.job = d.job /\ e.pos = pos
        BY <2>1, <3>1 DEF DataPlanes
      <3> QED
        BY <3>6, <3>7
    <2>4. \A x \in Planes : dp[n].pos[x].epoch <= e.pos[x].epoch
      <3>1. \A x \in Planes : before[x].epoch \in Nat
        BY <2>1, PositionFacts
      <3> HIDE DEF before
      <3>2. \A x \in Planes : before[x].epoch <= e.pos[x].epoch
        BY <2>3, <3>1
      <3> QED
        BY <3>2 DEF before, d
    <2>5. CallTells(q, dp', rows')
      <3>1. r.row # 0 => Reached(dp'[n], rows'[r.row])
        <4>1. r.row # 0 => Reached(dp[n], rows[r.row]) /\ rows[r.row].planes \in SUBSET Planes
                           /\ rows[r.row].epoch \in Nat
          BY <1>2, RowsAreTyped DEF CallTells, CallFits, CallRows, RowsTyped, HistoryInv, ControlInv
        <4>2. dp'[n] = e
          BY <1>2, <2>1, <2>2
        <4>3. \A x \in Planes : e.pos[x].epoch = dp[n].pos[x].epoch
          BY <2>3 DEF d
        <4> QED
          BY <1>1, <4>1, <4>2, <4>3 DEF Reached
      <3> DEFINE todo == r.todo \ {i}
                 pc == IF r.todo = {i} THEN "members_note" ELSE r.pc
      <3>2. q = [r EXCEPT !.todo = todo, !.pc = pc]
        BY DEF q
      <3>3. pc \in {"deltas", "members_note"}
        BY <1>2
      <3>4. n = r.node
        OBVIOUS
      <3> HIDE DEF r, todo, pc, n
      <3>5. q.pc = pc /\ q.kind = "members" /\ q.node = n /\ q.row = r.row
        BY <1>2, <3>2, <3>4 DEF CallRows
      <3> QED
        BY <3>1, <3>3, <3>5 DEF CallTells
    <2>6. \A k \in Callers : call'[k] = call[k] \/ CallTells(call'[k], dp', rows')
      <3>1. call' = [call EXCEPT ![c] = q] \/ call' = [call EXCEPT ![c] = Idle]
        BY <1>1
      <3> QED
        BY <2>5, <3>1, IdleTells DEF HistoryInv, ControlInv, CallsInv
    <2> HIDE DEF r, n
    <2>7. e.job = dp[n].job
      BY <2>3 DEF d
    <2> QED
      BY <1>1, <1>2, <2>2, <2>4, <2>6, <2>7, PlaneTells
  <1> QED
    BY <1>1, <1>3, <1>4

(* applyConfig: what is driven is the row's.                               *)
LEMMA DriveTells ==
  ASSUME HistoryInv, ControlInv', NEW c \in Callers, Drive(c)
  PROVE  HistoryInv'
  <1> DEFINE r == call[c]
             n == r.node
             d == dp[n]
  <1>1. r \in CallRows /\ CallFits(r, plans, Len(rows)) /\ r.pc = "drive" /\ n \in Nodes
        /\ r.kind \in {"apply", "follow"} /\ r.exp \in Positions /\ CallTells(r, dp, rows)
    BY CallFacts DEF HistoryInv, ControlInv, Drive, At, CallFits
  <1>2. r.epoch = rows[r.row].epoch /\ rows' = rows
    BY <1>1 DEF CallTells, Drive, db
  <1>3. dp \in [Nodes -> DataPlanes] /\ d \in DataPlanes
    BY <1>1 DEF HistoryInv, ControlInv, DpInv
  <1>4. CASE Reservable(d, r)
    <2> DEFINE q == [r EXCEPT !.pc = "wait"]
               e == Reserved(d, r)
    <2>1. call' = [call EXCEPT ![c] = q] /\ dp' = [dp EXCEPT ![n] = e]
      BY <1>3, <1>4 DEF Drive, Goes
    <2>2. \A p \in Planes : r.exp[p].epoch < r.epoch
      BY <1>4 DEF Reservable
    <2> HIDE DEF r, n, d
    <2>3. q.pc = "wait" /\ q.kind = r.kind /\ q.row = r.row /\ q.epoch = r.epoch /\ q.before = r.before
      BY <1>1 DEF CallRows
    <2> HIDE DEF q
    <2>4. CallTells(q, dp', rows')
      BY <1>1, <1>2, <2>3 DEF CallTells
    <2>5. e.pos = d.pos /\ JobTells(e, rows)
      <3> DEFINE j == [row |-> r.row, token |-> r.token, epoch |-> r.epoch, gen |-> r.gen,
                       exp |-> r.exp, phase |-> "running"]
      <3>1. e.pos = d.pos /\ e.job = j
        BY <1>3 DEF Reserved, DataPlanes
      <3>2. j.row = r.row /\ j.epoch = r.epoch /\ j.exp = r.exp /\ j.phase = "running"
        OBVIOUS
      <3> HIDE DEF j, e
      <3> QED
        BY <1>2, <2>2, <3>1, <3>2 DEF JobTells
    <2> HIDE DEF e
    <2>6. \A p \in Planes : dp[n].pos[p].epoch <= e.pos[p].epoch
      BY <1>1, <2>5, SamePositions DEF HistoryInv, ControlInv, d
    <2>7. \A k \in Callers : call'[k] = call[k] \/ CallTells(call'[k], dp', rows')
      BY <2>1, <2>4 DEF HistoryInv, ControlInv, CallsInv
    <2> QED
      BY <1>1, <1>2, <2>1, <2>5, <2>6, <2>7, PlaneTells
  <1>5. CASE ~Reservable(d, r)
    <2> DEFINE q == [r EXCEPT !.pc = "note", !.out = "failed"]
    <2>1. call' = [call EXCEPT ![c] = q] /\ dp' = dp
      BY <1>5 DEF Drive, Goes
    <2> HIDE DEF r, n, d
    <2>2. q.pc = "note" /\ q.out = "failed" /\ q.kind = r.kind /\ q.row = r.row /\ q.epoch = r.epoch
      BY <1>1 DEF CallRows
    <2> HIDE DEF q
    <2>3. CallTells(q, dp', rows')
      BY <1>1, <1>2, <2>2 DEF CallTells
    <2> QED
      BY <1>2, <2>1, <2>3, OneCallTells
  <1> QED
    BY <1>4, <1>5

(* abortConfig.                                                            *)
LEMMA AbortTells ==
  ASSUME HistoryInv, ControlInv', NEW c \in Callers, Abort(c)
  PROVE  HistoryInv'
  <1> DEFINE r == call[c]
             n == r.node
             d == dp[n]
             out == Verdict(MovedPlanes(d))
             own == Unfinished(d) /\ d.job.row = r.row /\ d.job.token = rows[r.row].token
             closed == IF own THEN Finished(d, out) ELSE d
             answered == IF own THEN Answers(n, out) ELSE call
             e == IF Abortable(d, r.row)
                  THEN [closed EXCEPT !.aborted = @ \cup {<<r.row, rows[r.row].token>>},
                                      !.ended = d.ended, !.max = rows[r.row].token]
                  ELSE closed
             q == IF Abortable(d, r.row) THEN [r EXCEPT !.pc = "cancelled"] ELSE Idle
  <1>1. r \in CallRows /\ CallFits(r, plans, Len(rows)) /\ r.pc = "abort" /\ n \in Nodes
        /\ r.kind = "cancel"
    BY CallFacts DEF HistoryInv, ControlInv, Abort, At, CallFits
  <1>2. dp \in [Nodes -> DataPlanes] /\ d \in DataPlanes /\ JobTells(d, rows)
    BY <1>1 DEF HistoryInv, ControlInv, DpInv
  <1>3. dp' = [dp EXCEPT ![n] = e] /\ call' = [answered EXCEPT ![c] = q] /\ rows' = rows
    BY DEF Abort, db
  <1>4. own => d.job # None
    BY DEF Unfinished
  <1>5. out \in Terminal
        /\ (own /\ out = "activated" => \A p \in Planes : d.job.epoch <= d.pos[p].epoch)
    BY <1>2, <1>4, VerdictEnds, VerdictTells
  <1>6. closed \in DataPlanes /\ closed.pos = d.pos
        /\ (closed.job = d.job \/ (own /\ closed.job = [d.job EXCEPT !.phase = out]))
    <2>1. CASE own
      <3> HIDE DEF d, out, own
      <3>1. closed = [d EXCEPT !.job.phase = out, !.ended = @ \cup {<<d.job.row, d.job.token>>}]
        BY <2>1 DEF Finished
      <3>2. closed.pos = d.pos /\ closed.job = [d.job EXCEPT !.phase = out]
        BY <1>2, <3>1 DEF DataPlanes
      <3>3. closed \in DataPlanes
        <4>1. JobFits(d, Len(rows)) /\ Len(rows) \in Nat
          BY <1>1, NodeFacts, RowsAreTyped DEF HistoryInv, ControlInv, d
        <4> QED
          BY <1>2, <1>4, <1>5, <2>1, <4>1, FinishedFits
      <3> QED
        BY <2>1, <3>2, <3>3
    <2>2. CASE ~own
      BY <1>2, <2>2
    <2> QED
      BY <2>1, <2>2
  <1>7. e.pos = d.pos /\ e.job = closed.job
    <2> HIDE DEF d, closed, r
    <2> QED
      BY <1>6 DEF DataPlanes
  <1>8. r.kind = "cancel" /\ (q = Idle \/ (q.kind = "cancel" /\ q.pc = "cancelled"))
    <2> HIDE DEF r, d
    <2> QED
      BY <1>1 DEF CallRows
  <1>9. d = dp[n]
    OBVIOUS
  <1>10. answered = call \/ (own /\ answered = Answers(n, out))
    OBVIOUS
  <1> HIDE DEF r, n, d, out, own, closed, answered, e, q
  <1>11. e.job = d.job \/ JobTells(e, rows)
    BY <1>2, <1>4, <1>5, <1>6, <1>7, PhaseTells
  <1>12. \A k \in Callers : answered[k] = call[k] \/ CallTells(answered[k], dp', rows')
    <2>1. dp'[n].pos = dp[n].pos
      BY <1>1, <1>2, <1>3, <1>7, <1>9
    <2>2. CASE answered = call
      BY <2>2
    <2>3. CASE own /\ answered = Answers(n, out)
      BY <1>1, <1>3, <1>5, <1>9, <2>1, <2>3, AnswersTell
    <2> QED
      BY <1>10, <2>2, <2>3
  <1>13. CallTells(q, dp', rows')
    BY <1>8, IdleTells DEF CallTells
  <1>14. \A k \in Callers : call'[k] = call[k] \/ CallTells(call'[k], dp', rows')
    <2>1. answered \in [Callers -> CallRows]
      BY <1>1, <1>5, <1>10, AnswersFit DEF HistoryInv, ControlInv, CallsInv
    <2> QED
      BY <1>3, <1>12, <1>13, <2>1
  <1>15. \A p \in Planes : dp[n].pos[p].epoch <= e.pos[p].epoch
    BY <1>1, <1>7, <1>9, SamePositions DEF HistoryInv, ControlInv
  <1>16. e.job = dp[n].job \/ JobTells(e, rows)
    BY <1>9, <1>11
  <1> QED
    BY <1>1, <1>3, <1>14, <1>15, <1>16, PlaneTells

(* recoverConfig.                                                          *)
LEMMA RecoverTells ==
  ASSUME HistoryInv, ControlInv', NEW c \in Callers, Recover(c)
  PROVE  HistoryInv'
  <1> DEFINE r == call[c]
             n == r.node
             d == dp[n]
             theirs == IF d.job = None THEN 0 ELSE d.job.row
  <1>1. r \in CallRows /\ CallFits(r, plans, Len(rows)) /\ r.pc = "recover" /\ n \in Nodes
        /\ r.kind = "recover"
    BY CallFacts DEF HistoryInv, ControlInv, Recover, At, CallFits
  <1>2. dp \in [Nodes -> DataPlanes] /\ d \in DataPlanes /\ JobTells(d, rows) /\ rows' = rows
    BY <1>1 DEF HistoryInv, ControlInv, DpInv, Recover, db
  <1>4. ASSUME NEW out,
               r.before # 0 /\ theirs = r.before /\ out = "activated" => Reached(dp'[n], rows'[r.before])
        PROVE  CallTells(EndedAs(r, theirs, out), dp', rows')
    <2> DEFINE q == EndedAs(r, theirs, out)
    <2>1. n = r.node
      OBVIOUS
    <2> HIDE DEF r, n, theirs
    <2>2. q.pc = "note" /\ q.out = out /\ q.kind = "recover" /\ q.node = r.node /\ q.before = r.before
          /\ q.row = theirs
      BY <1>1 DEF EndedAs, CallRows
    <2> HIDE DEF q
    <2>3. CallTells(q, dp', rows')
      BY <1>4, <2>1, <2>2 DEF CallTells
    <2> QED
      BY <2>3 DEF q
  <1>5. CASE Unfinished(d) /\ d.job.token < d.max
    <2> DEFINE e == Finished(d, "superseded")
               q == EndedAs(r, theirs, "superseded")
    <2>1. dp' = [dp EXCEPT ![n] = e] /\ call' = [call EXCEPT ![c] = q] /\ d.job # None
      BY <1>2, <1>5 DEF Recover, Goes, Unfinished, EndedAs
    <2>2. CallTells(q, dp', rows')
      BY <1>4
    <2>3. d = dp[n]
      OBVIOUS
    <2> HIDE DEF r, n, d, q, theirs
    <2>4. e.pos = d.pos /\ e.job = [d.job EXCEPT !.phase = "superseded"]
      BY <1>2 DEF Finished, DataPlanes
    <2> HIDE DEF e
    <2>5. JobTells(e, rows)
      BY <1>2, <2>1, <2>4, PhaseTells
    <2>6. \A p \in Planes : dp[n].pos[p].epoch <= e.pos[p].epoch
      BY <1>1, <2>3, <2>4, SamePositions DEF HistoryInv, ControlInv
    <2>7. \A k \in Callers : call'[k] = call[k] \/ CallTells(call'[k], dp', rows')
      BY <2>1, <2>2 DEF HistoryInv, ControlInv, CallsInv
    <2> QED
      BY <1>1, <1>2, <2>1, <2>5, <2>6, <2>7, PlaneTells
  <1>6. CASE Unfinished(d) /\ ~(d.job.token < d.max)
    <2> DEFINE e == [d EXCEPT !.job.phase = "running"]
               row == d.job.row
               token == d.job.token
               q == [r EXCEPT !.pc = "wait", !.row = row, !.token = token]
    <2>1. dp' = [dp EXCEPT ![n] = e] /\ call' = [call EXCEPT ![c] = q] /\ d.job # None
      BY <1>2, <1>6 DEF Recover, Goes, Unfinished
    <2>3. d = dp[n]
      OBVIOUS
    <2> HIDE DEF r, n, d, row, token
    <2>4. q.pc = "wait" /\ q.kind = "recover" /\ q.row = row /\ q.before = r.before
      BY <1>1 DEF CallRows
    <2> HIDE DEF q
    <2>5. CallTells(q, dp', rows')
      BY <2>4 DEF CallTells
    <2>6. e.pos = d.pos /\ e.job = [d.job EXCEPT !.phase = "running"]
      BY <1>2 DEF DataPlanes
    <2> HIDE DEF e
    <2>7. JobTells(e, rows)
      BY <1>2, <2>1, <2>6, PhaseTells
    <2>8. \A p \in Planes : dp[n].pos[p].epoch <= e.pos[p].epoch
      BY <1>1, <2>3, <2>6, SamePositions DEF HistoryInv, ControlInv
    <2>9. \A k \in Callers : call'[k] = call[k] \/ CallTells(call'[k], dp', rows')
      BY <2>1, <2>5 DEF HistoryInv, ControlInv, CallsInv
    <2> QED
      BY <1>1, <1>2, <2>1, <2>7, <2>8, <2>9, PlaneTells
  <1>7. CASE ~Unfinished(d)
    <2> DEFINE out == IF d.job = None THEN "no_operation" ELSE d.job.phase
               q == EndedAs(r, theirs, out)
    <2>1. call' = [call EXCEPT ![c] = q] /\ dp' = dp
      BY <1>7 DEF Recover, Goes, EndedAs
    <2>2. ASSUME r.before # 0, theirs = r.before, out = "activated" PROVE Reached(dp'[n], rows'[r.before])
      <3>1. d.job # None /\ d.job.row = r.before /\ d.job.phase = "activated"
        BY <2>2
      <3>2. d.job.epoch = rows[r.before].epoch /\ \A p \in Planes : d.job.epoch <= d.pos[p].epoch
        BY <1>2, <3>1 DEF JobTells
      <3>3. rows[r.before].planes \in SUBSET Planes
        BY <1>1, <2>2, RowsAreTyped DEF CallFits, CallRows, RowsTyped, HistoryInv, ControlInv
      <3> QED
        BY <1>2, <2>1, <3>2, <3>3 DEF Reached
    <2>3. CallTells(q, dp', rows')
      BY <1>4, <2>2
    <2> HIDE DEF q
    <2> QED
      BY <1>2, <2>1, <2>3, OneCallTells
  <1> QED
    BY <1>5, <1>6, <1>7

(* A fence closes the operation of an earlier leader, or leaves it.        *)
LEMMA FencedTells ==
  ASSUME NEW d \in DataPlanes, NEW rs, JobTells(d, rs), NEW token
  PROVE  /\ Fenced(d, token).pos = d.pos
         /\ Fenced(d, token).job = d.job \/ JobTells(Fenced(d, token), rs)
  <1> DEFINE e == Fenced(d, token)
  <1>1. e.pos = d.pos
    BY DEF Fenced, DataPlanes
  <1>2. CASE Unfinished(d) /\ d.job.token < token
    <2>1. e.job = [d.job EXCEPT !.phase = "superseded"] /\ d.job # None
      BY <1>2 DEF Fenced, DataPlanes, Unfinished
    <2> HIDE DEF e
    <2>2. JobTells(e, rs)
      BY <1>1, <2>1, PhaseTells
    <2> QED
      BY <1>1, <2>2 DEF e
  <1>3. CASE ~(Unfinished(d) /\ d.job.token < token)
    <2>1. e.job = d.job
      BY <1>3 DEF Fenced, DataPlanes
    <2> QED
      BY <1>1, <2>1
  <1> QED
    BY <1>2, <1>3

(* An instance takes the lead.                                             *)
LEMMA PromotedTells ==
  ASSUME HistoryInv, ControlInv', NEW n \in Nodes, Promoted(n)
  PROVE  HistoryInv'
  <1> DEFINE d == dp[n]
             e == Fenced(d, lastToken + 1)
  <1>1. d \in DataPlanes /\ JobTells(d, rows) /\ d = dp[n]
    BY NodeFacts DEF HistoryInv, ControlInv
  <1>2. dp' = [dp EXCEPT ![n] = e] /\ rows' = rows
    BY DEF Promoted, HistoryInv, ControlInv, DpInv, db
  <1>3. PICK out \in Dispossessed : call' = Answers(n, out)
    BY DEF Promoted
  <1>4. out \in Terminal /\ out # "activated"
    BY DEF Dispossessed, Terminal
  <1> HIDE DEF d
  <1>5. e.pos = d.pos /\ (e.job = d.job \/ JobTells(e, rows))
    BY <1>1, FencedTells
  <1> HIDE DEF e
  <1>6. dp'[n].pos = dp[n].pos
    BY <1>1, <1>2, <1>5 DEF HistoryInv, ControlInv, DpInv
  <1>7. \A c \in Callers : call'[c] = call[c] \/ CallTells(call'[c], dp', rows')
    BY <1>2, <1>3, <1>4, <1>6, AnswersTell
  <1>8. \A p \in Planes : dp[n].pos[p].epoch <= e.pos[p].epoch
    BY <1>1, <1>5, SamePositions DEF HistoryInv, ControlInv
  <1>9. e.job = dp[n].job \/ JobTells(e, rows)
    BY <1>1, <1>5
  <1> QED
    BY <1>2, <1>7, <1>8, <1>9, PlaneTells

(* A follower fences its data plane.                                       *)
LEMMA FollowFencesTells ==
  ASSUME HistoryInv, ControlInv', NEW n \in Nodes, FollowFences(n)
  PROVE  HistoryInv'
  <1> DEFINE r == call[n]
             d == dp[n]
             token == FollowToken(r.token)
             fences == Unfinished(d) /\ d.job.token < token
             e == Fenced(d, token)
             q == [r EXCEPT !.pc = "drive", !.token = token]
  <1>0. n \in Callers
    BY DEF Callers
  <1>1. r \in CallRows /\ r.pc = "fence" /\ r.kind = "follow" /\ CallTells(r, dp, rows)
    BY <1>0, CallFacts DEF HistoryInv, ControlInv, FollowFences, At, CallFits
  <1>2. d \in DataPlanes /\ JobTells(d, rows) /\ d = dp[n] /\ rows' = rows
    BY NodeFacts DEF HistoryInv, ControlInv, FollowFences, db
  <1>3. CASE token < d.max
    <2>1. call' = [call EXCEPT ![n] = Idle] /\ dp' = dp
      BY <1>3 DEF FollowFences, Goes
    <2> QED
      BY <1>0, <1>2, <2>1, IdleTells, OneCallTells
  <1>4. CASE ~(token < d.max)
    <2>1. dp' = [dp EXCEPT ![n] = e]
      BY <1>4 DEF FollowFences, HistoryInv, ControlInv, DpInv
    <2>2. PICK out \in Dispossessed :
            call' = [IF fences THEN Answers(n, out) ELSE call EXCEPT ![n] = q]
      BY <1>4 DEF FollowFences
    <2>3. out \in Terminal /\ out # "activated"
      BY DEF Dispossessed, Terminal
    <2> DEFINE answered == IF fences THEN Answers(n, out) ELSE call
    <2>4. call' = [answered EXCEPT ![n] = q] /\ (answered = call \/ answered = Answers(n, out))
      BY <2>2
    <2> HIDE DEF r, token
    <2>5. q.pc = "drive" /\ q.kind = "follow" /\ q.epoch = r.epoch /\ q.row = r.row
      BY <1>1 DEF CallRows
    <2> HIDE DEF q, answered, d
    <2>6. CallTells(q, dp', rows')
      BY <1>1, <1>2, <2>5 DEF CallTells
    <2>7. e.pos = d.pos /\ (e.job = d.job \/ JobTells(e, rows))
      BY <1>2, FencedTells
    <2> HIDE DEF e
    <2>8. dp'[n].pos = dp[n].pos
      BY <1>2, <2>1, <2>7 DEF HistoryInv, ControlInv, DpInv
    <2>9. \A k \in Callers : answered[k] = call[k] \/ CallTells(answered[k], dp', rows')
      BY <1>2, <2>3, <2>4, <2>8, AnswersTell
    <2>10. answered \in [Callers -> CallRows]
      BY <2>3, <2>4, AnswersFit DEF HistoryInv, ControlInv, CallsInv
    <2>11. \A k \in Callers : call'[k] = call[k] \/ CallTells(call'[k], dp', rows')
      BY <1>0, <2>4, <2>6, <2>9, <2>10
    <2>12. \A p \in Planes : dp[n].pos[p].epoch <= e.pos[p].epoch
      BY <1>2, <2>7, SamePositions DEF HistoryInv, ControlInv
    <2>13. e.job = dp[n].job \/ JobTells(e, rows)
      BY <1>2, <2>7
    <2> QED
      BY <1>2, <2>1, <2>11, <2>12, <2>13, PlaneTells
  <1> QED
    BY <1>3, <1>4

(* A crash ends calls and stops a drive.                                   *)
LEMMA CrashTells ==
  ASSUME HistoryInv, ControlInv', NEW n \in Nodes, Crash(n)
  PROVE  HistoryInv'
  <1> DEFINE d == dp[n]
             e == IF Running(d) THEN [d EXCEPT !.job.phase = "stopped"] ELSE d
  <1>1. d \in DataPlanes /\ JobTells(d, rows) /\ d = dp[n] /\ rows' = rows
    BY NodeFacts DEF HistoryInv, ControlInv, Crash, db
  <1>2. /\ dp' = [dp EXCEPT ![n] = e]
        /\ call' = [c \in DOMAIN call |-> IF call[c].node = n THEN Idle ELSE call[c]]
    BY DEF Crash, HistoryInv, ControlInv, DpInv
  <1>3. Running(d) => d.job # None
    BY DEF Running
  <1> HIDE DEF d
  <1>4. e.pos = d.pos /\ (e.job = d.job \/ JobTells(e, rows))
    <2>1. CASE Running(d)
      <3>1. e.pos = d.pos /\ e.job = [d.job EXCEPT !.phase = "stopped"]
        BY <1>1, <2>1 DEF DataPlanes
      <3> HIDE DEF e
      <3> QED
        BY <1>1, <1>3, <2>1, <3>1, PhaseTells
    <2>2. CASE ~Running(d)
      BY <2>2
    <2> QED
      BY <2>1, <2>2
  <1> HIDE DEF e
  <1>5. \A k \in Callers : call'[k] = call[k] \/ CallTells(call'[k], dp', rows')
    <2>1. \A k \in Callers : call'[k] = call[k] \/ call'[k] = Idle
      BY <1>2 DEF HistoryInv, ControlInv, CallsInv
    <2> QED
      BY <2>1, IdleTells
  <1>6. \A p \in Planes : dp[n].pos[p].epoch <= e.pos[p].epoch
    BY <1>1, <1>4, SamePositions DEF HistoryInv, ControlInv
  <1>7. e.job = dp[n].job \/ JobTells(e, rows)
    BY <1>1, <1>4
  <1> QED
    BY <1>1, <1>2, <1>5, <1>6, <1>7, PlaneTells

-----------------------------------------------------------------------------
(* Every behaviour.                                                        *)

(* Before anything happened.                                               *)
LEMMA HistoryInit ==
  ASSUME Init
  PROVE  HistoryInv
  <1>1. \A n \in Nodes : dp[n].job = None
    BY DEF Init
  <1>2. \A c \in Callers : call[c] = Idle
    BY DEF Init, Callers
  <1>3. DOMAIN rows = {}
    BY DEF Init
  <1> QED
    BY <1>1, <1>2, <1>3, ControlInit, IdleTells DEF HistoryInv, JobTells

(* A step of a call.                                                       *)
LEMMA StepTells ==
  ASSUME HistoryInv, ControlInv', NEW c \in Callers, Step(c)
  PROVE  HistoryInv'
  BY BuildTells, ClaimTells, DriveTells, NoteTells, SweepTells, MembersTells, InsertTells,
     DeltaTells, MembersNoteTells, AbortTells, CancelledTells, RecoverTells DEF Step

(* A step of a node.                                                       *)
LEMMA NodeStepTells ==
  ASSUME HistoryInv, ControlInv', NEW n \in Nodes,
         Promoted(n) \/ Demoted(n) \/ Drives(n) \/ Follows(n) \/ FollowFences(n)
         \/ AnswerLost(n) \/ Crash(n)
  PROVE  HistoryInv'
  <1>1. n \in Callers
    BY DEF Callers
  <1>2. CASE Demoted(n)
    <2>1. rows' = rows /\ dp' = dp /\ call' = call
      BY <1>2 DEF Demoted, db
    <2> QED
      BY <2>1, OnlyCallsTell
  <1>3. CASE Drives(n)
    BY <1>3, PublishTells, MoveTells, EndsTells DEF Drives
  <1> QED
    BY <1>1, <1>2, <1>3, PromotedTells, FollowsTells, FollowFencesTells, AnswerLostTells, CrashTells

(* Every step.                                                             *)
LEMMA HistoryStep ==
  ASSUME HistoryInv, [Next]_cpVars
  PROVE  HistoryInv'
  <1>0. ControlInv'
    BY ControlStep DEF HistoryInv
  <1>1. CASE rows' = rows /\ dp' = dp /\ call' = call
    BY <1>0, <1>1, OnlyCallsTell
  <1>2. CASE UNCHANGED cpVars
    <2>1. rows' = rows /\ dp' = dp /\ call' = call
      BY <1>2 DEF cpVars
    <2> QED
      BY <1>1, <2>1
  <1>3. CASE (\E conf \in Confs : Edit(conf)) \/ Replan \/ HealthChanges
    <2>1. rows' = rows /\ dp' = dp /\ call' = call
      BY <1>3 DEF Edit, Replan, HealthChanges, db
    <2> QED
      BY <1>1, <2>1
  <1>4. ASSUME NEW c \in Calls, AnswerLost(c) \/ \E n \in Nodes : Requests(c, n)
        PROVE  HistoryInv'
    <2>1. c \in Callers
      BY DEF Callers
    <2> QED
      BY <1>0, <1>4, <2>1, AnswerLostTells, RequestsTell
  <1>5. CASE \E c \in Calls \cup Nodes : Step(c)
    BY <1>0, <1>5, StepTells DEF Callers
  <1>6. CASE \E n \in Nodes :
               Promoted(n) \/ Demoted(n) \/ Drives(n) \/ Follows(n) \/ FollowFences(n)
               \/ AnswerLost(n) \/ Crash(n)
    BY <1>0, <1>6, NodeStepTells
  <1> QED
    BY <1>2, <1>3, <1>4, <1>5, <1>6 DEF Next

(* What a row calls activated was: some node's planes reached the epoch on *)
(* all the planes the operation was for, unless recover, with other calls  *)
(* between its status and its recoverConfig, recorded on the row what      *)
(* became of another operation (recordPhase, recover).                     *)
THEOREM ActivationsHappen == Spec => []ActivatedRowsHappened
  <1>1. HistoryInv => ActivatedRowsHappened
    <2> SUFFICES ASSUME HistoryInv, NEW i \in Activated, ~rows[i].misread
                 PROVE  \E n \in Nodes : \A p \in rows[i].planes : dp[n].pos[p].epoch >= rows[i].epoch
      BY DEF ActivatedRowsHappened
    <2>1. PICK n \in Nodes : Reached(dp[n], rows[i])
      BY DEF Activated, HistoryInv, RowTells
    <2>2. ASSUME NEW p \in rows[i].planes PROVE dp[n].pos[p].epoch >= rows[i].epoch
      <3>1. rows[i].epoch <= dp[n].pos[p].epoch
        BY <2>1 DEF Reached
      <3> QED
        BY <3>1
    <2> QED
      BY <2>2
  <1>2. HistoryInv /\ [Next]_cpVars => HistoryInv'
    BY HistoryStep
  <1> QED
    BY HistoryInit, <1>1, <1>2, PTL DEF Spec

-----------------------------------------------------------------------------
(* What was cancelled stays down.                                          *)

(* Who was given which token.                                              *)
Owners == [Tokens -> Nodes \cup {None}]
RowKey(i, rs) == <<i, rs[i].token>>
JobKey(d) == <<d.job.row, d.job.token>>

(* The operation of a row got its verdict, or was given up, where its      *)
(* token's owner drove it.  One of the membership alone has no verdict,    *)
(* and what recover recorded of another's needs none.                      *)
Settled(i, own, rs, ds) ==
  \/ MembersOnly(rs[i]) \/ rs[i].misread
  \/ \E n \in Nodes : own[rs[i].token] = n /\ RowKey(i, rs) \in ds[n].ended
GivenUp(i, own, rs, ds) ==
  \E n \in Nodes : own[rs[i].token] = n /\ RowKey(i, rs) \in ds[n].aborted

(* A data plane gives nothing up that has its verdict, and the other way.  *)
PlaneKept(d, last) ==
  /\ d.max <= last /\ d.ended \cap d.aborted = {}
  /\ Unfinished(d) => JobKey(d) \notin d.aborted
  /\ d.job # None /\ d.job.phase = "activated" => JobKey(d) \in d.ended

(* Its operation is its row's, or a follower's, whose row had its verdict. *)
JobOwned(j, n, own, rs, ds) ==
  j # None => \/ j.token = rs[j.row].token /\ own[j.token] = n
              \/ Settled(j.row, own, rs, ds)

(* Who believes to lead does so with a token of its own.                   *)
LeadOwned(t, n, own, last) == t # 0 => t <= last /\ own[t] = n

(* A row is of who claimed it, and its epoch is some plan's that has one,  *)
(* and so is never another's.                                              *)
RowKept(i, own, rs, ds, last) ==
  /\ rs[i].token <= last
  /\ \E j \in DOMAIN rs : rs[j].plan = rs[i].epoch
  /\ MembersOnly(rs[i]) \/ own[rs[i].token] = rs[i].by
  /\ rs[i].phase = "activated" => Settled(i, own, rs, ds)
  /\ rs[i].by \in rs[i].cancelled => MembersOnly(rs[i]) \/ GivenUp(i, own, rs, ds)

(* What a call is about to write is so.                                    *)
CallKept(r, own, rs, ds, last) ==
  /\ r.kind \in {"apply", "members", "follow"} => r.token <= last
  /\ r.kind = "apply" /\ r.pc \in {"build", "claim"} => r.epoch = r.plan
  /\ r.pc \in {"members", "insert"} =>
       r.epoch # r.plan /\ \E j \in DOMAIN rs : rs[j].plan = r.epoch
  /\ r.pc \in {"deltas", "members_note"} /\ r.row # 0 => MembersOnly(rs[r.row])
  /\ r.kind = "apply" /\ r.pc \in {"drive", "wait"} =>
       r.token = rs[r.row].token /\ own[r.token] = r.node
  /\ r.kind = "apply" /\ r.pc = "note" /\ r.out = "activated" => Settled(r.row, own, rs, ds)
  /\ r.kind = "follow" => Settled(r.row, own, rs, ds)
  /\ r.kind = "recover" /\ r.pc = "note" /\ r.out = "activated" /\ r.before # 0
       /\ r.row = r.before => Settled(r.before, own, rs, ds)
  /\ r.pc = "cancelled" => RowKey(r.row, rs) \in ds[r.node].aborted

CancelInv(own) ==
  /\ \A n \in Nodes : /\ PlaneKept(dp[n], lastToken)
                      /\ JobOwned(dp[n].job, n, own, rows, dp)
                      /\ LeadOwned(leads[n], n, own, lastToken)
  /\ \A i \in DOMAIN rows : RowKept(i, own, rows, dp, lastToken)
  /\ \A c \in Callers : CallKept(call[c], own, rows, dp, lastToken)

-----------------------------------------------------------------------------
(* What stands when the rest moves.                                        *)

RowsNamed(rs, ss) ==
  \A i \in DOMAIN rs : /\ i \in DOMAIN ss /\ ss[i].token = rs[i].token
                       /\ ss[i].epoch = rs[i].epoch /\ ss[i].plan = rs[i].plan
                       /\ ss[i].by = rs[i].by /\ (rs[i].misread => ss[i].misread)
Gathers(ds, es) ==
  \A n \in Nodes : /\ ds[n].ended \subseteq es[n].ended /\ ds[n].aborted \subseteq es[n].aborted
                   /\ ds[n].max \in Nat /\ es[n].max \in Nat /\ ds[n].max <= es[n].max
Agree(own, oth, rs) == \A i \in DOMAIN rs : oth[rs[i].token] = own[rs[i].token]

(* A verdict stays, and what was given up too.                             *)
LEMMA SettledStays ==
  ASSUME NEW ds, NEW es, Gathers(ds, es), NEW rs, NEW ss, RowsNamed(rs, ss),
         NEW own, NEW oth, Agree(own, oth, rs), NEW i \in DOMAIN rs
  PROVE  /\ Settled(i, own, rs, ds) => Settled(i, oth, ss, es)
         /\ GivenUp(i, own, rs, ds) => GivenUp(i, oth, ss, es)
         /\ MembersOnly(rs[i]) => MembersOnly(ss[i])
  <1>1. /\ i \in DOMAIN ss /\ ss[i].token = rs[i].token /\ ss[i].epoch = rs[i].epoch
        /\ (rs[i].misread => ss[i].misread)
        /\ ss[i].plan = rs[i].plan /\ oth[rs[i].token] = own[rs[i].token]
    BY DEF RowsNamed, Agree
  <1>2. MembersOnly(rs[i]) => MembersOnly(ss[i])
    BY <1>1 DEF MembersOnly
  <1> QED
    BY <1>1, <1>2 DEF Settled, GivenUp, RowKey, Gathers

(* A call waits.                                                           *)
LEMMA CallKeptOn ==
  ASSUME NEW ds, NEW es, Gathers(ds, es), NEW rs, NEW ss, RowsNamed(rs, ss),
         NEW own, NEW oth, Agree(own, oth, rs),
         NEW last \in Nat, NEW new \in Nat, last <= new, \A t \in Tokens : t <= last => oth[t] = own[t],
         NEW m \in Nat, DOMAIN rs = 1..m, \A i \in DOMAIN rs : rs[i].token \in Nat,
         NEW r \in CallRows, NEW ps, CallFits(r, ps, m), CallKept(r, own, rs, ds, last)
  PROVE  CallKept(r, oth, ss, es, new)
  <1>1. r.row \in Nat /\ r.before \in Nat /\ r.row <= m /\ r.before <= m /\ r.token \in Nat
        /\ r.token \in Tokens /\ (r.pc # "idle" => r.node \in Nodes)
    BY Bounds DEF CallRows, CallFits, Tokens
  <1>2. (r.row # 0 => r.row \in DOMAIN rs) /\ (r.before # 0 => r.before \in DOMAIN rs)
    BY <1>1
  <1>3. r.kind \in {"apply", "members", "follow"} => r.token <= new
    BY <1>1 DEF CallKept
  <1>4. ASSUME r.pc \in {"members", "insert"}
        PROVE  r.epoch # r.plan /\ \E j \in DOMAIN ss : ss[j].plan = r.epoch
    BY <1>4 DEF CallKept, RowsNamed
  <1>5. ASSUME r.pc \in {"deltas", "members_note"}, r.row # 0 PROVE MembersOnly(ss[r.row])
    BY <1>2, <1>5, SettledStays DEF CallKept
  <1>6. ASSUME r.kind = "apply", r.pc \in {"drive", "wait"}
        PROVE  r.token = ss[r.row].token /\ oth[r.token] = r.node
    <2>1. r.row # 0 /\ r.token = rs[r.row].token /\ own[r.token] = r.node /\ r.token <= last
      BY <1>6 DEF CallKept, CallFits
    <2> QED
      BY <1>1, <1>2, <2>1 DEF RowsNamed
  <1>7. ASSUME r.kind = "apply", r.pc = "note", r.out = "activated" PROVE Settled(r.row, oth, ss, es)
    <2>1. r.row # 0 /\ Settled(r.row, own, rs, ds)
      BY <1>7 DEF CallKept, CallFits
    <2> QED
      BY <1>2, <2>1, SettledStays
  <1>8. ASSUME r.kind = "follow" PROVE Settled(r.row, oth, ss, es)
    <2>1. r.row # 0 /\ Settled(r.row, own, rs, ds)
      BY <1>8 DEF CallKept, CallFits
    <2> QED
      BY <1>2, <2>1, SettledStays
  <1>9. ASSUME r.kind = "recover", r.pc = "note", r.out = "activated", r.before # 0, r.row = r.before
        PROVE  Settled(r.before, oth, ss, es)
    BY <1>2, <1>9, SettledStays DEF CallKept
  <1>10. ASSUME r.pc = "cancelled" PROVE RowKey(r.row, ss) \in es[r.node].aborted
    <2>1. r.row \in DOMAIN rs /\ r.node \in Nodes
      BY <1>1, <1>2, <1>10 DEF CallFits
    <2>2. ss[r.row].token = rs[r.row].token /\ ds[r.node].aborted \subseteq es[r.node].aborted
      BY <2>1 DEF RowsNamed, Gathers
    <2>3. RowKey(r.row, rs) \in ds[r.node].aborted
      BY <1>10 DEF CallKept
    <2> QED
      BY <2>2, <2>3 DEF RowKey
  <1>11. r.kind = "apply" /\ r.pc \in {"build", "claim"} => r.epoch = r.plan
    BY DEF CallKept
  <1> QED
    BY <1>3, <1>4, <1>5, <1>6, <1>7, <1>8, <1>9, <1>10, <1>11 DEF CallKept

(* A step adds to what is known, and keeps operations whose they are.      *)
Promises(own, oth) ==
  /\ RowsNamed(rows, rows') /\ Gathers(dp, dp')
  /\ lastToken <= lastToken' /\ \A t \in Tokens : t <= lastToken => oth[t] = own[t]
SameJob(j, k) == j = None \/ (k # None /\ k.row = j.row /\ k.token = j.token)

(* It is enough to look at what a step changes.                            *)
LEMMA CancelGoesOn ==
  ASSUME ControlInv, ControlInv', NEW own \in Owners, NEW oth \in Owners, CancelInv(own),
         Promises(own, oth),
         \A n \in Nodes :
           /\ dp'[n] = dp[n] \/ PlaneKept(dp'[n], lastToken')
           /\ SameJob(dp'[n].job, dp[n].job) \/ JobOwned(dp'[n].job, n, oth, rows', dp')
           /\ leads'[n] = leads[n] \/ LeadOwned(leads'[n], n, oth, lastToken'),
         \A c \in Callers : call'[c] = call[c] \/ CallKept(call'[c], oth, rows', dp', lastToken'),
         \A i \in DOMAIN rows' :
           \/ /\ i \in DOMAIN rows
              /\ rows'[i].phase = "activated" => rows[i].phase = "activated"
              /\ rows'[i].cancelled = rows[i].cancelled
           \/ RowKept(i, oth, rows', dp', lastToken')
  PROVE  CancelInv(oth)'
  <1>1. /\ RowsNamed(rows, rows') /\ Gathers(dp, dp') /\ lastToken <= lastToken'
        /\ lastToken \in Nat /\ lastToken' \in Nat /\ lastToken \in Tokens /\ lastToken' \in Tokens
        /\ \A t \in Tokens : t <= lastToken => oth[t] = own[t]
    BY Bounds DEF Promises, ControlInv, WorldInv, Tokens
  <1>2. \A i \in DOMAIN rows : rows[i].token \in Tokens /\ rows[i].token \in Nat
    <2>1. \A i \in DOMAIN rows : rows[i] \in Rows
      BY DEF ControlInv, RowsInv
    <2> QED
      BY <2>1, Bounds DEF Rows, Tokens
  <1>3. Agree(own, oth, rows)
    BY <1>1, <1>2 DEF Agree, CancelInv, RowKept
  <1>4. Len(rows) \in Nat /\ DOMAIN rows = 1..Len(rows)
    BY RowsAreTyped DEF ControlInv
  <1>5. ASSUME NEW n \in Nodes PROVE PlaneKept(dp'[n], lastToken')
    <2>1. dp[n].max \in Nat
      BY <1>1 DEF Gathers
    <2>2. PlaneKept(dp[n], lastToken)
      BY DEF CancelInv
    <2>3. PlaneKept(dp[n], lastToken')
      BY <1>1, <2>1, <2>2 DEF PlaneKept
    <2> QED
      BY <2>3
  <1>6. ASSUME NEW n \in Nodes PROVE JobOwned(dp'[n].job, n, oth, rows', dp')
    <2>1. CASE SameJob(dp'[n].job, dp[n].job)
      <3> SUFFICES ASSUME dp'[n].job # None PROVE JobOwned(dp'[n].job, n, oth, rows', dp')
        BY DEF JobOwned
      <3> DEFINE j == dp[n].job
      <3>1. j # None /\ dp'[n].job.row = j.row /\ dp'[n].job.token = j.token
        BY <2>1 DEF SameJob
      <3>2. j.row \in DOMAIN rows /\ JobOwned(j, n, own, rows, dp)
        BY <1>4, <3>1, NodeFacts DEF ControlInv, JobFits, CancelInv
      <3>3. \/ j.token = rows[j.row].token /\ own[j.token] = n
           \/ Settled(j.row, own, rows, dp)
        BY <3>1, <3>2 DEF JobOwned
      <3>4. rows'[j.row].token = rows[j.row].token /\ oth[rows[j.row].token] = own[rows[j.row].token]
        BY <1>1, <1>3, <3>2 DEF RowsNamed, Agree
      <3>5. Settled(j.row, own, rows, dp) => Settled(j.row, oth, rows', dp')
        BY <1>1, <1>3, <3>2, SettledStays
      <3> HIDE DEF j
      <3> QED
        BY <3>1, <3>3, <3>4, <3>5 DEF JobOwned
    <2> QED
      BY <2>1
  <1>7. ASSUME NEW n \in Nodes PROVE LeadOwned(leads'[n], n, oth, lastToken')
    <2>1. CASE leads'[n] = leads[n]
      <3> DEFINE t == leads[n]
      <3>1. t \in Tokens /\ t \in Nat /\ LeadOwned(t, n, own, lastToken)
        BY Bounds DEF CancelInv, ControlInv, WorldInv, Tokens
      <3> HIDE DEF t
      <3>2. LeadOwned(t, n, oth, lastToken')
        BY <1>1, <3>1 DEF LeadOwned
      <3> QED
        BY <2>1, <3>2 DEF t
    <2> QED
      BY <2>1
  <1>8. ASSUME NEW c \in Callers PROVE CallKept(call'[c], oth, rows', dp', lastToken')
    <2>1. CASE call'[c] = call[c]
      <3> DEFINE x == call[c]
      <3>1. x \in CallRows /\ CallFits(x, plans, Len(rows)) /\ CallKept(x, own, rows, dp, lastToken)
        BY CallFacts DEF ControlInv, CancelInv
      <3> HIDE DEF x
      <3>2. CallKept(x, oth, rows', dp', lastToken')
        BY <1>1, <1>2, <1>3, <1>4, <3>1, CallKeptOn
      <3> QED
        BY <2>1, <3>2 DEF x
    <2> QED
      BY <2>1
  <1>9. ASSUME NEW i \in DOMAIN rows' PROVE RowKept(i, oth, rows', dp', lastToken')
    <2>1. CASE /\ i \in DOMAIN rows
               /\ rows'[i].phase = "activated" => rows[i].phase = "activated"
               /\ rows'[i].cancelled = rows[i].cancelled
      <3>1. RowKept(i, own, rows, dp, lastToken) /\ rows'[i].token = rows[i].token
            /\ rows'[i].epoch = rows[i].epoch /\ rows[i].token \in Nat /\ rows'[i].by = rows[i].by
            /\ oth[rows[i].token] = own[rows[i].token]
        BY <1>1, <1>2, <1>3, <2>1 DEF CancelInv, RowsNamed, Agree
      <3>2. rows'[i].token <= lastToken'
        BY <1>1, <3>1 DEF RowKept
      <3>3. \E j \in DOMAIN rows' : rows'[j].plan = rows'[i].epoch
        BY <1>1, <3>1 DEF RowKept, RowsNamed
      <3>4. /\ Settled(i, own, rows, dp) => Settled(i, oth, rows', dp')
            /\ GivenUp(i, own, rows, dp) => GivenUp(i, oth, rows', dp')
            /\ MembersOnly(rows[i]) => MembersOnly(rows'[i])
        BY <1>1, <1>3, <2>1, SettledStays
      <3> QED
        BY <2>1, <3>1, <3>2, <3>3, <3>4 DEF RowKept
    <2> QED
      BY <2>1
  <1> QED
    BY <1>5, <1>6, <1>7, <1>8, <1>9 DEF CancelInv

-----------------------------------------------------------------------------
(* The steps.                                                              *)

(* A data plane's token is a number.                                       *)
LEMMA MaxIsNumber ==
  ASSUME DpInv
  PROVE  \A n \in Nodes : dp[n].max \in Nat /\ dp[n].max \in Tokens
  BY NodeFacts, Bounds DEF DataPlanes, Tokens

(* One data plane goes on.                                                 *)
LEMMA OnePlanePromises ==
  ASSUME HistoryInv, ControlInv', NEW own, rows' = rows, lastToken' = lastToken,
         NEW n \in Nodes, NEW e, dp' = [dp EXCEPT ![n] = e],
         dp[n].ended \subseteq e.ended, dp[n].aborted \subseteq e.aborted, dp[n].max <= e.max
  PROVE  Promises(own, own) /\ dp'[n] = e /\ \A m \in Nodes : m # n => dp'[m] = dp[m]
  <1>0. ControlInv /\ dp \in [Nodes -> DataPlanes] /\ lastToken \in Nat
    BY Bounds DEF HistoryInv, ControlInv, DpInv, WorldInv, Tokens
  <1>1. dp'[n] = e /\ \A m \in Nodes : m # n => dp'[m] = dp[m]
    BY <1>0
  <1>2. \A m \in Nodes : dp[m].max \in Nat /\ dp'[m].max \in Nat
    <2>1. \A m \in Nodes : dp[m] \in DataPlanes /\ dp'[m] \in DataPlanes
      BY <1>0 DEF ControlInv, DpInv
    <2> QED
      BY <2>1, Bounds DEF DataPlanes, Tokens
  <1>3. Gathers(dp, dp')
    <2> SUFFICES ASSUME NEW m \in Nodes
                 PROVE  /\ dp[m].ended \subseteq dp'[m].ended /\ dp[m].aborted \subseteq dp'[m].aborted
                        /\ dp[m].max <= dp'[m].max
      BY <1>2 DEF Gathers
    <2> QED
      BY <1>1, <1>2
  <1>4. RowsNamed(rows, rows')
    BY DEF RowsNamed
  <1> QED
    BY <1>0, <1>1, <1>3, <1>4 DEF Promises

(* And with it some calls.                                                 *)
LEMMA OnePlaneKept ==
  ASSUME HistoryInv, ControlInv', NEW own \in Owners, CancelInv(own),
         rows' = rows, lastToken' = lastToken, \A n \in Nodes : leads'[n] \in {leads[n], 0},
         NEW n \in Nodes, NEW e, dp' = [dp EXCEPT ![n] = e],
         dp[n].ended \subseteq e.ended, dp[n].aborted \subseteq e.aborted, dp[n].max <= e.max,
         PlaneKept(e, lastToken), SameJob(e.job, dp[n].job) \/ JobOwned(e.job, n, own, rows', dp'),
         \A c \in Callers : call'[c] = call[c] \/ CallKept(call'[c], own, rows', dp', lastToken')
  PROVE  CancelInv(own)'
  <1>0. ControlInv
    BY DEF HistoryInv
  <1>1. Promises(own, own) /\ dp'[n] = e /\ \A m \in Nodes : m # n => dp'[m] = dp[m]
    BY OnePlanePromises
  <1>2. ASSUME NEW m \in Nodes
        PROVE  /\ dp'[m] = dp[m] \/ PlaneKept(dp'[m], lastToken')
               /\ SameJob(dp'[m].job, dp[m].job) \/ JobOwned(dp'[m].job, m, own, rows', dp')
               /\ leads'[m] = leads[m] \/ LeadOwned(leads'[m], m, own, lastToken')
    BY <1>1 DEF SameJob, LeadOwned
  <1>3. \A i \in DOMAIN rows' :
          /\ i \in DOMAIN rows
          /\ rows'[i].phase = "activated" => rows[i].phase = "activated"
          /\ rows'[i].cancelled = rows[i].cancelled
    OBVIOUS
  <1> QED
    BY <1>0, <1>1, <1>2, <1>3, CancelGoesOn

(* Of the data planes only what is served changes, or nothing.             *)
LEMMA CallsKept ==
  ASSUME HistoryInv, ControlInv', NEW own \in Owners, CancelInv(own),
         rows' = rows, lastToken' = lastToken, \A n \in Nodes : leads'[n] \in {leads[n], 0},
         \A n \in Nodes : /\ dp'[n].max = dp[n].max /\ dp'[n].ended = dp[n].ended
                          /\ dp'[n].aborted = dp[n].aborted /\ dp'[n].job = dp[n].job,
         \A c \in Callers : call'[c] = call[c] \/ CallKept(call'[c], own, rows', dp', lastToken')
  PROVE  CancelInv(own)'
  <1>0. ControlInv /\ lastToken \in Nat
    BY Bounds DEF HistoryInv, ControlInv, WorldInv, Tokens
  <1>1. \A m \in Nodes : dp[m].max \in Nat
    BY MaxIsNumber DEF HistoryInv, ControlInv
  <1>2. Gathers(dp, dp')
    BY <1>1 DEF Gathers
  <1>3. RowsNamed(rows, rows')
    BY DEF RowsNamed
  <1>4. Promises(own, own)
    BY <1>0, <1>2, <1>3 DEF Promises
  <1>5. ASSUME NEW m \in Nodes
        PROVE  /\ PlaneKept(dp'[m], lastToken')
               /\ SameJob(dp'[m].job, dp[m].job)
               /\ leads'[m] = leads[m] \/ LeadOwned(leads'[m], m, own, lastToken')
    <2>1. PlaneKept(dp[m], lastToken)
      BY DEF CancelInv
    <2>2. PlaneKept(dp'[m], lastToken')
      BY <2>1 DEF PlaneKept, Unfinished, JobKey
    <2> QED
      BY <2>2 DEF SameJob, LeadOwned
  <1>6. \A i \in DOMAIN rows' :
          /\ i \in DOMAIN rows
          /\ rows'[i].phase = "activated" => rows[i].phase = "activated"
          /\ rows'[i].cancelled = rows[i].cancelled
    OBVIOUS
  <1> QED
    BY <1>0, <1>4, <1>5, <1>6, CancelGoesOn

(* One call goes on, and nothing else.                                     *)
LEMMA OneCallKept ==
  ASSUME HistoryInv, ControlInv', NEW own \in Owners, CancelInv(own),
         rows' = rows, dp' = dp, lastToken' = lastToken, leads' = leads,
         NEW c \in Callers, NEW q, call' = [call EXCEPT ![c] = q],
         CallKept(q, own, rows, dp, lastToken)
  PROVE  CancelInv(own)'
  <1>1. \A k \in Callers : call'[k] = call[k] \/ CallKept(call'[k], own, rows', dp', lastToken')
    BY DEF HistoryInv, ControlInv, CallsInv
  <1> QED
    BY <1>1, CallsKept

(* Rows change their phase, or one is added.                               *)
LEMMA RowsGoKept ==
  ASSUME HistoryInv, ControlInv', NEW own \in Owners, CancelInv(own),
         RowsNamed(rows, rows'), dp' = dp, lastToken' = lastToken, leads' = leads,
         NEW c \in Callers, NEW q, call' = [call EXCEPT ![c] = q],
         CallKept(q, own, rows', dp, lastToken),
         \A i \in DOMAIN rows' :
           \/ /\ i \in DOMAIN rows
              /\ rows'[i].phase = "activated" => rows[i].phase = "activated"
              /\ rows'[i].cancelled = rows[i].cancelled
           \/ RowKept(i, own, rows', dp, lastToken)
  PROVE  CancelInv(own)'
  <1>0. ControlInv /\ lastToken \in Nat
    BY Bounds DEF HistoryInv, ControlInv, WorldInv, Tokens
  <1>1. \A m \in Nodes : dp[m].max \in Nat
    BY MaxIsNumber DEF HistoryInv, ControlInv
  <1>2. Gathers(dp, dp')
    BY <1>1 DEF Gathers
  <1>3. Promises(own, own)
    BY <1>0, <1>2 DEF Promises
  <1>4. \A m \in Nodes : dp'[m] = dp[m] /\ SameJob(dp'[m].job, dp[m].job) /\ leads'[m] = leads[m]
    BY DEF SameJob
  <1>5. \A k \in Callers : call'[k] = call[k] \/ CallKept(call'[k], own, rows', dp', lastToken')
    BY DEF HistoryInv, ControlInv, CallsInv
  <1>6. \A i \in DOMAIN rows' :
           \/ /\ i \in DOMAIN rows
              /\ rows'[i].phase = "activated" => rows[i].phase = "activated"
              /\ rows'[i].cancelled = rows[i].cancelled
           \/ RowKept(i, own, rows', dp', lastToken')
    OBVIOUS
  <1> QED
    BY <1>0, <1>3, <1>4, <1>5, <1>6, CancelGoesOn

(* A call that is over is about to write nothing.                          *)
LEMMA IdleKept ==
  ASSUME NEW last \in Nat
  PROVE  \A own, rs, ds : CallKept(Idle, own, rs, ds, last)
  BY DEF Idle, CallKept

(* What is known of a call.                                                *)
LEMMA CallIs ==
  ASSUME HistoryInv, NEW own \in Owners, CancelInv(own), NEW c \in Callers
  PROVE  /\ call[c] \in CallRows /\ CallFits(call[c], plans, Len(rows))
         /\ CallTells(call[c], dp, rows) /\ CallKept(call[c], own, rows, dp, lastToken)
         /\ lastToken \in Nat /\ call[c].row \in Nat /\ call[c].before \in Nat
         /\ call[c].pc # "idle" => call[c].node \in Nodes
         /\ call[c].row # 0 => call[c].row \in DOMAIN rows
         /\ call[c].before # 0 => call[c].before \in DOMAIN rows
  <1> DEFINE r == call[c]
  <1>1. /\ r \in CallRows /\ CallFits(r, plans, Len(rows))
        /\ CallTells(r, dp, rows) /\ CallKept(r, own, rows, dp, lastToken)
    BY CallFacts DEF HistoryInv, ControlInv, CancelInv
  <1>2. lastToken \in Nat /\ Len(rows) \in Nat /\ DOMAIN rows = 1..Len(rows)
    BY Bounds, RowsAreTyped DEF HistoryInv, ControlInv, WorldInv, Tokens
  <1> HIDE DEF r
  <1>3. r.row \in Nat /\ r.before \in Nat /\ r.row <= Len(rows) /\ r.before <= Len(rows)
        /\ (r.pc # "idle" => r.node \in Nodes)
    BY <1>1 DEF CallRows, CallFits
  <1>4. (r.row # 0 => r.row \in DOMAIN rows) /\ (r.before # 0 => r.before \in DOMAIN rows)
    BY <1>2, <1>3
  <1> QED
    BY <1>1, <1>2, <1>3, <1>4 DEF r

(* Who leads has a token.                                                  *)
LEMMA LeaderIs ==
  ASSUME HistoryInv, NEW own \in Owners, CancelInv(own), NEW n \in Nodes, leads[n] # 0
  PROVE  leads[n] <= lastToken /\ own[leads[n]] = n
  BY DEF CancelInv, LeadOwned

(* Requests and reads.                                                     *)
LEMMA RequestsKept ==
  ASSUME HistoryInv, ControlInv', NEW own \in Owners, CancelInv(own),
         NEW c \in Callers, NEW n \in Nodes, Requests(c, n)
  PROVE  CancelInv(own)'
  <1>0. lastToken \in Nat
    BY CallIs
  <1>1. \A kind \in Kinds : \A pc \in Stages :
          LET x == Starts(kind, n, pc) IN
          x \in CallRows /\ x.kind = kind /\ x.node = n /\ x.pc = pc /\ x.row = 0 /\ x.token = 0
    BY StartsFields
  <1>2. ASSUME NEW p \in DOMAIN plans, ApplyLooks(c, n, p) PROVE CancelInv(own)'
    <2> DEFINE x == Starts("members", n, "members")
               y == Starts("apply", n, "build")
               epoch == rows[ActiveRow].epoch
               s == [x EXCEPT !.plan = p, !.rev = plans[p].rev, !.epoch = epoch]
               a == [y EXCEPT !.plan = p, !.rev = plans[p].rev, !.epoch = p, !.gen = p]
    <2>1. /\ rows' = rows /\ dp' = dp /\ lastToken' = lastToken /\ leads' = leads /\ ~HasRow(p)
          /\ \/ SameAsActive(p) /\ call' = [call EXCEPT ![c] = s]
             \/ call' = [call EXCEPT ![c] = a]
      BY <1>2 DEF ApplyLooks, Goes, db, world
    <2>2. /\ x.kind = "members" /\ x.pc = "members" /\ x.token = 0 /\ x \in CallRows
          /\ y.kind = "apply" /\ y.pc = "build" /\ y.token = 0 /\ y \in CallRows
      BY <1>1 DEF Kinds, Stages
    <2>3. SameAsActive(p) => epoch # p /\ \E j \in DOMAIN rows : rows[j].plan = epoch
      <3> SUFFICES ASSUME SameAsActive(p) PROVE epoch # p /\ \E j \in DOMAIN rows : rows[j].plan = epoch
        OBVIOUS
      <3>1. ActiveRow \in DOMAIN rows
        BY ActiveRowIsRow DEF SameAsActive, HistoryInv, ControlInv
      <3> QED
        BY <2>1, <3>1 DEF CancelInv, RowKept, HasRow
    <2> HIDE DEF x, y, epoch
    <2>4. /\ s.kind = "members" /\ s.pc = "members" /\ s.plan = p /\ s.epoch = epoch /\ s.token = 0
          /\ a.kind = "apply" /\ a.pc = "build" /\ a.plan = p /\ a.epoch = p /\ a.token = 0
      BY <2>2 DEF CallRows
    <2> HIDE DEF s, a
    <2>5. /\ SameAsActive(p) => CallKept(s, own, rows, dp, lastToken)
          /\ CallKept(a, own, rows, dp, lastToken)
      BY <1>0, <2>3, <2>4 DEF CallKept
    <2> QED
      BY <2>1, <2>5, OneCallKept
  <1>3. ASSUME NEW i \in DOMAIN rows, CancelReads(c, n, i) PROVE CancelInv(own)'
    <2> DEFINE x == Starts("cancel", n, "abort")
               q == [x EXCEPT !.row = i]
    <2>1. /\ call' = [call EXCEPT ![c] = q] /\ rows' = rows /\ dp' = dp /\ lastToken' = lastToken
          /\ leads' = leads
      BY <1>3 DEF CancelReads, Goes, db, world
    <2>2. x.kind = "cancel" /\ x.pc = "abort" /\ x.node = n /\ x \in CallRows
      BY <1>1 DEF Kinds, Stages
    <2> HIDE DEF x
    <2>3. q.kind = "cancel" /\ q.pc = "abort" /\ q.node = n /\ q.row = i
      BY <2>2 DEF CallRows
    <2> HIDE DEF q
    <2>5. CallKept(q, own, rows, dp, lastToken)
      BY <2>3 DEF CallKept
    <2> QED
      BY <2>1, <2>5, OneCallKept
  <1>4. CASE RecoverReads(c, n)
    <2> DEFINE x == Starts("recover", n, "recover")
               q == [x EXCEPT !.before = IF Unfinished(dp[n]) THEN dp[n].job.row ELSE 0]
    <2>1. /\ call' = [call EXCEPT ![c] = q] /\ rows' = rows /\ dp' = dp /\ lastToken' = lastToken
          /\ leads' = leads
      BY <1>4 DEF RecoverReads, Goes, db, world
    <2>2. x.kind = "recover" /\ x.pc = "recover" /\ x \in CallRows
      BY <1>1 DEF Kinds, Stages
    <2> HIDE DEF x
    <2>3. q.kind = "recover" /\ q.pc = "recover"
      BY <2>2 DEF CallRows
    <2> HIDE DEF q
    <2>4. CallKept(q, own, rows, dp, lastToken)
      BY <2>3 DEF CallKept
    <2> QED
      BY <2>1, <2>4, OneCallKept
  <1> QED
    BY <1>2, <1>3, <1>4 DEF Requests

(* A follower begins with the active row.                                  *)
LEMMA FollowsKept ==
  ASSUME HistoryInv, ControlInv', NEW own \in Owners, CancelInv(own), NEW n \in Nodes, Follows(n)
  PROVE  CancelInv(own)'
  <1> DEFINE x == Starts("follow", n, "build")
             i == ActiveRow
             token == rows[i].token
             q == [x EXCEPT !.row = i, !.rev = rows[i].rev, !.epoch = rows[i].epoch,
                            !.gen = rows[i].gen, !.token = token]
  <1>1. /\ call' = [call EXCEPT ![n] = q] /\ rows' = rows /\ dp' = dp /\ lastToken' = lastToken
        /\ leads' = leads /\ n \in Callers
    BY DEF Follows, Goes, db, world, Callers
  <1>2. x.kind = "follow" /\ x.pc = "build" /\ x \in CallRows
    BY StartsFields DEF Kinds, Stages
  <1>3. i \in DOMAIN rows /\ rows[i].phase = "activated"
    BY ActiveRowIsRow DEF Follows, HistoryInv, ControlInv
  <1>4. token <= lastToken /\ Settled(i, own, rows, dp)
    BY <1>3 DEF CancelInv, RowKept
  <1> HIDE DEF x, i, token
  <1>5. q.kind = "follow" /\ q.pc = "build" /\ q.row = i /\ q.token = token
    BY <1>2 DEF CallRows
  <1> HIDE DEF q
  <1>6. CallKept(q, own, rows, dp, lastToken)
    BY <1>4, <1>5 DEF CallKept
  <1> QED
    BY <1>1, <1>6, OneCallKept

(* applyMembershipOnly takes the leader's token.                           *)
LEMMA MembersKept ==
  ASSUME HistoryInv, ControlInv', NEW own \in Owners, CancelInv(own), NEW c \in Callers, Members(c)
  PROVE  CancelInv(own)'
  <1> DEFINE r == call[c]
             d == dp[r.node]
             t == leads[r.node]
             touched == PlacesOf({p \in Planes : d.pos[p].epoch = r.epoch})
             y == [r EXCEPT !.pc = "insert", !.token = t, !.gen = d.pub]
             q == [y EXCEPT !.exp = d.pos, !.todo = touched]
  <1>1. r \in CallRows /\ r.pc = "members" /\ r.kind = "members"
        /\ CallKept(r, own, rows, dp, lastToken) /\ lastToken \in Nat /\ r.node \in Nodes
    BY CallIs DEF Members, At, CallFits
  <1>2. rows' = rows /\ dp' = dp /\ lastToken' = lastToken /\ leads' = leads
    BY DEF Members, db, world
  <1>3. call' = [call EXCEPT ![c] = Idle] \/ (t # 0 /\ call' = [call EXCEPT ![c] = q])
    BY DEF Members, Goes
  <1>4. t # 0 => t <= lastToken
    BY <1>1, LeaderIs
  <1>5. r.epoch # r.plan /\ \E j \in DOMAIN rows : rows[j].plan = r.epoch
    BY <1>1 DEF CallKept
  <1> HIDE DEF r, d, t, touched
  <1>6. y.pc = "insert" /\ y.kind = "members" /\ y.plan = r.plan /\ y.epoch = r.epoch /\ y.token = t
        /\ DOMAIN y = DOMAIN r
    BY <1>1 DEF CallRows
  <1> HIDE DEF y
  <1>7. q.pc = "insert" /\ q.kind = "members" /\ q.plan = r.plan /\ q.epoch = r.epoch /\ q.token = t
    BY <1>1, <1>6 DEF CallRows
  <1> HIDE DEF q
  <1>8. t # 0 => CallKept(q, own, rows, dp, lastToken)
    BY <1>4, <1>5, <1>7 DEF CallKept
  <1> QED
    BY <1>1, <1>2, <1>3, <1>8, IdleKept, OneCallKept

(* An answer is lost.                                                      *)
LEMMA AnswerLostKept ==
  ASSUME HistoryInv, ControlInv', NEW own \in Owners, CancelInv(own), NEW c \in Callers, AnswerLost(c)
  PROVE  CancelInv(own)'
  <1> DEFINE r == call[c]
             q == [r EXCEPT !.pc = "note", !.out = "failed"]
  <1>1. r \in CallRows /\ CallKept(r, own, rows, dp, lastToken) /\ lastToken \in Nat
    BY CallIs
  <1>2. rows' = rows /\ dp' = dp /\ lastToken' = lastToken /\ leads' = leads
    BY DEF AnswerLost, db, world
  <1>3. call' = [call EXCEPT ![c] = Idle] \/ (r.kind = "apply" /\ call' = [call EXCEPT ![c] = q])
    BY DEF AnswerLost, Goes
  <1> HIDE DEF r
  <1>4. q.pc = "note" /\ q.out = "failed" /\ q.kind = r.kind /\ q.token = r.token
    BY <1>1 DEF CallRows
  <1> HIDE DEF q
  <1>5. r.kind = "apply" => CallKept(q, own, rows, dp, lastToken)
    BY <1>1, <1>4 DEF CallKept
  <1> QED
    BY <1>1, <1>2, <1>3, <1>5, IdleKept, OneCallKept

(* buildGeneration.                                                        *)
LEMMA BuildKept ==
  ASSUME HistoryInv, ControlInv', NEW own \in Owners, CancelInv(own), NEW c \in Callers, Build(c)
  PROVE  CancelInv(own)'
  <1> DEFINE r == call[c]
             d == dp[r.node]
             dir == [gen |-> r.gen, rev |-> r.rev, health |-> health]
             pc == IF r.kind = "apply" THEN "claim" ELSE "fence"
             x == d.pos
             q == [r EXCEPT !.exp = x, !.pc = pc]
  <1>1. r \in CallRows /\ r.pc = "build" /\ r.node \in Nodes /\ r.kind \in {"apply", "follow"}
        /\ CallKept(r, own, rows, dp, lastToken) /\ lastToken \in Nat
    BY CallIs DEF Build, At, CallFits
  <1>2. rows' = rows /\ lastToken' = lastToken /\ leads' = leads
        /\ (\/ call' = [call EXCEPT ![c] = Idle] /\ dp' = dp
            \/ /\ call' = [call EXCEPT ![c] = q]
               /\ dp' = [dp EXCEPT ![r.node].dirs = IF Made(d, r.gen) = {} THEN Append(@, dir) ELSE @])
    BY DEF Build, Goes, db, world
  <1>3. CASE call' = [call EXCEPT ![c] = Idle] /\ dp' = dp
    BY <1>1, <1>2, <1>3, IdleKept, OneCallKept
  <1>4. CASE /\ call' = [call EXCEPT ![c] = q]
             /\ dp' = [dp EXCEPT ![r.node].dirs = IF Made(d, r.gen) = {} THEN Append(@, dir) ELSE @]
    <2> DEFINE dirs == IF Made(d, r.gen) = {} THEN Append(d.dirs, dir) ELSE d.dirs
               e == [d EXCEPT !.dirs = dirs]
    <2>0. dp \in [Nodes -> DataPlanes]
      BY DEF HistoryInv, ControlInv, DpInv
    <2>1. dp' = [dp EXCEPT ![r.node] = e] /\ d \in DataPlanes
      BY <1>1, <1>4, <2>0
    <2>2. pc \in {"claim", "fence"} /\ (r.kind = "follow" => pc = "fence")
      OBVIOUS
    <2> HIDE DEF r, d, dirs, pc, x
    <2>3. e.max = d.max /\ e.ended = d.ended /\ e.aborted = d.aborted /\ e.job = d.job
      BY <2>1 DEF DataPlanes
    <2> HIDE DEF e
    <2>4. \A n \in Nodes : /\ dp'[n].max = dp[n].max /\ dp'[n].ended = dp[n].ended
                           /\ dp'[n].aborted = dp[n].aborted /\ dp'[n].job = dp[n].job
      BY <2>0, <2>1, <2>3 DEF d
    <2>5. q.kind = r.kind /\ q.pc = pc /\ q.row = r.row /\ q.epoch = r.epoch /\ q.plan = r.plan
          /\ q.token = r.token
      BY <1>1 DEF CallRows
    <2> HIDE DEF q
    <2>6. CallKept(q, own, rows, dp, lastToken)
      BY <1>1, <2>2, <2>5 DEF CallKept
    <2>7. CallKept(q, own, rows', dp', lastToken')
      <3>1. q.kind = "follow" => Settled(q.row, own, rows, dp')
        BY <2>4, <2>6 DEF CallKept, Settled
      <3> QED
        BY <1>1, <1>2, <2>2, <2>5, <2>6, <3>1 DEF CallKept
    <2>8. \A k \in Callers : call'[k] = call[k] \/ CallKept(call'[k], own, rows', dp', lastToken')
      BY <1>4, <2>7 DEF HistoryInv, ControlInv, CallsInv
    <2> QED
      BY <1>2, <2>4, <2>8, CallsKept
  <1> QED
    BY <1>2, <1>3, <1>4

(* sweep.                                                                  *)
LEMMA SweepKept ==
  ASSUME HistoryInv, ControlInv', NEW own \in Owners, CancelInv(own), NEW c \in Callers, Sweep(c)
  PROVE  CancelInv(own)'
  <1> DEFINE n == call[c].node
             d == dp[n]
             dirs == Swept(d.dirs, Protected(call[c]))
             e == [d EXCEPT !.dirs = dirs]
  <1>1. n \in Nodes /\ lastToken \in Nat
    BY CallIs DEF Sweep, At, CallFits
  <1>2. dp \in [Nodes -> DataPlanes]
    BY DEF HistoryInv, ControlInv, DpInv
  <1>3. dp' = [dp EXCEPT ![n] = e] /\ rows' = rows /\ call' = [call EXCEPT ![c] = Idle]
        /\ d \in DataPlanes /\ lastToken' = lastToken /\ leads' = leads
    BY <1>1, <1>2 DEF Sweep, Goes, db, world
  <1> HIDE DEF n, d, dirs
  <1>4. e.max = d.max /\ e.ended = d.ended /\ e.aborted = d.aborted /\ e.job = d.job
    BY <1>3 DEF DataPlanes
  <1> HIDE DEF e
  <1>5. \A m \in Nodes : /\ dp'[m].max = dp[m].max /\ dp'[m].ended = dp[m].ended
                         /\ dp'[m].aborted = dp[m].aborted /\ dp'[m].job = dp[m].job
    BY <1>2, <1>3, <1>4 DEF d
  <1>6. \A k \in Callers : call'[k] = call[k] \/ CallKept(call'[k], own, rows', dp', lastToken')
    BY <1>1, <1>3, IdleKept DEF HistoryInv, ControlInv, CallsInv
  <1> QED
    BY <1>3, <1>5, <1>6, CallsKept

(* The pointer.                                                            *)
LEMMA PublishKept ==
  ASSUME HistoryInv, ControlInv', NEW own \in Owners, CancelInv(own), NEW n \in Nodes, Publish(n)
  PROVE  CancelInv(own)'
  <1> DEFINE d == dp[n]
             gen == d.job.gen
             e == [d EXCEPT !.pub = gen]
  <1>1. dp \in [Nodes -> DataPlanes]
    BY DEF HistoryInv, ControlInv, DpInv
  <1>2. dp' = [dp EXCEPT ![n] = e] /\ rows' = rows /\ call' = call /\ d \in DataPlanes
        /\ lastToken' = lastToken /\ leads' = leads
    BY <1>1 DEF Publish, db, world
  <1> HIDE DEF d, gen
  <1>3. e.max = d.max /\ e.ended = d.ended /\ e.aborted = d.aborted /\ e.job = d.job
    BY <1>2 DEF DataPlanes
  <1> HIDE DEF e
  <1>4. \A m \in Nodes : /\ dp'[m].max = dp[m].max /\ dp'[m].ended = dp[m].ended
                         /\ dp'[m].aborted = dp[m].aborted /\ dp'[m].job = dp[m].job
    BY <1>1, <1>2, <1>3 DEF d
  <1> QED
    BY <1>2, <1>4, CallsKept

(* A plane moves.                                                          *)
LEMMA MoveKept ==
  ASSUME HistoryInv, ControlInv', NEW own \in Owners, CancelInv(own), NEW n \in Nodes, Move(n)
  PROVE  CancelInv(own)'
  <1> DEFINE d == dp[n]
             p == PlaneOrder[First(ToMove(d))]
             at == [epoch |-> d.job.epoch, rev |-> 0]
             pos == [d.pos EXCEPT ![p] = at]
             e == [d EXCEPT !.pos = pos]
  <1>1. dp \in [Nodes -> DataPlanes]
    BY DEF HistoryInv, ControlInv, DpInv
  <1>2. dp' = [dp EXCEPT ![n].pos[p] = at] /\ rows' = rows /\ call' = call /\ d \in DataPlanes
        /\ lastToken' = lastToken /\ leads' = leads
    BY <1>1 DEF Move, db, world
  <1>3. dp' = [dp EXCEPT ![n] = e]
    <2> HIDE DEF p, at
    <2> QED
      BY <1>1, <1>2
  <1> HIDE DEF d, p, at, pos
  <1>4. e.max = d.max /\ e.ended = d.ended /\ e.aborted = d.aborted /\ e.job = d.job
    BY <1>2 DEF DataPlanes
  <1> HIDE DEF e
  <1>5. \A m \in Nodes : /\ dp'[m].max = dp[m].max /\ dp'[m].ended = dp[m].ended
                         /\ dp'[m].aborted = dp[m].aborted /\ dp'[m].job = dp[m].job
    BY <1>1, <1>3, <1>4 DEF d
  <1> QED
    BY <1>2, <1>5, CallsKept

(* A push within an epoch.                                                 *)
LEMMA DeltaKept ==
  ASSUME HistoryInv, ControlInv', NEW own \in Owners, CancelInv(own), NEW c \in Callers, Delta(c)
  PROVE  CancelInv(own)'
  <1> DEFINE r == call[c]
             n == r.node
             d == dp[n]
             i == First(r.todo)
             p == PlaneOrder[i]
             q == [r EXCEPT !.todo = @ \ {i}, !.pc = IF r.todo = {i} THEN "members_note" ELSE @]
             e == [d EXCEPT !.pos[p].rev = @ + 1]
  <1>1. /\ call[c].pc = "deltas" /\ UNCHANGED rows /\ UNCHANGED world
        /\ (\/ call' = [call EXCEPT ![c] = Idle] /\ UNCHANGED <<dp, faults>>
            \/ /\ dp' = [dp EXCEPT ![n].pos[p].rev = @ + 1]
               /\ \/ call' = [call EXCEPT ![c] = q] /\ UNCHANGED faults
                  \/ call' = [call EXCEPT ![c] = Idle] /\ faults > 0 /\ faults' = faults - 1)
    BY ZenonT(60) DEF Delta, Goes, At, db
  <1>2. lastToken' = lastToken /\ leads' = leads
    BY ZenonT(60) DEF Delta, world
  <1> HIDE DEF d, i, p, q, e
  <1>3. r \in CallRows /\ CallFits(r, plans, Len(rows)) /\ r.pc = "deltas"
        /\ CallKept(r, own, rows, dp, lastToken) /\ lastToken \in Nat
    BY <1>1, CallIs
  <1>4. n \in Nodes /\ r.kind = "members"
    <2>1. n = r.node
      OBVIOUS
    <2> HIDE DEF r, n
    <2> QED
      BY <1>3, <2>1 DEF CallFits
  <1>5. CASE call' = [call EXCEPT ![c] = Idle] /\ UNCHANGED <<dp, faults>>
    BY <1>1, <1>2, <1>3, <1>5, IdleKept, OneCallKept
  <1>6. CASE dp' = [dp EXCEPT ![n].pos[p].rev = @ + 1]
    <2>1. dp \in [Nodes -> DataPlanes] /\ d \in DataPlanes
      BY <1>4 DEF HistoryInv, ControlInv, DpInv, d
    <2>2. dp' = [dp EXCEPT ![n] = e]
      <3> HIDE DEF n
      <3> QED
        BY <1>4, <1>6, <2>1 DEF d, e
    <2>3. e.max = d.max /\ e.ended = d.ended /\ e.aborted = d.aborted /\ e.job = d.job
      BY <2>1 DEF DataPlanes, e
    <2>4. \A m \in Nodes : /\ dp'[m].max = dp[m].max /\ dp'[m].ended = dp[m].ended
                           /\ dp'[m].aborted = dp[m].aborted /\ dp'[m].job = dp[m].job
      <3> HIDE DEF n
      <3> QED
        BY <2>1, <2>2, <2>3 DEF d
    <2>5. CallKept(q, own, rows', dp', lastToken')
      <3> DEFINE todo == r.todo \ {i}
                 pc == IF r.todo = {i} THEN "members_note" ELSE r.pc
      <3>1. q = [r EXCEPT !.todo = todo, !.pc = pc]
        BY DEF q
      <3>2. pc \in {"deltas", "members_note"}
        BY <1>3
      <3> HIDE DEF r, todo, pc, n
      <3>3. q.pc = pc /\ q.kind = "members" /\ q.row = r.row /\ q.token = r.token
        BY <1>3, <1>4, <3>1 DEF CallRows
      <3> QED
        BY <1>1, <1>2, <1>3, <1>4, <3>2, <3>3 DEF CallKept
    <2>6. \A k \in Callers : call'[k] = call[k] \/ CallKept(call'[k], own, rows', dp', lastToken')
      <3>1. call' = [call EXCEPT ![c] = q] \/ call' = [call EXCEPT ![c] = Idle]
        BY <1>1
      <3>2. CallKept(Idle, own, rows', dp', lastToken')
        BY <1>2, <1>3, IdleKept
      <3> QED
        BY <2>5, <3>1, <3>2 DEF HistoryInv, ControlInv, CallsInv
    <2> QED
      BY <1>1, <1>2, <2>4, <2>6, CallsKept
  <1> QED
    BY <1>1, <1>5, <1>6

-----------------------------------------------------------------------------
(* The rows, and what is written on them.                                  *)

(* A row that is whose it was, and says something else of it.              *)
RowMarked(i, row) ==
  /\ i \in DOMAIN rows /\ rows' = [rows EXCEPT ![i] = row]
  /\ row.token = rows[i].token /\ row.epoch = rows[i].epoch /\ row.plan = rows[i].plan
  /\ row.by = rows[i].by /\ (rows[i].misread => row.misread)

(* Nothing is gathered where nothing happens.                              *)
LEMMA SameGathers ==
  ASSUME HistoryInv, dp' = dp
  PROVE  Gathers(dp, dp) /\ Gathers(dp, dp')
  <1>1. \A m \in Nodes : dp[m].max \in Nat
    BY MaxIsNumber DEF HistoryInv, ControlInv
  <1> QED
    BY <1>1 DEF Gathers

(* It says activated of what had its verdict, or of another, and is        *)
(* cancelled by who claimed it when it was given up.                       *)
LEMMA RowMarkedKept ==
  ASSUME HistoryInv, ControlInv', NEW own \in Owners, CancelInv(own),
         dp' = dp, lastToken' = lastToken, leads' = leads,
         NEW i, NEW row, RowMarked(i, row),
         row.phase = "activated" => row.misread \/ Settled(i, own, rows, dp),
         rows[i].by \in row.cancelled =>
           rows[i].by \in rows[i].cancelled \/ MembersOnly(rows[i]) \/ GivenUp(i, own, rows, dp),
         NEW c \in Callers, NEW q, call' = [call EXCEPT ![c] = q],
         CallKept(q, own, rows', dp, lastToken)
  PROVE  CancelInv(own)'
  <1>1. rows \in Seq(Rows) /\ i \in DOMAIN rows
    BY DEF HistoryInv, ControlInv, RowsInv, RowMarked
  <1>2. DOMAIN rows' = DOMAIN rows /\ rows'[i] = row
        /\ \A k \in DOMAIN rows : k # i => rows'[k] = rows[k]
    BY <1>1 DEF RowMarked
  <1>3. RowsNamed(rows, rows')
    BY <1>2 DEF RowsNamed, RowMarked
  <1>4. RowKept(i, own, rows', dp, lastToken)
    <2>1. RowKept(i, own, rows, dp, lastToken)
      BY <1>1 DEF CancelInv
    <2>2. Agree(own, own, rows)
      BY DEF Agree
    <2>3. /\ Settled(i, own, rows, dp) => Settled(i, own, rows', dp)
          /\ GivenUp(i, own, rows, dp) => GivenUp(i, own, rows', dp)
          /\ MembersOnly(rows[i]) => MembersOnly(rows'[i])
      BY <1>1, <1>3, <2>2, SameGathers, SettledStays
    <2>4. rows'[i].token <= lastToken
      BY <1>2, <2>1 DEF RowKept, RowMarked
    <2>5. \E j \in DOMAIN rows' : rows'[j].plan = rows'[i].epoch
      <3>1. PICK j \in DOMAIN rows : rows[j].plan = rows[i].epoch
        BY <2>1 DEF RowKept
      <3> QED
        BY <1>1, <1>2, <1>3, <3>1 DEF RowsNamed
    <2>6. rows'[i].phase = "activated" => Settled(i, own, rows', dp)
      <3>1. row.misread => Settled(i, own, rows', dp)
        BY <1>2 DEF Settled
      <3> QED
        BY <1>2, <2>3, <3>1
    <2>7. rows'[i].by \in rows'[i].cancelled => MembersOnly(rows'[i]) \/ GivenUp(i, own, rows', dp)
      <3>1. rows'[i].by = rows[i].by /\ rows'[i].cancelled = row.cancelled
        BY <1>2 DEF RowMarked
      <3> QED
        BY <2>1, <2>3, <3>1 DEF RowKept
    <2>8. MembersOnly(rows'[i]) \/ own[rows'[i].token] = rows'[i].by
      <3>1. rows'[i].by = rows[i].by /\ rows'[i].token = rows[i].token
        BY <1>2 DEF RowMarked
      <3> QED
        BY <2>1, <2>3, <3>1 DEF RowKept
    <2> QED
      BY <2>4, <2>5, <2>6, <2>7, <2>8 DEF RowKept
  <1>5. \A k \in DOMAIN rows' :
           \/ /\ k \in DOMAIN rows
              /\ rows'[k].phase = "activated" => rows[k].phase = "activated"
              /\ rows'[k].cancelled = rows[k].cancelled
           \/ RowKept(k, own, rows', dp, lastToken)
    BY <1>2, <1>4
  <1> QED
    BY <1>3, <1>5, RowsGoKept

(* recordPhase.                                                            *)
LEMMA RecordedMarks ==
  ASSUME ControlInv, NEW i \in DOMAIN rows, NEW phase \in Terminal, NEW another,
         Recorded(i, phase, another)
  PROVE  \E row : /\ RowMarked(i, row) /\ row.phase = phase /\ row.cancelled = rows[i].cancelled
                  /\ another /\ phase = "activated" => row.misread
  <1> DEFINE x == rows[i]
             m == x.misread \/ (another /\ phase = "activated")
             row == AsRecorded(x, phase, m)
  <1>1. x \in Rows /\ rows \in Seq(Rows)
    BY DEF ControlInv, RowsInv
  <1>2. rows' = [rows EXCEPT ![i] = row]
    BY <1>1 DEF Recorded, AsRecorded
  <1>4. (another /\ phase = "activated" => m) /\ (x.misread => m)
    OBVIOUS
  <1> HIDE DEF m, x
  <1>3. row.epoch = x.epoch /\ row.plan = x.plan /\ row.token = x.token /\ row.phase = phase
        /\ row.cancelled = x.cancelled /\ row.by = x.by /\ row.misread = m
    BY <1>1 DEF Rows, AsRecorded
  <1> HIDE DEF row
  <1>5. /\ RowMarked(i, row) /\ row.phase = phase /\ row.cancelled = rows[i].cancelled
        /\ another /\ phase = "activated" => row.misread
    BY <1>2, <1>3, <1>4 DEF RowMarked, x
  <1> QED
    BY <1>5

(* What came out is recorded.                                              *)
LEMMA NoteKept ==
  ASSUME HistoryInv, ControlInv', NEW own \in Owners, CancelInv(own), NEW c \in Callers, Note(c)
  PROVE  CancelInv(own)'
  <1> DEFINE r == call[c]
             i == CASE r.kind = "apply" -> r.row [] r.kind = "recover" -> r.before [] OTHER -> 0
             s == [r EXCEPT !.pc = "sweep"]
             q == IF r.kind # "recover" /\ r.out = "activated" THEN s ELSE Idle
  <1>1. r \in CallRows /\ CallFits(r, plans, Len(rows)) /\ r.pc = "note"
        /\ CallKept(r, own, rows, dp, lastToken) /\ lastToken \in Nat
        /\ (r.row # 0 => r.row \in DOMAIN rows) /\ (r.before # 0 => r.before \in DOMAIN rows)
    BY CallIs DEF Note, At
  <1>2. /\ IF i = 0 THEN UNCHANGED <<plans, rows>> ELSE Recorded(i, r.out, i # r.row)
        /\ call' = [call EXCEPT ![c] = q] /\ dp' = dp /\ lastToken' = lastToken /\ leads' = leads
    BY DEF Note, Goes, world
  <1>3. r.out \in Terminal /\ (r.kind = "apply" => r.row # 0) /\ (r.kind = "follow" => r.row # 0)
    BY <1>1 DEF CallFits
  <1>4. i # 0 => i \in DOMAIN rows
    <2>1. i = r.row \/ i = r.before \/ i = 0
      OBVIOUS
    <2> HIDE DEF r, i
    <2> QED
      BY <1>1, <2>1
  <1>5. ASSUME i # 0, i = r.row, r.out = "activated" PROVE Settled(i, own, rows, dp)
    <2>1. CASE r.kind = "apply"
      BY <1>1, <1>5, <2>1 DEF CallKept
    <2>2. CASE r.kind = "recover"
      BY <1>1, <1>5, <2>2 DEF CallKept
    <2> QED
      BY <1>5, <2>1, <2>2
  <1>6. s.pc = "sweep" /\ s.kind = r.kind /\ s.row = r.row /\ s.token = r.token
    <2> HIDE DEF r
    <2> QED
      BY <1>1 DEF CallRows
  <1> HIDE DEF r, i, s
  <1>7. ASSUME RowsNamed(rows, rows') PROVE CallKept(q, own, rows', dp, lastToken)
    <2>1. CASE r.kind # "recover" /\ r.out = "activated"
      <3>1. Agree(own, own, rows)
        BY DEF Agree
      <3>2. r.kind = "follow" => Settled(r.row, own, rows', dp)
        <4> SUFFICES ASSUME r.kind = "follow" PROVE Settled(r.row, own, rows', dp)
          OBVIOUS
        <4>1. r.row \in DOMAIN rows /\ Settled(r.row, own, rows, dp)
          BY <1>1, <1>3 DEF CallKept
        <4> QED
          BY <1>2, <1>7, <3>1, <4>1, SameGathers, SettledStays
      <3>3. q = s
        BY <2>1
      <3> HIDE DEF q
      <3> QED
        BY <1>1, <1>6, <3>2, <3>3 DEF CallKept
    <2>2. CASE ~(r.kind # "recover" /\ r.out = "activated")
      BY <1>1, <2>2, IdleKept
    <2> QED
      BY <2>1, <2>2
  <1> HIDE DEF q
  <1>8. CASE i = 0
    <2>1. rows' = rows
      BY <1>2, <1>8
    <2>2. RowsNamed(rows, rows')
      BY <2>1 DEF RowsNamed
    <2> QED
      BY <1>2, <1>7, <2>1, <2>2, OneCallKept
  <1>9. CASE i # 0
    <2>0. Recorded(i, r.out, i # r.row) /\ i \in DOMAIN rows /\ r.out \in Terminal
      BY <1>2, <1>3, <1>4, <1>9
    <2>1. PICK row : /\ RowMarked(i, row) /\ row.phase = r.out /\ row.cancelled = rows[i].cancelled
                     /\ i # r.row /\ r.out = "activated" => row.misread
      BY <2>0, RecordedMarks DEF HistoryInv
    <2>2. RowsNamed(rows, rows')
      BY <2>1 DEF RowsNamed, RowMarked, HistoryInv, ControlInv, RowsInv
    <2>3. CallKept(q, own, rows', dp, lastToken)
      BY <1>7, <2>2
    <2>4. row.phase = "activated" => row.misread \/ Settled(i, own, rows, dp)
      BY <1>5, <1>9, <2>1
    <2> QED
      BY <1>2, <2>1, <2>3, <2>4, RowMarkedKept
  <1> QED
    BY <1>8, <1>9

(* A change of the membership alone is done.                               *)
LEMMA MembersNoteKept ==
  ASSUME HistoryInv, ControlInv', NEW own \in Owners, CancelInv(own),
         NEW c \in Callers, MembersNote(c)
  PROVE  CancelInv(own)'
  <1> DEFINE r == call[c]
             i == r.row
  <1>1. /\ r.pc = "members_note" /\ CallKept(r, own, rows, dp, lastToken) /\ lastToken \in Nat
        /\ (i # 0 => i \in DOMAIN rows)
    BY CallIs DEF MembersNote, At
  <1>2. /\ IF i = 0 THEN rows' = rows ELSE Recorded(i, "activated", FALSE)
        /\ call' = [call EXCEPT ![c] = Idle] /\ dp' = dp /\ lastToken' = lastToken /\ leads' = leads
    BY DEF MembersNote, Goes, world
  <1>3. i # 0 => Settled(i, own, rows, dp)
    BY <1>1 DEF CallKept, Settled
  <1> HIDE DEF r, i
  <1>4. CASE i = 0
    BY <1>1, <1>2, <1>4, IdleKept, OneCallKept
  <1>5. CASE i # 0
    <2>1. PICK row : RowMarked(i, row) /\ row.cancelled = rows[i].cancelled
      <3>1. "activated" \in Terminal /\ Recorded(i, "activated", FALSE) /\ i \in DOMAIN rows
        BY <1>1, <1>2, <1>5 DEF Terminal
      <3> QED
        BY <3>1, RecordedMarks DEF HistoryInv
    <2>2. CallKept(Idle, own, rows', dp, lastToken)
      BY <1>1, IdleKept
    <2> QED
      BY <1>2, <1>3, <1>5, <2>1, <2>2, RowMarkedKept
  <1> QED
    BY <1>4, <1>5

(* A row is marked as cancelled.                                           *)
LEMMA CancelledKept ==
  ASSUME HistoryInv, ControlInv', NEW own \in Owners, CancelInv(own),
         NEW c \in Callers, Cancelled(c)
  PROVE  CancelInv(own)'
  <1> DEFINE r == call[c]
             i == r.row
             x == rows[i]
             cs == x.cancelled \cup {r.node}
             row == AsCancelled(x, cs)
  <1>1. /\ r.pc = "cancelled" /\ CallKept(r, own, rows, dp, lastToken) /\ lastToken \in Nat
        /\ (i # 0 => i \in DOMAIN rows) /\ i # 0 /\ r.node \in Nodes
    BY CallIs DEF Cancelled, At, CallFits
  <1>2. rows' = [rows EXCEPT ![i].phase = "failed", ![i].cancelled = @ \cup {r.node}]
        /\ call' = [call EXCEPT ![c] = Idle] /\ dp' = dp /\ lastToken' = lastToken /\ leads' = leads
    BY DEF Cancelled, Goes, world
  <1>3. rows \in Seq(Rows) /\ x \in Rows
    BY <1>1 DEF HistoryInv, ControlInv, RowsInv
  <1>4. rows' = [rows EXCEPT ![i] = row]
    BY <1>1, <1>2, <1>3 DEF AsCancelled
  <1>5. x.by \in cs => x.by \in x.cancelled \/ MembersOnly(x) \/ GivenUp(i, own, rows, dp)
    <2> SUFFICES ASSUME x.by = r.node, ~MembersOnly(x) PROVE GivenUp(i, own, rows, dp)
      OBVIOUS
    <2>1. own[x.token] = r.node
      BY <1>1 DEF CancelInv, RowKept
    <2>2. RowKey(i, rows) \in dp[r.node].aborted
      BY <1>1 DEF CallKept
    <2> QED
      BY <1>1, <2>1, <2>2 DEF GivenUp
  <1> HIDE DEF r, i, x, cs
  <1>6. row.epoch = x.epoch /\ row.token = x.token /\ row.plan = x.plan /\ row.phase = "failed"
        /\ row.by = x.by /\ row.misread = x.misread /\ row.cancelled = cs
    BY <1>3 DEF Rows, AsCancelled
  <1> HIDE DEF row
  <1>7. RowMarked(i, row)
    BY <1>1, <1>4, <1>6 DEF RowMarked, x
  <1>8. CallKept(Idle, own, rows', dp, lastToken)
    BY <1>1, IdleKept
  <1>9. rows[i].by \in row.cancelled =>
          rows[i].by \in rows[i].cancelled \/ MembersOnly(rows[i]) \/ GivenUp(i, own, rows, dp)
    BY <1>5, <1>6 DEF x
  <1> QED
    BY <1>2, <1>6, <1>7, <1>8, <1>9, RowMarkedKept

(* A row that is added is nothing yet.                                     *)
LEMMA RowAddedKept ==
  ASSUME HistoryInv, ControlInv', NEW own \in Owners, CancelInv(own),
         dp' = dp, lastToken' = lastToken, leads' = leads,
         NEW row, rows' = Append(rows, row), row.phase = "pending", row.cancelled = {},
         row.token <= lastToken, row.epoch # row.plan \/ own[row.token] = row.by,
         row.epoch = row.plan \/ \E j \in DOMAIN rows : rows[j].plan = row.epoch,
         NEW c \in Callers, NEW q, call' = [call EXCEPT ![c] = q],
         CallKept(q, own, rows', dp, lastToken)
  PROVE  CancelInv(own)'
  <1>1. rows \in Seq(Rows)
    BY DEF HistoryInv, ControlInv, RowsInv
  <1>2. /\ Len(rows) \in Nat /\ DOMAIN rows' = 1..(Len(rows) + 1) /\ DOMAIN rows = 1..Len(rows)
        /\ rows'[Len(rows) + 1] = row /\ \A k \in DOMAIN rows : rows'[k] = rows[k]
    BY <1>1
  <1> DEFINE m == Len(rows) + 1
  <1>3. m \in DOMAIN rows' /\ \A k \in DOMAIN rows' : k \in DOMAIN rows \/ k = m
    BY <1>2
  <1>4. \A k \in DOMAIN rows : k \in DOMAIN rows' /\ rows'[k] = rows[k]
    BY <1>2
  <1>5. RowsNamed(rows, rows')
    BY <1>4 DEF RowsNamed
  <1>6. rows'[m] = row
    BY <1>2
  <1> HIDE DEF m
  <1>7. RowKept(m, own, rows', dp, lastToken)
    <2>1. \E j \in DOMAIN rows' : rows'[j].plan = row.epoch
      BY <1>3, <1>4, <1>6
    <2> QED
      BY <1>6, <2>1 DEF RowKept, MembersOnly
  <1>8. \A k \in DOMAIN rows' :
           \/ /\ k \in DOMAIN rows
              /\ rows'[k].phase = "activated" => rows[k].phase = "activated"
              /\ rows'[k].cancelled = rows[k].cancelled
           \/ RowKept(k, own, rows', dp, lastToken)
    BY <1>3, <1>4, <1>7
  <1> QED
    BY <1>5, <1>8, RowsGoKept

(* claim.                                                                  *)
LEMMA ClaimKept ==
  ASSUME HistoryInv, ControlInv', NEW own \in Owners, CancelInv(own), NEW c \in Callers, Claim(c)
  PROVE  CancelInv(own)'
  <1> DEFINE o == call[c]
             t == leads[o.node]
             r == [o EXCEPT !.token = t]
             m == Len(rows) + 1
             q == [r EXCEPT !.row = m, !.pc = "drive"]
             row == NewRow(r, Planes)
  <1>1. o \in CallRows /\ o.pc = "claim" /\ o.kind = "apply" /\ o.node \in Nodes
        /\ CallKept(o, own, rows, dp, lastToken) /\ lastToken \in Nat
    BY CallIs DEF Claim, At, CallFits
  <1>2. dp' = dp /\ lastToken' = lastToken /\ leads' = leads
    BY DEF Claim, world
  <1>3. \/ call' = [call EXCEPT ![c] = Idle] /\ rows' = rows
        \/ r.token # 0 /\ rows' = Append(rows, row) /\ call' = [call EXCEPT ![c] = q]
    BY DEF Claim, Goes, Claimable
  <1>4. CASE call' = [call EXCEPT ![c] = Idle] /\ rows' = rows
    BY <1>1, <1>2, <1>4, IdleKept, OneCallKept
  <1>5. CASE r.token # 0 /\ rows' = Append(rows, row) /\ call' = [call EXCEPT ![c] = q]
    <2>1. r.token = t /\ r.epoch = o.epoch /\ r.plan = o.plan /\ r.kind = "apply" /\ r.node = o.node
          /\ DOMAIN r = DOMAIN o
      <3> HIDE DEF o, t
      <3> QED
        BY <1>1 DEF CallRows
    <2>2. t <= lastToken /\ own[t] = o.node
      BY <1>1, <1>5, <2>1, LeaderIs
    <2>3. row.phase = "pending" /\ row.cancelled = {} /\ row.token = r.token /\ row.epoch = r.epoch
          /\ row.plan = r.plan /\ row.by = r.node
      BY DEF NewRow
    <2>4. rows'[m] = row
      BY <1>5 DEF HistoryInv, ControlInv, RowsInv
    <2>5. r.epoch = r.plan
      BY <1>1, <2>1 DEF CallKept
    <2> HIDE DEF o, t, m, row
    <2>6. q.kind = "apply" /\ q.pc = "drive" /\ q.row = m /\ q.token = t /\ q.node = o.node
      BY <1>1, <2>1 DEF CallRows
    <2> HIDE DEF q, r
    <2>7. row.token <= lastToken /\ q.token <= lastToken /\ own[row.token] = row.by
      BY <1>1, <2>1, <2>2, <2>3, <2>6
    <2>8. CallKept(q, own, rows', dp, lastToken)
      BY <2>1, <2>2, <2>3, <2>4, <2>6, <2>7 DEF CallKept
    <2>9. row.epoch = row.plan
      BY <2>3, <2>5
    <2> QED
      BY <1>2, <1>5, <2>3, <2>7, <2>8, <2>9, RowAddedKept
  <1> QED
    BY <1>3, <1>4, <1>5

(* The row of a change of the membership alone.                            *)
LEMMA InsertKept ==
  ASSUME HistoryInv, ControlInv', NEW own \in Owners, CancelInv(own), NEW c \in Callers, Insert(c)
  PROVE  CancelInv(own)'
  <1> DEFINE r == call[c]
             m == Len(rows) + 1
             row == NewRow(r, Touched(r))
             q == [r EXCEPT !.pc = "deltas", !.row = m]
             same == [r EXCEPT !.pc = "deltas"]
  <1>1. r \in CallRows /\ r.pc = "insert" /\ r.kind = "members" /\ r.row = 0
        /\ CallKept(r, own, rows, dp, lastToken) /\ lastToken \in Nat
    BY CallIs DEF Insert, At, CallFits, CallTells
  <1>2. /\ dp' = dp /\ lastToken' = lastToken /\ leads' = leads
        /\ (\/ call' = [call EXCEPT ![c] = same] /\ rows' = rows
            \/ rows' = Append(rows, row) /\ call' = [call EXCEPT ![c] = q])
    BY DEF Insert, Goes, world
  <1>3. r.epoch # r.plan /\ r.token <= lastToken /\ \E j \in DOMAIN rows : rows[j].plan = r.epoch
    BY <1>1 DEF CallKept
  <1>4. CASE call' = [call EXCEPT ![c] = same] /\ rows' = rows
    <2> HIDE DEF r
    <2>1. same.pc = "deltas" /\ same.kind = "members" /\ same.row = 0 /\ same.token = r.token
      BY <1>1 DEF CallRows
    <2> HIDE DEF same
    <2>2. CallKept(same, own, rows, dp, lastToken)
      BY <1>3, <2>1 DEF CallKept
    <2> QED
      BY <1>2, <1>4, <2>2, OneCallKept
  <1>5. CASE rows' = Append(rows, row) /\ call' = [call EXCEPT ![c] = q]
    <2>1. row.phase = "pending" /\ row.cancelled = {} /\ row.token = r.token /\ row.epoch = r.epoch
          /\ row.plan = r.plan
      BY DEF NewRow
    <2>2. rows'[m] = row
      BY <1>5 DEF HistoryInv, ControlInv, RowsInv
    <2> HIDE DEF r, m, row
    <2>3. q.kind = "members" /\ q.pc = "deltas" /\ q.row = m /\ q.token = r.token
      BY <1>1 DEF CallRows
    <2> HIDE DEF q
    <2>4. CallKept(q, own, rows', dp, lastToken)
      BY <1>3, <2>1, <2>2, <2>3 DEF CallKept, MembersOnly
    <2>5. row.token <= lastToken /\ row.epoch # row.plan
          /\ \E j \in DOMAIN rows : rows[j].plan = row.epoch
      BY <1>3, <2>1
    <2> QED
      BY <1>2, <1>5, <2>1, <2>4, <2>5, RowAddedKept
  <1> QED
    BY <1>2, <1>4, <1>5

-----------------------------------------------------------------------------
(* The data planes, and who is answered.                                   *)

(* Where an operation has its verdict, its row has.                        *)
LEMMA JobSettles ==
  ASSUME NEW ds, NEW es, Gathers(ds, es), NEW rs, NEW own, NEW n \in Nodes, NEW d,
         d.job # None, d.job.row \in DOMAIN rs, JobOwned(d.job, n, own, rs, ds),
         JobKey(d) \in es[n].ended
  PROVE  Settled(d.job.row, own, rs, es)
  <1> DEFINE j == d.job
  <1>1. CASE j.token = rs[j.row].token /\ own[j.token] = n
    <2>1. RowKey(j.row, rs) \in es[n].ended
      BY <1>1 DEF RowKey, JobKey
    <2> QED
      BY <1>1, <2>1 DEF Settled
  <1>2. CASE Settled(j.row, own, rs, ds)
    <2>1. RowsNamed(rs, rs) /\ Agree(own, own, rs)
      BY DEF RowsNamed, Agree
    <2> HIDE DEF j
    <2>2. Settled(j.row, own, rs, es)
      <3>1. j.row \in DOMAIN rs
        BY DEF j
      <3> QED
        BY <1>2, <2>1, <3>1, SettledStays
    <2> QED
      BY <2>2 DEF j
  <1> QED
    BY <1>1, <1>2 DEF JobOwned

(* A promise kept is kept of the rows' tokens.                             *)
LEMMA PromisesAgree ==
  ASSUME HistoryInv, NEW own, NEW oth, CancelInv(own), Promises(own, oth)
  PROVE  /\ RowsNamed(rows, rows') /\ Gathers(dp, dp') /\ Agree(own, oth, rows)
         /\ lastToken <= lastToken' /\ \A t \in Tokens : t <= lastToken => oth[t] = own[t]
  <1>1. \A i \in DOMAIN rows : rows[i].token \in Tokens
    <2>1. \A i \in DOMAIN rows : rows[i] \in Rows
      BY DEF HistoryInv, ControlInv, RowsInv
    <2> QED
      BY <2>1 DEF Rows
  <1> QED
    BY <1>1 DEF Promises, Agree, CancelInv, RowKept

(* Who is answered that it is activated waited for an operation that has   *)
(* its verdict.                                                            *)
LEMMA AnswersKept ==
  ASSUME HistoryInv, NEW own \in Owners, CancelInv(own), NEW oth, Promises(own, oth),
         rows' = rows, lastToken' \in Nat, NEW n \in Nodes, NEW out \in Terminal,
         out = "activated" => oth = own /\ JobKey(dp[n]) \in dp'[n].ended
  PROVE  \A c \in Callers :
           \/ Answers(n, out)[c] = call[c]
           \/ CallKept(Answers(n, out)[c], oth, rows', dp', lastToken')
  <1>0. \A c \in Callers : ~Waits(c, n) => Answers(n, out)[c] = call[c]
    BY DEF Answers, HistoryInv, ControlInv, CallsInv
  <1> SUFFICES ASSUME NEW c \in Callers, Waits(c, n)
               PROVE  CallKept(Answers(n, out)[c], oth, rows', dp', lastToken')
    BY <1>0
  <1> DEFINE r == call[c]
             q == Answered(r, out)
             d == dp[n]
  <1>1. Answers(n, out)[c] = q
    BY DEF Answers, Answered, HistoryInv, ControlInv, CallsInv
  <1>2. /\ r \in CallRows /\ CallTells(r, dp, rows) /\ CallKept(r, own, rows, dp, lastToken)
        /\ r.row \in DOMAIN rows /\ lastToken \in Nat
    BY CallIs DEF Waits, CallFits
  <1>3. r.pc = "wait" /\ d.job # None /\ d.job.row = r.row
    BY DEF Waits
  <1>4. /\ RowsNamed(rows, rows') /\ Gathers(dp, dp') /\ Agree(own, oth, rows)
        /\ lastToken <= lastToken'
    BY PromisesAgree
  <1>5. JobOwned(d.job, n, own, rows, dp)
    BY DEF CancelInv
  <1>6. d = dp[n]
    OBVIOUS
  <1> HIDE DEF r, d
  <1>7. q.pc = "note" /\ q.out = out /\ q.kind = r.kind /\ q.row = r.row
        /\ q.before = r.before /\ q.token = r.token
    BY <1>2 DEF Answered, CallRows
  <1> HIDE DEF q
  <1>8. out = "activated" => Settled(r.row, oth, rows', dp')
    <2> SUFFICES ASSUME out = "activated" PROVE Settled(r.row, own, rows, dp')
      OBVIOUS
    <2>1. JobKey(d) \in dp'[n].ended
      BY <1>6
    <2>2. d.job.row \in DOMAIN rows
      BY <1>2, <1>3
    <2>3. Settled(d.job.row, own, rows, dp')
      BY <1>3, <1>4, <1>5, <2>1, <2>2, JobSettles
    <2> QED
      BY <1>3, <2>3
  <1>9. r.kind = "recover" /\ out = "activated" /\ r.row = r.before
          => Settled(r.before, oth, rows', dp')
    BY <1>8
  <1>10. r.kind = "follow" => Settled(r.row, oth, rows', dp')
    <2> SUFFICES ASSUME r.kind = "follow" PROVE Settled(r.row, oth, rows', dp')
      OBVIOUS
    <2>1. Settled(r.row, own, rows, dp)
      BY <1>2 DEF CallKept
    <2> QED
      BY <1>2, <1>4, <2>1, SettledStays
  <1>11. r.kind \in {"apply", "members", "follow"} => r.token <= lastToken'
    <2>1. r.token \in Nat
      BY <1>2, Bounds DEF CallRows, Tokens
    <2>2. r.kind \in {"apply", "members", "follow"} => r.token <= lastToken
      BY <1>2 DEF CallKept
    <2> QED
      BY <1>2, <1>4, <2>1, <2>2
  <1>12. CallKept(q, oth, rows', dp', lastToken')
    BY <1>7, <1>8, <1>9, <1>10, <1>11 DEF CallKept
  <1> QED
    BY <1>1, <1>12

(* An operation that ends leaves its verdict.                              *)
LEMMA FinishedKept ==
  ASSUME NEW d \in DataPlanes, NEW last, PlaneKept(d, last), Unfinished(d), NEW out \in Terminal
  PROVE  LET e == Finished(d, out) IN
         /\ PlaneKept(e, last) /\ ~Unfinished(e) /\ SameJob(e.job, d.job) /\ e.max = d.max
         /\ e.aborted = d.aborted /\ e.ended = d.ended \cup {JobKey(d)}
         /\ e.job.phase = out
  <1> DEFINE j == d.job
             k == [j EXCEPT !.phase = out]
             e == Finished(d, out)
  <1>1. j # None /\ j \in Jobs
    BY DEF Unfinished, DataPlanes
  <1>2. e.max = d.max /\ e.aborted = d.aborted /\ e.job = k
    BY DEF Finished, DataPlanes
  <1>3. e.ended = d.ended \cup {JobKey(d)}
    BY DEF Finished, DataPlanes, JobKey
  <1> HIDE DEF j
  <1>4. k.row = j.row /\ k.token = j.token /\ k.phase = out /\ k \in Jobs
    BY <1>1 DEF Jobs
  <1> HIDE DEF k, e
  <1>6. ~Unfinished(e)
    BY <1>2, <1>4 DEF Unfinished, Terminal
  <1>7. JobKey(e) = JobKey(d)
    BY <1>2, <1>4 DEF JobKey, j
  <1>8. JobKey(d) \notin d.aborted /\ d.ended \cap d.aborted = {} /\ d.max <= last
    BY DEF PlaneKept
  <1>9. PlaneKept(e, last)
    BY <1>2, <1>3, <1>6, <1>7, <1>8 DEF PlaneKept
  <1>10. SameJob(e.job, d.job)
    BY <1>1, <1>2, <1>4 DEF SameJob, j
  <1> QED
    BY <1>2, <1>3, <1>4, <1>6, <1>9, <1>10 DEF e

(* A data plane's fields.                                                  *)
LEMMA NodeIs ==
  ASSUME HistoryInv, NEW own \in Owners, CancelInv(own), NEW n \in Nodes
  PROVE  /\ dp \in [Nodes -> DataPlanes] /\ dp[n] \in DataPlanes /\ PlaneKept(dp[n], lastToken)
         /\ JobOwned(dp[n].job, n, own, rows, dp) /\ dp[n].max \in Nat /\ lastToken \in Nat
         /\ (dp[n].job # None => dp[n].job.row \in DOMAIN rows)
  <1>1. dp \in [Nodes -> DataPlanes] /\ JobFits(dp[n], Len(rows)) /\ lastToken \in Nat
    BY NodeFacts, Bounds DEF HistoryInv, ControlInv, DpInv, WorldInv, Tokens
  <1>2. dp[n].job # None => dp[n].job.row \in DOMAIN rows
    BY <1>1, RowsAreTyped DEF HistoryInv, ControlInv, JobFits
  <1> QED
    BY <1>1, <1>2, MaxIsNumber DEF HistoryInv, ControlInv, CancelInv

(* A drive ends.                                                           *)
LEMMA EndsKept ==
  ASSUME HistoryInv, ControlInv', NEW own \in Owners, CancelInv(own), NEW n \in Nodes, Ends(n)
  PROVE  CancelInv(own)'
  <1> DEFINE d == dp[n]
             out == Verdict(MovedPlanes(d))
             e == Finished(d, out)
  <1>1. dp \in [Nodes -> DataPlanes] /\ d \in DataPlanes /\ PlaneKept(d, lastToken)
        /\ d.max \in Nat /\ lastToken \in Nat
    BY NodeIs
  <1>2. dp' = [dp EXCEPT ![n] = e] /\ call' = Answers(n, out) /\ rows' = rows
        /\ lastToken' = lastToken /\ leads' = leads /\ Unfinished(d)
    BY <1>1 DEF Ends, Running, Unfinished, db, world
  <1>3. out \in Terminal
    BY <1>1, <1>2, VerdictEnds DEF Unfinished
  <1>4. d = dp[n]
    OBVIOUS
  <1> HIDE DEF d, out
  <1>5. /\ PlaneKept(e, lastToken) /\ SameJob(e.job, d.job) /\ e.max = d.max
        /\ e.aborted = d.aborted /\ e.ended = d.ended \cup {JobKey(d)}
    BY <1>1, <1>2, <1>3, FinishedKept
  <1> HIDE DEF e
  <1>6. dp[n].ended \subseteq e.ended /\ dp[n].aborted \subseteq e.aborted /\ dp[n].max <= e.max
    BY <1>1, <1>4, <1>5
  <1>7. Promises(own, own) /\ dp'[n] = e
    BY <1>2, <1>6, OnePlanePromises
  <1>8. JobKey(dp[n]) \in dp'[n].ended
    BY <1>4, <1>5, <1>7
  <1>9. \A c \in Callers : call'[c] = call[c] \/ CallKept(call'[c], own, rows', dp', lastToken')
    BY <1>1, <1>2, <1>3, <1>7, <1>8, AnswersKept
  <1> QED
    BY <1>2, <1>4, <1>5, <1>6, <1>9, OnePlaneKept

(* applyConfig.                                                            *)
LEMMA DriveKept ==
  ASSUME HistoryInv, ControlInv', NEW own \in Owners, CancelInv(own), NEW c \in Callers, Drive(c)
  PROVE  CancelInv(own)'
  <1> DEFINE r == call[c]
             n == r.node
             d == dp[n]
  <1>1. r \in CallRows /\ r.pc = "drive" /\ n \in Nodes /\ r.kind \in {"apply", "follow"}
        /\ CallKept(r, own, rows, dp, lastToken) /\ r.row \in DOMAIN rows
    BY CallIs DEF Drive, At, CallFits
  <1>2. dp \in [Nodes -> DataPlanes] /\ d \in DataPlanes /\ PlaneKept(d, lastToken)
        /\ d.max \in Nat /\ lastToken \in Nat
    BY <1>1, NodeIs
  <1>3. rows' = rows /\ lastToken' = lastToken /\ leads' = leads
    BY DEF Drive, db, world
  <1>4. /\ r.kind = "apply" => r.token = rows[r.row].token /\ own[r.token] = n
        /\ r.kind = "follow" => Settled(r.row, own, rows, dp)
        /\ r.token <= lastToken /\ r.token \in Nat
    BY <1>1, Bounds DEF CallKept, CallRows, Tokens
  <1>5. CASE Reservable(d, r)
    <2> DEFINE q == [r EXCEPT !.pc = "wait"]
               e == Reserved(d, r)
    <2>1. call' = [call EXCEPT ![c] = q] /\ dp' = [dp EXCEPT ![n] = e]
      BY <1>2, <1>5 DEF Drive, Goes
    <2>2. r.token >= d.max /\ <<r.row, r.token>> \notin d.ended \cup d.aborted
      BY <1>5 DEF Reservable
    <2>3. d = dp[n] /\ n = r.node
      OBVIOUS
    <2> HIDE DEF r, n, d
    <2>4. q.pc = "wait" /\ q.kind = r.kind /\ q.row = r.row /\ q.token = r.token /\ q.node = r.node
      BY <1>1 DEF CallRows
    <2> HIDE DEF q
    <2> DEFINE j == [row |-> r.row, token |-> r.token, epoch |-> r.epoch, gen |-> r.gen,
                     exp |-> r.exp, phase |-> "running"]
    <2>5. e.max = r.token /\ e.ended = d.ended /\ e.aborted = d.aborted /\ e.job = j
      BY <1>2 DEF Reserved, DataPlanes
    <2>6. j.row = r.row /\ j.token = r.token /\ j.phase = "running"
      OBVIOUS
    <2> HIDE DEF j, e
    <2>7. PlaneKept(e, lastToken)
      <3>1. JobKey(e) = <<r.row, r.token>>
        BY <2>5, <2>6 DEF JobKey
      <3>2. e.max <= lastToken /\ e.ended \cap e.aborted = {} /\ JobKey(e) \notin e.aborted
        BY <1>2, <1>4, <2>2, <2>5, <3>1 DEF PlaneKept
      <3> QED
        BY <2>5, <2>6, <3>2 DEF PlaneKept
    <2>8. dp[n].ended \subseteq e.ended /\ dp[n].aborted \subseteq e.aborted /\ dp[n].max <= e.max
      BY <1>2, <1>4, <2>2, <2>3, <2>5
    <2>9. Promises(own, own)
      BY <1>1, <1>3, <2>1, <2>8, OnePlanePromises
    <2>10. r.kind = "follow" => Settled(r.row, own, rows', dp')
      <3>1. RowsNamed(rows, rows') /\ Gathers(dp, dp') /\ Agree(own, own, rows)
        BY <2>9, PromisesAgree
      <3> QED
        BY <1>1, <1>4, <3>1, SettledStays
    <2>11. JobOwned(e.job, n, own, rows', dp')
      BY <1>1, <1>3, <1>4, <2>5, <2>6, <2>10 DEF JobOwned
    <2>12. CallKept(q, own, rows', dp', lastToken')
      BY <1>1, <1>3, <1>4, <2>3, <2>4, <2>10 DEF CallKept
    <2>13. \A k \in Callers : call'[k] = call[k] \/ CallKept(call'[k], own, rows', dp', lastToken')
      BY <2>1, <2>12 DEF HistoryInv, ControlInv, CallsInv
    <2> QED
      BY <1>1, <1>3, <2>1, <2>7, <2>8, <2>11, <2>13, OnePlaneKept
  <1>6. CASE ~Reservable(d, r)
    <2> DEFINE q == [r EXCEPT !.pc = "note", !.out = "failed"]
    <2>1. call' = [call EXCEPT ![c] = q] /\ dp' = dp
      BY <1>6 DEF Drive, Goes
    <2> HIDE DEF r, n, d
    <2>2. q.pc = "note" /\ q.out = "failed" /\ q.kind = r.kind /\ q.row = r.row /\ q.token = r.token
      BY <1>1 DEF CallRows
    <2> HIDE DEF q
    <2>3. CallKept(q, own, rows, dp, lastToken)
      BY <1>1, <1>4, <2>2 DEF CallKept
    <2> QED
      BY <1>3, <2>1, <2>3, OneCallKept
  <1> QED
    BY <1>5, <1>6

(* An operation no plane of which moved failed.                            *)
LEMMA NothingMovedFails ==
  ASSUME NEW d, MovedPlanes(d) = {}
  PROVE  Verdict(MovedPlanes(d)) = "failed"
  BY ControlAssumption DEF Verdict

(* abortConfig gives the operation of a row up.                            *)
GivesUp(d, f, row, token) ==
  [f EXCEPT !.aborted = @ \cup {<<row, token>>}, !.ended = d.ended, !.max = token]

(* What is given up on a data plane has no verdict there, and is not its   *)
(* operation any more.                                                     *)
LEMMA GivenUpKept ==
  ASSUME NEW d \in DataPlanes, NEW f \in DataPlanes, NEW last \in Nat, NEW row, NEW token \in Nat,
         PlaneKept(d, last), token <= last, <<row, token>> \notin d.ended,
         f.aborted = d.aborted,
         \/ ~Unfinished(f) /\ f.job.phase # "activated"
         \/ f = d /\ ~(Unfinished(d) /\ d.job.row = row /\ d.job.token = token)
  PROVE  LET e == GivesUp(d, f, row, token) IN
         /\ PlaneKept(e, last) /\ e.ended = d.ended /\ e.aborted = d.aborted \cup {<<row, token>>}
         /\ e.max = token /\ e.job = f.job
  <1> DEFINE e == GivesUp(d, f, row, token)
  <1>1. /\ e.ended = d.ended /\ e.aborted = d.aborted \cup {<<row, token>>}
        /\ e.max = token /\ e.job = f.job
    BY DEF DataPlanes, GivesUp
  <1> HIDE DEF e
  <1>2. e.max <= last /\ e.ended \cap e.aborted = {}
    BY <1>1 DEF PlaneKept
  <1>3. ASSUME ~Unfinished(f), f.job.phase # "activated" PROVE PlaneKept(e, last)
    <2>1. ~Unfinished(e) /\ e.job.phase # "activated"
      BY <1>1, <1>3 DEF Unfinished
    <2> QED
      BY <1>1, <1>2, <2>1 DEF PlaneKept
  <1>4. ASSUME f = d, ~(Unfinished(d) /\ d.job.row = row /\ d.job.token = token)
        PROVE  PlaneKept(e, last)
    <2>1. e.job = d.job
      BY <1>1, <1>4
    <2>2. JobKey(e) = JobKey(d) /\ (Unfinished(e) <=> Unfinished(d))
      BY <2>1 DEF JobKey, Unfinished
    <2>3. Unfinished(d) => JobKey(d) # <<row, token>>
      BY <1>4 DEF JobKey
    <2>4. Unfinished(e) => JobKey(e) \notin e.aborted
      BY <1>1, <2>2, <2>3 DEF PlaneKept
    <2>5. e.job # None /\ e.job.phase = "activated" => JobKey(e) \in e.ended
      BY <1>1, <2>1, <2>2 DEF PlaneKept
    <2> QED
      BY <1>2, <2>4, <2>5 DEF PlaneKept
  <1> QED
    BY <1>1, <1>3, <1>4 DEF e

(* abortConfig.                                                            *)
LEMMA AbortKept ==
  ASSUME HistoryInv, ControlInv', NEW own \in Owners, CancelInv(own), NEW c \in Callers, Abort(c)
  PROVE  CancelInv(own)'
  <1> DEFINE r == call[c]
             n == r.node
             d == dp[n]
             out == Verdict(MovedPlanes(d))
             token == rows[r.row].token
             mine == Unfinished(d) /\ d.job.row = r.row /\ d.job.token = token
             closed == IF mine THEN Finished(d, out) ELSE d
             answered == IF mine THEN Answers(n, out) ELSE call
             given == GivesUp(d, closed, r.row, token)
             q == [r EXCEPT !.pc = "cancelled"]
  <1>1. /\ r \in CallRows /\ r.pc = "abort" /\ n \in Nodes /\ r.kind = "cancel"
        /\ CallKept(r, own, rows, dp, lastToken) /\ r.row \in DOMAIN rows
    BY CallIs DEF Abort, At, CallFits
  <1>2. dp \in [Nodes -> DataPlanes] /\ d \in DataPlanes /\ PlaneKept(d, lastToken)
        /\ d.max \in Nat /\ lastToken \in Nat /\ (mine => d.job # None)
    BY <1>1, NodeIs DEF Unfinished
  <1>3. /\ rows' = rows /\ lastToken' = lastToken /\ leads' = leads
        /\ dp' = [dp EXCEPT ![n] = IF Abortable(d, r.row) THEN given ELSE closed]
        /\ call' = [answered EXCEPT ![c] = IF Abortable(d, r.row) THEN q ELSE Idle]
    BY DEF Abort, GivesUp, db, world
  <1>4. out \in Terminal
    BY <1>2, VerdictEnds
  <1>5. token <= lastToken /\ token \in Nat
    <2>1. rows[r.row] \in Rows /\ token <= lastToken
      BY <1>1 DEF HistoryInv, ControlInv, RowsInv, CancelInv, RowKept
    <2> QED
      BY <2>1, Bounds DEF Rows, Tokens
  <1>6. /\ Abortable(d, r.row) => token >= d.max /\ <<r.row, token>> \notin d.ended
        /\ Abortable(d, r.row) /\ mine => out = "failed"
    BY <1>2, NothingMovedFails DEF Abortable
  <1>7. /\ closed \in DataPlanes /\ closed.aborted = d.aborted /\ closed.max = d.max
        /\ PlaneKept(closed, lastToken) /\ SameJob(closed.job, d.job)
        /\ closed.ended = IF mine THEN d.ended \cup {JobKey(d)} ELSE d.ended
        /\ mine => ~Unfinished(closed) /\ closed.job.phase = out
        /\ ~mine => closed = d
    <2>1. CASE mine
      <3>1. closed = Finished(d, out)
        BY <2>1
      <3>2. JobFits(d, Len(rows)) /\ Len(rows) \in Nat
        BY <1>1, NodeFacts, RowsAreTyped DEF HistoryInv, ControlInv
      <3> HIDE DEF d, out, closed
      <3>3. closed \in DataPlanes
        BY <1>2, <1>4, <2>1, <3>1, <3>2, FinishedFits
      <3> QED
        BY <1>2, <1>4, <2>1, <3>1, <3>3, FinishedKept
    <2>2. CASE ~mine
      BY <1>2, <2>2 DEF SameJob
    <2> QED
      BY <2>1, <2>2
  <1>8. answered = call \/ (mine /\ answered = Answers(n, out))
    OBVIOUS
  <1>9. ~mine => answered = call
    OBVIOUS
  <1>10. d = dp[n] /\ n = r.node /\ token = rows[r.row].token
         /\ (~mine => ~(Unfinished(d) /\ d.job.row = r.row /\ d.job.token = token))
    OBVIOUS
  <1>11. q.pc = "cancelled" /\ q.kind = "cancel" /\ q.row = r.row /\ q.node = r.node
    <2> HIDE DEF r
    <2> QED
      BY <1>1 DEF CallRows
  <1>12. given = GivesUp(d, closed, r.row, token)
    OBVIOUS
  <1> HIDE DEF r, n, d, out, token, mine, closed, answered, given, q
  <1>13. answered \in [Callers -> CallRows]
    BY <1>1, <1>4, <1>8, AnswersFit DEF HistoryInv, ControlInv, CallsInv
  <1>14. CASE Abortable(d, r.row)
    <2>1. /\ PlaneKept(given, lastToken) /\ given.ended = d.ended
          /\ given.aborted = d.aborted \cup {<<r.row, token>>} /\ given.max = token
          /\ given.job = closed.job
      <3>1. \/ ~Unfinished(closed) /\ closed.job.phase # "activated"
            \/ closed = d /\ ~(Unfinished(d) /\ d.job.row = r.row /\ d.job.token = token)
        BY <1>6, <1>7, <1>10, <1>14
      <3> QED
        BY <1>2, <1>5, <1>6, <1>7, <1>12, <1>14, <3>1, GivenUpKept
    <2>2. dp' = [dp EXCEPT ![n] = given] /\ call' = [answered EXCEPT ![c] = q]
      BY <1>3, <1>14
    <2>3. dp[n].ended \subseteq given.ended /\ dp[n].aborted \subseteq given.aborted
          /\ dp[n].max <= given.max
      BY <1>2, <1>5, <1>6, <1>10, <1>14, <2>1
    <2>4. Promises(own, own) /\ dp'[n] = given
      BY <1>1, <1>3, <2>2, <2>3, OnePlanePromises
    <2>5. \A k \in Callers :
            answered[k] = call[k] \/ CallKept(answered[k], own, rows', dp', lastToken')
      <3>1. CASE mine
        <4>1. out # "activated"
          BY <1>6, <1>14, <3>1
        <4> QED
          BY <1>1, <1>2, <1>3, <1>4, <1>8, <2>4, <4>1, AnswersKept
      <3>2. CASE ~mine
        BY <1>9, <3>2
      <3> QED
        BY <3>1, <3>2
    <2>6. CallKept(q, own, rows', dp', lastToken')
      <3>1. RowKey(r.row, rows) \in dp'[r.node].aborted
        BY <1>10, <2>1, <2>4 DEF RowKey
      <3> QED
        BY <1>3, <1>11, <3>1 DEF CallKept
    <2>7. \A k \in Callers : call'[k] = call[k] \/ CallKept(call'[k], own, rows', dp', lastToken')
      BY <1>13, <2>2, <2>5, <2>6
    <2>8. SameJob(given.job, dp[n].job)
      BY <1>7, <1>10, <2>1
    <2> QED
      BY <1>1, <1>3, <2>1, <2>2, <2>3, <2>7, <2>8, OnePlaneKept
  <1>15. CASE ~Abortable(d, r.row)
    <2>1. dp' = [dp EXCEPT ![n] = closed] /\ call' = [answered EXCEPT ![c] = Idle]
      BY <1>3, <1>15
    <2>2. dp[n].ended \subseteq closed.ended /\ dp[n].aborted \subseteq closed.aborted
          /\ dp[n].max <= closed.max
      BY <1>2, <1>7, <1>10
    <2>3. Promises(own, own) /\ dp'[n] = closed
      BY <1>1, <1>3, <2>1, <2>2, OnePlanePromises
    <2>4. \A k \in Callers :
            answered[k] = call[k] \/ CallKept(answered[k], own, rows', dp', lastToken')
      <3>1. CASE mine
        <4>1. JobKey(dp[n]) \in dp'[n].ended
          BY <1>7, <1>10, <2>3, <3>1
        <4> QED
          BY <1>1, <1>2, <1>3, <1>4, <1>8, <2>3, <4>1, AnswersKept
      <3>2. CASE ~mine
        BY <1>9, <3>2
      <3> QED
        BY <3>1, <3>2
    <2>5. \A k \in Callers : call'[k] = call[k] \/ CallKept(call'[k], own, rows', dp', lastToken')
      <3>1. CallKept(Idle, own, rows', dp', lastToken')
        BY <1>2, <1>3, IdleKept
      <3> QED
        BY <1>13, <2>1, <2>4, <3>1
    <2>6. SameJob(closed.job, dp[n].job)
      BY <1>7, <1>10
    <2> QED
      BY <1>1, <1>3, <1>7, <2>1, <2>2, <2>5, <2>6, OnePlaneKept
  <1> QED
    BY <1>14, <1>15

(* recoverConfig.                                                          *)
LEMMA RecoverKept ==
  ASSUME HistoryInv, ControlInv', NEW own \in Owners, CancelInv(own),
         NEW c \in Callers, Recover(c)
  PROVE  CancelInv(own)'
  <1> DEFINE r == call[c]
             n == r.node
             d == dp[n]
             theirs == IF d.job = None THEN 0 ELSE d.job.row
  <1>1. r \in CallRows /\ r.pc = "recover" /\ n \in Nodes /\ r.kind = "recover"
        /\ (r.before # 0 => r.before \in DOMAIN rows)
    BY CallIs DEF Recover, At, CallFits
  <1>2. /\ dp \in [Nodes -> DataPlanes] /\ d \in DataPlanes /\ PlaneKept(d, lastToken)
        /\ JobOwned(d.job, n, own, rows, dp) /\ d.max \in Nat /\ lastToken \in Nat
        /\ rows' = rows /\ lastToken' = lastToken /\ leads' = leads
    BY <1>1, NodeIs DEF Recover, db, world
  <1>3. theirs # 0 => d.job # None /\ d.job.row = theirs
    OBVIOUS
  <1>4. ASSUME NEW out, NEW ds,
               r.before # 0 /\ theirs = r.before /\ out = "activated"
               => Settled(r.before, own, rows, ds)
        PROVE  CallKept(EndedAs(r, theirs, out), own, rows, ds, lastToken)
    <2> DEFINE q == EndedAs(r, theirs, out)
    <2> HIDE DEF r, n, theirs
    <2>1. q.pc = "note" /\ q.out = out /\ q.kind = "recover" /\ q.before = r.before
          /\ q.row = theirs
      BY <1>1 DEF EndedAs, CallRows
    <2> HIDE DEF q
    <2>2. CallKept(q, own, rows, ds, lastToken)
      BY <1>4, <2>1 DEF CallKept
    <2> QED
      BY <2>2 DEF q
  <1>5. CASE Unfinished(d) /\ d.job.token < d.max
    <2> DEFINE e == Finished(d, "superseded")
               q == EndedAs(r, theirs, "superseded")
    <2>1. dp' = [dp EXCEPT ![n] = e] /\ call' = [call EXCEPT ![c] = q]
      BY <1>2, <1>5 DEF Recover, Goes, EndedAs
    <2>2. CallKept(q, own, rows, dp', lastToken)
      BY <1>4
    <2>3. d = dp[n]
      OBVIOUS
    <2> HIDE DEF r, n, d, theirs, q
    <2>4. "superseded" \in Terminal
      BY DEF Terminal
    <2>5. /\ PlaneKept(e, lastToken) /\ SameJob(e.job, d.job) /\ e.max = d.max
          /\ e.aborted = d.aborted /\ e.ended = d.ended \cup {JobKey(d)}
      BY <1>2, <1>5, <2>4, FinishedKept
    <2> HIDE DEF e
    <2>6. dp[n].ended \subseteq e.ended /\ dp[n].aborted \subseteq e.aborted /\ dp[n].max <= e.max
      BY <1>2, <2>3, <2>5
    <2>7. \A k \in Callers : call'[k] = call[k] \/ CallKept(call'[k], own, rows', dp', lastToken')
      BY <1>2, <2>1, <2>2 DEF HistoryInv, ControlInv, CallsInv
    <2> QED
      BY <1>1, <1>2, <2>1, <2>3, <2>5, <2>6, <2>7, OnePlaneKept
  <1>6. CASE Unfinished(d) /\ ~(d.job.token < d.max)
    <2> DEFINE j == d.job
               k == [j EXCEPT !.phase = "running"]
               e == [d EXCEPT !.job = k]
               q == [r EXCEPT !.pc = "wait", !.row = theirs, !.token = j.token]
    <2>1. dp' = [dp EXCEPT ![n] = e] /\ call' = [call EXCEPT ![c] = q] /\ j # None /\ j \in Jobs
      BY <1>2, <1>6 DEF Recover, Goes, Unfinished, DataPlanes
    <2>2. d = dp[n]
      OBVIOUS
    <2>3. JobKey(d) \notin d.aborted /\ JobKey(d) = <<j.row, j.token>>
      BY <1>2, <1>6 DEF PlaneKept, JobKey
    <2> HIDE DEF j
    <2>4. q.pc = "wait" /\ q.kind = "recover"
      <3> HIDE DEF r, n, d, theirs
      <3> QED
        BY <1>1 DEF CallRows
    <2> HIDE DEF r, n, d, theirs, q
    <2>5. CallKept(q, own, rows', dp', lastToken')
      BY <2>4 DEF CallKept
    <2>6. k.row = j.row /\ k.token = j.token /\ k.phase = "running"
      BY <2>1 DEF Jobs
    <2> HIDE DEF k
    <2>7. e.max = d.max /\ e.ended = d.ended /\ e.aborted = d.aborted /\ e.job = k
      BY <1>2 DEF DataPlanes
    <2> HIDE DEF e
    <2>8. PlaneKept(e, lastToken)
      <3>1. JobKey(e) = JobKey(d)
        BY <2>3, <2>6, <2>7 DEF JobKey
      <3> QED
        BY <1>2, <2>3, <2>6, <2>7, <3>1 DEF PlaneKept
    <2>9. SameJob(e.job, dp[n].job)
      BY <2>1, <2>2, <2>6, <2>7 DEF SameJob, j
    <2>10. dp[n].ended \subseteq e.ended /\ dp[n].aborted \subseteq e.aborted /\ dp[n].max <= e.max
      BY <1>2, <2>2, <2>7
    <2>11. \A m \in Callers : call'[m] = call[m] \/ CallKept(call'[m], own, rows', dp', lastToken')
      BY <2>1, <2>5 DEF HistoryInv, ControlInv, CallsInv
    <2> QED
      BY <1>1, <1>2, <2>1, <2>8, <2>9, <2>10, <2>11, OnePlaneKept
  <1>7. CASE ~Unfinished(d)
    <2> DEFINE out == IF d.job = None THEN "no_operation" ELSE d.job.phase
               q == EndedAs(r, theirs, out)
    <2>1. call' = [call EXCEPT ![c] = q] /\ dp' = dp
      BY <1>7 DEF Recover, Goes, EndedAs
    <2>2. ASSUME r.before # 0, theirs = r.before, out = "activated" PROVE Settled(r.before, own, rows, dp)
      <3>1. d.job # None /\ d.job.row = r.before /\ d.job.phase = "activated"
            /\ r.before \in DOMAIN rows
        BY <1>1, <1>3, <2>2
      <3>2. JobKey(d) \in dp[n].ended
        BY <1>2, <3>1 DEF PlaneKept
      <3>3. Gathers(dp, dp)
        BY <2>1, SameGathers
      <3> HIDE DEF r, n, d, theirs
      <3>4. Settled(d.job.row, own, rows, dp)
        BY <1>1, <1>2, <3>1, <3>2, <3>3, JobSettles
      <3> QED
        BY <3>1, <3>4
    <2>3. CallKept(q, own, rows, dp, lastToken)
      BY <1>4, <2>2
    <2> HIDE DEF q
    <2> QED
      BY <1>2, <2>1, <2>3, OneCallKept
  <1> QED
    BY <1>5, <1>6, <1>7

(* A fence closes the operation of an earlier leader, or leaves it.        *)
LEMMA FencedKept ==
  ASSUME NEW d \in DataPlanes, NEW last, NEW token, PlaneKept(d, last), NEW new, token <= new
  PROVE  LET e == Fenced(d, token) IN
         /\ PlaneKept(e, new) /\ SameJob(e.job, d.job) /\ e.max = token
         /\ e.aborted = d.aborted /\ e.ended = d.ended
  <1> DEFINE j == d.job
             k == IF Unfinished(d) /\ j.token < token THEN [j EXCEPT !.phase = "superseded"] ELSE j
             e == Fenced(d, token)
  <1>1. e.max = token /\ e.aborted = d.aborted /\ e.ended = d.ended /\ e.job = k
    BY DEF Fenced, DataPlanes
  <1>2. Unfinished(d) => j \in Jobs
    BY DEF Unfinished, DataPlanes
  <1> HIDE DEF e
  <1>3. ASSUME Unfinished(d), j.token < token PROVE PlaneKept(e, new) /\ SameJob(e.job, d.job)
    <2>1. k.row = j.row /\ k.token = j.token /\ k.phase = "superseded"
      <3> HIDE DEF j
      <3> QED
        BY <1>2, <1>3 DEF Jobs
    <2> HIDE DEF k
    <2>2. e.ended \cap e.aborted = {} /\ ~Unfinished(e)
      BY <1>1, <2>1 DEF PlaneKept, Unfinished
    <2> QED
      BY <1>1, <1>3, <2>1, <2>2 DEF PlaneKept, SameJob, Unfinished
  <1>4. ASSUME ~(Unfinished(d) /\ j.token < token) PROVE PlaneKept(e, new) /\ SameJob(e.job, d.job)
    <2>1. e.job = d.job
      BY <1>1, <1>4
    <2> QED
      BY <1>1, <2>1 DEF PlaneKept, SameJob, Unfinished, JobKey
  <1> QED
    BY <1>1, <1>3, <1>4 DEF e

(* A crash ends calls and stops a drive.                                   *)
LEMMA CrashKept ==
  ASSUME HistoryInv, ControlInv', NEW own \in Owners, CancelInv(own), NEW n \in Nodes, Crash(n)
  PROVE  CancelInv(own)'
  <1> DEFINE d == dp[n]
             j == d.job
             k == [j EXCEPT !.phase = "stopped"]
             e == IF Running(d) THEN [d EXCEPT !.job = k] ELSE d
  <1>1. dp \in [Nodes -> DataPlanes] /\ d \in DataPlanes /\ PlaneKept(d, lastToken)
        /\ d.max \in Nat /\ lastToken \in Nat /\ d = dp[n]
    BY NodeIs
  <1>2. /\ dp' = [dp EXCEPT ![n] = e] /\ rows' = rows /\ lastToken' = lastToken
        /\ \A m \in Nodes : leads'[m] \in {leads[m], 0}
        /\ call' = [c \in DOMAIN call |-> IF call[c].node = n THEN Idle ELSE call[c]]
    BY <1>1 DEF Crash, HistoryInv, ControlInv, WorldInv, db
  <1>3. Running(d) => j # None /\ j \in Jobs /\ Unfinished(d)
    BY <1>1 DEF Running, Unfinished, DataPlanes
  <1>4. JobKey(d) = <<j.row, j.token>>
    BY DEF JobKey
  <1>5. PlaneKept(e, lastToken) /\ SameJob(e.job, j) /\ e.max = d.max
        /\ e.ended = d.ended /\ e.aborted = d.aborted
    <2>1. ASSUME Running(d)
          PROVE  /\ PlaneKept(e, lastToken) /\ SameJob(e.job, j) /\ e.max = d.max
                 /\ e.ended = d.ended /\ e.aborted = d.aborted
      <3> HIDE DEF j
      <3>1. k.row = j.row /\ k.token = j.token /\ k.phase = "stopped"
        BY <1>3, <2>1 DEF Jobs
      <3> HIDE DEF k, d
      <3>2. e.max = d.max /\ e.ended = d.ended /\ e.aborted = d.aborted /\ e.job = k
        BY <1>1, <2>1 DEF DataPlanes
      <3> HIDE DEF e
      <3>3. JobKey(e) = JobKey(d)
        BY <1>4, <3>1, <3>2 DEF JobKey
      <3> QED
        BY <1>1, <1>3, <2>1, <3>1, <3>2, <3>3 DEF PlaneKept, SameJob
    <2>2. ASSUME ~Running(d)
          PROVE  /\ PlaneKept(e, lastToken) /\ SameJob(e.job, j) /\ e.max = d.max
                 /\ e.ended = d.ended /\ e.aborted = d.aborted
      BY <1>1, <2>2 DEF SameJob
    <2> QED
      BY <2>1, <2>2
  <1>6. dp[n].ended \subseteq e.ended /\ dp[n].aborted \subseteq e.aborted /\ dp[n].max <= e.max
    BY <1>1, <1>5
  <1>7. SameJob(e.job, dp[n].job)
    BY <1>5
  <1> HIDE DEF d, j, e
  <1>8. \A c \in Callers : call'[c] = call[c] \/ CallKept(call'[c], own, rows', dp', lastToken')
    <2>1. \A c \in Callers : call'[c] = call[c] \/ call'[c] = Idle
      BY <1>2 DEF HistoryInv, ControlInv, CallsInv
    <2>2. CallKept(Idle, own, rows', dp', lastToken')
      BY <1>1, <1>2, IdleKept
    <2> QED
      BY <2>1, <2>2
  <1> QED
    BY <1>2, <1>5, <1>6, <1>7, <1>8, OnePlaneKept

(* A follower fences its data plane.                                       *)
LEMMA FollowFencesKept ==
  ASSUME HistoryInv, ControlInv', NEW own \in Owners, CancelInv(own),
         NEW n \in Nodes, FollowFences(n)
  PROVE  CancelInv(own)'
  <1> DEFINE r == call[n]
             d == dp[n]
             token == FollowToken(r.token)
             fences == Unfinished(d) /\ d.job.token < token
             e == Fenced(d, token)
             q == [r EXCEPT !.pc = "drive", !.token = token]
  <1>0. n \in Callers
    BY DEF Callers
  <1>1. r \in CallRows /\ r.pc = "fence" /\ r.kind = "follow"
        /\ CallKept(r, own, rows, dp, lastToken) /\ r.row \in DOMAIN rows
    BY <1>0, CallIs DEF FollowFences, At, CallFits
  <1>2. dp \in [Nodes -> DataPlanes] /\ d \in DataPlanes /\ PlaneKept(d, lastToken)
        /\ d.max \in Nat /\ lastToken \in Nat /\ d = dp[n]
    BY NodeIs
  <1>3. rows' = rows /\ lastToken' = lastToken /\ leads' = leads
    BY DEF FollowFences, db, world
  <1>4. token = lastToken /\ Settled(r.row, own, rows, dp)
    <2>1. r.token <= lastToken /\ r.token \in Nat /\ Settled(r.row, own, rows, dp)
      BY <1>1, Bounds DEF CallKept, CallRows, Tokens
    <2> HIDE DEF r
    <2> QED
      BY <1>2, <2>1 DEF FollowToken
  <1>5. CASE token < d.max
    <2>1. call' = [call EXCEPT ![n] = Idle] /\ dp' = dp
      BY <1>5 DEF FollowFences, Goes
    <2> QED
      BY <1>0, <1>2, <1>3, <2>1, IdleKept, OneCallKept
  <1>6. CASE ~(token < d.max)
    <2>1. dp' = [dp EXCEPT ![n] = e]
      BY <1>2, <1>6 DEF FollowFences
    <2>2. PICK out \in Dispossessed :
            call' = [IF fences THEN Answers(n, out) ELSE call EXCEPT ![n] = q]
      BY <1>6 DEF FollowFences
    <2>3. out \in Terminal /\ out # "activated"
      BY DEF Dispossessed, Terminal
    <2> DEFINE answered == IF fences THEN Answers(n, out) ELSE call
    <2>4. call' = [answered EXCEPT ![n] = q] /\ (answered = call \/ answered = Answers(n, out))
      BY <2>2
    <2> HIDE DEF r, token
    <2>5. q.pc = "drive" /\ q.kind = "follow" /\ q.row = r.row /\ q.token = token
      BY <1>1 DEF CallRows
    <2> HIDE DEF q, answered, d
    <2>6. /\ PlaneKept(e, lastToken) /\ SameJob(e.job, d.job) /\ e.max = token
          /\ e.aborted = d.aborted /\ e.ended = d.ended
      BY <1>2, <1>4, FencedKept
    <2> HIDE DEF e
    <2>7. dp[n].ended \subseteq e.ended /\ dp[n].aborted \subseteq e.aborted /\ dp[n].max <= e.max
      BY <1>2, <1>4, <1>6, <2>6
    <2>8. Promises(own, own)
      BY <1>3, <2>1, <2>7, OnePlanePromises
    <2>9. \A k \in Callers :
            answered[k] = call[k] \/ CallKept(answered[k], own, rows', dp', lastToken')
      BY <1>2, <1>3, <2>3, <2>4, <2>8, AnswersKept
    <2>10. answered \in [Callers -> CallRows]
      BY <2>3, <2>4, AnswersFit DEF HistoryInv, ControlInv, CallsInv
    <2>11. CallKept(q, own, rows', dp', lastToken')
      <3>1. RowsNamed(rows, rows') /\ Gathers(dp, dp') /\ Agree(own, own, rows)
        BY <2>8, PromisesAgree
      <3>2. Settled(r.row, own, rows', dp')
        BY <1>1, <1>4, <3>1, SettledStays
      <3> QED
        BY <1>2, <1>3, <1>4, <2>5, <3>2 DEF CallKept
    <2>12. \A k \in Callers : call'[k] = call[k] \/ CallKept(call'[k], own, rows', dp', lastToken')
      BY <1>0, <2>4, <2>9, <2>10, <2>11
    <2>13. SameJob(e.job, dp[n].job)
      BY <1>2, <2>6
    <2> QED
      BY <1>2, <1>3, <2>1, <2>6, <2>7, <2>12, <2>13, OnePlaneKept
  <1> QED
    BY <1>5, <1>6

(* An instance takes the lead, with a token of its own.                    *)
LEMMA PromotedKept ==
  ASSUME HistoryInv, ControlInv', NEW own \in Owners, CancelInv(own),
         NEW n \in Nodes, Promoted(n)
  PROVE  \E oth \in Owners : CancelInv(oth)'
  <1> DEFINE d == dp[n]
             new == lastToken + 1
             e == Fenced(d, new)
  <1>1. dp \in [Nodes -> DataPlanes] /\ d \in DataPlanes /\ PlaneKept(d, lastToken)
        /\ d.max \in Nat /\ lastToken \in Nat /\ d.max <= lastToken
    BY NodeIs DEF PlaneKept
  <1>2. /\ rows' = rows /\ lastToken' = new /\ lastToken < MaxToken
        /\ dp' = [dp EXCEPT ![n] = e] /\ leads' = [leads EXCEPT ![n] = new]
    BY DEF Promoted, db
  <1>3. PICK out \in Dispossessed : call' = Answers(n, out)
    BY DEF Promoted
  <1>4. out \in Terminal /\ out # "activated"
    BY DEF Dispossessed, Terminal
  <1>5. new \in Tokens /\ new \in Nat /\ lastToken < new /\ new # 0 /\ d = dp[n]
    BY <1>1, <1>2, Bounds DEF Tokens
  <1>6. PICK oth \in Owners :
          oth[new] = n /\ \A t \in Tokens : t <= lastToken => oth[t] = own[t]
    <2> DEFINE new_own == [own EXCEPT ![new] = n]
    <2>1. new_own \in Owners /\ new_own[new] = n
      BY <1>5 DEF Owners
    <2>2. \A t \in Tokens : t <= lastToken => new_own[t] = own[t]
      <3>1. \A t \in Tokens : t <= lastToken => t # new
        BY <1>1, Bounds DEF Tokens
      <3> HIDE DEF new
      <3> QED
        BY <3>1 DEF Owners
    <2> HIDE DEF new_own
    <2> QED
      BY <2>1, <2>2
  <1>7. leads \in [Nodes -> Tokens] /\ leads'[n] = new
        /\ \A m \in Nodes : m # n => leads'[m] = leads[m]
    BY <1>2 DEF HistoryInv, ControlInv, WorldInv
  <1> HIDE DEF d, new
  <1>8. /\ PlaneKept(e, new) /\ SameJob(e.job, d.job) /\ e.max = new
        /\ e.aborted = d.aborted /\ e.ended = d.ended
    BY <1>1, <1>5, FencedKept
  <1> HIDE DEF e
  <1>9. dp'[n] = e /\ \A m \in Nodes : m # n => dp'[m] = dp[m]
    BY <1>1, <1>2
  <1>10. Gathers(dp, dp')
    <2>1. ASSUME NEW m \in Nodes
          PROVE  /\ dp[m].ended \subseteq dp'[m].ended /\ dp[m].aborted \subseteq dp'[m].aborted
                 /\ dp[m].max \in Nat /\ dp'[m].max \in Nat /\ dp[m].max <= dp'[m].max
      <3>1. CASE m = n
        BY <1>1, <1>5, <1>8, <1>9, <3>1
      <3>2. CASE m # n
        <4>1. dp[m].max \in Nat
          BY NodeIs
        <4> QED
          BY <1>9, <3>2, <4>1
      <3> QED
        BY <3>1, <3>2
    <2> QED
      BY <2>1 DEF Gathers
  <1>11. Promises(own, oth)
    <2>1. RowsNamed(rows, rows')
      BY <1>2 DEF RowsNamed
    <2>2. lastToken <= lastToken'
      BY <1>1, <1>2, <1>5
    <2> QED
      BY <1>6, <1>10, <2>1, <2>2 DEF Promises
  <1>12. \A c \in Callers : call'[c] = call[c] \/ CallKept(call'[c], oth, rows', dp', lastToken')
    BY <1>2, <1>3, <1>4, <1>5, <1>11, AnswersKept
  <1>13. ASSUME NEW m \in Nodes
         PROVE  /\ dp'[m] = dp[m] \/ PlaneKept(dp'[m], lastToken')
                /\ SameJob(dp'[m].job, dp[m].job) \/ JobOwned(dp'[m].job, m, oth, rows', dp')
                /\ leads'[m] = leads[m] \/ LeadOwned(leads'[m], m, oth, lastToken')
    <2>1. CASE m = n
      <3>1. LeadOwned(leads'[n], n, oth, lastToken')
        BY <1>2, <1>5, <1>6, <1>7 DEF LeadOwned
      <3> QED
        BY <1>2, <1>5, <1>8, <1>9, <2>1, <3>1
    <2>2. CASE m # n
      BY <1>7, <1>9, <2>2 DEF SameJob
    <2> QED
      BY <2>1, <2>2
  <1>14. \A i \in DOMAIN rows' :
           /\ i \in DOMAIN rows
           /\ rows'[i].phase = "activated" => rows[i].phase = "activated"
           /\ rows'[i].cancelled = rows[i].cancelled
    BY <1>2
  <1>15. CancelInv(oth)'
    <2>1. ControlInv
      BY DEF HistoryInv
    <2> QED
      BY <1>6, <1>11, <1>12, <1>13, <1>14, <2>1, CancelGoesOn
  <1> QED
    BY <1>6, <1>15

-----------------------------------------------------------------------------
(* Every behaviour.                                                        *)

(* Before anything happened.                                               *)
LEMMA CancelInit ==
  ASSUME Init
  PROVE  \E own \in Owners : CancelInv(own)
  <1>1. PICK own \in Owners : TRUE
    <2>1. [t \in Tokens |-> None] \in Owners
      BY DEF Owners
    <2> QED
      BY <2>1
  <1>2. \A n \in Nodes : dp[n].job = None /\ dp[n].max = 0 /\ dp[n].ended = {} /\ leads[n] = 0
    BY DEF Init
  <1>3. \A c \in Callers : call[c] = Idle
    BY DEF Init, Callers
  <1>4. DOMAIN rows = {} /\ lastToken = 0
    BY DEF Init
  <1>5. \A n \in Nodes : /\ PlaneKept(dp[n], lastToken) /\ JobOwned(dp[n].job, n, own, rows, dp)
                         /\ LeadOwned(leads[n], n, own, lastToken)
    BY <1>2, <1>4 DEF PlaneKept, JobOwned, LeadOwned, Unfinished
  <1>6. \A c \in Callers : CallKept(call[c], own, rows, dp, lastToken)
    BY <1>3, <1>4, IdleKept
  <1> QED
    BY <1>4, <1>5, <1>6 DEF CancelInv

(* A step of a call.                                                       *)
LEMMA StepKept ==
  ASSUME HistoryInv, ControlInv', NEW own \in Owners, CancelInv(own),
         NEW c \in Callers, Step(c)
  PROVE  CancelInv(own)'
  BY BuildKept, ClaimKept, DriveKept, NoteKept, SweepKept, MembersKept, InsertKept,
     DeltaKept, MembersNoteKept, AbortKept, CancelledKept, RecoverKept DEF Step

(* A step of a node, but for a promotion.                                  *)
LEMMA NodeStepKept ==
  ASSUME HistoryInv, ControlInv', NEW own \in Owners, CancelInv(own), NEW n \in Nodes,
         Demoted(n) \/ Drives(n) \/ Follows(n) \/ FollowFences(n) \/ AnswerLost(n) \/ Crash(n)
  PROVE  CancelInv(own)'
  <1>1. n \in Callers
    BY DEF Callers
  <1>2. CASE Demoted(n)
    <2>1. rows' = rows /\ dp' = dp /\ call' = call /\ lastToken' = lastToken
          /\ \A m \in Nodes : leads'[m] \in {leads[m], 0}
      BY <1>2 DEF Demoted, db, HistoryInv, ControlInv, WorldInv
    <2> QED
      BY <2>1, CallsKept
  <1>3. CASE Drives(n)
    BY <1>3, PublishKept, MoveKept, EndsKept DEF Drives
  <1> QED
    BY <1>1, <1>2, <1>3, FollowsKept, FollowFencesKept, AnswerLostKept, CrashKept

(* Every step.                                                             *)
LEMMA CancelStep ==
  ASSUME HistoryInv, \E own \in Owners : CancelInv(own), [Next]_cpVars
  PROVE  (\E own \in Owners : CancelInv(own))'
  <1>0. ControlInv'
    BY ControlStep DEF HistoryInv
  <1>1. PICK own \in Owners : CancelInv(own)
    OBVIOUS
  <1> SUFFICES \E oth \in Owners : CancelInv(oth)'
    OBVIOUS
  <1>2. ASSUME rows' = rows, dp' = dp, call' = call, lastToken' = lastToken, leads' = leads
        PROVE  CancelInv(own)'
    BY <1>0, <1>1, <1>2, CallsKept
  <1>3. CASE UNCHANGED cpVars
    <2>1. rows' = rows /\ dp' = dp /\ call' = call /\ lastToken' = lastToken /\ leads' = leads
      BY <1>3 DEF cpVars
    <2> QED
      BY <1>2, <2>1
  <1>4. CASE (\E conf \in Confs : Edit(conf)) \/ Replan \/ HealthChanges
    <2>1. rows' = rows /\ dp' = dp /\ call' = call /\ lastToken' = lastToken /\ leads' = leads
      BY <1>4 DEF Edit, Replan, HealthChanges, db, world
    <2> QED
      BY <1>2, <2>1
  <1>5. ASSUME NEW c \in Calls, AnswerLost(c) \/ \E n \in Nodes : Requests(c, n)
        PROVE  CancelInv(own)'
    <2>1. c \in Callers
      BY DEF Callers
    <2> QED
      BY <1>0, <1>1, <1>5, <2>1, AnswerLostKept, RequestsKept
  <1>6. CASE \E c \in Calls \cup Nodes : Step(c)
    BY <1>0, <1>1, <1>6, StepKept DEF Callers
  <1>7. CASE \E n \in Nodes :
               Promoted(n) \/ Demoted(n) \/ Drives(n) \/ Follows(n) \/ FollowFences(n)
               \/ AnswerLost(n) \/ Crash(n)
    BY <1>0, <1>1, <1>7, NodeStepKept, PromotedKept
  <1> QED
    BY <1>3, <1>4, <1>5, <1>6, <1>7 DEF Next

(* What has its verdict was not given up, and the other way.               *)
LEMMA SettledIsNotGivenUp ==
  ASSUME HistoryInv, NEW own \in Owners, CancelInv(own)
  PROVE  CancelledIsNotActivated
  <1> SUFFICES ASSUME NEW i \in Activated, ~MembersOnly(rows[i]), ~rows[i].misread,
                      rows[i].by \in rows[i].cancelled
               PROVE  FALSE
    BY DEF CancelledIsNotActivated
  <1>1. Settled(i, own, rows, dp) /\ GivenUp(i, own, rows, dp)
    BY DEF Activated, CancelInv, RowKept
  <1>2. PICK n \in Nodes : own[rows[i].token] = n /\ RowKey(i, rows) \in dp[n].ended
    BY <1>1 DEF Settled
  <1>3. RowKey(i, rows) \in dp[n].aborted
    BY <1>1, <1>2 DEF GivenUp
  <1> QED
    BY <1>2, <1>3 DEF CancelInv, PlaneKept

(* An apply that was cancelled where it was claimed is never recorded as   *)
(* activated, whether it was about to start, under way, or had lost its    *)
(* answer, however many instances believe to lead, and whatever calls run  *)
(* besides (cancel, abortConfig, recordPhase).  The one exception is a row *)
(* on which recover recorded another operation's activation (misread).     *)
THEOREM CancelledStaysDown == Spec => []CancelledIsNotActivated
  <1> DEFINE Kept == \E own \in Owners : CancelInv(own)
  <1>1. Init => HistoryInv /\ Kept
    BY HistoryInit, CancelInit
  <1>2. HistoryInv /\ [Next]_cpVars => HistoryInv'
    BY HistoryStep
  <1>3. HistoryInv /\ Kept /\ [Next]_cpVars => Kept'
    BY CancelStep
  <1>4. HistoryInv /\ Kept => CancelledIsNotActivated
    BY SettledIsNotGivenUp
  <1> HIDE DEF Kept
  <1> QED
    BY <1>1, <1>2, <1>3, <1>4, PTL DEF Spec

===============================================================================
