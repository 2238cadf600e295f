-------------------------- MODULE ConfigStoreProofs --------------------------
(***************************************************************************)
(* Whatever the objects, what they refer to, the edits and the number of   *)
(* changesets and plans: every table keeps its type, a commit is what was  *)
(* planned and replays its patch over the revision it was based on, epochs *)
(* rank revisions, a rollback restores what its source holds, and every    *)
(* reference resolves whatever is swept.                                   *)
(***************************************************************************)
EXTENDS ConfigStore, TLAPS, FiniteSetTheorems, SequenceTheorems, WellFoundedInduction

RequestRows ==
  [pc : {"dry_run", "seal", "replan"}, cs : Changesets \cup {None}, base : Revisions,
   patch : Seq(PatchOps), model : Models \cup {None}]
Reserved == {"committed", "operation_bound", "applied"}

-----------------------------------------------------------------------------
(* The invariants.                                                         *)

TypeInv ==
  /\ tables \in Models /\ head \in Revisions
  /\ revs \in [Revisions -> RevisionRows \cup {None}]
  /\ changesets \in [Changesets -> ChangesetRows \cup {None}]
  /\ plans \in [Plans -> PlanRows \cup {None}]
  /\ ops \in Seq(OperationRows)
  /\ request \in [Calls -> RequestRows \cup {None}]

(* The head is the newest revision, and what the tables hold.              *)
HeadInv ==
  /\ revs[head] # None /\ revs[head].model = tables
  /\ \A r \in Rows(revs) : r <= head

(* Every revision but the first is what some plan committed: no more than  *)
(* the first is ever pruned.                                               *)
RevisionsArePlanned ==
  \A r \in Rows(revs) : r = 1 \/ \E p \in Rows(plans) : plans[p].target = r

(* What a changeset is based on was head once, and it is committed with    *)
(* its revision.                                                           *)
ChangesetsInv == \A c \in Rows(changesets) :
  /\ changesets[c].base <= head
  /\ changesets[c].state = "committed" <=> changesets[c].committed # None

(* A plan has a target once it is committed, its changeset has that one    *)
(* then, and every other plan of the changeset is based on an older one.   *)
(* What a plan shows is still what its patch makes, while its base is head.*)
PlanIsRight(p) ==
  LET x == plans[p] IN
  /\ x.base <= head
  /\ x.state \in Reserved <=> x.target # None
  /\ x.cs = None => x.target # None
  /\ x.target # None => x.target <= head
  /\ x.target # None /\ x.cs # None => changesets[x.cs].committed = x.target
  /\ x.target = None /\ changesets[x.cs].committed # None => x.base < head
  /\ x.state = "planned" /\ x.base = head => x.model \in Accepted(tables, x.patch)
PlansInv == \A p \in Rows(plans) : PlanIsRight(p)

(* The same of the plans that calls are making.                            *)
RequestIsRight(q) ==
  LET x == request[q] IN
  /\ x.base <= head
  /\ x.pc # "replan" => x.cs # None
  /\ x.pc # "dry_run" => x.model \in Models
  /\ x.cs # None /\ changesets[x.cs] # None /\ changesets[x.cs].committed # None =>
       x.base < head
  /\ x.pc = "seal" /\ x.base = head => x.model \in Accepted(tables, x.patch)
RequestsInv == \A q \in Rows(request) : RequestIsRight(q)

(* An apply is of a committed plan.                                        *)
OpsInv ==
  \A i \in DOMAIN ops : plans[ops[i].plan] # None /\ plans[ops[i].plan].state \in Reserved

RowsInv ==
  HeadInv /\ RevisionsArePlanned /\ ChangesetsInv /\ PlansInv /\ RequestsInv /\ OpsInv
StoreInv ==
  /\ TypeInv /\ RowsInv /\ ReferencesResolve
  /\ CommitsReplayTheirPatch /\ WhatWasPlannedIsCommitted
  /\ EpochsRankRevisions /\ RollbacksRestore

-----------------------------------------------------------------------------
(* Least and greatest numbers.                                             *)

(* Every set of natural numbers has a least one.                           *)
LEMMA LeastNumber ==
  ASSUME NEW T \in SUBSET Nat, T # {}
  PROVE  \E x \in T : \A y \in T : x <= y
  <1>1. PICK x \in T : \A y \in T : ~(<<y, x>> \in OpToRel(<, Nat))
    BY NatLessThanWellFounded, WFMin
  <1>2. \A y \in T : ~ (y < x)
    BY <1>1 DEF OpToRel
  <1> QED
    BY <1>2

(* A finite one has a greatest: the one with the fewest above it.          *)
LEMMA GreatestNumber ==
  ASSUME NEW S \in SUBSET Nat, S # {}, IsFiniteSet(S)
  PROVE  \E x \in S : \A y \in S : y <= x
  <1> DEFINE Above(x) == {y \in S : y > x}
             T == {Cardinality(Above(x)) : x \in S}
  <1>1. \A x \in S : IsFiniteSet(Above(x)) /\ Cardinality(Above(x)) \in Nat
    BY FS_Subset, FS_CardinalityType
  <1>2. PICK x \in S : \A y \in S : Cardinality(Above(x)) <= Cardinality(Above(y))
    <2> HIDE DEF Above
    <2>1. T \in SUBSET Nat /\ T # {}
      BY <1>1
    <2>2. PICK c \in T : \A y \in T : c <= y
      BY <2>1, LeastNumber
    <2> QED
      BY <2>2
  <1>3. ASSUME NEW y \in S, y > x PROVE FALSE
    <2>1. x \in Nat /\ y \in Nat /\ \A z \in S : z \in Nat
      OBVIOUS
    <2>2. ASSUME NEW z \in Above(y) PROVE z \in Above(x)
      <3>1. z \in S /\ z > y /\ z \in Nat
        BY <2>1, <2>2
      <3>2. z > x
        BY <1>3, <2>1, <3>1
      <3> QED
        BY <3>1, <3>2
    <2>3. y \in Above(x) /\ y \notin Above(y)
      BY <1>3, <2>1
    <2> HIDE DEF Above
    <2>4. Cardinality(Above(y)) <= Cardinality(Above(x)) /\ Cardinality(Above(y)) # Cardinality(Above(x))
      BY <1>1, <2>2, <2>3, FS_Subset
    <2> QED
      BY <1>1, <1>2, <2>4
  <1> QED
    BY <1>3

-----------------------------------------------------------------------------
(* Steps in turn.                                                          *)

StepsOf == Seq([Models -> SUBSET Models])

(* Two sequences, one after the other.                                     *)
LEMMA ConcatParts ==
  ASSUME NEW a \in StepsOf, NEW b \in StepsOf
  PROVE  /\ a \o b \in StepsOf /\ Len(a \o b) = Len(a) + Len(b)
         /\ \A i \in 1..Len(a) : (a \o b)[i] = a[i]
         /\ \A i \in 1..Len(b) : (a \o b)[Len(a) + i] = b[i]
  <1>1. a \o b \in StepsOf /\ Len(a \o b) = Len(a) + Len(b) /\ Len(a) \in Nat /\ Len(b) \in Nat
    BY DEF StepsOf
  <1>2. \A i \in 1..Len(a) : (a \o b)[i] = a[i]
    BY DEF StepsOf
  <1>3. ASSUME NEW i \in 1..Len(b) PROVE (a \o b)[Len(a) + i] = b[i]
    <2>1. Len(a) + i \in 1..(Len(a) + Len(b)) /\ ~(Len(a) + i <= Len(a))
          /\ Len(a) + i - Len(a) = i
      BY <1>1
    <2> QED
      BY <2>1 DEF StepsOf
  <1> QED
    BY <1>1, <1>2, <1>3

(* The recursive function of InTurn exists: what is reached after i steps, *)
(* for every i, by extending the shorter one.                              *)
LEMMA InTurnUnfolds ==
  ASSUME NEW m \in Models, NEW steps \in StepsOf
  PROVE  \E f \in [0..Len(steps) -> SUBSET Models] :
           /\ f[0] = {m}
           /\ \A i \in 1..Len(steps) : f[i] = UNION {steps[i][x] : x \in f[i - 1]}
           /\ InTurn(m, steps) = f[Len(steps)]
  <1> DEFINE n == Len(steps)
             Rec(f, k) == /\ f \in [0..k -> SUBSET Models] /\ f[0] = {m}
                          /\ \A i \in 1..k : f[i] = UNION {steps[i][x] : x \in f[i - 1]}
             Unfolds(k) == \E f : Rec(f, k)
             Body(f) == [i \in 0..n |-> IF i = 0 THEN {m} ELSE UNION {steps[i][x] : x \in f[i - 1]}]
  <1>1. n \in Nat /\ steps \in [1..n -> [Models -> SUBSET Models]]
    BY DEF StepsOf
  <1>2. Unfolds(0)
    <2> DEFINE g == [i \in 0..0 |-> {m}]
    <2>1. Rec(g, 0)
      OBVIOUS
    <2> QED
      BY <2>1
  <1>3. ASSUME NEW k \in Nat, k < n, Unfolds(k) PROVE Unfolds(k + 1)
    <2>1. PICK f : Rec(f, k)
      BY <1>3
    <2> DEFINE next == UNION {steps[k + 1][x] : x \in f[k]}
               g == [i \in 0..(k + 1) |-> IF i = k + 1 THEN next ELSE f[i]]
    <2>2. k + 1 \in 1..n /\ steps[k + 1] \in [Models -> SUBSET Models] /\ f[k] \in SUBSET Models
      BY <1>1, <1>3, <2>1
    <2>3. next \in SUBSET Models
      BY <2>2
    <2>4. \A i \in 0..k : g[i] = f[i] /\ g[i] \in SUBSET Models
      BY <2>1
    <2>5. g[k + 1] = next /\ 0 \in 0..k /\ k \in 0..k
      BY <1>3
    <2> HIDE DEF next
    <2>6. g \in [0..(k + 1) -> SUBSET Models]
      BY <2>1, <2>3
    <2>7. g[0] = {m}
      BY <2>1, <2>4, <2>5
    <2> HIDE DEF g
    <2>8. ASSUME NEW i \in 1..(k + 1) PROVE g[i] = UNION {steps[i][x] : x \in g[i - 1]}
      <3>1. CASE i = k + 1
        <4>1. i - 1 = k /\ g[i - 1] = f[k]
          BY <2>4, <2>5, <3>1
        <4> QED
          BY <2>5, <3>1, <4>1 DEF next
      <3>2. CASE i # k + 1
        <4>1. i \in 1..k /\ i \in 0..k /\ i - 1 \in 0..k
          BY <3>2
        <4>2. g[i] = f[i] /\ g[i - 1] = f[i - 1] /\ f[i] = UNION {steps[i][x] : x \in f[i - 1]}
          BY <2>1, <2>4, <4>1
        <4> QED
          BY <4>2
      <3> QED
        BY <3>1, <3>2
    <2>9. Rec(g, k + 1)
      BY <2>6, <2>7, <2>8
    <2> QED
      BY <2>9
  <1> HIDE DEF Unfolds
  <1>4. Unfolds(n)
    <2> DEFINE T == {k \in 0..n : ~Unfolds(k)}
    <2>1. SUFFICES ASSUME T # {} PROVE FALSE
      BY <1>1
    <2>2. PICK k \in T : \A j \in T : k <= j
      <3>1. T \in SUBSET Nat
        OBVIOUS
      <3> QED
        BY <2>1, <3>1, LeastNumber
    <2>3. k # 0 /\ k - 1 \in Nat /\ k - 1 < n /\ k - 1 \notin T /\ k - 1 \in 0..n /\ (k - 1) + 1 = k
      BY <1>1, <1>2, <2>2
    <2>4. Unfolds(k - 1)
      BY <2>3
    <2>5. Unfolds((k - 1) + 1)
      BY <1>3, <2>3, <2>4
    <2> QED
      BY <2>2, <2>3, <2>5
  <1>5. PICK f : Rec(f, n)
    BY <1>4 DEF Unfolds
  <1>6. f = Body(f)
    <2>1. \A i \in 0..n : f[i] = Body(f)[i]
      <3> SUFFICES ASSUME NEW i \in 0..n PROVE f[i] = Body(f)[i]
        OBVIOUS
      <3>1. CASE i = 0
        BY <1>5, <3>1
      <3>2. CASE i # 0
        <4>1. i \in 1..n
          BY <1>1, <3>2
        <4> QED
          BY <1>5, <3>2, <4>1
      <3> QED
        BY <3>1, <3>2
    <2>2. f \in [0..n -> SUBSET Models]
      BY <1>5
    <2> QED
      BY <2>1, <2>2
  <1> DEFINE after == CHOOSE g : g = Body(g)
  <1>7. after = Body(after)
    <2> HIDE DEF Body
    <2> QED
      BY <1>6
  <1>8. InTurn(m, steps) = after[n]
    BY DEF InTurn
  <1> HIDE DEF after
  <1>9. \A i \in 0..n : after[i] = (IF i = 0 THEN {m} ELSE UNION {steps[i][x] : x \in after[i - 1]})
    BY <1>7
  <1>10. \A i \in 0..n : after[i] = f[i]
    <2> DEFINE T == {k \in 0..n : after[k] # f[k]}
    <2>1. SUFFICES ASSUME T # {} PROVE FALSE
      OBVIOUS
    <2>2. PICK k \in T : \A j \in T : k <= j
      <3>1. T \in SUBSET Nat
        OBVIOUS
      <3> QED
        BY <2>1, <3>1, LeastNumber
    <2>3. k # 0
      BY <1>5, <1>9, <2>2
    <2>4. k \in 1..n /\ k - 1 \in 0..n /\ k - 1 \notin T
      BY <1>1, <2>2, <2>3
    <2>5. after[k - 1] = f[k - 1]
      BY <2>4
    <2>6. after[k] = UNION {steps[k][x] : x \in after[k - 1]}
      BY <1>9, <2>3, <2>4
    <2>7. f[k] = UNION {steps[k][x] : x \in f[k - 1]}
      BY <1>5, <2>4
    <2> QED
      BY <2>2, <2>5, <2>6, <2>7
  <1>11. InTurn(m, steps) = f[n]
    BY <1>1, <1>8, <1>10
  <1> QED
    BY <1>5, <1>11

(* Steps that lead from each set into the next end in the last.            *)
LEMMA InTurnFollows ==
  ASSUME NEW m \in Models, NEW steps \in StepsOf,
         NEW at \in [0..Len(steps) -> SUBSET Models], m \in at[0],
         \A i \in 1..Len(steps) : \A x \in at[i - 1] : steps[i][x] \subseteq at[i]
  PROVE  InTurn(m, steps) \subseteq at[Len(steps)]
  <1>1. PICK f \in [0..Len(steps) -> SUBSET Models] :
          /\ f[0] = {m}
          /\ \A i \in 1..Len(steps) : f[i] = UNION {steps[i][x] : x \in f[i - 1]}
          /\ InTurn(m, steps) = f[Len(steps)]
    BY InTurnUnfolds
  <1> DEFINE n == Len(steps)
             T == {k \in 0..n : ~(f[k] \subseteq at[k])}
  <1>2. n \in Nat
    BY DEF StepsOf
  <1> HIDE DEF n
  <1>3. ASSUME T # {} PROVE FALSE
    <2>1. PICK k \in T : \A j \in T : k <= j
      <3>1. T \in SUBSET Nat
        OBVIOUS
      <3> QED
        BY <1>3, <3>1, LeastNumber
    <2>2. k # 0
      BY <1>1, <2>1
    <2>3. k \in 1..n /\ k - 1 \in 0..n /\ k - 1 \notin T
      BY <1>2, <2>1, <2>2
    <2>4. f[k - 1] \subseteq at[k - 1] /\ f[k] = UNION {steps[k][x] : x \in f[k - 1]}
      BY <1>1, <2>3 DEF n
    <2>5. \A x \in at[k - 1] : steps[k][x] \subseteq at[k]
      BY <2>3 DEF n
    <2> QED
      BY <2>1, <2>4, <2>5
  <1>4. f[n] \subseteq at[n]
    BY <1>2, <1>3
  <1> QED
    BY <1>1, <1>4 DEF n

(* Steps that lead to one model at most leave one at most.                 *)
LEMMA InTurnIsOne ==
  ASSUME NEW m \in Models, NEW steps \in StepsOf,
         \A i \in 1..Len(steps) : \A z \in Models : \A x, y \in steps[i][z] : x = y
  PROVE  /\ InTurn(m, steps) \subseteq Models
         /\ \A x, y \in InTurn(m, steps) : x = y
  <1>1. PICK f \in [0..Len(steps) -> SUBSET Models] :
          /\ f[0] = {m}
          /\ \A i \in 1..Len(steps) : f[i] = UNION {steps[i][x] : x \in f[i - 1]}
          /\ InTurn(m, steps) = f[Len(steps)]
    BY InTurnUnfolds
  <1> DEFINE n == Len(steps)
             T == {k \in 0..n : ~ \A x, y \in f[k] : x = y}
  <1>2. n \in Nat
    BY DEF StepsOf
  <1> HIDE DEF n
  <1>3. ASSUME T # {} PROVE FALSE
    <2>1. PICK k \in T : \A j \in T : k <= j
      <3>1. T \in SUBSET Nat
        OBVIOUS
      <3> QED
        BY <1>3, <3>1, LeastNumber
    <2>2. k # 0
      BY <1>1, <2>1
    <2>3. k \in 1..n /\ k - 1 \in 0..n /\ k - 1 \notin T
      BY <1>2, <2>1, <2>2
    <2>4. /\ \A x, y \in f[k - 1] : x = y
          /\ f[k] = UNION {steps[k][x] : x \in f[k - 1]}
          /\ f[k - 1] \subseteq Models
      BY <1>1, <2>3 DEF n
    <2>5. \A z \in Models : \A x, y \in steps[k][z] : x = y
      BY <2>3 DEF n
    <2>6. ASSUME NEW x \in f[k], NEW y \in f[k] PROVE x = y
      <3>1. PICK a \in f[k - 1] : x \in steps[k][a]
        BY <2>4
      <3>2. PICK b \in f[k - 1] : y \in steps[k][b]
        BY <2>4
      <3>3. a = b /\ a \in Models
        BY <2>4
      <3> QED
        BY <2>5, <3>1, <3>2, <3>3
    <2> QED
      BY <2>1, <2>6
  <1>4. (\A x, y \in f[n] : x = y) /\ f[n] \subseteq Models
    BY <1>1, <1>2, <1>3 DEF n
  <1> QED
    BY <1>1, <1>4 DEF n

-----------------------------------------------------------------------------
(* Operations on models.                                                   *)

(* A deletion leaves one model at most: without the key, without what goes *)
(* with it, and otherwise as it was.                                       *)
LEMMA DeletedType ==
  ASSUME NEW m \in Models, NEW k \in Keys
  PROVE  /\ Deleted(m, k) \subseteq Models
         /\ \A x, y \in Deleted(m, k) : x = y
         /\ \A x \in Deleted(m, k) :
              /\ x[k] = None
              /\ \A d \in Keys : x[d] = m[d] \/ x[d] = None
              /\ \A d \in Owned : k \in Needs[d] => x[d] = None
  <1> DEFINE left == [x \in Keys |-> IF x = k \/ x \in Dependents(m, k) THEN None ELSE m[x]]
  <1>1. left \in Models
    BY DEF Models
  <1>2. Deleted(m, k) \subseteq {left}
    BY DEF Deleted
  <1>3. \A d \in Owned : d \in Keys /\ (k \in Needs[d] => d \in Dependents(m, k) \/ m[d] = None)
    BY ModelAssumption DEF Dependents
  <1> QED
    BY <1>1, <1>2, <1>3

(* So does every operation.                                                *)
LEMMA ApplyOpType ==
  ASSUME NEW m \in Models, NEW op \in PatchOps
  PROVE  /\ ApplyOp(m, op) \subseteq Models
         /\ \A x, y \in ApplyOp(m, op) : x = y
  <1>1. op.key \in Keys /\ op.body \in Bodies \cup {None}
    BY DEF PatchOps
  <1>2. [m EXCEPT ![op.key] = op.body] \in Models
    BY <1>1 DEF Models
  <1> QED
    BY <1>1, <1>2, DeletedType DEF ApplyOp

(* What a patch makes of a model is a model, and one at most.              *)
LEMMA AcceptedType ==
  ASSUME NEW m \in Models, NEW patch \in Seq(PatchOps)
  PROVE  /\ Accepted(m, patch) \subseteq Models
         /\ Accepted(m, patch) \subseteq ApplyAll(m, patch)
         /\ \A x, y \in Accepted(m, patch) : x = y
  <1> DEFINE steps == [i \in DOMAIN patch |-> [x \in Models |-> ApplyOp(x, patch[i])]]
  <1>1. DOMAIN patch = 1..Len(patch) /\ Len(patch) \in Nat
        /\ \A i \in DOMAIN patch : patch[i] \in PatchOps
    OBVIOUS
  <1>2. steps \in [1..Len(patch) -> [Models -> SUBSET Models]]
    BY <1>1, ApplyOpType
  <1>3. steps \in StepsOf /\ Len(steps) = Len(patch)
    BY <1>1, <1>2 DEF StepsOf
  <1>4. \A i \in 1..Len(steps) : \A z \in Models : steps[i][z] = ApplyOp(z, patch[i])
    BY <1>1, <1>3
  <1>5. ApplyAll(m, patch) = InTurn(m, steps)
    BY DEF ApplyAll
  <1> HIDE DEF steps
  <1>6. \A i \in 1..Len(steps) : \A z \in Models : \A x, y \in steps[i][z] : x = y
    BY <1>1, <1>3, <1>4, ApplyOpType
  <1>7. ApplyAll(m, patch) \subseteq Models /\ \A x, y \in ApplyAll(m, patch) : x = y
    BY <1>3, <1>5, <1>6, InTurnIsOne
  <1> QED
    BY <1>7 DEF Accepted

(* Emptied and filled again, the tables hold the old model: the orders     *)
(* reach every key.                                                        *)
LEMMA RebuiltRestores ==
  ASSUME NEW m \in Models, NEW old \in Models
  PROVE  Rebuilt(m, old) \subseteq {old}
  <1> DEFINE w == Len(WipeOrder)
             n == Len(PutOrder)
             steps == Wipes \o PutsOf(old)
             Gone(x, i) == /\ x[WipeOrder[i]] = None
                           /\ \A d \in Owned : WipeOrder[i] \in Needs[d] => x[d] = None
             Empty(i) == {x \in Models : \A j \in 1..i : Gone(x, j)}
             Filled(i) == {x \in Models : /\ \A k \in Keys : x[k] = None \/ x[k] = old[k]
                                          /\ \A j \in 1..i : x[PutOrder[j]] = old[PutOrder[j]]}
             at == [i \in 0..(w + n) |-> IF i <= w THEN Empty(i) ELSE Filled(i - w)]
  <1>1. /\ w \in Nat /\ n \in Nat /\ DOMAIN WipeOrder = 1..w /\ DOMAIN PutOrder = 1..n
        /\ \A i \in 1..w : WipeOrder[i] \in Keys
        /\ \A i \in 1..n : PutOrder[i] \in Keys
    BY ModelAssumption
  <1>2. Wipes \in StepsOf /\ Len(Wipes) = w /\ \A i \in 1..w : \A x \in Models :
          Wipes[i][x] = Deleted(x, WipeOrder[i])
    <2>1. Wipes = [i \in 1..w |-> [x \in Models |-> Deleted(x, WipeOrder[i])]]
      BY <1>1 DEF Wipes
    <2>2. Wipes \in [1..w -> [Models -> SUBSET Models]]
      BY <1>1, <2>1, DeletedType
    <2> QED
      BY <1>1, <2>1, <2>2 DEF StepsOf
  <1> DEFINE Put(x, k) == IF old[k] = None THEN {x} ELSE ApplyOp(x, [key |-> k, body |-> old[k]])
  <1>3. ASSUME NEW x \in Models, NEW k \in Keys
        PROVE  /\ Put(x, k) \in SUBSET Models
               /\ \A y \in Put(x, k) : \A d \in Keys :
                    y[d] = IF d = k /\ old[k] # None THEN old[k] ELSE x[d]
    <2>1. CASE old[k] = None
      BY <2>1
    <2>2. CASE old[k] # None
      <3>1. [key |-> k, body |-> old[k]] \in PatchOps
        BY DEF PatchOps, Models
      <3>2. Put(x, k) \subseteq {[x EXCEPT ![k] = old[k]]}
        BY <2>2 DEF ApplyOp
      <3>3. Put(x, k) \in SUBSET Models
        BY <2>2, <3>1, ApplyOpType
      <3>4. [x EXCEPT ![k] = old[k]] = [d \in Keys |-> IF d = k THEN old[k] ELSE x[d]]
        BY DEF Models
      <3> QED
        BY <2>2, <3>2, <3>3, <3>4
    <2> QED
      BY <2>1, <2>2
  <1>4. PutsOf(old) \in StepsOf /\ Len(PutsOf(old)) = n /\ \A i \in 1..n : \A x \in Models :
          PutsOf(old)[i][x] = Put(x, PutOrder[i])
    <2>1. PutsOf(old) = [i \in 1..n |-> [x \in Models |-> Put(x, PutOrder[i])]]
      BY <1>1 DEF PutsOf
    <2> HIDE DEF Put
    <2>2. PutsOf(old) \in [1..n -> [Models -> SUBSET Models]]
      BY <1>1, <1>3, <2>1
    <2> QED
      BY <1>1, <2>1, <2>2 DEF StepsOf
  <1> HIDE DEF Put, w, n
  <1>5. steps \in StepsOf /\ Len(steps) = w + n
        /\ (\A i \in 1..w : steps[i] = Wipes[i])
        /\ (\A i \in 1..n : steps[w + i] = PutsOf(old)[i])
    <2>1. /\ Wipes \o PutsOf(old) \in StepsOf
          /\ Len(Wipes \o PutsOf(old)) = Len(Wipes) + Len(PutsOf(old))
          /\ \A i \in 1..Len(Wipes) : (Wipes \o PutsOf(old))[i] = Wipes[i]
          /\ \A i \in 1..Len(PutsOf(old)) :
               (Wipes \o PutsOf(old))[Len(Wipes) + i] = PutsOf(old)[i]
      BY <1>2, <1>4, ConcatParts
    <2> QED
      BY <1>2, <1>4, <2>1
  <1> HIDE DEF steps
  <1>6. at \in [0..Len(steps) -> SUBSET Models]
    BY <1>5
  <1>7. m \in at[0]
    <2>1. 0 \in 0..(w + n) /\ 0 <= w
      BY <1>1
    <2>2. at[0] = Empty(0)
      BY <2>1
    <2> QED
      BY <2>2
  <1>8. ASSUME NEW x \in Empty(w) PROVE x \in Filled(0)
    <2>1. ASSUME NEW k \in Keys PROVE x[k] = None
      <3>1. PICK i \in 1..w : WipeOrder[i] = k \/ (k \in Owned /\ WipeOrder[i] \in Needs[k])
        BY <1>1, OrderAssumption
      <3>2. Gone(x, i)
        OBVIOUS
      <3> QED
        BY <3>1, <3>2
    <2> QED
      BY <2>1
  <1>9. ASSUME NEW i \in 1..Len(steps), NEW x \in at[i - 1] PROVE steps[i][x] \subseteq at[i]
    <2>0. i \in 1..(w + n) /\ i \in Nat /\ i - 1 \in 0..(w + n) /\ i \in 0..(w + n)
      BY <1>1, <1>5
    <2>1. CASE i <= w
      <3>1. i \in 1..w /\ i - 1 <= w
        BY <1>1, <2>0, <2>1
      <3>2. at[i - 1] = Empty(i - 1) /\ at[i] = Empty(i)
        BY <2>0, <2>1, <3>1
      <3>3. x \in Models /\ \A j \in 1..(i - 1) : Gone(x, j)
        BY <3>2
      <3>4. steps[i][x] = Deleted(x, WipeOrder[i]) /\ WipeOrder[i] \in Keys
        BY <1>1, <1>2, <1>5, <3>1, <3>3
      <3>5. ASSUME NEW y \in steps[i][x] PROVE y \in Empty(i)
        <4>1. /\ y \in Models /\ Gone(y, i)
              /\ \A d \in Keys : y[d] = x[d] \/ y[d] = None
          BY <3>3, <3>4, DeletedType
        <4>2. ASSUME NEW j \in 1..i PROVE Gone(y, j)
          <5>1. CASE j = i
            BY <4>1, <5>1
          <5>2. CASE j # i
            <6>1. j \in 1..(i - 1) /\ j \in 1..w /\ WipeOrder[j] \in Keys
              BY <1>1, <3>1, <5>2
            <6>2. Gone(x, j)
              BY <3>3, <6>1
            <6> QED
              BY <4>1, <6>1, <6>2, ModelAssumption
          <5> QED
            BY <5>1, <5>2
        <4> HIDE DEF Gone
        <4> QED
          BY <4>1, <4>2
      <3> HIDE DEF Empty, at
      <3> QED
        BY <3>2, <3>5
    <2>2. CASE ~(i <= w)
      <3>1. i - w \in 1..n /\ i = w + (i - w) /\ i - 1 = w + (i - w - 1) /\ i - w - 1 \in Nat
        BY <1>1, <2>0, <2>2
      <3>2. at[i] = Filled(i - w)
        BY <2>0, <2>2
      <3>3. x \in Filled(i - w - 1)
        <4>1. CASE i - 1 <= w
          <5>1. i - 1 = w /\ i - w - 1 = 0 /\ at[i - 1] = Empty(i - 1)
            BY <1>1, <2>0, <2>2, <4>1
          <5>2. x \in Empty(w)
            BY <5>1
          <5> HIDE DEF Empty, Filled
          <5> QED
            BY <1>8, <5>1, <5>2
        <4>2. CASE ~(i - 1 <= w)
          <5>1. at[i - 1] = Filled(i - 1 - w) /\ i - 1 - w = i - w - 1
            BY <1>1, <2>0, <4>2
          <5> QED
            BY <5>1
        <4> QED
          BY <4>1, <4>2
      <3> DEFINE o == i - w
                 key == PutOrder[o]
      <3>4. key \in Keys /\ o \in 1..n
        BY <1>1, <3>1
      <3>5. x \in Models
        BY <3>3
      <3>6. steps[i][x] = Put(x, key)
        BY <1>4, <1>5, <3>1, <3>5
      <3>7. ASSUME NEW y \in steps[i][x] PROVE y \in Filled(o)
        <4>1. /\ y \in Models
              /\ \A d \in Keys : y[d] = IF d = key /\ old[key] # None THEN old[key] ELSE x[d]
          BY <1>3, <3>4, <3>5, <3>6
        <4>2. \A k \in Keys : y[k] = None \/ y[k] = old[k]
          BY <3>3, <4>1
        <4>3. y[key] = old[key]
          BY <3>3, <3>4, <4>1
        <4>4. ASSUME NEW j \in 1..o PROVE y[PutOrder[j]] = old[PutOrder[j]]
          <5>1. CASE j = o
            BY <4>3, <5>1
          <5>2. CASE j # o
            <6>1. j \in 1..(i - w - 1) /\ PutOrder[j] \in Keys
              BY <1>1, <3>1, <3>4, <5>2
            <6>2. x[PutOrder[j]] = old[PutOrder[j]]
              BY <3>3, <6>1
            <6> QED
              BY <4>1, <6>1, <6>2
          <5> QED
            BY <5>1, <5>2
        <4> QED
          BY <4>1, <4>2, <4>4
      <3> HIDE DEF Filled, at
      <3> QED
        BY <3>2, <3>7
    <2> QED
      BY <2>1, <2>2
  <1> HIDE DEF at
  <1>10. InTurn(m, steps) \subseteq at[Len(steps)]
    BY <1>5, <1>6, <1>7, <1>9, InTurnFollows
  <1>11. ASSUME NEW x \in at[w + n] PROVE x = old
    <2>1. x \in Filled(n)
      <3>1. CASE n = 0
        <4>1. w + n <= w /\ w + n = w
          BY <1>1, <3>1
        <4>2. at[w + n] = Empty(w)
          BY <1>1, <4>1 DEF at
        <4> HIDE DEF Empty, Filled
        <4> QED
          BY <1>8, <3>1, <4>2
      <3>2. CASE n # 0
        <4>1. ~(w + n <= w) /\ (w + n) - w = n /\ w + n \in 0..(w + n)
          BY <1>1, <3>2
        <4>2. \A i \in 0..(w + n) : ~(i <= w) => at[i] = Filled(i - w)
          BY DEF at
        <4> DEFINE all == w + n
        <4>3. all \in 0..(w + n) /\ ~(all <= w) /\ all - w = n
          BY <4>1
        <4> HIDE DEF all, Empty, Filled
        <4>4. at[all] = Filled(all - w)
          BY <4>2, <4>3
        <4>5. at[all] = Filled(n)
          BY <4>3, <4>4
        <4> QED
          BY <4>1, <4>2
      <3> QED
        BY <3>1, <3>2
    <2>2. ASSUME NEW k \in Keys PROVE x[k] = old[k]
      <3>1. PICK i \in 1..n : PutOrder[i] = k
        BY <1>1, OrderAssumption
      <3> QED
        BY <2>1, <3>1
    <2> QED
      BY <2>1, <2>2 DEF Models
  <1> QED
    BY <1>5, <1>10, <1>11 DEF Rebuilt, steps

-----------------------------------------------------------------------------
(* Rows and what is drawn for them.                                        *)

(* The next epoch is above every epoch that a plan has.                    *)
LEMMA NextEpochOutranks ==
  ASSUME TypeInv
  PROVE  /\ NextEpoch \in Nat \ {0}
         /\ \A p \in Rows(plans) : plans[p].epoch \in Nat /\ plans[p].epoch < NextEpoch
  <1> DEFINE drawn == {plans[p].epoch : p \in Rows(plans)}
             top == CHOOSE e \in EpochsDrawn : \A d \in EpochsDrawn : d <= e
  <1>1. \A p \in Rows(plans) : plans[p].epoch \in Nat
    BY DEF TypeInv, Rows, PlanRows
  <1>2. IsFiniteSet(Rows(plans))
    <2>1. Rows(plans) \subseteq Plans
      BY DEF TypeInv, Rows
    <2> QED
      BY <2>1, RowsAssumption, FS_Subset
  <1>3. [p \in Rows(plans) |-> plans[p].epoch] \in Surjection(Rows(plans), drawn)
    BY DEF Surjection, Range
  <1>4. IsFiniteSet(drawn)
    BY <1>2, <1>3, FS_Surjection
  <1>5. EpochsDrawn \in SUBSET Nat /\ EpochsDrawn # {} /\ IsFiniteSet(EpochsDrawn)
    <2>1. EpochsDrawn = drawn \cup {0}
      BY DEF EpochsDrawn
    <2>2. IsFiniteSet(drawn \cup {0})
      BY <1>4, FS_AddElement
    <2>3. drawn \subseteq Nat
      BY <1>1
    <2> HIDE DEF drawn
    <2> QED
      BY <2>1, <2>2, <2>3
  <1>6. \E e \in EpochsDrawn : \A d \in EpochsDrawn : d <= e
    BY <1>5, GreatestNumber
  <1>7. top \in EpochsDrawn /\ \A d \in EpochsDrawn : d <= top
    BY <1>6
  <1>8. NextEpoch = 1 + top
    BY DEF NextEpoch
  <1>9. \A p \in Rows(plans) : plans[p].epoch \in EpochsDrawn
    BY DEF EpochsDrawn
  <1> HIDE DEF top
  <1>10. top \in Nat
    BY <1>5, <1>7
  <1>11. \A p \in Rows(plans) : plans[p].epoch <= top
    BY <1>7, <1>9
  <1> QED
    BY <1>1, <1>8, <1>10, <1>11

(* A plan that only changes its state is otherwise the same.               *)
LEMMA StatedRow ==
  ASSUME NEW x \in PlanRows, NEW s \in PlanStates, NEW y, y = [x EXCEPT !.state = s]
  PROVE  /\ y \in PlanRows
         /\ y.cs = x.cs /\ y.base = x.base /\ y.model = x.model /\ y.patch = x.patch
         /\ y.state = s /\ y.target = x.target /\ y.epoch = x.epoch /\ y.late = x.late
  BY DEF PlanRows

(* What a plan that rollbackTo and the retries make is.                    *)
LEMMA CommittedPlanRow ==
  ASSUME TypeInv, NEW base \in Revisions, NEW t \in Revisions, NEW m \in Models
  PROVE  /\ CommittedPlan(base, t, m) \in PlanRows
         /\ LET y == CommittedPlan(base, t, m) IN
            /\ y.cs = None /\ y.base = base /\ y.state = "committed" /\ y.target = t
            /\ y.epoch = NextEpoch
  <1>1. NextEpoch \in Nat
    BY NextEpochOutranks
  <1>2. Digest(m) \in Models
    BY DEF Digest, Models
  <1>3. <<>> \in Seq(PatchOps)
    OBVIOUS
  <1> QED
    BY <1>1, <1>2, <1>3 DEF CommittedPlan, PlanRows, PlanStates

(* A digest is a model of the rendered keys.                               *)
LEMMA DigestType == ASSUME NEW m \in Models PROVE Digest(m) \in Models
  BY DEF Digest, Models

-----------------------------------------------------------------------------
(* The history.                                                            *)

(* The three parts of ReferencesResolve that it is proved by.              *)
HistoryResolves ==
  \A r \in Rows(revs) :
    /\ revs[r].parent # None => revs[revs[r].parent] # None
    /\ \A s \in Rows(revs) : r < s => \A t \in r..s : revs[t] # None
RowsResolve ==
  /\ \A c \in Rows(changesets) :
       /\ revs[changesets[c].base] # None
       /\ changesets[c].committed # None => revs[changesets[c].committed] # None
  /\ \A p \in Rows(plans) :
       /\ plans[p].cs # None => changesets[plans[p].cs] # None
       /\ plans[p].target # None => revs[plans[p].target] # None
OpsResolve ==
  \A i \in DOMAIN ops : plans[ops[i].plan] # None /\ revs[ops[i].revision] # None

(* The revisions a step leaves: as they were; with a new head, which holds *)
(* what the tables hold and what its source holds; without the first.      *)
HistoryStays == UNCHANGED <<tables, head, revs>>
NewHead(m, from) ==
  /\ head + 1 \in Revisions /\ m \in Models
  /\ tables' = m /\ head' = head + 1
  /\ revs' = [revs EXCEPT ![head + 1] = [model |-> m, parent |-> head, rollbackOf |-> from]]
  /\ from = None \/ (from \in Revisions /\ from <= head /\ revs[from] # None /\ revs[from].model = m)
Pruned ==
  /\ UNCHANGED <<tables, head, changesets, plans, ops, request>>
  /\ 1 \in Rows(revs) /\ ~Referred(1) /\ revs'[1] = None
  /\ revs' \in [Revisions -> RevisionRows \cup {None}]
  /\ \A r \in Revisions \ {1} :
       /\ revs[r] # None => revs[r].rollbackOf # 1
       /\ revs'[r] = IF revs[r] = None THEN None
                     ELSE [revs[r] EXCEPT !.parent = IF @ = 1 THEN None ELSE @]

(* A row of a revision.                                                    *)
LEMMA RevisionFields ==
  ASSUME TypeInv, NEW r \in Rows(revs)
  PROVE  /\ r \in Revisions /\ r \in Nat /\ revs[r] \in RevisionRows /\ revs[r].model \in Models
         /\ revs[r].parent \in Revisions \cup {None}
         /\ revs[r].rollbackOf \in Revisions \cup {None}
  BY RowsAssumption DEF TypeInv, Rows, Revisions, RevisionRows

(* A sweep takes the first revision and no other: every other one is what  *)
(* a plan committed, and what a rollback names stays.                      *)
LEMMA SweepPrunes ==
  ASSUME TypeInv, RevisionsArePlanned, SweepRevisions
  PROVE  Pruned
  <1>1. PICK cut \in Rows(revs) :
    LET oldest == CHOOSE r \in Rows(revs) : \A s \in Rows(revs) : r <= s
        prefix == oldest..cut
        held   == {revs[s].rollbackOf : s \in {x \in Rows(revs) : x > cut}}
        gone   == {r \in prefix : \A h \in held \ {None} : h \in prefix => r < h}
    IN /\ \A r \in prefix : ~Referred(r)
       /\ gone # {}
       /\ revs' = [r \in Revisions |->
            IF r \in gone \/ revs[r] = None THEN None
            ELSE IF revs[r].parent \in gone THEN [revs[r] EXCEPT !.parent = None]
            ELSE revs[r]]
    BY DEF SweepRevisions
  <1> DEFINE oldest == CHOOSE r \in Rows(revs) : \A s \in Rows(revs) : r <= s
             prefix == oldest..cut
             held   == {revs[s].rollbackOf : s \in {x \in Rows(revs) : x > cut}}
             gone   == {r \in prefix : \A h \in held \ {None} : h \in prefix => r < h}
  <1>2. Rows(revs) \in SUBSET Nat /\ Rows(revs) \subseteq Revisions
    BY RevisionFields
  <1>3. oldest \in Rows(revs) /\ \A s \in Rows(revs) : oldest <= s
    <2>1. \E r \in Rows(revs) : \A s \in Rows(revs) : r <= s
      BY <1>2, LeastNumber
    <2> QED
      BY <2>1
  <1>4. cut = 1 /\ oldest = 1
    <2>1. cut \in prefix
      BY <1>2, <1>3
    <2>2. ~Referred(cut)
      BY <1>1, <2>1
    <2>3. cut = 1
      BY <2>2 DEF RevisionsArePlanned, Referred
    <2> QED
      BY <1>2, <1>3, <2>3 DEF Revisions
  <1> HIDE DEF oldest
  <1>5. prefix = {1}
    BY <1>4
  <1>6. gone = {1} /\ 1 \notin held
    <2>1. gone # {} /\ gone \subseteq prefix
      BY <1>1 DEF oldest
    <2>2. 1 \in gone /\ gone = {1}
      <3> HIDE DEF prefix, gone
      <3> QED
        BY <1>5, <2>1
    <2>3. \A h \in held \ {None} : h \in prefix => 1 < h
      BY <2>2
    <2>4. 1 # None
      BY NoneAssumption, RowsAssumption DEF Revisions
    <2> HIDE DEF prefix, gone, held
    <2> QED
      BY <1>5, <2>2, <2>3, <2>4
  <1>7. ~Referred(1)
    BY <1>1, <1>5 DEF oldest
  <1>8. revs' = [r \in Revisions |->
            IF r \in gone \/ revs[r] = None THEN None
            ELSE IF revs[r].parent \in gone THEN [revs[r] EXCEPT !.parent = None]
            ELSE revs[r]]
    BY <1>1 DEF oldest
  <1> HIDE DEF gone
  <1>9. ASSUME NEW r \in Revisions \ {1}
        PROVE  /\ revs[r] # None => revs[r].rollbackOf # 1
               /\ revs'[r] = IF revs[r] = None THEN None
                             ELSE [revs[r] EXCEPT !.parent = IF @ = 1 THEN None ELSE @]
    <2>1. CASE revs[r] = None
      BY <1>8, <2>1
    <2>2. CASE revs[r] # None
      <3>1. r \in Rows(revs) /\ r > cut
        BY <1>2, <1>4, <2>2 DEF TypeInv, Rows, Revisions
      <3>2. revs[r].rollbackOf # 1
        BY <1>6, <3>1
      <3>3. revs'[r] = IF revs[r].parent \in gone THEN [revs[r] EXCEPT !.parent = None] ELSE revs[r]
        BY <1>6, <1>8, <2>2
      <3>4. [revs[r] EXCEPT !.parent = revs[r].parent] = revs[r]
        BY <3>1, RevisionFields DEF RevisionRows
      <3> QED
        BY <1>6, <2>2, <3>2, <3>3, <3>4
    <2> QED
      BY <2>1, <2>2
  <1>10. UNCHANGED <<tables, head, changesets, plans, ops, request>>
    BY DEF SweepRevisions
  <1>11. 1 \in Rows(revs)
    BY <1>4
  <1>12. revs'[1] = None
    BY <1>2, <1>6, <1>8, <1>11
  <1>13. revs' \in [Revisions -> RevisionRows \cup {None}]
    <2>1. ASSUME NEW r \in Revisions \ {1} PROVE revs'[r] \in RevisionRows \cup {None}
      <3>1. CASE revs[r] = None
        BY <1>9, <3>1
      <3>2. CASE revs[r] # None
        <4>1. revs[r] \in RevisionRows
          BY <3>2 DEF TypeInv
        <4>2. revs'[r] = [revs[r] EXCEPT !.parent = IF @ = 1 THEN None ELSE @]
          BY <1>9, <3>2
        <4> QED
          BY <4>1, <4>2 DEF RevisionRows
      <3> QED
        BY <3>1, <3>2
    <2> QED
      BY <1>8, <1>12, <2>1
  <1> QED
    BY <1>7, <1>9, <1>10, <1>11, <1>12, <1>13 DEF Pruned

(* The history keeps its type, its head, its sources and has no hole.      *)
LEMMA HistoryStep ==
  ASSUME TypeInv, HeadInv, HistoryResolves, RollbacksRestore,
         \/ HistoryStays \/ Pruned
         \/ \E m \in Models, from \in Revisions \cup {None} : NewHead(m, from)
  PROVE  /\ tables' \in Models /\ head' \in Revisions
         /\ revs' \in [Revisions -> RevisionRows \cup {None}]
         /\ HeadInv' /\ HistoryResolves' /\ RollbacksRestore'
  <1>1. CASE HistoryStays
    BY <1>1 DEF HistoryStays, TypeInv, HeadInv, HistoryResolves, RollbacksRestore, Rows
  <1>2. CASE Pruned
    <2>1. head # 1 /\ head' = head /\ tables' = tables /\ tables \in Models /\ head \in Revisions
      BY <1>2 DEF Pruned, Referred, TypeInv
    <2>2. ASSUME NEW r \in Rows(revs), r # 1
          PROVE  /\ revs'[r] \in RevisionRows /\ revs'[r] # None
                 /\ revs'[r].model = revs[r].model /\ revs'[r].rollbackOf = revs[r].rollbackOf
                 /\ revs'[r].parent = IF revs[r].parent = 1 THEN None ELSE revs[r].parent
                 /\ revs[r].rollbackOf # 1
      <3>1. r \in Revisions /\ revs[r] \in RevisionRows /\ revs[r] # None
        BY RevisionFields DEF Rows
      <3>2. revs'[r] = [revs[r] EXCEPT !.parent = IF @ = 1 THEN None ELSE @]
        BY <1>2, <2>2, <3>1 DEF Pruned
      <3> QED
        BY <1>2, <2>2, <3>1, <3>2, NoneAssumption DEF RevisionRows, Pruned
    <2>3. Rows(revs') = Rows(revs) \ {1}
      <3>1. DOMAIN revs' = Revisions /\ DOMAIN revs = Revisions
        BY <1>2 DEF Pruned, TypeInv
      <3>2. ASSUME NEW r \in Revisions PROVE revs'[r] # None <=> revs[r] # None /\ r # 1
        BY <1>2, <2>2, <3>1 DEF Pruned, Rows
      <3> QED
        BY <3>1, <3>2 DEF Rows
    <2>4. revs' \in [Revisions -> RevisionRows \cup {None}]
      BY <1>2 DEF Pruned
    <2>5. HeadInv'
      <3>1. head \in Rows(revs) /\ revs[head].model = tables /\ \A r \in Rows(revs) : r <= head
        BY DEF HeadInv, TypeInv, Rows
      <3> QED
        BY <2>1, <2>2, <2>3, <3>1 DEF HeadInv, Rows
    <2>6. HistoryResolves'
      <3>1. ASSUME NEW r \in Rows(revs'), revs'[r].parent # None
            PROVE  revs'[revs'[r].parent] # None
        <4>1. r \in Rows(revs) /\ r # 1 /\ revs[r].parent # 1 /\ revs'[r].parent = revs[r].parent
              /\ revs[r].parent # None
          BY <2>2, <2>3, <3>1
        <4>2. revs[r].parent \in Revisions /\ revs[revs[r].parent] # None
          BY <4>1, RevisionFields DEF HistoryResolves
        <4>3. revs[r].parent \in Rows(revs)
          BY <4>2 DEF Rows, TypeInv
        <4> QED
          BY <2>2, <4>1, <4>3
      <3>2. ASSUME NEW r \in Rows(revs'), NEW s \in Rows(revs'), r < s, NEW t \in r..s
            PROVE  revs'[t] # None
        <4>1. r \in Rows(revs) /\ s \in Rows(revs) /\ r # 1 /\ r \in Revisions /\ s \in Revisions
          BY <2>3, RevisionFields
        <4>2. revs[t] # None /\ t # 1 /\ t \in Revisions
          BY <3>2, <4>1, RowsAssumption DEF HistoryResolves, Revisions
        <4>3. t \in Rows(revs)
          BY <4>2 DEF Rows, TypeInv
        <4> QED
          BY <2>2, <4>2, <4>3
      <3> QED
        BY <3>1, <3>2 DEF HistoryResolves
    <2>7. RollbacksRestore'
      <3>1. ASSUME NEW r \in Rows(revs'), revs'[r].rollbackOf # None
            PROVE  /\ revs'[revs'[r].rollbackOf] # None
                   /\ revs'[r].model = revs'[revs'[r].rollbackOf].model
        <4>1. /\ r \in Rows(revs) /\ revs'[r].model = revs[r].model
              /\ revs'[r].rollbackOf = revs[r].rollbackOf /\ revs[r].rollbackOf # 1
          BY <2>2, <2>3
        <4>2. /\ revs[r].rollbackOf \in Revisions /\ revs[revs[r].rollbackOf] # None
              /\ revs[r].model = revs[revs[r].rollbackOf].model
          BY <3>1, <4>1, RevisionFields DEF RollbacksRestore
        <4>3. revs[r].rollbackOf \in Rows(revs)
          BY <4>2 DEF Rows, TypeInv
        <4> QED
          BY <2>2, <4>1, <4>2, <4>3
      <3> QED
        BY <3>1 DEF RollbacksRestore
    <2> QED
      BY <2>1, <2>4, <2>5, <2>6, <2>7
  <1>3. ASSUME NEW m \in Models, NEW from \in Revisions \cup {None}, NewHead(m, from)
        PROVE  /\ tables' \in Models /\ head' \in Revisions
               /\ revs' \in [Revisions -> RevisionRows \cup {None}]
               /\ HeadInv' /\ HistoryResolves' /\ RollbacksRestore'
    <2> DEFINE row == [model |-> m, parent |-> head, rollbackOf |-> from]
    <2>1. row \in RevisionRows /\ row # None /\ row.model = m /\ row.parent = head /\ row.rollbackOf = from
      BY NoneAssumption DEF RevisionRows, TypeInv
    <2> HIDE DEF row
    <2>2. /\ head + 1 \in Revisions /\ head' = head + 1 /\ tables' = m /\ head \in Nat
          /\ revs' = [revs EXCEPT ![head + 1] = row]
      BY <1>3 DEF NewHead, row, TypeInv, Revisions
    <2>3. /\ revs' \in [Revisions -> RevisionRows \cup {None}] /\ revs'[head + 1] = row
          /\ \A r \in Revisions : r # head + 1 => revs'[r] = revs[r]
      BY <2>1, <2>2 DEF TypeInv
    <2>4. Rows(revs') = Rows(revs) \cup {head + 1}
      BY <2>1, <2>2, <2>3 DEF Rows, TypeInv
    <2>5. \A r \in Rows(revs) : r <= head /\ r # head + 1 /\ revs'[r] = revs[r] /\ r \in Revisions
      BY <2>2, <2>3, RevisionFields DEF HeadInv
    <2>10. ASSUME NEW r \in Rows(revs') PROVE r \in Nat /\ r <= head + 1
      <3>1. CASE r \in Rows(revs)
        <4>1. r \in Nat /\ r <= head
          BY <2>5, <3>1, RevisionFields
        <4> QED
          BY <2>2, <4>1
      <3>2. CASE r = head + 1
        BY <2>2, <3>2
      <3> QED
        BY <2>4, <3>1, <3>2
    <2>6. HeadInv'
      <3>1. revs'[head'] # None /\ revs'[head'].model = tables'
        BY <2>1, <2>2, <2>3
      <3>2. \A r \in Rows(revs') : r <= head'
        BY <2>2, <2>10
      <3> QED
        BY <3>1, <3>2 DEF HeadInv
    <2>7. head \in Rows(revs)
      BY DEF HeadInv, TypeInv, Rows
    <2>8. HistoryResolves'
      <3>1. ASSUME NEW r \in Rows(revs'), revs'[r].parent # None
            PROVE  revs'[revs'[r].parent] # None
        <4>1. CASE r = head + 1
          BY <2>1, <2>3, <2>5, <2>7, <4>1 DEF Rows
        <4>2. CASE r # head + 1
          <5>1. r \in Rows(revs) /\ revs'[r] = revs[r]
            BY <2>4, <2>5, <4>2
          <5>2. revs[r].parent \in Rows(revs)
            BY <3>1, <5>1, RevisionFields DEF HistoryResolves, Rows, TypeInv
          <5> QED
            BY <2>5, <5>1, <5>2 DEF Rows
        <4> QED
          BY <4>1, <4>2
      <3>2. ASSUME NEW r \in Rows(revs'), NEW s \in Rows(revs'), r < s, NEW t \in r..s
            PROVE  revs'[t] # None
        <4>0. r \in Nat /\ s \in Nat /\ t \in Nat
          BY <2>10
        <4>1. CASE t = head + 1
          BY <2>1, <2>3, <4>1
        <4>2. CASE t # head + 1
          <5>1. s <= head + 1 /\ r # head + 1 /\ r \in Rows(revs)
            <6>1. s <= head + 1
              BY <2>10
            <6>2. r # head + 1
              BY <2>2, <3>2, <4>0, <6>1
            <6> QED
              BY <2>4, <6>1, <6>2
          <5>2. r \in Rows(revs) /\ t <= head
            BY <2>2, <3>2, <4>0, <4>2, <5>1
          <5>3. t \in Rows(revs)
            <6>1. CASE r = t
              BY <5>2, <6>1
            <6>2. CASE r # t
              <7>1. r < head /\ t \in r..head
                BY <2>2, <3>2, <4>0, <5>2, <6>2
              <7>2. revs[t] # None
                BY <2>7, <5>2, <7>1 DEF HistoryResolves
              <7>3. t \in Revisions
                BY <2>2, <4>0, <5>2, RevisionFields, RowsAssumption, <3>2 DEF Revisions
              <7> QED
                BY <7>2, <7>3 DEF Rows, TypeInv
            <6> QED
              BY <6>1, <6>2
          <5> QED
            BY <2>5, <5>3 DEF Rows
        <4> QED
          BY <4>1, <4>2
      <3> QED
        BY <3>1, <3>2 DEF HistoryResolves
    <2>9. RollbacksRestore'
      <3>1. ASSUME NEW r \in Rows(revs'), revs'[r].rollbackOf # None
            PROVE  /\ revs'[revs'[r].rollbackOf] # None
                   /\ revs'[r].model = revs'[revs'[r].rollbackOf].model
        <4>1. CASE r = head + 1
          <5>1. from # None /\ revs'[r].rollbackOf = from /\ revs'[r].model = m
            BY <2>1, <2>3, <3>1, <4>1
          <5>2. from \in Rows(revs) /\ revs[from].model = m
            BY <1>3, <5>1 DEF NewHead, Rows, TypeInv
          <5> QED
            BY <2>5, <5>1, <5>2 DEF Rows
        <4>2. CASE r # head + 1
          <5>1. r \in Rows(revs) /\ revs'[r] = revs[r]
            BY <2>4, <2>5, <4>2
          <5>2. /\ revs[r].rollbackOf \in Rows(revs)
                /\ revs[r].model = revs[revs[r].rollbackOf].model
            BY <3>1, <5>1, RevisionFields DEF RollbacksRestore, Rows, TypeInv
          <5> QED
            BY <2>5, <5>1, <5>2 DEF Rows
        <4> QED
          BY <4>1, <4>2
      <3> QED
        BY <3>1 DEF RollbacksRestore
    <2> QED
      BY <2>2, <2>3, <2>6, <2>8, <2>9
  <1> QED
    BY <1>1, <1>2, <1>3

-----------------------------------------------------------------------------
(* What a step does to each row.                                           *)

(* A changeset: stays, committed ones to the letter; is created on a       *)
(* revision that is there; goes with its plans; is committed as the head.  *)
ChangesetIsNot(c) == changesets[c] = None /\ changesets'[c] = None
ChangesetStays(c) ==
  /\ changesets[c] # None /\ changesets'[c] # None
  /\ changesets'[c].base = changesets[c].base
  /\ changesets'[c].committed = changesets[c].committed
  /\ changesets'[c].state = "committed" <=> changesets[c].state = "committed"
  /\ changesets[c].committed # None => changesets'[c].patch = changesets[c].patch
ChangesetIsNew(c) ==
  /\ changesets[c] = None /\ changesets'[c] # None
  /\ changesets'[c].base \in Rows(revs)
  /\ changesets'[c].committed = None /\ changesets'[c].state = "open"
  /\ HistoryStays
ChangesetGoes(c) ==
  /\ changesets'[c] = None
  /\ \A p \in Plans : plans'[p] # None => plans'[p].cs # c
ChangesetIsCommitted(c) ==
  /\ changesets[c] # None /\ changesets[c].committed = None /\ changesets'[c] # None
  /\ changesets'[c].base = changesets[c].base /\ changesets'[c].patch = changesets[c].patch
  /\ changesets'[c].state = "committed" /\ changesets'[c].committed = head + 1
  /\ head' = head + 1
ChangesetsMove ==
  /\ changesets' \in [Changesets -> ChangesetRows \cup {None}]
  /\ \A c \in Changesets :
       \/ ChangesetIsNot(c) \/ ChangesetStays(c) \/ ChangesetIsNew(c)
       \/ ChangesetGoes(c) \/ ChangesetIsCommitted(c)

(* A plan: stays but for its state and its age; goes while it has no       *)
(* target; is sealed as a call made it; is committed as the head; is made  *)
(* for the head.                                                           *)
PlanStays(p) ==
  /\ plans[p] # None /\ plans'[p] # None
  /\ plans'[p].cs = plans[p].cs /\ plans'[p].base = plans[p].base
  /\ plans'[p].model = plans[p].model /\ plans'[p].patch = plans[p].patch
  /\ plans'[p].target = plans[p].target /\ plans'[p].epoch = plans[p].epoch
  /\ plans'[p].state \in Reserved <=> plans[p].state \in Reserved
  /\ plans'[p].state = "planned" => plans[p].state = "planned"
PlanGoes(p) == plans'[p] = None /\ (plans[p] # None => plans[p].target = None)
PlanIsSealed(p) ==
  /\ plans[p] = None /\ plans'[p] # None
  /\ plans'[p].state = "planned" /\ plans'[p].target = None
  /\ \E q \in Calls :
       /\ request[q] # None /\ request[q].pc = "seal"
       /\ plans'[p].cs = request[q].cs /\ plans'[p].base = request[q].base
       /\ plans'[p].model = request[q].model /\ plans'[p].patch = request[q].patch
       /\ request[q].cs \in Changesets /\ ChangesetStays(request[q].cs)
  /\ HistoryStays
PlanIsCommitted(p) ==
  /\ plans[p] # None /\ plans[p].state = "planned" /\ plans[p].base = head
  /\ plans[p].cs \in Changesets
  /\ plans'[p] # None
  /\ plans'[p].cs = plans[p].cs /\ plans'[p].base = plans[p].base
  /\ plans'[p].model = plans[p].model /\ plans'[p].patch = plans[p].patch
  /\ plans'[p].state = "committed" /\ plans'[p].target = head + 1
  /\ plans'[p].epoch = NextEpoch
  /\ ChangesetIsCommitted(plans[p].cs)
  /\ \E m \in Accepted(tables, changesets[plans[p].cs].patch) : NewHead(m, None)
PlanIsMade(p) ==
  /\ plans[p] = None /\ plans'[p] # None
  /\ plans'[p].cs = None /\ plans'[p].base = head /\ plans'[p].state = "committed"
  /\ plans'[p].target = head' /\ plans'[p].epoch = NextEpoch
  /\ HistoryStays \/ \E m \in Models, from \in Revisions \cup {None} : NewHead(m, from)
PlansMove ==
  /\ plans' \in [Plans -> PlanRows \cup {None}]
  /\ \/ \A p \in Plans : PlanStays(p) \/ PlanGoes(p)
     \/ \E x \in Plans :
          /\ PlanIsSealed(x) \/ PlanIsCommitted(x) \/ PlanIsMade(x)
          /\ \A p \in Plans \ {x} : PlanStays(p) \/ PlanGoes(p)

HistoryMoves ==
  \/ HistoryStays
  \/ Pruned
  \/ /\ \E m \in Models, from \in Revisions \cup {None} : NewHead(m, from)
     /\ \E p \in Plans : plans'[p] # None /\ plans'[p].target = head + 1

(* A row of an apply is one that was, or is of a plan that is committed.   *)
OpIsKnown(i) ==
  \E j \in DOMAIN ops : ops'[i].plan = ops[j].plan /\ ops'[i].revision = ops[j].revision
OpIsNew(i) ==
  \E p \in Plans : /\ plans[p] # None /\ plans[p].state \in Reserved
                   /\ ops'[i].plan = p /\ ops'[i].revision = plans[p].target
                   /\ HistoryStays
OpsMove ==
  /\ ops' \in Seq(OperationRows)
  /\ \A i \in DOMAIN ops' : OpIsKnown(i) \/ OpIsNew(i)

(* A call reads, makes its plan, or is done.                               *)
RequestStays(q) == request'[q] = request[q] \/ request'[q] = None
RequestReads(q) ==
  /\ request'[q] # None
  /\ \E c \in Changesets :
       /\ changesets[c] # None /\ changesets[c].committed = None
       /\ request'[q].cs = c /\ request'[q].base = changesets[c].base
  /\ request'[q].pc = "dry_run"
  /\ UNCHANGED store
RequestIsDry(q) ==
  /\ request[q] # None /\ request'[q] # None
  /\ request[q].pc = "dry_run" /\ request'[q].pc = "seal"
  /\ request'[q].cs = request[q].cs /\ request'[q].base = request[q].base
  /\ request'[q].patch = request[q].patch
  /\ request'[q].model \in Accepted(tables, request[q].patch)
  /\ UNCHANGED store
RequestReplans(q) ==
  /\ request'[q] # None /\ request'[q].pc = "replan"
  /\ request'[q].cs = None /\ request'[q].base = head /\ request'[q].model \in Models
  /\ UNCHANGED store
RequestsMove ==
  /\ request' \in [Calls -> RequestRows \cup {None}]
  /\ \A q \in Calls :
       RequestStays(q) \/ RequestReads(q) \/ RequestIsDry(q) \/ RequestReplans(q)

Moves == HistoryMoves /\ ChangesetsMove /\ PlansMove /\ OpsMove /\ RequestsMove

-----------------------------------------------------------------------------
(* What does not change moves.                                             *)

(* Changesets that nobody touches.                                         *)
LEMMA ChangesetsRest == TypeInv /\ UNCHANGED changesets => ChangesetsMove
  BY DEF TypeInv, ChangesetsMove, ChangesetIsNot, ChangesetStays

(* Plans that nobody touches.                                              *)
LEMMA PlansRest ==
  ASSUME TypeInv, UNCHANGED plans
  PROVE  PlansMove /\ \A p \in Plans : PlanStays(p) \/ PlanGoes(p)
  BY DEF TypeInv, PlansMove, PlanStays, PlanGoes

(* Applies that nobody touches.                                            *)
LEMMA OpsRest == TypeInv /\ UNCHANGED ops => OpsMove
  BY DEF TypeInv, OpsMove, OpIsKnown

(* Calls that make no step.                                                *)
LEMMA RequestsRest == TypeInv /\ UNCHANGED request => RequestsMove
  BY DEF TypeInv, RequestsMove, RequestStays

(* A row of a changeset, of a plan, of a call, of an apply.                *)
LEMMA ChangesetFields ==
  ASSUME TypeInv, NEW c \in Changesets, changesets[c] # None
  PROVE  /\ changesets[c] \in ChangesetRows
         /\ changesets[c].base \in Revisions /\ changesets[c].patch \in Seq(PatchOps)
         /\ changesets[c].committed \in Revisions \cup {None}
         /\ changesets[c].state \in ChangesetStates
  BY DEF TypeInv, ChangesetRows
(* A plan's.                                                               *)
LEMMA PlanFields ==
  ASSUME TypeInv, NEW p \in Plans, plans[p] # None
  PROVE  /\ plans[p] \in PlanRows
         /\ plans[p].cs \in Changesets \cup {None} /\ plans[p].base \in Revisions
         /\ plans[p].target \in Revisions \cup {None} /\ plans[p].epoch \in Nat
         /\ plans[p].model \in Models /\ plans[p].patch \in Seq(PatchOps)
         /\ plans[p].state \in PlanStates
  BY DEF TypeInv, PlanRows
(* A call's.                                                               *)
LEMMA RequestFields ==
  ASSUME TypeInv, NEW q \in Calls, request[q] # None
  PROVE  /\ request[q] \in RequestRows
         /\ request[q].cs \in Changesets \cup {None} /\ request[q].base \in Revisions
         /\ request[q].patch \in Seq(PatchOps) /\ request[q].model \in Models \cup {None}
  BY DEF TypeInv, RequestRows
(* An apply's.                                                             *)
LEMMA OpFields ==
  ASSUME TypeInv, NEW i \in DOMAIN ops
  PROVE  /\ ops[i] \in OperationRows /\ ops[i].plan \in Plans
         /\ ops[i].revision \in Revisions /\ ops[i].epoch \in Nat
         /\ DOMAIN ops = 1..Len(ops) /\ Len(ops) \in Nat
  <1>1. ops \in Seq(OperationRows)
    BY DEF TypeInv
  <1>2. ops[i] \in OperationRows /\ DOMAIN ops = 1..Len(ops) /\ Len(ops) \in Nat
    BY <1>1
  <1> QED
    BY <1>2 DEF OperationRows

-----------------------------------------------------------------------------
(* Editing.                                                                *)

(* A changeset is created on a revision that is there.                     *)
LEMMA CreateMoves ==
  ASSUME TypeInv, NEW c \in Changesets, NEW base \in Revisions, CreateChangeset(c, base)
  PROVE  Moves
  <1> DEFINE row == [state |-> "open", base |-> base, patch |-> <<>>, committed |-> None]
  <1>1. row \in ChangesetRows /\ row # None /\ row.base = base
        /\ row.committed = None /\ row.state = "open"
    <2>1. <<>> \in Seq(PatchOps)
      OBVIOUS
    <2>2. row \in ChangesetRows
      BY <2>1 DEF ChangesetRows, ChangesetStates
    <2> QED
      BY <2>2, NoneAssumption
  <1>2. changesets[c] = None /\ base \in Rows(revs) /\ changesets' = [changesets EXCEPT ![c] = row]
        /\ UNCHANGED <<tables, head, revs, plans, ops, request>>
    BY DEF CreateChangeset, Rows, TypeInv
  <1> HIDE DEF row
  <1>3. changesets'[c] = row /\ (\A d \in Changesets : d # c => changesets'[d] = changesets[d])
        /\ changesets' \in [Changesets -> ChangesetRows \cup {None}]
    BY <1>1, <1>2 DEF TypeInv
  <1>4. ChangesetIsNew(c)
    BY <1>1, <1>2, <1>3 DEF ChangesetIsNew, HistoryStays
  <1>5. \A d \in Changesets : d # c => ChangesetIsNot(d) \/ ChangesetStays(d)
    BY <1>3 DEF ChangesetIsNot, ChangesetStays
  <1>6. ChangesetsMove
    BY <1>3, <1>4, <1>5 DEF ChangesetsMove
  <1> QED
    BY <1>2, <1>6, PlansRest, OpsRest, RequestsRest DEF Moves, HistoryMoves, HistoryStays

(* A changeset that changes its state or its patch before it is committed. *)
LEMMA ChangesetEdited ==
  ASSUME TypeInv, NEW c \in Changesets, NEW row \in ChangesetRows, changesets[c] # None,
         changesets' = [changesets EXCEPT ![c] = row],
         row.base = changesets[c].base, row.committed = changesets[c].committed,
         row.state = "committed" <=> changesets[c].state = "committed",
         changesets[c].committed # None => row.patch = changesets[c].patch
  PROVE  ChangesetsMove /\ ChangesetStays(c)
  <1>1. changesets'[c] = row /\ (\A d \in Changesets : d # c => changesets'[d] = changesets[d])
        /\ changesets' \in [Changesets -> ChangesetRows \cup {None}]
    BY DEF TypeInv
  <1>2. ChangesetStays(c)
    BY <1>1, NoneAssumption DEF ChangesetStays
  <1>3. \A d \in Changesets : d # c => ChangesetIsNot(d) \/ ChangesetStays(d)
    BY <1>1 DEF ChangesetIsNot, ChangesetStays
  <1> QED
    BY <1>1, <1>2, <1>3 DEF ChangesetsMove

(* A patch grows while the changeset is open.                              *)
LEMMA PatchMoves ==
  ASSUME TypeInv, ChangesetsInv, NEW c \in Changesets, NEW edit \in Edits, PatchChangeset(c, edit)
  PROVE  Moves
  <1> DEFINE row == [changesets[c] EXCEPT !.patch = @ \o edit]
  <1>1. changesets[c] # None /\ changesets[c].state = "open"
        /\ changesets' = [changesets EXCEPT ![c] = row]
        /\ UNCHANGED <<tables, head, revs, plans, ops, request>>
    BY DEF PatchChangeset
  <1>2. edit \in Seq(PatchOps)
    BY ModelAssumption
  <1>3. changesets[c].patch \o edit \in Seq(PatchOps)
    BY <1>1, <1>2, ChangesetFields
  <1>4. row \in ChangesetRows /\ row.base = changesets[c].base
        /\ row.committed = changesets[c].committed /\ row.state = changesets[c].state
    BY <1>1, <1>3, ChangesetFields DEF ChangesetRows
  <1>5. changesets[c].committed = None
    BY <1>1 DEF ChangesetsInv, TypeInv, Rows
  <1> HIDE DEF row
  <1>6. ChangesetsMove
    BY <1>1, <1>4, <1>5, ChangesetEdited
  <1> QED
    BY <1>1, <1>6, PlansRest, OpsRest, RequestsRest DEF Moves, HistoryMoves, HistoryStays

(* plan reads a changeset that is not committed.                           *)
LEMMA ReadMoves ==
  ASSUME TypeInv, ChangesetsInv, NEW q \in Calls, NEW c \in Changesets, PlanRead(q, c)
  PROVE  Moves
  <1> DEFINE row == [pc |-> "dry_run", cs |-> c, base |-> changesets[c].base,
                     patch |-> changesets[c].patch, model |-> None]
  <1>1. changesets[c] # None /\ changesets[c].state \in {"open", "sealed"}
        /\ request' = [request EXCEPT ![q] = row] /\ UNCHANGED store
    BY DEF PlanRead
  <1>2. row \in RequestRows
    BY <1>1, ChangesetFields DEF RequestRows
  <1>3. changesets[c].committed = None
    BY <1>1 DEF ChangesetsInv, TypeInv, Rows
  <1>4. row.pc = "dry_run" /\ row.cs = c /\ row.base = changesets[c].base
    OBVIOUS
  <1> HIDE DEF row
  <1>5. request'[q] = row /\ (\A r \in Calls : r # q => request'[r] = request[r])
        /\ request' \in [Calls -> RequestRows \cup {None}]
    BY <1>1, <1>2 DEF TypeInv
  <1>6. RequestReads(q) \/ RequestStays(q)
    BY <1>1, <1>3, <1>4, <1>5 DEF RequestReads, RequestStays
  <1>7. RequestsMove
    BY <1>5, <1>6 DEF RequestsMove, RequestStays
  <1> QED
    BY <1>1, <1>7, ChangesetsRest, PlansRest, OpsRest DEF Moves, HistoryMoves, HistoryStays, store

(* plan applies the patch to the tables, or is done.                       *)
LEMMA DryRunMoves ==
  ASSUME TypeInv, NEW q \in Calls, PlanDryRun(q)
  PROVE  Moves
  <1>1. request[q] # None /\ request[q].pc = "dry_run" /\ UNCHANGED store
        /\ (\/ \E m \in Accepted(tables, request[q].patch) :
                 request' = [request EXCEPT ![q].pc = "seal", ![q].model = m]
            \/ request' = [request EXCEPT ![q] = None])
    BY DEF PlanDryRun
  <1>2. ASSUME NEW m \in Accepted(tables, request[q].patch),
               request' = [request EXCEPT ![q].pc = "seal", ![q].model = m]
        PROVE  RequestsMove
    <2> DEFINE row == [[request[q] EXCEPT !.pc = "seal"] EXCEPT !.model = m]
    <2>1. m \in Models
      BY <1>1, RequestFields, AcceptedType DEF TypeInv
    <2>2. row \in RequestRows /\ row.pc = "seal" /\ row.cs = request[q].cs
          /\ row.base = request[q].base /\ row.patch = request[q].patch /\ row.model = m
      BY <1>1, <2>1, RequestFields DEF RequestRows
    <2>3. request' = [request EXCEPT ![q] = row]
      BY <1>2 DEF TypeInv
    <2> HIDE DEF row
    <2>4. request'[q] = row /\ (\A r \in Calls : r # q => request'[r] = request[r])
          /\ request' \in [Calls -> RequestRows \cup {None}]
      BY <2>2, <2>3 DEF TypeInv
    <2>5. RequestIsDry(q) \/ RequestStays(q)
      BY <1>1, <2>2, <2>4 DEF RequestIsDry, RequestStays
    <2> QED
      BY <2>4, <2>5 DEF RequestsMove, RequestStays
  <1>3. ASSUME request' = [request EXCEPT ![q] = None] PROVE RequestsMove
    BY <1>3 DEF TypeInv, RequestsMove, RequestStays
  <1>4. RequestsMove
    BY <1>1, <1>2, <1>3
  <1> QED
    BY <1>1, <1>4, ChangesetsRest, PlansRest, OpsRest DEF Moves, HistoryMoves, HistoryStays, store

(* A retry takes the head as it is.                                        *)
LEMMA ReplanReadMoves ==
  ASSUME TypeInv, HeadInv, NEW q \in Calls, ReplanRead(q)
  PROVE  Moves
  <1> DEFINE row == [pc |-> "replan", cs |-> None, base |-> head, patch |-> <<>>,
                     model |-> revs[head].model]
  <1>1. request' = [request EXCEPT ![q] = row] /\ UNCHANGED store
    BY DEF ReplanRead
  <1>2. row \in RequestRows /\ row.pc = "replan" /\ row.cs = None /\ row.base = head
        /\ row.model \in Models
    BY DEF RequestRows, HeadInv, TypeInv
  <1> HIDE DEF row
  <1>3. request'[q] = row /\ (\A r \in Calls : r # q => request'[r] = request[r])
        /\ request' \in [Calls -> RequestRows \cup {None}]
    BY <1>1, <1>2 DEF TypeInv
  <1>4. RequestReplans(q) \/ RequestStays(q)
    BY <1>1, <1>2, <1>3 DEF RequestReplans, RequestStays
  <1>5. RequestsMove
    BY <1>3, <1>4 DEF RequestsMove, RequestStays
  <1> QED
    BY <1>1, <1>5, ChangesetsRest, PlansRest, OpsRest DEF Moves, HistoryMoves, HistoryStays, store

-----------------------------------------------------------------------------
(* Planning, expiring and committing.                                      *)

(* Of every plan only one changes.                                         *)
LEMMA PlanChanges ==
  ASSUME TypeInv, NEW p \in Plans, NEW row \in PlanRows \cup {None},
         plans' = [plans EXCEPT ![p] = row]
  PROVE  /\ plans'[p] = row /\ plans' \in [Plans -> PlanRows \cup {None}]
         /\ \A x \in Plans : x # p => plans'[x] = plans[x] /\ (PlanStays(x) \/ PlanGoes(x))
  <1>1. plans'[p] = row /\ plans' \in [Plans -> PlanRows \cup {None}]
        /\ \A x \in Plans : x # p => plans'[x] = plans[x]
    BY DEF TypeInv
  <1> QED
    BY <1>1 DEF PlanStays, PlanGoes

(* A plan that changes its state or its age, and is not planned again.     *)
LEMMA PlanEdited ==
  ASSUME TypeInv, NEW p \in Plans, NEW row \in PlanRows, plans[p] # None,
         plans' = [plans EXCEPT ![p] = row],
         row.cs = plans[p].cs, row.base = plans[p].base, row.model = plans[p].model,
         row.patch = plans[p].patch, row.target = plans[p].target, row.epoch = plans[p].epoch,
         row.state \in Reserved <=> plans[p].state \in Reserved,
         row.state = "planned" => plans[p].state = "planned"
  PROVE  PlansMove
  <1>1. /\ plans'[p] = row /\ plans' \in [Plans -> PlanRows \cup {None}]
        /\ \A x \in Plans : x # p => plans'[x] = plans[x] /\ (PlanStays(x) \/ PlanGoes(x))
    BY PlanChanges
  <1>2. PlanStays(p)
    BY <1>1, NoneAssumption DEF PlanStays
  <1> QED
    BY <1>1, <1>2 DEF PlansMove

(* The dry run's model becomes a plan and the changeset is sealed.         *)
LEMMA SealMoves ==
  ASSUME TypeInv, RequestsInv, NEW q \in Calls, PlanSeal(q)
  PROVE  Moves
  <1> DEFINE r == request[q]
  <1>1. r # None /\ r.pc = "seal" /\ request' = [request EXCEPT ![q] = None]
    BY DEF PlanSeal
  <1>2. RequestsMove
    BY <1>1 DEF TypeInv, RequestsMove, RequestStays
  <1>3. /\ r.cs \in Changesets /\ r.base \in Revisions /\ r.patch \in Seq(PatchOps)
        /\ r.model \in Models
    BY <1>1, RequestFields DEF RequestsInv, RequestIsRight, TypeInv, Rows
  <1>4. CASE changesets[r.cs] = None
    <2>1. UNCHANGED store
      BY <1>1, <1>4 DEF PlanSeal
    <2> QED
      BY <1>2, <2>1, ChangesetsRest, PlansRest, OpsRest DEF Moves, HistoryMoves, HistoryStays, store
  <1>5. CASE changesets[r.cs] # None
    <2> DEFINE sealed == [changesets[r.cs] EXCEPT
                            !.state = IF @ \in {"open", "sealed"} THEN "sealed" ELSE @]
               row == [cs |-> r.cs, state |-> "planned", base |-> r.base, model |-> r.model,
                       target |-> None, epoch |-> 0, digest |-> Digest(r.model),
                       late |-> FALSE, patch |-> r.patch]
    <2>1. /\ changesets' = [changesets EXCEPT ![r.cs] = sealed]
          /\ UNCHANGED <<tables, head, revs, ops>>
      BY <1>5 DEF PlanSeal
    <2>2. PICK p \in FreePlans : plans' = [plans EXCEPT ![p] = row]
      BY <1>5 DEF PlanSeal
    <2>3. row \in PlanRows
      BY <1>3, DigestType DEF PlanRows, PlanStates
    <2>4. /\ row.cs = r.cs /\ row.base = r.base /\ row.model = r.model /\ row.patch = r.patch
          /\ row.state = "planned" /\ row.target = None
      OBVIOUS
    <2>5. /\ sealed \in ChangesetRows /\ sealed.base = changesets[r.cs].base
          /\ sealed.committed = changesets[r.cs].committed
          /\ sealed.patch = changesets[r.cs].patch
          /\ sealed.state = "committed" <=> changesets[r.cs].state = "committed"
      BY <1>3, <1>5, ChangesetFields DEF ChangesetRows, ChangesetStates
    <2> HIDE DEF r, sealed, row
    <2>6. ChangesetsMove /\ ChangesetStays(r.cs)
      BY <1>3, <1>5, <2>1, <2>5, ChangesetEdited
    <2>7. p \in Plans /\ plans[p] = None
      BY <2>2 DEF FreePlans
    <2>8. /\ plans'[p] = row /\ plans' \in [Plans -> PlanRows \cup {None}]
          /\ \A x \in Plans : x # p => plans'[x] = plans[x] /\ (PlanStays(x) \/ PlanGoes(x))
      BY <2>2, <2>3, <2>7, PlanChanges
    <2>9. PlanIsSealed(p)
      BY <1>1, <1>3, <2>1, <2>3, <2>4, <2>6, <2>7, <2>8, NoneAssumption
        DEF PlanIsSealed, HistoryStays, r
    <2>10. PlansMove
      BY <2>7, <2>8, <2>9 DEF PlansMove
    <2> QED
      BY <1>2, <2>1, <2>6, <2>10, OpsRest DEF Moves, HistoryMoves, HistoryStays
  <1> QED
    BY <1>4, <1>5

(* The plans of a changeset that is reopened or discarded expire.          *)
LEMMA ExpiredMove ==
  ASSUME TypeInv, NEW c \in Changesets, plans' = PlansExpired(c)
  PROVE  PlansMove
  <1>1. ASSUME NEW p \in Plans
        PROVE  plans'[p] \in PlanRows \cup {None} /\ (PlanStays(p) \/ PlanGoes(p))
    <2>1. plans'[p] = IF PlanIn(p, {"planned"}) /\ plans[p].cs = c
                      THEN [plans[p] EXCEPT !.state = "expired"] ELSE plans[p]
      BY DEF PlansExpired
    <2>2. CASE PlanIn(p, {"planned"}) /\ plans[p].cs = c
      <3> DEFINE row == [plans[p] EXCEPT !.state = "expired"]
      <3>1. plans[p] # None /\ plans[p].state = "planned"
        BY <2>2 DEF PlanIn
      <3>2. plans[p] \in PlanRows
        BY <3>1, PlanFields
      <3>3. /\ row \in PlanRows /\ row.cs = plans[p].cs /\ row.base = plans[p].base
            /\ row.model = plans[p].model /\ row.patch = plans[p].patch /\ row.state = "expired"
            /\ row.target = plans[p].target /\ row.epoch = plans[p].epoch
        BY <3>2, StatedRow DEF PlanStates
      <3>4. plans'[p] = row
        BY <2>1, <2>2
      <3> HIDE DEF row
      <3> QED
        BY <3>1, <3>3, <3>4, NoneAssumption DEF PlanStays, Reserved
    <2>3. CASE ~(PlanIn(p, {"planned"}) /\ plans[p].cs = c)
      BY <2>1, <2>3 DEF PlanStays, PlanGoes, TypeInv
    <2> QED
      BY <2>2, <2>3
  <1>2. plans' = [p \in Plans |-> plans'[p]]
    BY DEF PlansExpired
  <1>3. plans' \in [Plans -> PlanRows \cup {None}]
    BY <1>1, <1>2
  <1> QED
    BY <1>1, <1>3 DEF PlansMove

(* reopen and discardChangeset.                                            *)
LEMMA ReopenMoves ==
  ASSUME TypeInv, NEW c \in Changesets, Reopen(c) \/ DiscardChangeset(c)
  PROVE  Moves
  <1>1. PICK s \in {"open", "discarded"} :
          /\ changesets[c] # None /\ changesets[c].state \in {"open", "sealed"}
          /\ changesets' = [changesets EXCEPT ![c].state = s]
          /\ plans' = PlansExpired(c) /\ UNCHANGED <<tables, head, revs, ops, request>>
    BY DEF Reopen, DiscardChangeset
  <1> DEFINE row == [changesets[c] EXCEPT !.state = s]
  <1>2. /\ row \in ChangesetRows /\ row.base = changesets[c].base
        /\ row.committed = changesets[c].committed /\ row.patch = changesets[c].patch
        /\ row.state # "committed" /\ changesets[c].state # "committed"
    BY <1>1, ChangesetFields DEF ChangesetRows, ChangesetStates
  <1>3. changesets' = [changesets EXCEPT ![c] = row]
    BY <1>1
  <1> HIDE DEF row
  <1>4. ChangesetsMove
    BY <1>1, <1>2, <1>3, ChangesetEdited
  <1>5. PlansMove
    BY <1>1, ExpiredMove
  <1> QED
    BY <1>1, <1>4, <1>5, OpsRest, RequestsRest DEF Moves, HistoryMoves, HistoryStays

(* A commit: of a plan that is based on the head, whose changeset nobody   *)
(* committed before it.                                                    *)
LEMMA CommitMoves ==
  ASSUME TypeInv, HeadInv, PlansInv, RowsResolve, NEW p \in Plans, Commit(p)
  PROVE  Moves
  <1> DEFINE c == plans[p].cs
  <1>1. plans[p] # None /\ plans[p].state = "planned" /\ plans[p].base = head
        /\ head + 1 \in Revisions
    BY DEF Commit, Committable, PlanIn, NextRevision
  <1>2. c \in Changesets /\ changesets[c] # None /\ changesets[c].committed = None
    <2>1. /\ plans[p].target = None /\ plans[p].cs # None
          /\ changesets[c].committed # None => plans[p].base < head
      BY <1>1 DEF PlansInv, PlanIsRight, Rows, TypeInv, Reserved
    <2>2. ~(head < head)
      BY DEF TypeInv, Revisions
    <2> QED
      BY <1>1, <2>1, <2>2, PlanFields DEF RowsResolve, Rows, TypeInv
  <1>3. PICK m \in Accepted(tables, changesets[c].patch) :
          /\ tables' = m
          /\ revs' = [revs EXCEPT ![NextRevision] =
               [model |-> m, parent |-> head, rollbackOf |-> None]]
          /\ plans' = [plans EXCEPT ![p].state = "committed", ![p].target = NextRevision,
                                    ![p].epoch = NextEpoch, ![p].digest = Digest(m)]
    BY DEF Commit, CommittedModels
  <1>4. /\ head' = head + 1 /\ UNCHANGED <<ops, request>>
        /\ changesets' = [changesets EXCEPT ![c].state = "committed", ![c].committed = head + 1]
    BY DEF Commit, NextRevision
  <1>5. m \in Models
    BY <1>2, <1>3, ChangesetFields, AcceptedType DEF TypeInv
  <1>6. NewHead(m, None)
    BY <1>1, <1>3, <1>4, <1>5 DEF NewHead, NextRevision
  <1> DEFINE done == [[changesets[c] EXCEPT !.state = "committed"] EXCEPT !.committed = head + 1]
             row == [[[[plans[p] EXCEPT !.state = "committed"] EXCEPT !.target = head + 1]
                        EXCEPT !.epoch = NextEpoch] EXCEPT !.digest = Digest(m)]
  <1>7. /\ done \in ChangesetRows /\ done.base = changesets[c].base
        /\ done.patch = changesets[c].patch /\ done.state = "committed"
        /\ done.committed = head + 1
    BY <1>1, <1>2, ChangesetFields DEF ChangesetRows, ChangesetStates
  <1>8. /\ row \in PlanRows /\ row.cs = c /\ row.base = plans[p].base
        /\ row.model = plans[p].model /\ row.patch = plans[p].patch
        /\ row.state = "committed" /\ row.target = head + 1 /\ row.epoch = NextEpoch
    <2>1. plans[p] \in PlanRows /\ NextEpoch \in Nat /\ Digest(m) \in Models
      BY <1>1, <1>5, PlanFields, NextEpochOutranks, DigestType
    <2> DEFINE x == plans[p]
               e == NextEpoch
               d == Digest(m)
               t == head + 1
    <2>2. x \in PlanRows /\ e \in Nat /\ d \in Models /\ t \in Revisions
      BY <1>1, <2>1
    <2>3. row = [[[[x EXCEPT !.state = "committed"] EXCEPT !.target = t] EXCEPT !.epoch = e]
                   EXCEPT !.digest = d]
      OBVIOUS
    <2> HIDE DEF row, x, e, d, t
    <2>4. row = [cs |-> x.cs, state |-> "committed", base |-> x.base, model |-> x.model,
                 target |-> t, epoch |-> e, digest |-> d, late |-> x.late, patch |-> x.patch]
      BY <2>2, <2>3 DEF PlanRows
    <2>5. /\ row \in PlanRows /\ row.cs = x.cs /\ row.base = x.base
          /\ row.model = x.model /\ row.patch = x.patch
          /\ row.state = "committed" /\ row.target = t /\ row.epoch = e
      BY <2>2, <2>4 DEF PlanRows, PlanStates
    <2> QED
      BY <2>5 DEF x, e, t
  <1>9. changesets' = [changesets EXCEPT ![c] = done]
    BY <1>2, <1>4 DEF TypeInv
  <1>10. plans' = [plans EXCEPT ![p] = row]
    BY <1>3 DEF TypeInv, NextRevision
  <1> HIDE DEF c, done, row
  <1>11. /\ changesets'[c] = done /\ changesets' \in [Changesets -> ChangesetRows \cup {None}]
         /\ \A d \in Changesets : d # c => changesets'[d] = changesets[d]
    BY <1>2, <1>7, <1>9 DEF TypeInv
  <1>12. ChangesetIsCommitted(c)
    BY <1>2, <1>4, <1>7, <1>11, NoneAssumption DEF ChangesetIsCommitted
  <1>13. \A d \in Changesets : d # c => ChangesetIsNot(d) \/ ChangesetStays(d)
    BY <1>11 DEF ChangesetIsNot, ChangesetStays
  <1>14. ChangesetsMove
    BY <1>11, <1>12, <1>13 DEF ChangesetsMove
  <1>15. /\ plans'[p] = row /\ plans' \in [Plans -> PlanRows \cup {None}]
         /\ \A x \in Plans : x # p => plans'[x] = plans[x] /\ (PlanStays(x) \/ PlanGoes(x))
    BY <1>8, <1>10, PlanChanges
  <1>16. PlanIsCommitted(p)
    BY <1>1, <1>2, <1>3, <1>6, <1>8, <1>12, <1>15, NoneAssumption DEF PlanIsCommitted, c
  <1>17. PlansMove
    BY <1>15, <1>16 DEF PlansMove
  <1>18. HistoryMoves
    BY <1>5, <1>6, <1>16 DEF HistoryMoves, PlanIsCommitted
  <1> QED
    BY <1>4, <1>14, <1>17, <1>18, OpsRest, RequestsRest DEF Moves

(* A rollback: what its source holds becomes the head, with a plan.        *)
LEMMA RollbackMoves ==
  ASSUME TypeInv, HeadInv, NEW r \in Revisions, RollbackTo(r)
  PROVE  Moves
  <1>1. /\ revs[r] # None /\ r < head /\ head + 1 \in Revisions /\ head' = head + 1
        /\ UNCHANGED <<changesets, ops, request>>
    BY DEF RollbackTo, NextRevision
  <1>2. PICK p \in FreePlans, m \in Rebuilt(tables, revs[r].model) :
          /\ tables' = m
          /\ revs' = [revs EXCEPT ![head + 1] = [model |-> m, parent |-> head, rollbackOf |-> r]]
          /\ plans' = [plans EXCEPT ![p] = CommittedPlan(head, head + 1, m)]
    BY DEF RollbackTo, NextRevision
  <1>3. p \in Plans /\ plans[p] = None
    BY <1>2 DEF FreePlans
  <1>4. revs[r].model \in Models /\ r \in Nat /\ head \in Nat /\ head \in Revisions
    BY <1>1, RevisionFields DEF Rows, TypeInv, Revisions
  <1>5. m = revs[r].model /\ m \in Models
    BY <1>2, <1>4, RebuiltRestores DEF TypeInv
  <1>6. NewHead(m, r)
    BY <1>1, <1>2, <1>4, <1>5 DEF NewHead
  <1> DEFINE row == CommittedPlan(head, head + 1, m)
  <1>7. row \in PlanRows /\ row.cs = None /\ row.base = head /\ row.state = "committed"
        /\ row.target = head + 1 /\ row.epoch = NextEpoch
    BY <1>1, <1>4, <1>5, CommittedPlanRow
  <1>8. plans' = [plans EXCEPT ![p] = row]
    BY <1>2
  <1> HIDE DEF row
  <1>9. /\ plans'[p] = row /\ plans' \in [Plans -> PlanRows \cup {None}]
        /\ \A x \in Plans : x # p => plans'[x] = plans[x] /\ (PlanStays(x) \/ PlanGoes(x))
    BY <1>3, <1>7, <1>8, PlanChanges
  <1>10. PlanIsMade(p)
    BY <1>1, <1>3, <1>5, <1>6, <1>7, <1>9, NoneAssumption DEF PlanIsMade
  <1>11. PlansMove
    BY <1>3, <1>9, <1>10 DEF PlansMove
  <1>12. HistoryMoves
    BY <1>1, <1>3, <1>5, <1>6, <1>10 DEF HistoryMoves, PlanIsMade
  <1> QED
    BY <1>1, <1>11, <1>12, ChangesetsRest, OpsRest, RequestsRest DEF Moves

(* A retry stores another plan, if the head is still what it saw.          *)
LEMMA ReplanInsertMoves ==
  ASSUME TypeInv, RequestsInv, NEW q \in Calls, ReplanInsert(q)
  PROVE  Moves
  <1> DEFINE r == request[q]
  <1>1. r # None /\ r.pc = "replan" /\ request' = [request EXCEPT ![q] = None]
    BY DEF ReplanInsert
  <1>2. RequestsMove
    BY <1>1 DEF TypeInv, RequestsMove, RequestStays
  <1>3. CASE UNCHANGED store
    BY <1>2, <1>3, ChangesetsRest, PlansRest, OpsRest DEF Moves, HistoryMoves, HistoryStays, store
  <1>4. CASE ~UNCHANGED store
    <2>1. PICK p \in FreePlans :
            /\ plans' = [plans EXCEPT ![p] = CommittedPlan(r.base, r.base, r.model)]
            /\ UNCHANGED <<tables, head, revs, changesets, ops>>
      BY <1>4 DEF ReplanInsert
    <2>2. head = r.base
      BY <1>4 DEF ReplanInsert, StillHead
    <2>3. r.base \in Revisions /\ r.model \in Models
      BY <1>1, RequestFields DEF RequestsInv, RequestIsRight, TypeInv, Rows
    <2> DEFINE row == CommittedPlan(r.base, r.base, r.model)
    <2>4. row \in PlanRows /\ row.cs = None /\ row.base = head /\ row.state = "committed"
          /\ row.target = head /\ row.epoch = NextEpoch
      BY <2>2, <2>3, CommittedPlanRow
    <2>5. plans' = [plans EXCEPT ![p] = row]
      BY <2>1
    <2> HIDE DEF row, r
    <2>6. p \in Plans /\ plans[p] = None
      BY DEF FreePlans
    <2>7. /\ plans'[p] = row /\ plans' \in [Plans -> PlanRows \cup {None}]
          /\ \A x \in Plans : x # p => plans'[x] = plans[x] /\ (PlanStays(x) \/ PlanGoes(x))
      BY <2>4, <2>5, <2>6, PlanChanges
    <2>8. PlanIsMade(p)
      BY <2>1, <2>4, <2>6, <2>7, NoneAssumption DEF PlanIsMade, HistoryStays
    <2>9. PlansMove
      BY <2>6, <2>7, <2>8 DEF PlansMove
    <2> QED
      BY <1>2, <2>1, <2>9, ChangesetsRest, OpsRest DEF Moves, HistoryMoves, HistoryStays
  <1> QED
    BY <1>3, <1>4

(* A plan's time passes.                                                   *)
LEMMA OutlivedMoves ==
  ASSUME TypeInv, NEW p \in Plans, PlanOutlived(p)
  PROVE  Moves
  <1> DEFINE row == [plans[p] EXCEPT !.late = TRUE]
  <1>1. plans[p] # None /\ plans' = [plans EXCEPT ![p] = row]
        /\ UNCHANGED <<tables, head, revs, changesets, ops, request>>
    BY DEF PlanOutlived, PlanIn
  <1>2. /\ row \in PlanRows /\ row.cs = plans[p].cs /\ row.base = plans[p].base
        /\ row.model = plans[p].model /\ row.patch = plans[p].patch
        /\ row.target = plans[p].target /\ row.epoch = plans[p].epoch
        /\ row.state = plans[p].state
    BY <1>1, PlanFields DEF PlanRows
  <1> HIDE DEF row
  <1>3. PlansMove
    BY <1>1, <1>2, PlanEdited
  <1> QED
    BY <1>1, <1>3, ChangesetsRest, OpsRest, RequestsRest DEF Moves, HistoryMoves, HistoryStays

-----------------------------------------------------------------------------
(* Applying and sweeping.                                                  *)

(* An apply of a committed plan begins.                                    *)
LEMMA ClaimMoves ==
  ASSUME TypeInv, PlansInv, NEW p \in Plans, Claim(p)
  PROVE  Moves
  <1>1. plans[p] # None /\ plans[p].state \in Reserved
        /\ UNCHANGED <<tables, head, revs, changesets, request>>
    BY DEF Claim, PlanIn, Reserved
  <1>2. plans[p].target \in Revisions
    BY <1>1, PlanFields DEF PlansInv, PlanIsRight, Rows, TypeInv
  <1>3. ASSUME NEW e \in Nat, ops' = Append(ops, Row(p, e)) PROVE OpsMove
    <2> DEFINE row == Row(p, e)
    <2>1. row \in OperationRows /\ row.plan = p /\ row.revision = plans[p].target
      BY <1>2 DEF Row, OperationRows, OpenPhases
    <2>2. ops \in Seq(OperationRows)
      BY DEF TypeInv
    <2> HIDE DEF row
    <2>3. ops' \in Seq(OperationRows) /\ DOMAIN ops' = 1..(Len(ops) + 1)
          /\ ops'[Len(ops) + 1] = row /\ \A i \in 1..Len(ops) : ops'[i] = ops[i]
      BY <1>3, <2>1, <2>2 DEF row
    <2>4. ASSUME NEW i \in DOMAIN ops' PROVE OpIsKnown(i) \/ OpIsNew(i)
      <3>1. CASE i = Len(ops) + 1
        BY <1>1, <2>1, <2>3, <3>1 DEF OpIsNew, HistoryStays
      <3>2. CASE i # Len(ops) + 1
        <4>1. i \in DOMAIN ops /\ ops'[i] = ops[i]
          BY <2>2, <2>3, <3>2
        <4> QED
          BY <4>1 DEF OpIsKnown
      <3> QED
        BY <3>1, <3>2
    <2> QED
      BY <2>3, <2>4 DEF OpsMove
  <1>4. OpsMove
    <2>1. PICK e \in Nat : ops' = Append(ops, Row(p, e))
      <3>1. plans[p].epoch \in Nat /\ \A i \in Activated : ops[i].epoch \in Nat
        BY <1>1, PlanFields, OpFields DEF Activated
      <3> QED
        BY <3>1 DEF Claim
    <2> QED
      BY <1>3, <2>1
  <1>5. PlansMove
    <2>1. CASE UNCHANGED plans
      BY <2>1, PlansRest
    <2>2. CASE ~UNCHANGED plans
      <3> DEFINE s == IF plans[p].state = "committed" THEN "operation_bound" ELSE plans[p].state
                 row == [plans[p] EXCEPT !.state = s]
      <3>1. plans' = [plans EXCEPT ![p] = row]
        BY <2>2 DEF Claim
      <3>2. s \in PlanStates /\ s \in Reserved
        BY <1>1 DEF PlanStates, Reserved
      <3> HIDE DEF s
      <3>3. /\ row \in PlanRows /\ row.cs = plans[p].cs /\ row.base = plans[p].base
            /\ row.model = plans[p].model /\ row.patch = plans[p].patch
            /\ row.target = plans[p].target /\ row.epoch = plans[p].epoch /\ row.state = s
        BY <1>1, <3>2, PlanFields, StatedRow
      <3> HIDE DEF row
      <3> QED
        BY <1>1, <3>1, <3>2, <3>3, PlanEdited DEF Reserved
    <2> QED
      BY <2>1, <2>2
  <1> QED
    BY <1>1, <1>4, <1>5, ChangesetsRest, RequestsRest DEF Moves, HistoryMoves, HistoryStays

(* An apply ends.                                                          *)
LEMMA SettleMoves ==
  ASSUME TypeInv, OpsInv, NEW i \in DOMAIN ops, Settle(i)
  PROVE  Moves
  <1>1. PICK phase \in {"activated", "failed", "partial_exhausted"} :
          /\ ops' = [ops EXCEPT ![i].phase = phase]
          /\ plans' = [plans EXCEPT ![ops[i].plan].state =
                         IF phase = "activated" THEN "applied" ELSE @]
    BY DEF Settle
  <1>2. UNCHANGED <<tables, head, revs, changesets, request>>
    BY DEF Settle
  <1>3. OpsMove
    <2> DEFINE row == [ops[i] EXCEPT !.phase = phase]
    <2>1. ops \in Seq(OperationRows) /\ ops[i] \in OperationRows
      BY OpFields DEF TypeInv
    <2>2. row \in OperationRows /\ row.plan = ops[i].plan /\ row.revision = ops[i].revision
      BY <2>1 DEF OperationRows, TerminalPhases
    <2>3. ops' = [ops EXCEPT ![i] = row]
      BY <1>1
    <2> HIDE DEF row
    <2>4. ops' \in Seq(OperationRows) /\ DOMAIN ops' = DOMAIN ops
          /\ \A j \in DOMAIN ops : ops'[j] = IF j = i THEN row ELSE ops[j]
      BY <2>1, <2>2, <2>3
    <2> QED
      BY <2>2, <2>4 DEF OpsMove, OpIsKnown
  <1>4. PlansMove
    <2> DEFINE p == ops[i].plan
               s == IF phase = "activated" THEN "applied" ELSE plans[p].state
               row == [plans[p] EXCEPT !.state = s]
    <2>1. p \in Plans /\ plans[p] # None /\ plans[p].state \in Reserved
      BY OpFields DEF OpsInv
    <2>2. plans' = [plans EXCEPT ![p] = row]
      BY <1>1
    <2>3. s \in PlanStates /\ s \in Reserved
      BY <2>1 DEF PlanStates, Reserved
    <2> HIDE DEF s, p
    <2>4. /\ row \in PlanRows /\ row.cs = plans[p].cs /\ row.base = plans[p].base
          /\ row.model = plans[p].model /\ row.patch = plans[p].patch
          /\ row.target = plans[p].target /\ row.epoch = plans[p].epoch /\ row.state = s
      BY <2>1, <2>3, PlanFields, StatedRow
    <2> HIDE DEF row
    <2> QED
      BY <2>1, <2>2, <2>3, <2>4, PlanEdited DEF Reserved
  <1> QED
    BY <1>2, <1>3, <1>4, ChangesetsRest, RequestsRest DEF Moves, HistoryMoves, HistoryStays

(* A sweep takes plans that are not committed.                             *)
LEMMA SweepPlanMoves ==
  ASSUME TypeInv, PlansInv, NEW p \in Plans, SweepPlan(p)
  PROVE  Moves
  <1>1. /\ plans[p] # None /\ plans[p].state \in {"expired", "planned"}
        /\ plans' = [plans EXCEPT ![p] = None]
        /\ UNCHANGED <<tables, head, revs, changesets, ops, request>>
    BY DEF SweepPlan, PlanIn
  <1>2. plans[p].target = None
    BY <1>1 DEF PlansInv, PlanIsRight, Rows, TypeInv, Reserved
  <1>3. /\ plans'[p] = None /\ plans' \in [Plans -> PlanRows \cup {None}]
        /\ \A x \in Plans : x # p => PlanStays(x) \/ PlanGoes(x)
    BY <1>1, PlanChanges
  <1>4. PlansMove
    BY <1>2, <1>3 DEF PlansMove, PlanGoes
  <1> QED
    BY <1>1, <1>4, ChangesetsRest, OpsRest, RequestsRest DEF Moves, HistoryMoves, HistoryStays

(* A discarded changeset goes with its plans: none of them is committed.   *)
LEMMA SweepChangesetMoves ==
  ASSUME TypeInv, ChangesetsInv, PlansInv, NEW c \in Changesets, SweepChangeset(c)
  PROVE  Moves
  <1>1. /\ changesets[c] # None /\ changesets[c].state = "discarded"
        /\ changesets' = [changesets EXCEPT ![c] = None]
        /\ plans' = [p \in Plans |->
             IF plans[p] # None /\ plans[p].cs = c THEN None ELSE plans[p]]
        /\ UNCHANGED <<tables, head, revs, ops, request>>
    BY DEF SweepChangeset
  <1>2. changesets[c].committed = None
    BY <1>1 DEF ChangesetsInv, Rows, TypeInv
  <1>3. ASSUME NEW p \in Plans
        PROVE  /\ plans'[p] \in PlanRows \cup {None} /\ (PlanStays(p) \/ PlanGoes(p))
               /\ plans'[p] # None => plans'[p].cs # c
    <2>1. CASE plans[p] # None /\ plans[p].cs = c
      <3>1. plans[p].target = None
        BY <1>2, <2>1, NoneAssumption DEF PlansInv, PlanIsRight, Rows, TypeInv
      <3> QED
        BY <1>1, <2>1, <3>1 DEF PlanGoes
    <2>2. CASE ~(plans[p] # None /\ plans[p].cs = c)
      <3>1. plans'[p] = plans[p]
        BY <1>1, <2>2
      <3> QED
        BY <2>2, <3>1 DEF PlanStays, PlanGoes, TypeInv
    <2> QED
      BY <2>1, <2>2
  <1>4. plans' \in [Plans -> PlanRows \cup {None}]
    BY <1>1, <1>3
  <1>5. PlansMove
    BY <1>3, <1>4 DEF PlansMove
  <1>6. changesets' \in [Changesets -> ChangesetRows \cup {None}] /\ changesets'[c] = None
        /\ \A d \in Changesets : d # c => changesets'[d] = changesets[d]
    BY <1>1 DEF TypeInv
  <1>7. ChangesetGoes(c)
    BY <1>3, <1>6 DEF ChangesetGoes
  <1>8. ChangesetsMove
    BY <1>6, <1>7 DEF ChangesetsMove, ChangesetIsNot, ChangesetStays
  <1> QED
    BY <1>1, <1>5, <1>8, OpsRest, RequestsRest DEF Moves, HistoryMoves, HistoryStays

(* A row of an apply goes.                                                 *)
LEMMA SweepOperationMoves ==
  ASSUME TypeInv, NEW i \in DOMAIN ops, SweepOperation(i)
  PROVE  Moves
  <1>1. ops' = RemoveAt(ops, i) /\ UNCHANGED <<tables, head, revs, changesets, plans, request>>
    BY DEF SweepOperation
  <1>2. ops \in Seq(OperationRows) /\ i \in 1..Len(ops) /\ Len(ops) \in Nat
    BY OpFields DEF TypeInv
  <1> DEFINE a == SubSeq(ops, 1, i - 1)
             b == SubSeq(ops, i + 1, Len(ops))
  <1>3. a \in Seq(OperationRows) /\ Len(a) = i - 1 /\ \A j \in 1..(i - 1) : a[j] = ops[j]
    BY <1>2
  <1>4. b \in Seq(OperationRows) /\ Len(b) = Len(ops) - i
        /\ \A j \in 1..(Len(ops) - i) : b[j] = ops[i + j]
    BY <1>2
  <1>5. ops' = a \o b
    BY <1>1 DEF RemoveAt
  <1> HIDE DEF a, b
  <1>6. /\ ops' \in Seq(OperationRows) /\ DOMAIN ops' = 1..(Len(ops) - 1)
        /\ DOMAIN ops = 1..Len(ops)
        /\ \A j \in 1..(Len(ops) - 1) : ops'[j] = IF j < i THEN a[j] ELSE b[j - (i - 1)]
    <2> a \in Seq(OperationRows) /\ b \in Seq(OperationRows)
      BY <1>3, <1>4
    <2>1. ops' \in Seq(OperationRows)
      BY <1>5, ConcatProperties
    <2>2. Len(a) + Len(b) = Len(ops) - 1
      BY <1>2, <1>3, <1>4
    <2>3. DOMAIN ops' = 1..(Len(ops) - 1) /\ DOMAIN ops = 1..Len(ops)
      BY SMTT(30), <1>2, <1>3, <1>4, <1>5, <2>2
    <2>4. ASSUME NEW j \in 1..(Len(ops) - 1)
          PROVE  ops'[j] = IF j < i THEN a[j] ELSE b[j - (i - 1)]
      <3>1. j \in 1..(Len(a) + Len(b)) /\ (j < i <=> j <= Len(a)) /\ Len(a) = i - 1
        BY <1>2, <1>3, <2>2
      <3>2. (a \o b)[j] = IF j <= Len(a) THEN a[j] ELSE b[j - Len(a)]
        BY <3>1, ConcatProperties
      <3> QED
        BY <1>5, <3>1, <3>2
    <2> QED
      BY <2>1, <2>3, <2>4
  <1>8. ASSUME NEW j \in 1..(Len(ops) - 1) PROVE \E k \in DOMAIN ops : ops'[j] = ops[k]
    <2>1. CASE j < i
      <3>1. j \in 1..(i - 1) /\ j \in DOMAIN ops
        BY <1>2, <1>6, <2>1
      <3> QED
        BY <1>3, <1>6, <2>1, <3>1
    <2>2. CASE ~(j < i)
      <3>1. j - (i - 1) \in 1..(Len(ops) - i) /\ i + (j - (i - 1)) = j + 1 /\ j + 1 \in DOMAIN ops
        BY <1>2, <1>6, <2>2
      <3> QED
        BY <1>4, <1>6, <2>2, <3>1
    <2> QED
      BY <2>1, <2>2
  <1>7. OpsMove
    BY <1>6, <1>8 DEF OpsMove, OpIsKnown
  <1> QED
    BY <1>1, <1>7, ChangesetsRest, PlansRest, RequestsRest DEF Moves, HistoryMoves, HistoryStays

(* The first revision goes.                                                *)
LEMMA SweepRevisionsMoves ==
  ASSUME TypeInv, RevisionsArePlanned, SweepRevisions
  PROVE  Moves
  <1>1. Pruned
    BY SweepPrunes
  <1>2. UNCHANGED <<changesets, plans, ops, request>>
    BY <1>1 DEF Pruned
  <1> QED
    BY <1>1, <1>2, ChangesetsRest, PlansRest, OpsRest, RequestsRest DEF Moves, HistoryMoves

(* Every step moves the rows.                                              *)
LEMMA StepMoves == TypeInv /\ RowsInv /\ RowsResolve /\ [Next]_storeVars => Moves
  <1> SUFFICES ASSUME TypeInv, RowsInv, RowsResolve, [Next]_storeVars PROVE Moves
    OBVIOUS
  <1> USE DEF RowsInv
  <1>1. CASE UNCHANGED storeVars
    BY <1>1, ChangesetsRest, PlansRest, OpsRest, RequestsRest
      DEF Moves, HistoryMoves, HistoryStays, storeVars
  <1>2. CASE Editing
    <2>1. ASSUME NEW c \in Changesets, NEW r \in Revisions, CreateChangeset(c, r) PROVE Moves
      BY <2>1, CreateMoves
    <2>2. ASSUME NEW c \in Changesets, NEW edit \in Edits, PatchChangeset(c, edit) PROVE Moves
      BY <2>2, PatchMoves
    <2>3. ASSUME NEW c \in Changesets, Reopen(c) \/ DiscardChangeset(c) PROVE Moves
      BY <2>3, ReopenMoves
    <2>4. ASSUME NEW c \in Changesets, NEW q \in Calls, PlanRead(q, c) PROVE Moves
      BY <2>4, ReadMoves
    <2>5. ASSUME NEW q \in Calls, PlanDryRun(q) PROVE Moves
      BY <2>5, DryRunMoves
    <2>6. ASSUME NEW q \in Calls, PlanSeal(q) PROVE Moves
      BY <2>6, SealMoves
    <2>7. ASSUME NEW q \in Calls, ReplanRead(q) PROVE Moves
      BY <2>7, ReplanReadMoves
    <2>8. ASSUME NEW q \in Calls, ReplanInsert(q) PROVE Moves
      BY <2>8, ReplanInsertMoves
    <2>9. ASSUME NEW p \in Plans, Commit(p) PROVE Moves
      BY <2>9, CommitMoves
    <2>10. ASSUME NEW p \in Plans, PlanOutlived(p) PROVE Moves
      BY <2>10, OutlivedMoves
    <2>11. ASSUME NEW r \in Revisions, RollbackTo(r) PROVE Moves
      BY <2>11, RollbackMoves
    <2> QED
      BY <1>2, <2>1, <2>2, <2>3, <2>4, <2>5, <2>6, <2>7, <2>8, <2>9, <2>10, <2>11 DEF Editing
  <1>3. CASE Sweeping
    <2>1. ASSUME NEW p \in Plans, SweepPlan(p) PROVE Moves
      BY <2>1, SweepPlanMoves
    <2>2. ASSUME NEW c \in Changesets, SweepChangeset(c) PROVE Moves
      BY <2>2, SweepChangesetMoves
    <2>3. ASSUME NEW i \in DOMAIN ops, SweepOperation(i) PROVE Moves
      BY <2>3, SweepOperationMoves
    <2>4. ASSUME SweepRevisions PROVE Moves
      BY <2>4, SweepRevisionsMoves
    <2> QED
      BY <1>3, <2>1, <2>2, <2>3, <2>4 DEF Sweeping
  <1>4. CASE Applying
    <2>1. ASSUME NEW p \in Plans, Claim(p) PROVE Moves
      BY <2>1, ClaimMoves
    <2>2. ASSUME NEW i \in DOMAIN ops, Settle(i) PROVE Moves
      BY <2>2, SettleMoves
    <2> QED
      BY <1>4, <2>1, <2>2 DEF Applying
  <1> QED
    BY <1>1, <1>2, <1>3, <1>4 DEF Next

-----------------------------------------------------------------------------
(* What the moves keep.                                                    *)

(* The head stays with the tables or goes up by one.                       *)
LEMMA HeadGoesUp ==
  ASSUME TypeInv, HistoryMoves
  PROVE  /\ head \in Nat /\ head' \in Nat
         /\ (head' = head /\ tables' = tables) \/ head' = head + 1
         /\ Pruned => head' = head
  <1>1. head \in Nat
    BY DEF TypeInv, Revisions
  <1>2. Pruned => head' = head /\ tables' = tables
    BY DEF Pruned
  <1>3. HistoryStays => head' = head /\ tables' = tables
    BY DEF HistoryStays
  <1>4. \A m \in Models, from \in Revisions \cup {None} : NewHead(m, from) => head' = head + 1
    BY DEF NewHead
  <1>5. (head' = head /\ tables' = tables) \/ head' = head + 1
    BY <1>2, <1>3, <1>4 DEF HistoryMoves
  <1> QED
    BY <1>1, <1>2, <1>5

(* The revisions there were are there, all but the one that is pruned, and *)
(* hold what they held.                                                    *)
LEMMA RevisionsKept ==
  ASSUME TypeInv, HeadInv, HistoryMoves
  PROVE  /\ \A r \in Rows(revs) : revs'[r] # None \/ (Pruned /\ r = 1)
         /\ \A r \in Revisions : r <= head /\ revs'[r] # None =>
              /\ r \in Rows(revs) /\ revs'[r].model = revs[r].model
              /\ revs'[r].parent \in {revs[r].parent, None}
  <1>1. CASE HistoryStays
    BY <1>1 DEF HistoryStays, Rows, TypeInv
  <1>2. CASE Pruned
    <2>1. ASSUME NEW r \in Rows(revs), r # 1
          PROVE  /\ revs'[r] # None /\ revs'[r].model = revs[r].model
                 /\ revs'[r].parent \in {revs[r].parent, None}
      <3>1. r \in Revisions /\ revs[r] # None /\ revs[r] \in RevisionRows
        BY RevisionFields DEF Rows
      <3>2. revs'[r] = [revs[r] EXCEPT !.parent = IF @ = 1 THEN None ELSE @]
            /\ revs'[r] \in RevisionRows \cup {None}
        BY <1>2, <2>1, <3>1 DEF Pruned
      <3>3. revs'[r] \in RevisionRows
        BY <3>1, <3>2 DEF RevisionRows
      <3> QED
        BY <3>1, <3>2, <3>3, NoneAssumption DEF RevisionRows
    <2>2. ASSUME NEW r \in Revisions, revs'[r] # None PROVE r \in Rows(revs) /\ r # 1
      BY <1>2, <2>2 DEF Pruned, Rows, TypeInv
    <2> QED
      BY <1>2, <2>1, <2>2
  <1>3. ASSUME NEW m \in Models, NEW from \in Revisions \cup {None}, NewHead(m, from)
        PROVE  \A r \in Revisions : r <= head => revs'[r] = revs[r]
    BY <1>3, RowsAssumption DEF NewHead, TypeInv, Revisions
  <1>4. ASSUME NEW m \in Models, NEW from \in Revisions \cup {None}, NewHead(m, from)
        PROVE  /\ \A r \in Rows(revs) : revs'[r] # None
               /\ \A r \in Revisions : r <= head /\ revs'[r] # None =>
                    r \in Rows(revs) /\ revs'[r] = revs[r]
    BY <1>3, <1>4 DEF HeadInv, Rows, TypeInv
  <1> QED
    BY <1>1, <1>2, <1>4 DEF HistoryMoves

(* A committed plan stays.                                                 *)
LEMMA CommittedStays ==
  ASSUME TypeInv, PlansInv, PlansMove, NEW p \in Plans, Committed(p)
  PROVE  PlanStays(p)
  <1>1. plans[p] # None /\ plans[p].target # None /\ plans[p].state \in Reserved
    BY DEF Committed, PlansInv, PlanIsRight, Rows, TypeInv
  <1>2. ~PlanGoes(p) /\ ~PlanIsSealed(p) /\ ~PlanIsCommitted(p) /\ ~PlanIsMade(p)
    BY <1>1 DEF PlanGoes, PlanIsSealed, PlanIsCommitted, PlanIsMade, Reserved
  <1> QED
    BY <1>2 DEF PlansMove

(* Of a plan's changeset: it stays with the plan.                          *)
LEMMA ChangesetsKept ==
  ASSUME TypeInv, RowsResolve, ChangesetsMove, NEW p \in Plans, PlanStays(p), plans[p].cs # None
  PROVE  /\ plans[p].cs \in Changesets /\ changesets[plans[p].cs] # None
         /\ ChangesetStays(plans[p].cs) \/ ChangesetIsCommitted(plans[p].cs)
  <1> DEFINE c == plans[p].cs
  <1>1. plans[p] # None /\ plans'[p] # None /\ plans'[p].cs = c
    BY DEF PlanStays
  <1>2. c \in Changesets /\ changesets[c] # None
    BY <1>1, PlanFields DEF RowsResolve, Rows, TypeInv
  <1>3. ~ChangesetIsNot(c) /\ ~ChangesetIsNew(c) /\ ~ChangesetGoes(c)
    BY <1>1, <1>2 DEF ChangesetIsNot, ChangesetIsNew, ChangesetGoes
  <1> HIDE DEF c
  <1>4. ChangesetStays(c) \/ ChangesetIsCommitted(c)
    BY <1>2, <1>3 DEF ChangesetsMove
  <1> QED
    BY <1>2, <1>4 DEF c

(* Every table keeps its type.                                             *)
LEMMA TypesKept ==
  TypeInv /\ HeadInv /\ HistoryResolves /\ RollbacksRestore /\ Moves => TypeInv'
  <1> SUFFICES ASSUME TypeInv, HeadInv, HistoryResolves, RollbacksRestore, Moves PROVE TypeInv'
    OBVIOUS
  <1>1. /\ tables' \in Models /\ head' \in Revisions
        /\ revs' \in [Revisions -> RevisionRows \cup {None}]
    BY HistoryStep DEF Moves, HistoryMoves
  <1> QED
    BY <1>1 DEF TypeInv, Moves, ChangesetsMove, PlansMove, OpsMove, RequestsMove

(* Every revision but the first is of a plan.                              *)
LEMMA PlannedKept ==
  ASSUME TypeInv, TypeInv', HeadInv, PlansInv, RevisionsArePlanned, HistoryMoves, PlansMove
  PROVE  RevisionsArePlanned'
  <1> SUFFICES ASSUME NEW r \in Rows(revs'), r # 1
               PROVE  \E p \in Rows(plans') : plans'[p].target = r
    BY DEF RevisionsArePlanned
  <1>0. DOMAIN plans' = Plans /\ DOMAIN plans = Plans
    BY DEF TypeInv
  <1>1. CASE r \in Rows(revs)
    <2>1. PICK p \in Rows(plans) : plans[p].target = r
      BY <1>1 DEF RevisionsArePlanned
    <2>2. p \in Plans /\ Committed(p)
      <3>1. r # None
        BY <1>1, RevisionFields, NoneAssumption
      <3> QED
        BY <1>0, <2>1, <3>1 DEF Rows, Committed
    <2>3. plans'[p] # None /\ plans'[p].target = r
      BY <2>1, <2>2, CommittedStays DEF PlanStays
    <2> QED
      BY <1>0, <2>2, <2>3 DEF Rows
  <1>2. CASE r \notin Rows(revs)
    <2>1. r \in Revisions /\ revs'[r] # None /\ revs[r] = None
      BY <1>2 DEF Rows, TypeInv
    <2>2. r = head + 1 /\ \E p \in Plans : plans'[p] # None /\ plans'[p].target = head + 1
      <3>1. ~HistoryStays
        BY <2>1 DEF HistoryStays
      <3>2. ~Pruned
        BY <2>1 DEF Pruned
      <3>3. PICK m \in Models, from \in Revisions \cup {None} : NewHead(m, from)
        BY <3>1, <3>2 DEF HistoryMoves
      <3>4. r = head + 1
        BY <2>1, <3>3 DEF NewHead, TypeInv
      <3> QED
        BY <3>1, <3>2, <3>4 DEF HistoryMoves
    <2> QED
      BY <1>0, <2>2 DEF Rows
  <1> QED
    BY <1>1, <1>2

(* Changesets: their bases were heads, and committed is committed.         *)
LEMMA ChangesetsKeep ==
  ASSUME TypeInv, TypeInv', HeadInv, ChangesetsInv, HistoryMoves, ChangesetsMove
  PROVE  ChangesetsInv'
  <1> SUFFICES ASSUME NEW c \in Rows(changesets')
               PROVE  /\ changesets'[c].base <= head'
                      /\ changesets'[c].state = "committed" <=> changesets'[c].committed # None
    BY DEF ChangesetsInv
  <1>1. c \in Changesets /\ changesets'[c] # None
    BY DEF Rows, TypeInv
  <1>2. head \in Nat /\ head' \in Nat /\ head <= head'
    BY HeadGoesUp
  <1>3. CASE ChangesetStays(c)
    <2>1. /\ changesets[c].base <= head /\ changesets[c].base \in Nat
          /\ changesets[c].state = "committed" <=> changesets[c].committed # None
      BY <1>1, <1>3, ChangesetFields DEF ChangesetStays, ChangesetsInv, Rows, TypeInv, Revisions
    <2> QED
      BY <1>2, <1>3, <2>1 DEF ChangesetStays
  <1>4. CASE ChangesetIsNew(c)
    <2>1. changesets'[c].base <= head /\ changesets'[c].base \in Nat
      BY <1>4, RevisionFields DEF ChangesetIsNew, HeadInv
    <2> QED
      BY <1>2, <1>4, <2>1 DEF ChangesetIsNew
  <1>5. CASE ChangesetIsCommitted(c)
    <2>1. changesets[c].base <= head /\ changesets[c].base \in Nat
      BY <1>1, <1>5, ChangesetFields DEF ChangesetIsCommitted, ChangesetsInv, Rows, TypeInv, Revisions
    <2>2. changesets'[c].committed # None
      BY <1>5, NoneAssumption DEF ChangesetIsCommitted, TypeInv
    <2> QED
      BY <1>2, <1>5, <2>1, <2>2 DEF ChangesetIsCommitted
  <1> QED
    BY <1>1, <1>3, <1>4, <1>5 DEF ChangesetsMove, ChangesetIsNot, ChangesetGoes

(* A plan that stays.                                                      *)
LEMMA StayingPlanKeeps ==
  ASSUME TypeInv, PlansInv, RowsResolve, HistoryMoves, ChangesetsMove,
         NEW p \in Plans, PlanStays(p)
  PROVE  PlanIsRight(p)'
  <1> DEFINE x == plans[p]
             y == plans'[p]
             c == x.cs
  <1>1. /\ x # None /\ y.cs = c /\ y.base = x.base /\ y.model = x.model /\ y.patch = x.patch
        /\ y.target = x.target
        /\ y.state \in Reserved <=> x.state \in Reserved
        /\ y.state = "planned" => x.state = "planned"
    BY DEF PlanStays
  <1>2. /\ x.base <= head
        /\ x.state \in Reserved <=> x.target # None
        /\ c = None => x.target # None
        /\ x.target # None => x.target <= head
        /\ x.target # None /\ c # None => changesets[c].committed = x.target
        /\ x.target = None /\ changesets[c].committed # None => x.base < head
        /\ x.state = "planned" /\ x.base = head => x.model \in Accepted(tables, x.patch)
    BY <1>1 DEF PlansInv, PlanIsRight, Rows, TypeInv
  <1>3. x.base \in Nat /\ (x.target # None => x.target \in Nat)
    BY <1>1, PlanFields DEF Revisions
  <1>4. /\ head \in Nat /\ head' \in Nat
        /\ (head' = head /\ tables' = tables) \/ head' = head + 1
    BY HeadGoesUp
  <1>5. c # None => ChangesetStays(c) \/ ChangesetIsCommitted(c)
    BY ChangesetsKept
  <1>6. c # None => \/ changesets'[c].committed = changesets[c].committed
                    \/ changesets[c].committed = None /\ head' = head + 1
    BY <1>5 DEF ChangesetStays, ChangesetIsCommitted
  <1>7. PlanIsRight(p)' <=>
        /\ y.base <= head'
        /\ y.state \in Reserved <=> y.target # None
        /\ y.cs = None => y.target # None
        /\ y.target # None => y.target <= head'
        /\ y.target # None /\ y.cs # None => changesets'[y.cs].committed = y.target
        /\ y.target = None /\ changesets'[y.cs].committed # None => y.base < head'
        /\ y.state = "planned" /\ y.base = head' => y.model \in Accepted(tables', y.patch)
    BY DEF PlanIsRight
  <1> HIDE DEF x, y, c
  <1>8. y.target # None => y.target <= head'
    BY <1>1, <1>2, <1>3, <1>4
  <1>9. y.target # None /\ y.cs # None => changesets'[y.cs].committed = y.target
    BY <1>1, <1>2, <1>6
  <1>10. y.target = None /\ changesets'[y.cs].committed # None => y.base < head'
    <2> SUFFICES ASSUME y.target = None, changesets'[c].committed # None PROVE x.base < head'
      BY <1>1
    <2>1. c # None
      BY <1>1, <1>2
    <2>2. CASE changesets'[c].committed = changesets[c].committed
      BY <1>1, <1>2, <1>3, <1>4, <2>2
    <2>3. CASE head' = head + 1
      BY <1>2, <1>3, <1>4, <2>3
    <2> QED
      BY <1>6, <2>1, <2>2, <2>3
  <1>11. y.state = "planned" /\ y.base = head' => y.model \in Accepted(tables', y.patch)
    <2> SUFFICES ASSUME y.state = "planned", y.base = head' PROVE x.model \in Accepted(tables', x.patch)
      BY <1>1
    <2>1. head' = head /\ tables' = tables
      BY <1>1, <1>2, <1>3, <1>4
    <2> QED
      BY <1>1, <1>2, <2>1
  <1>12. y.base <= head'
    BY <1>1, <1>2, <1>3, <1>4
  <1> QED
    BY <1>1, <1>2, <1>7, <1>8, <1>9, <1>10, <1>11, <1>12

(* A plan that is sealed has what the call had.                            *)
LEMMA SealedPlanKeeps ==
  ASSUME TypeInv, RequestsInv, HistoryMoves, NEW p \in Plans, PlanIsSealed(p)
  PROVE  PlanIsRight(p)'
  <1> DEFINE y == plans'[p]
  <1>1. PICK q \in Calls :
          /\ request[q] # None /\ request[q].pc = "seal"
          /\ y.cs = request[q].cs /\ y.base = request[q].base
          /\ y.model = request[q].model /\ y.patch = request[q].patch
          /\ request[q].cs \in Changesets /\ ChangesetStays(request[q].cs)
    BY DEF PlanIsSealed
  <1>2. y.state = "planned" /\ y.target = None /\ HistoryStays
    BY DEF PlanIsSealed
  <1> DEFINE x == request[q]
  <1>3. /\ x.base <= head /\ x.cs # None
        /\ changesets[x.cs] # None /\ changesets[x.cs].committed # None => x.base < head
        /\ x.base = head => x.model \in Accepted(tables, x.patch)
    BY <1>1 DEF RequestsInv, RequestIsRight, Rows, TypeInv
  <1>4. changesets[x.cs] # None /\ changesets'[x.cs].committed = changesets[x.cs].committed
    BY <1>1 DEF ChangesetStays
  <1>5. head' = head /\ tables' = tables
    BY <1>2 DEF HistoryStays
  <1>6. PlanIsRight(p)' <=>
        /\ y.base <= head'
        /\ y.state \in Reserved <=> y.target # None
        /\ y.cs = None => y.target # None
        /\ y.target # None => y.target <= head'
        /\ y.target # None /\ y.cs # None => changesets'[y.cs].committed = y.target
        /\ y.target = None /\ changesets'[y.cs].committed # None => y.base < head'
        /\ y.state = "planned" /\ y.base = head' => y.model \in Accepted(tables', y.patch)
    BY DEF PlanIsRight
  <1> HIDE DEF x, y
  <1> QED
    BY <1>1, <1>2, <1>3, <1>4, <1>5, <1>6 DEF Reserved, x

(* A plan that is committed, and one that is made for the head.            *)
LEMMA NewTargetKeeps ==
  ASSUME TypeInv, TypeInv', HistoryMoves, NEW p \in Plans, PlanIsCommitted(p) \/ PlanIsMade(p)
  PROVE  PlanIsRight(p)'
  <1> DEFINE y == plans'[p]
  <1>1. /\ head \in Nat /\ head' \in Nat /\ head' \in Revisions /\ head' # None
        /\ head' = head \/ head' = head + 1
    BY HeadGoesUp, NoneAssumption DEF TypeInv
  <1>2. PlanIsRight(p)' <=>
        /\ y.base <= head'
        /\ y.state \in Reserved <=> y.target # None
        /\ y.cs = None => y.target # None
        /\ y.target # None => y.target <= head'
        /\ y.target # None /\ y.cs # None => changesets'[y.cs].committed = y.target
        /\ y.target = None /\ changesets'[y.cs].committed # None => y.base < head'
        /\ y.state = "planned" /\ y.base = head' => y.model \in Accepted(tables', y.patch)
    BY DEF PlanIsRight
  <1>3. CASE PlanIsCommitted(p)
    <2>1. /\ y.base = head /\ y.cs = plans[p].cs /\ y.state = "committed" /\ y.target = head + 1
          /\ head' = head + 1 /\ changesets'[y.cs].committed = head + 1
      BY <1>3 DEF PlanIsCommitted, ChangesetIsCommitted
    <2> HIDE DEF y
    <2> QED
      BY <1>1, <1>2, <2>1 DEF Reserved
  <1>4. CASE PlanIsMade(p)
    <2>1. y.base = head /\ y.cs = None /\ y.state = "committed" /\ y.target = head'
      BY <1>4 DEF PlanIsMade
    <2> HIDE DEF y
    <2> QED
      BY <1>1, <1>2, <2>1 DEF Reserved
  <1> QED
    BY <1>3, <1>4

(* Every plan is right after every step.                                   *)
LEMMA PlansKeep ==
  ASSUME TypeInv, TypeInv', PlansInv, RequestsInv, RowsResolve, Moves
  PROVE  PlansInv'
  <1> SUFFICES ASSUME NEW p \in Rows(plans') PROVE PlanIsRight(p)'
    BY DEF PlansInv
  <1>1. p \in Plans /\ plans'[p] # None
    BY DEF Rows, TypeInv
  <1>2. PlanStays(p) \/ PlanIsSealed(p) \/ PlanIsCommitted(p) \/ PlanIsMade(p)
    BY <1>1 DEF Moves, PlansMove, PlanGoes
  <1>3. HistoryMoves /\ ChangesetsMove
    BY DEF Moves
  <1> QED
    BY <1>1, <1>2, <1>3, StayingPlanKeeps, SealedPlanKeeps, NewTargetKeeps

(* Every call is right after every step.                                   *)
LEMMA RequestsKeep ==
  ASSUME TypeInv, ChangesetsInv, RequestsInv, Moves
  PROVE  RequestsInv'
  <1>0. HistoryMoves /\ ChangesetsMove /\ RequestsMove /\ DOMAIN request' = Calls
    BY DEF Moves, RequestsMove
  <1> SUFFICES ASSUME NEW q \in Rows(request') PROVE RequestIsRight(q)'
    BY DEF RequestsInv
  <1> DEFINE x == request[q]
             y == request'[q]
  <1>1. q \in Calls /\ y # None
    BY <1>0 DEF Rows
  <1>2. RequestIsRight(q)' <=>
        /\ y.base <= head'
        /\ y.pc # "replan" => y.cs # None
        /\ y.pc # "dry_run" => y.model \in Models
        /\ y.cs # None /\ changesets'[y.cs] # None /\ changesets'[y.cs].committed # None =>
             y.base < head'
        /\ y.pc = "seal" /\ y.base = head' => y.model \in Accepted(tables', y.patch)
    BY DEF RequestIsRight
  <1>3. /\ head \in Nat /\ head' \in Nat
        /\ (head' = head /\ tables' = tables) \/ head' = head + 1
    BY <1>0, HeadGoesUp
  <1>4. x # None =>
        /\ x.base <= head /\ x.base \in Nat /\ x.cs \in Changesets \cup {None}
        /\ x.pc # "replan" => x.cs # None
        /\ x.pc # "dry_run" => x.model \in Models
        /\ x.cs # None /\ changesets[x.cs] # None /\ changesets[x.cs].committed # None =>
             x.base < head
        /\ x.pc = "seal" /\ x.base = head => x.model \in Accepted(tables, x.patch)
    BY <1>1, RequestFields DEF RequestsInv, RequestIsRight, Rows, TypeInv, Revisions
  <1>5. CASE RequestStays(q)
    <2>1. y = x /\ x # None
      BY <1>1, <1>5 DEF RequestStays
    <2>2. ASSUME x.cs # None, changesets'[x.cs] # None, changesets'[x.cs].committed # None
          PROVE  x.base < head'
      <3> DEFINE c == x.cs
      <3>1. c \in Changesets
        BY <1>4, <2>1, <2>2
      <3>2. ChangesetStays(c) \/ ChangesetIsCommitted(c)
        BY <1>0, <2>2, <3>1 DEF ChangesetsMove, ChangesetIsNot, ChangesetIsNew, ChangesetGoes
      <3>3. \/ changesets[c] # None /\ changesets[c].committed # None
            \/ head' = head + 1
        BY <2>2, <3>2 DEF ChangesetStays, ChangesetIsCommitted
      <3> HIDE DEF x, c
      <3>4. CASE head' = head + 1
        BY <1>3, <1>4, <2>1, <3>4
      <3>5. CASE changesets[c] # None /\ changesets[c].committed # None
        <4>1. x.base < head
          BY <1>4, <2>1, <2>2, <3>5 DEF c
        <4> QED
          BY <1>3, <1>4, <2>1, <4>1
      <3> QED
        BY <3>3, <3>4, <3>5
    <2> HIDE DEF x, y
    <2>3. y.base <= head'
      BY <1>3, <1>4, <2>1
    <2>4. y.pc = "seal" /\ y.base = head' => y.model \in Accepted(tables', y.patch)
      BY <1>3, <1>4, <2>1
    <2> QED
      BY <1>2, <1>4, <2>1, <2>2, <2>3, <2>4
  <1>6. CASE RequestReads(q)
    <2>1. PICK c \in Changesets :
            /\ changesets[c] # None /\ changesets[c].committed = None
            /\ y.cs = c /\ y.base = changesets[c].base
      BY <1>6 DEF RequestReads
    <2>2. y.pc = "dry_run" /\ head' = head /\ tables' = tables /\ changesets' = changesets
      BY <1>6 DEF RequestReads, store
    <2>3. changesets[c].base <= head /\ c # None
      BY <2>1, NoneAssumption DEF ChangesetsInv, Rows, TypeInv
    <2> HIDE DEF y
    <2> QED
      BY <1>2, <2>1, <2>2, <2>3
  <1>7. CASE RequestIsDry(q)
    <2>1. /\ x # None /\ x.pc = "dry_run" /\ y.pc = "seal" /\ y.cs = x.cs /\ y.base = x.base
          /\ y.patch = x.patch /\ y.model \in Accepted(tables, x.patch)
          /\ head' = head /\ tables' = tables /\ changesets' = changesets
      BY <1>7 DEF RequestIsDry, store
    <2>2. y.model \in Models
      BY <1>1, <2>1, RequestFields, AcceptedType DEF TypeInv
    <2> HIDE DEF x, y
    <2> QED
      BY <1>2, <1>4, <2>1, <2>2
  <1>8. CASE RequestReplans(q)
    <2>1. /\ y.pc = "replan" /\ y.cs = None /\ y.base = head /\ y.model \in Models
          /\ head' = head
      BY <1>8 DEF RequestReplans, store
    <2> HIDE DEF y
    <2> QED
      BY <1>2, <1>3, <2>1
  <1> QED
    BY <1>0, <1>1, <1>5, <1>6, <1>7, <1>8 DEF RequestsMove

(* Applies are of committed plans, and what they name is there.            *)
LEMMA OpsKeep ==
  ASSUME TypeInv, TypeInv', HeadInv, PlansInv, RowsResolve, OpsInv, OpsResolve, Moves
  PROVE  OpsInv' /\ OpsResolve'
  <1>0. HistoryMoves /\ PlansMove /\ OpsMove
    BY DEF Moves
  <1>1. ASSUME NEW p \in Plans, plans[p] # None, plans[p].state \in Reserved
        PROVE  plans'[p] # None /\ plans'[p].state \in Reserved
    <2>1. Committed(p)
      BY <1>1 DEF Committed, PlansInv, PlanIsRight, Rows, TypeInv
    <2>2. PlanStays(p)
      BY <1>0, <2>1, CommittedStays
    <2> QED
      BY <1>1, <2>2 DEF PlanStays
  <1>2. ASSUME NEW i \in DOMAIN ops'
        PROVE  /\ plans'[ops'[i].plan] # None /\ plans'[ops'[i].plan].state \in Reserved
               /\ revs'[ops'[i].revision] # None
    <2>1. CASE OpIsKnown(i)
      <3>1. PICK j \in DOMAIN ops : ops'[i].plan = ops[j].plan /\ ops'[i].revision = ops[j].revision
        BY <2>1 DEF OpIsKnown
      <3>2. /\ ops[j].plan \in Plans /\ plans[ops[j].plan] # None
            /\ plans[ops[j].plan].state \in Reserved
            /\ ops[j].revision \in Rows(revs)
        BY <3>1, OpFields DEF OpsInv, OpsResolve, Rows, TypeInv
      <3>3. ~(Pruned /\ ops[j].revision = 1)
        BY <3>1 DEF Pruned, Referred
      <3>4. revs'[ops[j].revision] # None
        BY <1>0, <3>2, <3>3, RevisionsKept
      <3> QED
        BY <1>1, <3>1, <3>2, <3>4
    <2>2. CASE OpIsNew(i)
      <3>1. PICK p \in Plans : /\ plans[p] # None /\ plans[p].state \in Reserved
                               /\ ops'[i].plan = p /\ ops'[i].revision = plans[p].target
                               /\ revs' = revs
        BY <2>2 DEF OpIsNew, HistoryStays
      <3>2. plans[p].target # None
        BY <3>1 DEF PlansInv, PlanIsRight, Rows, TypeInv
      <3>3. revs[plans[p].target] # None
        BY <3>1, <3>2 DEF RowsResolve, Rows, TypeInv
      <3> QED
        BY <1>1, <3>1, <3>3
    <2> QED
      BY <1>0, <2>1, <2>2 DEF OpsMove
  <1> QED
    BY <1>2 DEF OpsInv, OpsResolve

(* What a changeset and what a plan refers to is there.                    *)
LEMMA RowsKeep ==
  ASSUME TypeInv, TypeInv', HeadInv, HeadInv', ChangesetsInv, PlansInv, RowsResolve, Moves
  PROVE  RowsResolve'
  <1>0. HistoryMoves /\ PlansMove /\ ChangesetsMove
    BY DEF Moves
  <1>1. ASSUME NEW c \in Rows(changesets')
        PROVE  /\ revs'[changesets'[c].base] # None
               /\ changesets'[c].committed # None => revs'[changesets'[c].committed] # None
    <2>0. c \in Changesets /\ changesets'[c] # None
      BY DEF Rows, TypeInv
    <2>1. ASSUME changesets[c] # None
          PROVE  /\ changesets[c].base \in Rows(revs)
                 /\ changesets[c].committed # None => changesets[c].committed \in Rows(revs)
                 /\ Pruned => changesets[c].base # 1 /\ changesets[c].committed # 1
      <3>1. c \in Rows(changesets)
        BY <2>0, <2>1 DEF Rows, TypeInv
      <3>2. Pruned => 1 \notin {changesets[c].base, changesets[c].committed}
        BY <3>1 DEF Pruned, Referred
      <3> QED
        BY <2>0, <2>1, <3>1, <3>2, ChangesetFields DEF RowsResolve, Rows, TypeInv
    <2>2. ASSUME changesets[c] # None
          PROVE  /\ revs'[changesets[c].base] # None
                 /\ changesets[c].committed # None => revs'[changesets[c].committed] # None
      BY <1>0, <2>1, <2>2, RevisionsKept
    <2>3. CASE ChangesetStays(c)
      BY <2>2, <2>3 DEF ChangesetStays
    <2>4. CASE ChangesetIsNew(c)
      BY <2>4 DEF ChangesetIsNew, HistoryStays, Rows
    <2>5. CASE ChangesetIsCommitted(c)
      BY <2>2, <2>5 DEF ChangesetIsCommitted, HeadInv
    <2> QED
      BY <1>0, <2>0, <2>3, <2>4, <2>5 DEF ChangesetsMove, ChangesetIsNot, ChangesetGoes
  <1>2. ASSUME NEW p \in Rows(plans')
        PROVE  /\ plans'[p].cs # None => changesets'[plans'[p].cs] # None
               /\ plans'[p].target # None => revs'[plans'[p].target] # None
    <2>0. p \in Plans /\ plans'[p] # None
      BY DEF Rows, TypeInv
    <2>1. CASE PlanStays(p)
      <3>1. plans[p] # None /\ plans'[p].cs = plans[p].cs /\ plans'[p].target = plans[p].target
            /\ p \in Rows(plans)
        BY <2>0, <2>1 DEF PlanStays, Rows, TypeInv
      <3>2. plans[p].cs # None => changesets'[plans[p].cs] # None
        BY <1>0, <2>0, <2>1, ChangesetsKept DEF ChangesetStays, ChangesetIsCommitted
      <3>3. ASSUME plans[p].target # None PROVE revs'[plans[p].target] # None
        <4>1. plans[p].target \in Rows(revs)
          BY <2>0, <3>1, <3>3, PlanFields DEF RowsResolve, Rows, TypeInv
        <4>2. ~(Pruned /\ plans[p].target = 1)
          BY <3>1 DEF Pruned, Referred
        <4> QED
          BY <1>0, <4>1, <4>2, RevisionsKept
      <3> QED
        BY <3>1, <3>2, <3>3
    <2>2. CASE PlanIsSealed(p)
      BY <2>2 DEF PlanIsSealed, ChangesetStays
    <2>3. CASE PlanIsCommitted(p)
      BY <2>3 DEF PlanIsCommitted, ChangesetIsCommitted, HeadInv
    <2>4. CASE PlanIsMade(p)
      BY <2>4 DEF PlanIsMade, HeadInv
    <2> QED
      BY <1>0, <2>0, <2>1, <2>2, <2>3, <2>4 DEF PlansMove, PlanGoes
  <1> QED
    BY <1>1, <1>2 DEF RowsResolve

(* The parts are the whole.                                                *)
LEMMA ResolveParts == ReferencesResolve <=> HistoryResolves /\ RowsResolve /\ OpsResolve
  BY DEF ReferencesResolve, HistoryResolves, RowsResolve, OpsResolve

-----------------------------------------------------------------------------
(* What is committed.                                                      *)

CommittedInv == CommitsReplayTheirPatch /\ WhatWasPlannedIsCommitted

(* A committed plan that stays: so do its changeset and its revision.      *)
LEMMA CommittedRest ==
  ASSUME TypeInv, HeadInv, PlansInv, RowsResolve, CommittedInv, Moves,
         NEW p \in Plans, PlanStays(p), plans'[p].target # None, plans'[p].cs # None,
         revs'[plans'[p].target] # None
  PROVE  /\ changesets'[plans'[p].cs].committed = plans'[p].target
         /\ revs'[plans'[p].target].parent \in {plans'[p].base, None}
         /\ revs'[plans'[p].base] # None =>
              revs'[plans'[p].target].model \in
                ApplyAll(revs'[plans'[p].base].model, changesets'[plans'[p].cs].patch)
         /\ plans'[p].patch = changesets'[plans'[p].cs].patch =>
              plans'[p].model = revs'[plans'[p].target].model
  <1> DEFINE x == plans[p]
             c == x.cs
             t == x.target
             b == x.base
  <1>0. HistoryMoves /\ ChangesetsMove
    BY DEF Moves
  <1>1. /\ x # None /\ plans'[p].cs = c /\ plans'[p].target = t /\ plans'[p].base = b
        /\ plans'[p].model = x.model /\ plans'[p].patch = x.patch
        /\ c # None /\ t # None
    BY DEF PlanStays
  <1>2. changesets[c].committed = t /\ b <= head /\ t <= head
    BY <1>1 DEF PlansInv, PlanIsRight, Rows, TypeInv
  <1>3. changesets'[c].committed = t /\ changesets'[c].patch = changesets[c].patch
    <2>1. ChangesetStays(c) \/ ChangesetIsCommitted(c)
      BY <1>0, <1>1, ChangesetsKept
    <2>2. ChangesetStays(c)
      BY <1>1, <1>2, <2>1 DEF ChangesetIsCommitted
    <2> QED
      BY <1>1, <1>2, <2>2 DEF ChangesetStays
  <1>4. b \in Revisions /\ t \in Revisions
    BY <1>1, PlanFields
  <1>5. /\ t \in Rows(revs) /\ revs'[t].model = revs[t].model
        /\ revs'[t].parent \in {revs[t].parent, None}
    BY <1>0, <1>1, <1>2, <1>4, RevisionsKept
  <1>6. revs'[b] # None => b \in Rows(revs) /\ revs'[b].model = revs[b].model
    BY <1>0, <1>2, <1>4, RevisionsKept
  <1>7. /\ revs[t].parent \in {b, None}
        /\ revs[b] # None => revs[t].model \in ApplyAll(revs[b].model, changesets[c].patch)
        /\ x.patch = changesets[c].patch => x.model = revs[t].model
    <2>1. p \in Rows(plans) /\ Committed(p) /\ revs[t] # None
      BY <1>1, <1>5 DEF Rows, Committed, TypeInv
    <2> QED
      BY <1>1, <2>1 DEF CommittedInv, CommitsReplayTheirPatch, WhatWasPlannedIsCommitted
  <1>8. revs'[b] # None => revs[b] # None
    BY <1>6 DEF Rows
  <1> HIDE DEF x, c, t, b
  <1> QED
    BY <1>1, <1>3, <1>5, <1>6, <1>7, <1>8

(* A plan that is committed: over the head, with what it showed.           *)
LEMMA CommittedNow ==
  ASSUME TypeInv, HeadInv, HeadInv', PlansInv, Moves, NEW p \in Plans, PlanIsCommitted(p)
  PROVE  /\ changesets'[plans'[p].cs].committed = plans'[p].target
         /\ revs'[plans'[p].target].parent \in {plans'[p].base, None}
         /\ revs'[plans'[p].base] # None =>
              revs'[plans'[p].target].model \in
                ApplyAll(revs'[plans'[p].base].model, changesets'[plans'[p].cs].patch)
         /\ plans'[p].patch = changesets'[plans'[p].cs].patch =>
              plans'[p].model = revs'[plans'[p].target].model
  <1> DEFINE x == plans[p]
             c == x.cs
             patch == changesets[c].patch
  <1>1. /\ x # None /\ x.state = "planned" /\ x.base = head /\ c \in Changesets
        /\ plans'[p].cs = c /\ plans'[p].base = head /\ plans'[p].target = head + 1
        /\ plans'[p].model = x.model /\ plans'[p].patch = x.patch
    BY DEF PlanIsCommitted
  <1>2. /\ changesets'[c].committed = head + 1 /\ changesets'[c].patch = patch
        /\ changesets[c] # None
    BY DEF PlanIsCommitted, ChangesetIsCommitted
  <1>3. PICK m \in Accepted(tables, patch) : NewHead(m, None)
    BY DEF PlanIsCommitted
  <1>4. /\ revs'[head + 1] = [model |-> m, parent |-> head, rollbackOf |-> None]
        /\ revs'[head] = revs[head]
    BY <1>3, RowsAssumption DEF NewHead, TypeInv, Revisions
  <1>5. revs'[head].model = tables /\ revs'[head + 1].model = m /\ revs'[head + 1].parent = head
    BY <1>4 DEF HeadInv
  <1>6. patch \in Seq(PatchOps) /\ tables \in Models
    BY <1>1, <1>2, ChangesetFields DEF TypeInv
  <1>7. x.model \in Accepted(tables, x.patch)
    BY <1>1 DEF PlansInv, PlanIsRight, Rows, TypeInv
  <1>8. m \in ApplyAll(tables, patch) /\ (x.patch = patch => x.model = m)
    BY <1>3, <1>6, <1>7, AcceptedType
  <1> HIDE DEF x, c, patch
  <1> QED
    BY <1>1, <1>2, <1>5, <1>8

(* Commits replay their patch, and are what was planned.                   *)
LEMMA CommittedKeeps ==
  ASSUME TypeInv, TypeInv', HeadInv, HeadInv', PlansInv, RowsResolve, CommittedInv, Moves
  PROVE  CommittedInv'
  <1>1. ASSUME NEW p \in Rows(plans'), plans'[p].target # None, plans'[p].cs # None,
               revs'[plans'[p].target] # None
        PROVE  /\ changesets'[plans'[p].cs].committed = plans'[p].target
               /\ revs'[plans'[p].target].parent \in {plans'[p].base, None}
               /\ revs'[plans'[p].base] # None =>
                    revs'[plans'[p].target].model \in
                      ApplyAll(revs'[plans'[p].base].model, changesets'[plans'[p].cs].patch)
               /\ plans'[p].patch = changesets'[plans'[p].cs].patch =>
                    plans'[p].model = revs'[plans'[p].target].model
    <2>1. p \in Plans /\ plans'[p] # None
      BY DEF Rows, TypeInv
    <2>2. PlanStays(p) \/ PlanIsCommitted(p)
      BY <1>1, <2>1 DEF Moves, PlansMove, PlanGoes, PlanIsSealed, PlanIsMade
    <2>3. CASE PlanStays(p)
      BY <1>1, <2>1, <2>3, CommittedRest
    <2>4. CASE PlanIsCommitted(p)
      BY <2>1, <2>4, CommittedNow
    <2> QED
      BY <2>2, <2>3, <2>4
  <1>2. \A p \in Plans : Committed(p)' <=> plans'[p] # None /\ plans'[p].target # None
    BY DEF Committed
  <1>3. CommitsReplayTheirPatch'
    BY <1>1, <1>2 DEF CommitsReplayTheirPatch, Committed
  <1>4. WhatWasPlannedIsCommitted'
    BY <1>1, <1>2 DEF WhatWasPlannedIsCommitted, Committed
  <1> QED
    BY <1>3, <1>4 DEF CommittedInv

(* Epochs rank revisions: what is committed gets the highest of both.      *)
LEMMA EpochsKeep ==
  ASSUME TypeInv, TypeInv', PlansInv, EpochsRankRevisions, Moves
  PROVE  EpochsRankRevisions'
  <1>0. HistoryMoves /\ PlansMove
    BY DEF Moves
  <1>1. head \in Nat /\ head' \in Nat /\ head <= head'
    BY <1>0, HeadGoesUp
  <1> DEFINE New(p) == PlanIsCommitted(p) \/ PlanIsMade(p)
  <1>2. \A p \in Plans : plans'[p] # None /\ plans'[p].target # None =>
          (PlanStays(p) /\ Committed(p)) \/ New(p)
    BY <1>0 DEF PlansMove, PlanGoes, PlanIsSealed, PlanStays, Committed
  <1>3. \A p \in Plans, q \in Plans : New(p) /\ p # q => ~New(q)
    <2>1. \A p \in Plans : PlanStays(p) \/ PlanGoes(p) => ~New(p)
      <3>1. ASSUME NEW p \in Plans, New(p)
            PROVE  ~PlanStays(p) /\ ~PlanGoes(p)
        <4>1. plans'[p] # None /\ plans'[p].state \in Reserved
              /\ (plans[p] = None \/ plans[p].state \notin Reserved)
          BY <3>1 DEF PlanIsCommitted, PlanIsMade, Reserved
        <4> QED
          BY <4>1 DEF PlanStays, PlanGoes
      <3> HIDE DEF New
      <3> QED
        BY <3>1
    <2> HIDE DEF New
    <2> QED
      BY <1>0, <2>1 DEF PlansMove
  <1>4. ASSUME NEW p \in Plans, PlanStays(p), Committed(p)
        PROVE  /\ plans'[p].epoch = plans[p].epoch /\ plans'[p].target = plans[p].target
               /\ plans[p].epoch \in Nat /\ plans[p].epoch < NextEpoch
               /\ plans[p].target \in Nat /\ plans[p].target <= head
    <2>1. p \in Rows(plans) /\ plans[p] # None /\ plans[p].target # None
      BY <1>4 DEF Committed, Rows, TypeInv
    <2>2. plans[p].target <= head /\ plans[p].target \in Nat
      BY <2>1, PlanFields DEF PlansInv, PlanIsRight, Revisions
    <2> QED
      BY <1>4, <2>1, <2>2, NextEpochOutranks DEF PlanStays
  <1>5. ASSUME NEW p \in Plans, New(p)
        PROVE  plans'[p].epoch = NextEpoch /\ plans'[p].target = head'
    BY <1>5 DEF PlanIsCommitted, PlanIsMade, ChangesetIsCommitted
  <1>6. NextEpoch \in Nat
    BY NextEpochOutranks
  <1> HIDE DEF New
  <1>7. ASSUME NEW p \in Plans, NEW q \in Plans, p # q,
               plans'[p] # None, plans'[p].target # None, plans'[q] # None, plans'[q].target # None
        PROVE  /\ plans'[p].epoch # plans'[q].epoch
               /\ plans'[p].epoch < plans'[q].epoch => plans'[p].target <= plans'[q].target
    <2>1. CASE New(p)
      <3>1. PlanStays(q) /\ Committed(q)
        BY <1>2, <1>3, <1>7, <2>1
      <3>2. plans'[q].epoch \in Nat /\ plans'[q].epoch < NextEpoch /\ plans'[p].epoch = NextEpoch
        BY <1>4, <1>5, <2>1, <3>1
      <3> QED
        BY <1>6, <3>2
    <2>2. CASE New(q)
      <3>1. PlanStays(p) /\ Committed(p)
        BY <1>2, <1>3, <1>7, <2>2
      <3>2. /\ plans'[p].epoch \in Nat /\ plans'[p].epoch < NextEpoch /\ plans'[q].epoch = NextEpoch
            /\ plans'[p].target \in Nat /\ plans'[p].target <= head /\ plans'[q].target = head'
        BY <1>4, <1>5, <2>2, <3>1
      <3> QED
        BY <1>1, <1>6, <3>2
    <2>3. CASE ~New(p) /\ ~New(q)
      <3>1. PlanStays(p) /\ Committed(p) /\ PlanStays(q) /\ Committed(q)
        BY <1>2, <1>7, <2>3
      <3>2. /\ plans[p].epoch # plans[q].epoch
            /\ plans[p].epoch < plans[q].epoch => plans[p].target <= plans[q].target
        BY <1>7, <3>1 DEF EpochsRankRevisions
      <3> QED
        BY <1>4, <3>1, <3>2
    <2> QED
      BY <2>1, <2>2, <2>3
  <1> QED
    BY <1>7 DEF EpochsRankRevisions, Committed

-----------------------------------------------------------------------------
(* The invariant, and the theorems.                                        *)

(* An empty store is right.                                                *)
LEMMA StoreStarts == Init => StoreInv
  <1> SUFFICES ASSUME Init PROVE StoreInv
    OBVIOUS
  <1> DEFINE row == [model |-> EmptyModel, parent |-> None, rollbackOf |-> None]
  <1>1. EmptyModel \in Models
    BY DEF EmptyModel, Models
  <1>2. row \in RevisionRows /\ row # None
        /\ row.model = EmptyModel /\ row.parent = None /\ row.rollbackOf = None
    BY <1>1, NoneAssumption DEF RevisionRows
  <1> HIDE DEF row
  <1>3. 1 \in Revisions /\ head = 1 /\ tables = EmptyModel
    BY RowsAssumption DEF Init, Revisions
  <1>4. revs = [r \in Revisions |-> IF r = 1 THEN row ELSE None]
    BY DEF Init, row
  <1>5. Rows(revs) = {1} /\ revs[1] = row
    BY <1>2, <1>3, <1>4 DEF Rows
  <1>6. /\ DOMAIN plans = Plans /\ Rows(plans) = {} /\ \A p \in Plans : plans[p] = None
        /\ Rows(changesets) = {} /\ Rows(request) = {}
    BY DEF Init, Rows
  <1>7. ops = <<>> /\ ops \in Seq(OperationRows) /\ DOMAIN ops = {}
    BY DEF Init
  <1>8. TypeInv
    BY <1>1, <1>2, <1>3, <1>4, <1>7 DEF Init, TypeInv
  <1>9. HeadInv
    BY <1>2, <1>3, <1>5 DEF HeadInv
  <1>10. RowsInv
    BY <1>5, <1>6, <1>7, <1>9
      DEF RowsInv, RevisionsArePlanned, ChangesetsInv, PlansInv, RequestsInv, OpsInv
  <1>11. ReferencesResolve
    BY <1>2, <1>5, <1>6, <1>7 DEF ReferencesResolve
  <1>12. CommitsReplayTheirPatch /\ WhatWasPlannedIsCommitted /\ EpochsRankRevisions
    BY <1>6 DEF CommitsReplayTheirPatch, WhatWasPlannedIsCommitted, EpochsRankRevisions, Committed
  <1>13. RollbacksRestore
    BY <1>2, <1>5 DEF RollbacksRestore
  <1> QED
    BY <1>8, <1>10, <1>11, <1>12, <1>13 DEF StoreInv

(* Every step keeps it.                                                    *)
LEMMA StoreStep == StoreInv /\ [Next]_storeVars => StoreInv'
  <1> SUFFICES ASSUME StoreInv, [Next]_storeVars PROVE StoreInv'
    OBVIOUS
  <1>1. TypeInv /\ RowsInv /\ ReferencesResolve /\ CommittedInv
        /\ EpochsRankRevisions /\ RollbacksRestore
    BY DEF StoreInv, CommittedInv
  <1>2. HeadInv /\ RevisionsArePlanned /\ ChangesetsInv /\ PlansInv /\ RequestsInv /\ OpsInv
    BY <1>1 DEF RowsInv
  <1>3. HistoryResolves /\ RowsResolve /\ OpsResolve
    BY <1>1, ResolveParts
  <1>4. Moves
    BY <1>1, <1>3, StepMoves
  <1>5. TypeInv'
    BY <1>1, <1>2, <1>3, <1>4, TypesKept
  <1>6. HeadInv' /\ HistoryResolves' /\ RollbacksRestore'
    BY <1>1, <1>2, <1>3, <1>4, HistoryStep DEF Moves, HistoryMoves
  <1>7. RevisionsArePlanned'
    BY <1>1, <1>2, <1>4, <1>5, PlannedKept DEF Moves
  <1>8. ChangesetsInv'
    BY <1>1, <1>2, <1>4, <1>5, ChangesetsKeep DEF Moves
  <1>9. PlansInv'
    BY <1>1, <1>2, <1>3, <1>4, <1>5, PlansKeep
  <1>10. RequestsInv'
    BY <1>1, <1>2, <1>4, RequestsKeep
  <1>11. OpsInv' /\ OpsResolve'
    BY <1>1, <1>2, <1>3, <1>4, <1>5, OpsKeep
  <1>12. RowsResolve'
    BY <1>1, <1>2, <1>3, <1>4, <1>5, <1>6, RowsKeep
  <1>13. CommittedInv'
    BY <1>1, <1>2, <1>3, <1>4, <1>5, <1>6, CommittedKeeps
  <1>14. EpochsRankRevisions'
    BY <1>1, <1>2, <1>4, <1>5, EpochsKeep
  <1>15. ReferencesResolve'
    BY <1>6, <1>11, <1>12 DEF ReferencesResolve, HistoryResolves, RowsResolve, OpsResolve
  <1>16. RowsInv'
    BY <1>6, <1>7, <1>8, <1>9, <1>10, <1>11 DEF RowsInv
  <1> QED
    BY <1>5, <1>6, <1>13, <1>14, <1>15, <1>16 DEF StoreInv, CommittedInv

(* It always holds.                                                        *)
LEMMA StoreIsRight == Spec => []StoreInv
  BY StoreStarts, StoreStep, PTL DEF Spec

(* Every table keeps its type (TypeOK): a plan that is committed has a     *)
(* target, an apply is of a plan that is there, the head is a revision.    *)
THEOREM StoreTypeCorrect == Spec => []TypeOK
  <1>1. StoreInv => TypeOK
    BY ChangesetFields, PlanFields, OpFields DEF StoreInv, RowsInv, HeadInv, TypeInv, TypeOK, Rows
  <1> QED
    BY <1>1, StoreIsRight, PTL

(* A commit applies the changeset's patch to the revision that was head    *)
(* before it and that its plan was based on: no commit is lost or applied  *)
(* over another one (commit, config-store.ts).                             *)
THEOREM NoCommitIsLost == Spec => []CommitsReplayTheirPatch
  <1>1. StoreInv => CommitsReplayTheirPatch
    BY DEF StoreInv
  <1> QED
    BY <1>1, StoreIsRight, PTL

(* What is committed is what the plan showed, if nobody patched the        *)
(* changeset since (plan, commit).                                         *)
THEOREM PlansAreKept == Spec => []WhatWasPlannedIsCommitted
  <1>1. StoreInv => WhatWasPlannedIsCommitted
    BY DEF StoreInv
  <1> QED
    BY <1>1, StoreIsRight, PTL

(* Of two committed plans the one with the higher epoch never has the      *)
(* older revision (commit, rollbackTo, #planHeadAgain, activeRevision).    *)
THEOREM EpochsRank == Spec => []EpochsRankRevisions
  <1>1. StoreInv => EpochsRankRevisions
    BY DEF StoreInv
  <1> QED
    BY <1>1, StoreIsRight, PTL

(* A rollback restores what its source holds, however the objects are      *)
(* taken away and put back (rollbackTo, opsOf).                            *)
THEOREM RollbacksAreExact == Spec => []RollbacksRestore
  <1>1. StoreInv => RollbacksRestore
    BY DEF StoreInv
  <1> QED
    BY <1>1, StoreIsRight, PTL

(* Whatever was swept, every row a row refers to is there and the history  *)
(* has no hole (sweepDatabase, pruneRevisionPrefix).                       *)
THEOREM SweepsKeepReferences == Spec => []ReferencesResolve
  <1>1. StoreInv => ReferencesResolve
    BY DEF StoreInv
  <1> QED
    BY <1>1, StoreIsRight, PTL
=============================================================================
