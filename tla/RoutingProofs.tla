----------------------------- MODULE RoutingProofs -----------------------------
(***************************************************************************)
(* Whatever the nodes, the backends, the thresholds and the faults: the    *)
(* state of the prober and of the projections keeps its type, the verdicts *)
(* follow the latest results, and the leader's engine serves what is       *)
(* eligible once its calls are done and nothing failed.                    *)
(***************************************************************************)
EXTENDS Routing, TLAPS, FiniteSetTheorems, WellFoundedInduction

-----------------------------------------------------------------------------
(* The invariants.                                                         *)

(* A row's streak is how long its latest results have been equal: as far   *)
(* as they are kept, they are equal for that long and no longer.           *)
StreakIsExact(row) ==
  LET length == Len(row.last) IN
  /\ row.streak <= length /\ length <= Fall + Rise
  /\ \A i \in 1..length : i > length - row.streak => row.last[i] = row.ok
  /\ row.streak < length => row.last[length - row.streak] # row.ok
VerdictIsDue(row) ==
  /\ row.ok /\ row.streak >= Rise => row.state = "healthy"
  /\ ~row.ok /\ row.streak >= Fall => row.state = "unhealthy"
RowsAreCounted ==
  \A b \in Backends : verdict[b] # None => StreakIsExact(verdict[b]) /\ VerdictIsDue(verdict[b])

(* A call knows no epoch and no version that does not exist yet.           *)
CallsAreBounded ==
  \A n \in Nodes, k \in Kinds : call[n][k].epoch <= issued /\ call[n][k].version <= version

TypeInv == RoutingTypeOK /\ CallsAreBounded

(* Only an apply and a tick stage an epoch; nobody else has the one that an *)
(* apply stages, and a tick stages another than the engine serves.         *)
Staging(n, k) == call[n][k].pc \in {"stage", "activate"}
OnlyTwoStage == \A n \in Nodes, k \in Kinds : Staging(n, k) => k \in {"apply", "tick"}
AppliesAreFresh ==
  \A n \in Nodes : Staging(n, "apply") =>
    /\ active # call[n]["apply"].epoch
    /\ \A m \in Nodes :
         /\ engine[m].epoch # call[n]["apply"].epoch
         /\ \A k \in Kinds : Staging(m, k) /\ call[m][k].epoch = call[n]["apply"].epoch =>
              m = n /\ k = "apply"
TicksGoElsewhere ==
  \A n \in Nodes : Staging(n, "tick") => call[n]["tick"].epoch # engine[n].epoch
StagingInv == OnlyTwoStage /\ AppliesAreFresh /\ TicksGoElsewhere

(* What was computed at the current version is what is eligible.           *)
CallsAreCurrent ==
  \A n \in Nodes, k \in Kinds :
    call[n][k].pc \in {"push", "stage", "activate"} /\ call[n][k].version = version =>
      call[n][k].slots = Eligible
EnginesAreCurrent == \A n \in Nodes : shown[n] = version => Served(n) = Eligible
CurrentInv == CallsAreCurrent /\ EnginesAreCurrent

(* A change the leader's engine lacks, and is not known to lack, is owed   *)
(* by a call that has still to read it, or has read it and will push it    *)
(* where the engine stands.                                                *)
Owing(n, k) ==
  LET r == call[n][k] IN
  \/ r.pc = "epoch"
  \/ r.pc = "eligible" /\ r.epoch = engine[n].epoch
  \/ r.pc = "push" /\ r.epoch = engine[n].epoch /\ r.version = version
  \/ r.pc \in {"stage", "activate"} /\ r.epoch > engine[n].epoch
Owes(n) == prober[n].flipped \/ \E k \in Kinds : Owing(n, k)
FlipsAreBeingWritten == \A n \in Nodes : prober[n].flipped => prober[n].pc = "writing"
ShownIsKnown == \A n \in Nodes : shown[n] <= due[n]
ChangesAreOwed ==
  \A n \in Nodes : leader = n /\ ~pending /\ due[n] < version => Owes(n)

VersionsBegin == version >= 1 /\ \A n \in Nodes : due[n] >= 1

ServingInv ==
  /\ VersionsBegin
  /\ StagingInv /\ CurrentInv
  /\ FlipsAreBeingWritten /\ ShownIsKnown /\ ChangesAreOwed

-----------------------------------------------------------------------------
(* Least and greatest numbers.                                             *)

(* Every set of natural numbers has a least one.                           *)
LEMMA LeastNumber ==
  ASSUME NEW T \in SUBSET Nat, T # {}
  PROVE  \E x \in T : \A y \in T : x <= y
  <1>1. PICK x \in T : \A y \in T : ~(<<y, x>> \in OpToRel(<, Nat))
    BY NatLessThanWellFounded, WFMin
  <1>2. \A y \in T : ~ (y < x)
    BY <1>1 DEF OpToRel
  <1> QED
    BY <1>2

(* A finite one has a greatest: the one with the fewest above it.          *)
LEMMA GreatestNumber ==
  ASSUME NEW S \in SUBSET Nat, S # {}, IsFiniteSet(S)
  PROVE  Greatest(S) \in S /\ \A y \in S : y <= Greatest(S)
  <1> DEFINE Above(x) == {y \in S : y > x}
             T == {Cardinality(Above(x)) : x \in S}
  <1>1. \A x \in S : IsFiniteSet(Above(x)) /\ Cardinality(Above(x)) \in Nat
    BY FS_Subset, FS_CardinalityType
  <1>2. PICK x \in S : \A y \in S : Cardinality(Above(x)) <= Cardinality(Above(y))
    <2> HIDE DEF Above
    <2>1. T \in SUBSET Nat /\ T # {}
      BY <1>1
    <2>2. PICK c \in T : \A y \in T : c <= y
      BY <2>1, LeastNumber
    <2> QED
      BY <2>2
  <1>3. ASSUME NEW y \in S, y > x PROVE FALSE
    <2>1. x \in Nat /\ y \in Nat /\ \A z \in S : z \in Nat
      OBVIOUS
    <2>2. ASSUME NEW z \in Above(y) PROVE z \in Above(x)
      <3>1. z \in S /\ z > y /\ z \in Nat
        BY <2>1, <2>2
      <3>2. z > x
        BY <1>3, <2>1, <3>1
      <3> QED
        BY <3>1, <3>2
    <2>3. y \in Above(x) /\ y \notin Above(y)
      BY <1>3, <2>1
    <2> HIDE DEF Above
    <2>4. Cardinality(Above(y)) <= Cardinality(Above(x)) /\ Cardinality(Above(y)) # Cardinality(Above(x))
      BY <1>1, <2>2, <2>3, FS_Subset
    <2> QED
      BY <1>1, <1>2, <2>4
  <1>4. \A y \in S : y <= x
    BY <1>3
  <1> QED
    BY <1>4 DEF Greatest

-----------------------------------------------------------------------------
(* The prober.                                                             *)

(* The order probes started in is numbered by numbers.                     *)
LEMMA StartedIsFinite ==
  ASSUME ProberTypeOK
  PROVE  Started \subseteq Nat /\ IsFiniteSet(Started)
  <1> DEFINE known == {x \in Backends : verdict[x] # None}
             stored == {verdict[b].start : b \in known}
             under(n) == {prober[n].runs[i].start : i \in DOMAIN prober[n].runs}
  <1>1. IsFiniteSet(stored) /\ stored \subseteq Nat
    <2>1. IsFiniteSet(known)
      <3>1. IsFiniteSet(DOMAIN BackendOrder)
        BY FS_Interval, ProberAssumption
      <3>2. BackendOrder \in Surjection(DOMAIN BackendOrder, Backends)
        BY ProberAssumption DEF Surjection, Range
      <3>3. IsFiniteSet(Backends)
        BY <3>1, <3>2, FS_Surjection
      <3> QED
        BY <3>3, FS_Subset
    <2>2. [b \in known |-> verdict[b].start] \in Surjection(known, stored)
      BY DEF Surjection, Range
    <2>3. stored \subseteq Nat
      BY DEF ProberTypeOK, VerdictRows
    <2> HIDE DEF known, stored
    <2> QED
      BY <2>1, <2>2, <2>3, FS_Surjection
  <1>2. ASSUME NEW n \in Nodes PROVE IsFiniteSet(under(n)) /\ under(n) \subseteq Nat
    <2>1. prober[n].runs \in Seq(Runs)
      BY DEF ProberTypeOK, Probers
    <2>2. IsFiniteSet(DOMAIN prober[n].runs)
      <3>1. DOMAIN prober[n].runs = 1..Len(prober[n].runs) /\ Len(prober[n].runs) \in Int
        BY <2>1
      <3> QED
        BY <3>1, FS_Interval
    <2>3. [i \in DOMAIN prober[n].runs |-> prober[n].runs[i].start]
             \in Surjection(DOMAIN prober[n].runs, under(n))
      BY DEF Surjection, Range
    <2>4. under(n) \subseteq Nat
      <3>1. \A i \in DOMAIN prober[n].runs : prober[n].runs[i] \in Runs
        BY <2>1
      <3>2. \A i \in DOMAIN prober[n].runs : prober[n].runs[i].start \in Nat
        BY <3>1 DEF Runs
      <3> QED
        BY <3>2
    <2> HIDE DEF under
    <2> QED
      BY <2>2, <2>3, <2>4, FS_Surjection
  <1>3. IsFiniteSet({under(n) : n \in Nodes})
    <2> HIDE DEF under
    <2>1. [n \in Nodes |-> under(n)] \in Surjection(Nodes, {under(n) : n \in Nodes})
      BY DEF Surjection, Range
    <2> QED
      BY <2>1, ProberAssumption, FS_Surjection
  <1>4. Started = stored \cup UNION {under(n) : n \in Nodes}
    BY DEF Started
  <1> HIDE DEF stored, under
  <1>5. IsFiniteSet(UNION {under(n) : n \in Nodes})
    BY <1>2, <1>3, FS_UNION
  <1> QED
    BY <1>1, <1>2, <1>4, <1>5, FS_Union

ProberInv == ProberTypeOK /\ RowsAreCounted

(* The latest results with one more: the oldest goes when all are there.   *)
LEMMA LatestIsKept ==
  ASSUME NEW row, NEW ok \in BOOLEAN, row # None => row.last \in Seq(BOOLEAN),
         row # None => Len(row.last) <= Fall + Rise
  PROVE  LET before == IF row = None THEN <<>> ELSE row.last
             length == Len(before)
             kept == IF length < Fall + Rise THEN 0 ELSE 1
         IN /\ Latest(row, ok) \in Seq(BOOLEAN)
            /\ Len(Latest(row, ok)) = length + 1 - kept
            /\ Latest(row, ok)[length + 1 - kept] = ok
            /\ \A i \in 1..(length - kept) : Latest(row, ok)[i] = before[i + kept]
  <1> DEFINE before == IF row = None THEN <<>> ELSE row.last
  <1>1. before \in Seq(BOOLEAN) /\ Len(before) \in Nat /\ Fall + Rise \in Nat /\ Fall + Rise >= 1
    <2>1. Fall + Rise \in Nat /\ Fall + Rise >= 1
      BY ProberAssumption
    <2>2. before \in Seq(BOOLEAN)
      <3>1. CASE row = None
        BY <3>1
      <3>2. CASE row # None
        BY <3>2
      <3> QED
        BY <3>1, <3>2
    <2> HIDE DEF before
    <2> QED
      BY <2>1, <2>2
  <1>2. Latest(row, ok) = IF Len(before) < Fall + Rise THEN Append(before, ok)
                          ELSE Append(Tail(before), ok)
    BY DEF Latest
  <1> HIDE DEF before
  <1>3. CASE Len(before) < Fall + Rise
    BY <1>1, <1>2, <1>3 DEF before
  <1>4. CASE ~(Len(before) < Fall + Rise)
    <2>1. before # <<>>
      BY <1>1, <1>4
    <2>2. /\ Tail(before) \in Seq(BOOLEAN) /\ Len(Tail(before)) = Len(before) - 1
          /\ \A i \in 1..(Len(before) - 1) : Tail(before)[i] = before[i + 1]
      BY <1>1, <2>1
    <2> QED
      BY <1>1, <1>2, <1>4, <2>2 DEF before
  <1> QED
    BY <1>3, <1>4

(* A result that is written counts: the streak stays exact and the verdict *)
(* due.                                                                    *)
LEMMA ObservedIsCounted ==
  ASSUME ProberInv, NEW r \in Runs
  PROVE  Observed(r) \in VerdictRows /\ StreakIsExact(Observed(r)) /\ VerdictIsDue(Observed(r))
  <1> DEFINE v == verdict[r.b]
             ok == r.ok
             streak == Streak(v, ok)
             last == Latest(v, ok)
             row == Observed(r)
             before == IF v = None THEN <<>> ELSE v.last
             length == Len(before)
             kept == IF length < Fall + Rise THEN 0 ELSE 1
  <1>1. /\ r.b \in Backends /\ ok \in BOOLEAN /\ r.seq \in 1..MaxSeq /\ r.start \in Nat
        /\ v # None => v \in VerdictRows /\ StreakIsExact(v)
    BY DEF ProberInv, ProberTypeOK, RowsAreCounted, Runs
  <1>2. /\ row.state = Judged(StateOf(r.b), ok, streak) /\ row.seq = r.seq /\ row.ok = ok
        /\ row.streak = streak /\ row.start = r.start /\ row.last = last
        /\ row = [state |-> row.state, seq |-> r.seq, ok |-> ok, streak |-> streak,
                  start |-> r.start, last |-> last]
    BY DEF Observed
  <1>3. /\ v # None => /\ v.last \in Seq(BOOLEAN) /\ Len(v.last) <= Fall + Rise
                       /\ v.streak <= Len(v.last) /\ v.streak \in 1..(Fall + Rise)
                       /\ v.ok \in BOOLEAN /\ v.state \in States
                       /\ \A i \in 1..Len(v.last) : i > Len(v.last) - v.streak => v.last[i] = v.ok
                       /\ v.streak < Len(v.last) => v.last[Len(v.last) - v.streak] # v.ok
    BY <1>1 DEF VerdictRows, StreakIsExact
  <1>4. /\ last \in Seq(BOOLEAN) /\ Len(last) = length + 1 - kept
        /\ last[length + 1 - kept] = ok
        /\ \A i \in 1..(length - kept) : last[i] = before[i + kept]
    BY ZenonT(30), <1>1, <1>3, LatestIsKept
  <1>5. /\ Fall \in Nat /\ Rise \in Nat /\ Fall + Rise \in Nat /\ Fall + Rise >= 2
    BY ProberAssumption
  <1>6. StateOf(r.b) \in States
    BY <1>3 DEF StateOf, States
  <1>7. row.state \in States
    BY <1>2, <1>6 DEF Judged, States
  <1> HIDE DEF last, row
  <1>8. /\ streak \in 1..(Fall + Rise) /\ streak <= Len(last) /\ Len(last) <= Fall + Rise
        /\ \A i \in 1..Len(last) : i > Len(last) - streak => last[i] = ok
        /\ streak < Len(last) => last[Len(last) - streak] # ok
    <2>1. CASE v = None
      <3>1. streak = 1 /\ length = 0 /\ kept = 0
        BY <2>1, <1>5 DEF Streak
      <3> HIDE DEF streak, length, kept
      <3> QED
        BY <3>1, <1>4, <1>5
    <2>k. /\ length \in Nat /\ length <= Fall + Rise /\ kept \in {0, 1}
          /\ kept = 0 => length < Fall + Rise
          /\ kept = 1 => length = Fall + Rise
      BY <1>3, <1>5
    <2>2. CASE v # None /\ v.ok = ok
      <3>1. streak = (IF v.streak < Fall + Rise THEN v.streak + 1 ELSE v.streak)
        BY <2>2 DEF Streak
      <3>2. /\ v.streak \in Nat /\ 1 <= v.streak /\ v.streak <= length
            /\ \A i \in 1..length : i > length - v.streak => before[i] = ok
            /\ v.streak < length => before[length - v.streak] # ok
        BY <1>3, <1>5, <2>2
      <3> HIDE DEF v, ok, streak, before, length, kept
      <3>3. /\ streak \in 1..(Fall + Rise) /\ streak <= Len(last) /\ Len(last) <= Fall + Rise
        BY SMTT(30), <1>4, <1>5, <2>k, <3>1, <3>2
      <3>4. ASSUME NEW i \in 1..Len(last), i > Len(last) - streak PROVE last[i] = ok
        <4>1. CASE i = length + 1 - kept
          BY <1>4, <4>1
        <4>2. CASE i # length + 1 - kept
          <5>1. i \in 1..(length - kept) /\ i + kept \in 1..length
                /\ i + kept > length - v.streak
            BY <1>4, <1>5, <2>k, <3>1, <3>2, <3>4, <4>2
          <5> QED
            BY <1>4, <3>2, <5>1
        <4> QED
          BY <4>1, <4>2
      <3>5. ASSUME streak < Len(last) PROVE last[Len(last) - streak] # ok
        <4>1. /\ v.streak < length /\ streak = v.streak + 1
              /\ Len(last) - streak \in 1..(length - kept)
              /\ Len(last) - streak + kept = length - v.streak
          <5>1. CASE kept = 0
            BY <1>4, <1>5, <2>k, <3>1, <3>2, <3>5, <5>1
          <5>2. CASE kept = 1
            <6>1. Len(last) = length /\ v.streak # length
              BY <1>4, <1>5, <2>k, <3>1, <3>2, <3>5, <5>2
            <6> QED
              BY <1>5, <2>k, <3>1, <3>2, <3>5, <5>2, <6>1
          <5> QED
            BY <2>k, <5>1, <5>2
        <4> QED
          BY <1>4, <3>2, <4>1
      <3> QED
        BY <3>3, <3>4, <3>5
    <2>3. CASE v # None /\ v.ok # ok
      <3>1. streak = 1
        BY <2>3 DEF Streak
      <3>2. before[length] # ok /\ length >= 1
        <4>1. before = v.last /\ v.streak >= 1 /\ v.streak <= length /\ length \in 1..length
              /\ v.streak \in Nat
          BY <1>3, <1>5, <2>3, <2>k
        <4>2. length > length - v.streak
          BY <2>k, <4>1
        <4> QED
          BY <1>3, <2>3, <2>k, <4>1, <4>2
      <3> HIDE DEF v, ok, streak, before, length, kept
      <3>3. /\ streak \in 1..(Fall + Rise) /\ streak <= Len(last) /\ Len(last) <= Fall + Rise
        BY <1>4, <1>5, <2>k, <3>1, <3>2
      <3>4. ASSUME NEW i \in 1..Len(last), i > Len(last) - streak PROVE last[i] = ok
        <4>1. i = length + 1 - kept
          BY <1>4, <2>k, <3>1, <3>4
        <4> QED
          BY <1>4, <4>1
      <3>5. ASSUME streak < Len(last) PROVE last[Len(last) - streak] # ok
        <4>1. /\ Len(last) - streak \in 1..(length - kept)
              /\ Len(last) - streak + kept = length
          BY <1>4, <1>5, <2>k, <3>1, <3>2, <3>5
        <4> QED
          BY <1>4, <3>2, <4>1
      <3> QED
        BY <3>3, <3>4, <3>5
    <2> QED
      BY <2>1, <2>2, <2>3
  <1>9. row \in VerdictRows
    BY <1>1, <1>2, <1>4, <1>7, <1>8 DEF VerdictRows
  <1>10. StreakIsExact(row)
    BY <1>2, <1>8 DEF StreakIsExact
  <1>11. VerdictIsDue(row)
    BY <1>1, <1>2 DEF VerdictIsDue, Judged
  <1> QED
    BY <1>9, <1>10, <1>11 DEF row

(* Where the latest results are equal long enough, the streak is as long,  *)
(* so the verdict is what they say.                                        *)
LEMMA CountedFollow == ProberInv => VerdictsFollowResults
  <1> SUFFICES ASSUME ProberInv, NEW b \in Backends, verdict[b] # None
               PROVE  /\ EndsIn(verdict[b].last, Fall, FALSE) => verdict[b].state = "unhealthy"
                      /\ EndsIn(verdict[b].last, Rise, TRUE) => verdict[b].state = "healthy"
    BY DEF VerdictsFollowResults
  <1> DEFINE row == verdict[b]
  <1>1. row \in VerdictRows /\ StreakIsExact(row) /\ VerdictIsDue(row)
    BY DEF ProberInv, ProberTypeOK, RowsAreCounted
  <1>2. /\ row.last \in Seq(BOOLEAN) /\ row.streak \in Nat /\ row.streak >= 1
        /\ row.ok \in BOOLEAN /\ Len(row.last) \in Nat
    BY <1>1, ProberAssumption DEF VerdictRows
  <1> HIDE DEF row
  <1>3. ASSUME NEW k \in Nat \ {0}, NEW ok \in BOOLEAN, EndsIn(row.last, k, ok)
        PROVE  row.ok = ok /\ row.streak >= k
    <2> DEFINE L == Len(row.last)
    <2>1. /\ L >= k /\ \A i \in (L - k + 1)..L : row.last[i] = ok
      BY <1>3 DEF EndsIn
    <2>2. /\ row.streak <= L
          /\ \A i \in 1..L : i > L - row.streak => row.last[i] = row.ok
          /\ row.streak < L => row.last[L - row.streak] # row.ok
      BY <1>1 DEF StreakIsExact
    <2> HIDE DEF L
    <2>3. L \in Nat
      BY <1>2 DEF L
    <2>4. row.last[L] = ok /\ row.last[L] = row.ok
      BY <1>2, <2>1, <2>2, <2>3
    <2>5. ~(row.streak < k)
      BY <1>2, <2>1, <2>2, <2>3, <2>4
    <2> QED
      BY <1>2, <2>4, <2>5
  <1>4. Fall \in Nat \ {0} /\ Rise \in Nat \ {0}
    BY ProberAssumption
  <1>5. EndsIn(row.last, Fall, FALSE) => row.state = "unhealthy"
    BY <1>1, <1>3, <1>4 DEF VerdictIsDue
  <1>6. EndsIn(row.last, Rise, TRUE) => row.state = "healthy"
    BY <1>1, <1>3, <1>4 DEF VerdictIsDue
  <1> QED
    BY <1>5, <1>6 DEF row

(* The number a sweep begins with is above none that could not be stored.  *)
LEMMA FirstType ==
  ASSUME ProberTypeOK, Backends # {}, NEW n \in Nodes
  PROVE  First(n) \in 1..(MaxSeq + 1)
  <1> DEFINE S == {StoredSeq(b) : b \in Backends}
  <1>1. MaxSeq \in Nat /\ S \subseteq 0..MaxSeq /\ S # {}
    <2>1. MaxSeq \in Nat
      BY ProberAssumption
    <2>2. ASSUME NEW b \in Backends PROVE StoredSeq(b) \in 0..MaxSeq
      <3>1. verdict[b] \in VerdictRows \cup {None}
        BY DEF ProberTypeOK
      <3>2. verdict[b] # None => verdict[b].seq \in 1..MaxSeq
        BY <3>1 DEF VerdictRows
      <3> QED
        BY <2>1, <3>2 DEF StoredSeq
    <2> QED
      BY <2>1, <2>2
  <1> HIDE DEF S
  <1>2. IsFiniteSet(S)
    <2>1. IsFiniteSet(0..MaxSeq)
      BY <1>1, FS_Interval
    <2> QED
      BY <1>1, <2>1, FS_Subset
  <1>3. Greatest(S) \in S
    BY <1>1, <1>2, GreatestNumber
  <1>4. LastSeq \in 0..MaxSeq
    BY <1>1, <1>3 DEF LastSeq, S
  <1>5. prober[n].next \in 0..(MaxSeq + 1)
    BY DEF ProberTypeOK, Probers
  <1> QED
    BY <1>1, <1>4, <1>5 DEF First

(* The order probes started in goes on.                                    *)
LEMMA LastStartType ==
  ASSUME ProberTypeOK
  PROVE  LastStart \in Nat
  <1>1. {0} \cup Started \subseteq Nat /\ IsFiniteSet({0} \cup Started)
    <2>1. Started \subseteq Nat /\ IsFiniteSet(Started)
      BY StartedIsFinite
    <2>2. IsFiniteSet({0})
      BY FS_Singleton
    <2>3. IsFiniteSet({0} \cup Started)
      BY <2>1, <2>2, FS_Union
    <2> QED
      BY <2>1, <2>3
  <1>2. Greatest({0} \cup Started) \in {0} \cup Started
    BY <1>1, GreatestNumber
  <1> QED
    BY <1>1, <1>2 DEF LastStart

(* A process whose record changes within its type is still a process.      *)
LEMMA SweepStartsType ==
  ASSUME ProberTypeOK, NEW n \in Nodes, NEW places \in Targets, SweepStarts(n, places)
  PROVE  prober' \in [Nodes -> Probers]
  <1>1. PICK k \in DOMAIN BackendOrder : places \in [1..k -> DOMAIN BackendOrder]
    BY DEF Targets
  <1>2. k \in Nat /\ k >= 1 /\ places \in Seq(DOMAIN BackendOrder) /\ Len(places) = k
        /\ DOMAIN places = 1..k
    BY <1>1, ProberAssumption
  <1>3. Backends # {} /\ \A i \in 1..k : BackendOrder[places[i]] \in Backends
    BY <1>1, ProberAssumption
  <1>4. First(n) \in 1..(MaxSeq + 1) /\ LastStart \in Nat /\ MaxSeq \in Nat
    BY <1>3, FirstType, LastStartType, ProberAssumption
  <1> DEFINE runs == [i \in DOMAIN places |->
                [b |-> BackendOrder[places[i]], seq |-> First(n) + i - 1, start |-> LastStart + i,
                 ok |-> FALSE, answered |-> FALSE]]
             next == First(n) + Len(places)
  <1>5. next <= MaxSeq + 1
    BY DEF SweepStarts
  <1>6. runs \in [1..k -> Runs]
    <2> SUFFICES ASSUME NEW i \in 1..k
                 PROVE  /\ First(n) + i - 1 \in 1..MaxSeq /\ LastStart + i \in Nat
      BY <1>2, <1>3 DEF Runs
    <2> QED
      BY <1>2, <1>4, <1>5
  <1>7. runs \in Seq(Runs)
    <2> HIDE DEF runs
    <2> QED
      BY <1>2, <1>6
  <1>8. next \in 0..(MaxSeq + 1)
    BY <1>2, <1>4, <1>5
  <1>9. prober' = [prober EXCEPT ![n] =
          [pc |-> "probing", next |-> next, flipped |-> FALSE, runs |-> runs]]
    BY DEF SweepStarts
  <1> HIDE DEF runs, next
  <1> QED
    BY <1>7, <1>8, <1>9 DEF ProberTypeOK, Probers

(* A probe that answers.                                                   *)
LEMMA AnswersType ==
  ASSUME ProberTypeOK, NEW n \in Nodes, NEW i \in DOMAIN prober[n].runs, Answers(n, i)
  PROVE  prober' \in [Nodes -> Probers]
  <1> DEFINE r == prober[n].runs[i]
             r2 == [r EXCEPT !.ok = up[r.b], !.answered = TRUE]
             p2 == [prober[n] EXCEPT !.runs = [@ EXCEPT ![i] = r2]]
  <1>1. prober[n] \in Probers /\ prober[n].runs \in Seq(Runs)
    BY DEF ProberTypeOK, Probers
  <1>2. r \in Runs
    BY <1>1
  <1>3. r2 \in Runs
    BY <1>2 DEF Runs, ProberTypeOK
  <1>4. [prober[n].runs EXCEPT ![i] = r2] \in Seq(Runs)
    <2> HIDE DEF r2
    <2> QED
      BY <1>1, <1>3
  <1>5. p2 \in Probers
    <2> HIDE DEF r2
    <2> QED
      BY <1>1, <1>4 DEF Probers
  <1>6. prober' = [prober EXCEPT ![n] = p2]
    BY <1>1 DEF Answers, ProberTypeOK
  <1> HIDE DEF p2
  <1> QED
    BY <1>5, <1>6 DEF ProberTypeOK

(* The first of a sweep's results that are still to be written, and the    *)
(* others.                                                                 *)
LEMMA RunsType ==
  ASSUME ProberTypeOK, NEW n \in Nodes, Writing(n)
  PROVE  Head(prober[n].runs) \in Runs /\ Tail(prober[n].runs) \in Seq(Runs)
  <1>1. prober[n].runs \in Seq(Runs) /\ prober[n].runs # <<>>
    BY DEF ProberTypeOK, Probers, Writing
  <1> QED
    BY <1>1

(* At the start nothing has been probed.                                   *)
LEMMA ProberStarts == ProberInit => ProberInv
  <1> SUFFICES ASSUME ProberInit PROVE ProberInv
    OBVIOUS
  <1>1. Fresh \in Probers
    BY ProberAssumption DEF Fresh, Probers
  <1>2. ProberTypeOK
    BY <1>1 DEF ProberInit, ProberTypeOK
  <1>3. RowsAreCounted
    BY DEF ProberInit, RowsAreCounted
  <1> QED
    BY <1>2, <1>3 DEF ProberInv

(* A result that is written leaves every row counted.                      *)
LEMMA WritesResultKeeps ==
  ASSUME ProberInv, NEW n \in Nodes, WritesResult(n)
  PROVE  ProberInv'
  <1> DEFINE r == Head(prober[n].runs)
             row == Observed(r)
             flips == ~IsStale(r) /\ row.state # StateOf(r.b)
  <1>1. ProberTypeOK /\ RowsAreCounted
    BY DEF ProberInv
  <1>2. Writing(n)
    BY DEF WritesResult
  <1>3. r \in Runs /\ Tail(prober[n].runs) \in Seq(Runs) /\ r.b \in Backends
    BY <1>1, <1>2, RunsType DEF Runs
  <1>4. row \in VerdictRows /\ StreakIsExact(row) /\ VerdictIsDue(row)
    BY <1>3, ObservedIsCounted
  <1>5. /\ prober' = [prober EXCEPT ![n].runs = Tail(@), ![n].flipped = @ \/ flips]
        /\ verdict' = IF IsStale(r) THEN verdict ELSE [verdict EXCEPT ![r.b] = row]
        /\ UNCHANGED <<up, head, leader>>
    BY DEF WritesResult
  <1> HIDE DEF r, row, flips
  <1>6. prober' \in [Nodes -> Probers]
    <2> DEFINE p == prober[n]
               flipped2 == p.flipped \/ flips
               p2 == [p EXCEPT !.runs = Tail(p.runs), !.flipped = flipped2]
    <2>1. p \in Probers /\ prober \in [Nodes -> Probers]
      BY <1>1 DEF ProberTypeOK
    <2>2. p2 \in Probers
      <3>1. /\ p.pc \in {"idle", "probing", "writing", "projecting"} /\ p.next \in 0..(MaxSeq + 1)
            /\ p = [pc |-> p.pc, next |-> p.next, runs |-> p.runs, flipped |-> p.flipped]
        BY <2>1 DEF Probers
      <3>2. flipped2 \in BOOLEAN
        OBVIOUS
      <3> HIDE DEF flipped2
      <3> QED
        BY <1>3, <2>1, <3>1, <3>2 DEF Probers
    <2>3. prober' = [prober EXCEPT ![n] = p2]
      BY <1>5, <2>1
    <2> HIDE DEF p2
    <2> QED
      BY <2>1, <2>2, <2>3
  <1>7. verdict' \in [Backends -> VerdictRows \cup {None}]
    BY <1>1, <1>3, <1>4, <1>5 DEF ProberTypeOK
  <1>8. ProberTypeOK'
    BY <1>1, <1>5, <1>6, <1>7 DEF ProberTypeOK
  <1>9. RowsAreCounted'
    <2> SUFFICES ASSUME NEW b \in Backends, verdict'[b] # None
                 PROVE  StreakIsExact(verdict'[b]) /\ VerdictIsDue(verdict'[b])
      BY DEF RowsAreCounted, StreakIsExact, VerdictIsDue
    <2>1. verdict'[b] = verdict[b] \/ verdict'[b] = row
      BY <1>1, <1>3, <1>5 DEF ProberTypeOK
    <2> QED
      BY <1>1, <1>4, <2>1 DEF RowsAreCounted
  <1> QED
    BY <1>8, <1>9 DEF ProberInv

(* Every step of the prober and of what surrounds it.                      *)
LEMMA ProberStep == ProberInv /\ [ProberNext]_proberVars => ProberInv'
  <1> SUFFICES ASSUME ProberInv, [ProberNext]_proberVars PROVE ProberInv'
    OBVIOUS
  <1>1. ProberTypeOK /\ RowsAreCounted
    BY DEF ProberInv
  <1>2. ASSUME UNCHANGED verdict, up' \in [Backends -> BOOLEAN], head' \subseteq Backends,
               leader' \in Nodes \cup {None}, prober' \in [Nodes -> Probers]
        PROVE  ProberInv'
    <2>1. ProberTypeOK'
      BY <1>1, <1>2 DEF ProberTypeOK
    <2>2. RowsAreCounted'
      BY <1>1, <1>2 DEF RowsAreCounted, StreakIsExact, VerdictIsDue
    <2> QED
      BY <2>1, <2>2 DEF ProberInv
  <1>3. /\ up \in [Backends -> BOOLEAN] /\ head \subseteq Backends
        /\ leader \in Nodes \cup {None} /\ prober \in [Nodes -> Probers]
    BY <1>1 DEF ProberTypeOK
  <1>4. Fresh \in Probers
    BY ProberAssumption DEF Fresh, Probers
  <1>5. ASSUME NEW n \in Nodes, NEW places \in Targets, SweepStarts(n, places) PROVE ProberInv'
    <2>1. UNCHANGED <<up, head, verdict, leader>>
      BY <1>5 DEF SweepStarts
    <2> QED
      BY <1>1, <1>2, <1>3, <1>5, <2>1, SweepStartsType
  <1>6. ASSUME NEW n \in Nodes, NEW i \in DOMAIN prober[n].runs, Answers(n, i) PROVE ProberInv'
    <2>1. UNCHANGED <<up, head, verdict, leader>>
      BY <1>6 DEF Answers
    <2> QED
      BY <1>1, <1>2, <1>3, <1>6, <2>1, AnswersType
  <1>7. ASSUME NEW n \in Nodes, Answered(n) \/ SweepEnds(n) \/ ChangeHandled(n)
        PROVE  ProberInv'
    <2>1. UNCHANGED <<up, head, verdict, leader>>
      BY <1>7 DEF Answered, SweepEnds, ChangeHandled
    <2>2. ASSUME NEW pc \in {"idle", "probing", "writing", "projecting"}, NEW flipped \in BOOLEAN
          PROVE  [prober[n] EXCEPT !.pc = pc, !.flipped = flipped] \in Probers
      BY <1>3 DEF Probers
    <2>3. CASE Answered(n)
      BY <1>2, <1>3, <2>1, <2>3 DEF Answered, Probers
    <2>4. CASE SweepEnds(n)
      <3> DEFINE pc == IF prober[n].flipped THEN "projecting" ELSE "idle"
      <3>1. prober' = [prober EXCEPT ![n] = [prober[n] EXCEPT !.pc = pc, !.flipped = FALSE]]
        BY <1>3, <2>4 DEF SweepEnds
      <3>2. pc \in {"idle", "projecting"}
        OBVIOUS
      <3> HIDE DEF pc
      <3>3. prober' \in [Nodes -> Probers]
        BY <1>3, <2>2, <3>1, <3>2
      <3> QED
        BY <1>2, <1>3, <2>1, <3>3
    <2>5. CASE ChangeHandled(n)
      BY <1>2, <1>3, <2>1, <2>5 DEF ChangeHandled, Probers
    <2> QED
      BY <1>7, <2>3, <2>4, <2>5
  <1>8. ASSUME NEW n \in Nodes, SweepFails(n) PROVE ProberInv'
    <2>1. UNCHANGED <<up, head, verdict, leader>>
      BY <1>8 DEF SweepFails
    <2>2. prober[n].next \in 0..(MaxSeq + 1)
      BY <1>3 DEF Probers
    <2>3. [Fresh EXCEPT !.next = prober[n].next] \in Probers
      BY <1>4, <2>2 DEF Probers
    <2>4. prober' \in [Nodes -> Probers]
      BY <1>3, <1>8, <2>3 DEF SweepFails
    <2> QED
      BY <1>2, <1>3, <2>1, <2>4
  <1>9. ASSUME NEW n \in Nodes, WritesResult(n) PROVE ProberInv'
    BY <1>9, WritesResultKeeps
  <1>10. ASSUME NEW n \in Nodes, Leads(n) PROVE ProberInv'
    BY <1>2, <1>3, <1>10 DEF Leads
  <1>11. ASSUME NEW n \in Nodes, Dies(n) PROVE ProberInv'
    <2>1. UNCHANGED <<up, head, verdict>> /\ leader' \in Nodes \cup {None}
      BY <1>3, <1>11 DEF Dies
    <2>2. prober' \in [Nodes -> Probers]
      BY <1>3, <1>4, <1>11 DEF Dies
    <2> QED
      BY <1>2, <1>3, <2>1, <2>2
  <1>12. ASSUME Yields PROVE ProberInv'
    BY <1>2, <1>3, <1>12 DEF Yields
  <1>13. ASSUME NEW b \in Backends, Turns(b) \/ Adds(b) PROVE ProberInv'
    BY <1>2, <1>3, <1>13 DEF Turns, Adds
  <1>14. ASSUME NEW b \in Backends, Removes(b) PROVE ProberInv'
    <2>1. ProberTypeOK'
      BY <1>1, <1>14 DEF Removes, ProberTypeOK
    <2>2. ASSUME NEW c \in Backends, verdict'[c] # None PROVE verdict'[c] = verdict[c]
      BY <1>1, <1>14, <2>2 DEF Removes, ProberTypeOK
    <2>3. RowsAreCounted'
      BY <1>1, <2>2 DEF RowsAreCounted, StreakIsExact, VerdictIsDue
    <2> QED
      BY <2>1, <2>3 DEF ProberInv
  <1>15. ASSUME UNCHANGED proberVars PROVE ProberInv'
    BY <1>2, <1>3, <1>15 DEF proberVars
  <1> QED
    BY <1>5, <1>6, <1>7, <1>8, <1>9, <1>10, <1>11, <1>12, <1>13, <1>14, <1>15
    DEF ProberNext, Probes

(* Every state of the prober: Fall failures in a row among the results     *)
(* that were not dropped make a backend unhealthy and Rise successes       *)
(* healthy, however sweeps, leaders, crashes and commits interleave        *)
(* (health.ts:462).                                                        *)
THEOREM VerdictsFollow == ProberSpec => []VerdictsFollowResults
  <1>1. ProberSpec => []ProberInv
    BY ProberStarts, ProberStep, PTL DEF ProberSpec
  <1> QED
    BY <1>1, CountedFollow, PTL

-----------------------------------------------------------------------------
(* Type correctness of the projections.                                    *)

(* What a step of the routing does to the prober's part of the state is a  *)
(* step of the prober, or nothing.                                         *)
LEMMA RoutingProbes == [RoutingNext]_routingVars => [ProberNext]_proberVars
  <1> SUFFICES ASSUME [RoutingNext]_routingVars PROVE [ProberNext]_proberVars
    OBVIOUS
  <1>1. ASSUME NEW n \in Nodes, NEW k \in Kinds, Goes(n, k) \/ Fails(n, k)
        PROVE  [ProberNext]_proberVars
    <2>1. ChangeHandled(n) \/ UNCHANGED proberVars
      BY <1>1 DEF Goes, Projects, ReadsEpoch, ReadsEligible, Pushes, Stages, Activates, Fails
    <2> QED
      BY <2>1 DEF ProberNext, Probes
  <1>2. ASSUME NEW n \in Nodes, Applies(n) \/ Ticks(n) \/ EngineRestarts(n)
        PROVE  [ProberNext]_proberVars
    BY <1>2 DEF Applies, Ticks, EngineRestarts
  <1>3. ASSUME NEW n \in Nodes, Sweeps(n) \/ FailsSweep(n) PROVE [ProberNext]_proberVars
    BY <1>3 DEF Sweeps, Probing, Writes, EndsSweep, FailsSweep, ProberNext, Probes
  <1>4. ASSUME NEW n \in Nodes, NEW b \in Backends, Drains(n, b) PROVE [ProberNext]_proberVars
    BY <1>4 DEF Drains
  <1>5. ASSUME NEW n \in Nodes, Promoted(n) \/ Boots(n) \/ Crashes(n)
        PROVE  [ProberNext]_proberVars
    BY <1>5 DEF Promoted, Boots, Crashes, ProberNext
  <1>6. ASSUME Demoted \/ EditsElsewhere PROVE [ProberNext]_proberVars
    BY <1>6 DEF Demoted, EditsElsewhere, ProberNext
  <1>7. ASSUME NEW b \in Backends, Edits(b) \/ BackendTurns(b) PROVE [ProberNext]_proberVars
    BY <1>7 DEF Edits, BackendTurns, ProberNext
  <1>8. ASSUME UNCHANGED routingVars PROVE [ProberNext]_proberVars
    BY <1>8 DEF routingVars
  <1> QED
    BY <1>1, <1>2, <1>3, <1>4, <1>5, <1>6, <1>7, <1>8 DEF RoutingNext

(* Routing is the prober with projections around it: its verdicts follow   *)
(* the latest results too.                                                 *)
THEOREM RoutingIsAProber == RoutingSpec => ProberSpec
  <1>1. RoutingInit => ProberInit
    BY DEF RoutingInit
  <1> QED
    BY <1>1, RoutingProbes, PTL DEF RoutingSpec, ProberSpec

(* Calls, after one of them changed.                                       *)
LEMMA OneCall ==
  ASSUME TypeInv, NEW n \in Nodes, NEW k \in Kinds, NEW r, call' = [call EXCEPT ![n][k] = r]
  PROVE  \A m \in Nodes, j \in Kinds :
           call'[m][j] = IF m = n /\ j = k THEN r ELSE call[m][j]
  <1>1. call \in [Nodes -> [Kinds -> CallStates]]
    BY DEF TypeInv, RoutingTypeOK
  <1> QED
    BY <1>1

(* Calls whose fields stay within what exists keep their type.             *)
LEMMA CallsType ==
  ASSUME TypeInv, issued' \in Epochs, issued <= issued', version' \in Nat, version <= version',
         NEW n \in Nodes, NEW k \in Kinds, NEW r \in CallStates,
         r.epoch <= issued', r.version <= version', call' = [call EXCEPT ![n][k] = r]
  PROVE  call' \in [Nodes -> [Kinds -> CallStates]] /\ CallsAreBounded'
  <1>1. call \in [Nodes -> [Kinds -> CallStates]] /\ version \in Nat /\ issued \in Epochs
    BY DEF TypeInv, RoutingTypeOK
  <1>2. call' \in [Nodes -> [Kinds -> CallStates]]
    BY <1>1
  <1>3. ASSUME NEW m \in Nodes, NEW j \in Kinds
        PROVE  call'[m][j].epoch <= issued' /\ call'[m][j].version <= version'
    <2>1. call'[m][j] = r \/ call'[m][j] = call[m][j]
      BY OneCall
    <2>2. call[m][j].epoch \in Epochs /\ call[m][j].version \in Nat
      BY <1>1 DEF CallStates
    <2>3. call[m][j].epoch <= issued /\ call[m][j].version <= version
      BY DEF TypeInv, CallsAreBounded
    <2>4. call[m][j].epoch <= issued' /\ call[m][j].version <= version'
      BY <1>1, <2>2, <2>3, RoutingAssumption DEF Epochs
    <2> QED
      BY <2>1, <2>4
  <1> QED
    BY <1>2, <1>3 DEF CallsAreBounded

(* Calls that stay as they are keep their type.                            *)
LEMMA CallsStay ==
  ASSUME TypeInv, issued' = issued, version' \in Nat, version <= version', UNCHANGED call
  PROVE  call' \in [Nodes -> [Kinds -> CallStates]] /\ CallsAreBounded'
  <1>1. call \in [Nodes -> [Kinds -> CallStates]] /\ version \in Nat
    BY DEF TypeInv, RoutingTypeOK
  <1>2. ASSUME NEW m \in Nodes, NEW j \in Kinds PROVE call[m][j].version <= version'
    <2>1. call[m][j].version <= version /\ call[m][j].version \in Nat
      BY <1>1 DEF TypeInv, CallsAreBounded, CallStates
    <2> QED
      BY <1>1, <2>1
  <1> QED
    BY <1>1, <1>2 DEF TypeInv, CallsAreBounded

(* What is counted when the eligible set may have changed.                 *)
LEMMA CountedType ==
  ASSUME TypeInv, NEW told \in SUBSET Nodes, Counted(told), shown' = shown
  PROVE  /\ version' \in Nat /\ version <= version'
         /\ shown' \in [Nodes -> 0..version'] /\ due' \in [Nodes -> 0..version']
  <1>1. version \in Nat /\ shown \in [Nodes -> 0..version] /\ due \in [Nodes -> 0..version]
    BY DEF TypeInv, RoutingTypeOK
  <1>2. version' \in Nat /\ version <= version'
    BY <1>1 DEF Counted
  <1>3. ASSUME NEW n \in Nodes
        PROVE  due[n] \in 0..version' /\ Later(due[n], version') \in 0..version'
               /\ shown[n] \in 0..version'
    BY <1>1, <1>2 DEF Later
  <1> QED
    BY <1>1, <1>2, <1>3 DEF Counted

(* And when an engine may lack it, or shows a version.                     *)
LEMMA GhostsType ==
  ASSUME TypeInv, NEW n \in Nodes
  PROVE  /\ Lacks(n) => due' \in [Nodes -> 0..version]
         /\ \A v \in 0..version :
              Shows(n, v) => shown' \in [Nodes -> 0..version] /\ due' \in [Nodes -> 0..version]
  <1>1. version \in Nat /\ shown \in [Nodes -> 0..version] /\ due \in [Nodes -> 0..version]
    BY DEF TypeInv, RoutingTypeOK
  <1> QED
    BY <1>1 DEF Lacks, Shows, Later

(* No call under way.                                                      *)
LEMMA NoCallType ==
  ASSUME TypeInv
  PROVE  /\ NoCall \in CallStates /\ NoCall.epoch <= issued /\ NoCall.version <= version
         /\ Projecting \in CallStates /\ Projecting.epoch <= issued
         /\ Projecting.version <= version
         /\ \A r \in CallStates : r.epoch \in Epochs /\ r.version \in Nat /\ r.slots \subseteq Backends
  <1>1. issued \in Epochs /\ version \in Nat
    BY DEF TypeInv, RoutingTypeOK
  <1> QED
    BY <1>1, RoutingAssumption DEF NoCall, Projecting, CallStates, Epochs

(* What an action leaves alone keeps its type: the rest of the state is    *)
(* in what follows.                                                        *)
LEMMA TypeFromParts ==
  ASSUME ProberTypeOK', draining' \subseteq Backends, pending' \in BOOLEAN,
         issued' \in Epochs, active' \in 1..issued', faults' \in 0..MaxFaults,
         engine' \in [Nodes -> [epoch : 1..issued', slots : [Epochs -> SUBSET Backends]]],
         call' \in [Nodes -> [Kinds -> CallStates]] /\ CallsAreBounded',
         version' \in Nat, shown' \in [Nodes -> 0..version'], due' \in [Nodes -> 0..version']
  PROVE  TypeInv'
  BY DEF TypeInv, RoutingTypeOK

(* The slots of an engine change under one of its epochs.                  *)
WithSlots(n, e, s) == [engine EXCEPT ![n].slots[e] = s]
LEMMA SlotsType ==
  ASSUME TypeInv, NEW n \in Nodes, NEW e \in Epochs, NEW s \in SUBSET Backends,
         engine' = WithSlots(n, e, s)
  PROVE  /\ engine' \in [Nodes -> [epoch : 1..issued, slots : [Epochs -> SUBSET Backends]]]
         /\ \A m \in Nodes : engine'[m].epoch = engine[m].epoch
         /\ \A m \in Nodes, d \in Epochs :
              engine'[m].slots[d] = IF m = n /\ d = e THEN s ELSE engine[m].slots[d]
  <1>1. engine \in [Nodes -> [epoch : 1..issued, slots : [Epochs -> SUBSET Backends]]]
    BY DEF TypeInv, RoutingTypeOK
  <1> DEFINE g == [engine[n] EXCEPT !.slots = [@ EXCEPT ![e] = s]]
  <1>2. engine' = [engine EXCEPT ![n] = g]
    BY <1>1 DEF WithSlots
  <1>3. g \in [epoch : 1..issued, slots : [Epochs -> SUBSET Backends]]
    BY <1>1
  <1>4. g.epoch = engine[n].epoch /\ g.slots = [engine[n].slots EXCEPT ![e] = s]
        /\ engine[n].slots \in [Epochs -> SUBSET Backends]
    BY <1>1
  <1>5. \A d \in Epochs : g.slots[d] = IF d = e THEN s ELSE engine[n].slots[d]
    BY <1>4
  <1> HIDE DEF g
  <1> QED
    BY <1>1, <1>2, <1>3, <1>4, <1>5

(* The steps of the projecting and applying calls.                         *)
LEMMA GoesType ==
  ASSUME TypeInv, ProberTypeOK', NEW n \in Nodes, NEW k \in Kinds, Goes(n, k)
  PROVE  TypeInv'
  <1> DEFINE r == call[n][k]
  <1>1. /\ draining \subseteq Backends /\ pending \in BOOLEAN
        /\ issued \in Epochs /\ active \in 1..issued /\ faults \in 0..MaxFaults
        /\ engine \in [Nodes -> [epoch : 1..issued, slots : [Epochs -> SUBSET Backends]]]
        /\ call \in [Nodes -> [Kinds -> CallStates]]
        /\ version \in Nat /\ shown \in [Nodes -> 0..version] /\ due \in [Nodes -> 0..version]
        /\ head \subseteq Backends
    BY DEF TypeInv, RoutingTypeOK, ProberTypeOK
  <1>2. /\ r \in CallStates /\ r.epoch \in Epochs /\ r.version \in Nat
        /\ r.slots \in SUBSET Backends /\ r.epoch <= issued /\ r.version <= version
        /\ r.epoch \in 1..issued /\ r.version \in 0..version
    <2>1. r \in CallStates /\ r.epoch <= issued /\ r.version <= version
      BY <1>1 DEF TypeInv, CallsAreBounded
    <2> HIDE DEF r
    <2>2. r.epoch \in Epochs /\ r.version \in Nat /\ r.slots \in SUBSET Backends
      BY <2>1 DEF CallStates
    <2> QED
      BY <1>1, <2>1, <2>2, RoutingAssumption DEF Epochs
  <1>3. issued \in Nat /\ version <= version /\ issued <= issued
        /\ \A m \in Nodes : engine[m].epoch \in Epochs /\ engine[m].epoch <= issued
    BY <1>1, RoutingAssumption DEF Epochs
  <1>4. ASSUME NEW q \in CallStates, q.epoch <= issued, q.version <= version,
               call' = [call EXCEPT ![n][k] = q], UNCHANGED <<issued, version>>
        PROVE  call' \in [Nodes -> [Kinds -> CallStates]] /\ CallsAreBounded'
    <2>1. issued' \in Epochs /\ issued <= issued' /\ version' \in Nat /\ version <= version'
          /\ q.epoch <= issued' /\ q.version <= version'
      BY <1>1, <1>3, <1>4
    <2> QED
      BY <1>4, <2>1, CallsType
  <1>5. ASSUME ReadsEpoch(n, k) PROVE TypeInv'
    <2> DEFINE q == [r EXCEPT !.pc = "eligible", !.epoch = engine[n].epoch]
    <2>1. q \in CallStates /\ q.epoch <= issued /\ q.version <= version
      BY <1>2, <1>3 DEF CallStates
    <2>2. UNCHANGED <<draining, pending, issued, active, engine, faults, version, shown, due>>
      BY <1>5 DEF ReadsEpoch, ghosts
    <2>3. call' = [call EXCEPT ![n][k] = q]
      BY <1>1, <1>5 DEF ReadsEpoch
    <2> QED
      BY <1>1, <1>4, <2>1, <2>2, <2>3, TypeFromParts
  <1>6. ASSUME ReadsEligible(n, k) PROVE TypeInv'
    <2> DEFINE q == [r EXCEPT !.pc = "push", !.slots = Eligible, !.version = version]
    <2>1. q \in CallStates /\ q.epoch <= issued /\ q.version <= version
      BY <1>1, <1>2, <1>3 DEF CallStates, Eligible
    <2>2. UNCHANGED <<draining, pending, issued, active, engine, faults, version, shown, due>>
      BY <1>6 DEF ReadsEligible, ghosts
    <2>3. call' = [call EXCEPT ![n][k] = q]
      BY <1>1, <1>6 DEF ReadsEligible
    <2> QED
      BY <1>1, <1>4, <2>1, <2>2, <2>3, TypeFromParts
  <1>7. ASSUME Pushes(n, k) PROVE TypeInv'
    <2>1. /\ UNCHANGED <<draining, pending, issued, active, faults, version>>
          /\ engine' = [engine EXCEPT ![n].slots[r.epoch] = r.slots]
          /\ call' = [call EXCEPT ![n][k] = NoCall]
          /\ Shows(n, r.version) \/ UNCHANGED <<shown, due>>
      BY <1>7 DEF Pushes
    <2>2. shown' \in [Nodes -> 0..version] /\ due' \in [Nodes -> 0..version]
      BY <1>1, <1>2, <2>1, GhostsType
    <2>3. engine' \in [Nodes -> [epoch : 1..issued, slots : [Epochs -> SUBSET Backends]]]
      BY <1>2, <2>1, SlotsType DEF WithSlots
    <2> QED
      BY <1>1, <1>4, <2>1, <2>2, <2>3, NoCallType, TypeFromParts
  <1>8. ASSUME Stages(n, k) PROVE TypeInv'
    <2> DEFINE q == [r EXCEPT !.pc = "activate"]
    <2>1. q \in CallStates /\ q.epoch <= issued /\ q.version <= version
      BY <1>2 DEF CallStates
    <2>2. /\ UNCHANGED <<draining, pending, issued, active, faults, version, shown, due>>
          /\ engine' = [engine EXCEPT ![n].slots[r.epoch] = r.slots]
      BY <1>8 DEF Stages, ghosts
    <2>3. call' = [call EXCEPT ![n][k] = q]
      BY <1>1, <1>8 DEF Stages
    <2>4. engine' \in [Nodes -> [epoch : 1..issued, slots : [Epochs -> SUBSET Backends]]]
      BY <1>2, <2>2, SlotsType DEF WithSlots
    <2> QED
      BY <1>1, <1>4, <2>1, <2>2, <2>3, <2>4, TypeFromParts
  <1>9. ASSUME Activates(n, k) PROVE TypeInv'
    <2>1. UNCHANGED <<draining, pending, issued, faults, version>>
      BY <1>9 DEF Activates
    <2>2. CASE r.epoch > engine[n].epoch
      <3>1. /\ engine' = [engine EXCEPT ![n].epoch = r.epoch]
            /\ Shows(n, IF engine[n].slots[r.epoch] = r.slots THEN r.version ELSE 0)
            /\ active' = Later(active, r.epoch) /\ call' = [call EXCEPT ![n][k] = Projecting]
        BY <1>9, <2>2 DEF Activates, ThenProjects
      <3>2. engine' \in [Nodes -> [epoch : 1..issued, slots : [Epochs -> SUBSET Backends]]]
        BY <1>1, <1>2, <3>1
      <3>3. active' \in 1..issued
        BY <1>1, <1>2, <3>1 DEF Later
      <3>4. shown' \in [Nodes -> 0..version] /\ due' \in [Nodes -> 0..version]
        <4>1. 0 \in 0..version
          BY <1>1
        <4> QED
          BY <1>2, <3>1, <4>1, GhostsType
      <3> QED
        BY <1>1, <1>4, <2>1, <3>1, <3>2, <3>3, <3>4, NoCallType, TypeFromParts
    <2>3. CASE ~(r.epoch > engine[n].epoch)
      <3>1. UNCHANGED <<active, engine, shown, due>> /\ call' = [call EXCEPT ![n][k] = NoCall]
        BY <1>9, <2>3 DEF Activates
      <3> QED
        BY <1>1, <1>4, <2>1, <3>1, NoCallType, TypeFromParts
    <2> QED
      BY <2>2, <2>3
  <1> QED
    BY <1>5, <1>6, <1>7, <1>8, <1>9 DEF Goes, Projects

(* The beginnings of calls, and a call that fails.                         *)
LEMMA CallStartsType ==
  ASSUME TypeInv, ProberTypeOK', NEW n \in Nodes,
         \/ Applies(n) \/ Ticks(n) \/ EndsSweep(n) \/ Boots(n) \/ Crashes(n)
         \/ \E k \in Kinds : Fails(n, k)
  PROVE  TypeInv'
  <1>1. /\ draining \subseteq Backends /\ pending \in BOOLEAN
        /\ issued \in Epochs /\ active \in 1..issued /\ faults \in 0..MaxFaults
        /\ engine \in [Nodes -> [epoch : 1..issued, slots : [Epochs -> SUBSET Backends]]]
        /\ call \in [Nodes -> [Kinds -> CallStates]]
        /\ version \in Nat /\ shown \in [Nodes -> 0..version] /\ due \in [Nodes -> 0..version]
        /\ Eligible \subseteq Backends
    BY DEF TypeInv, RoutingTypeOK, ProberTypeOK, Eligible
  <1>2. /\ issued \in Nat /\ version <= version /\ issued <= issued
        /\ \A e \in 1..issued : e \in Epochs /\ e <= issued
        /\ engine[n].epoch \in 1..issued /\ active \in 1..issued
    BY <1>1, RoutingAssumption DEF Epochs
  <1>3. ASSUME UNCHANGED <<issued, version>>, NEW k \in Kinds, NEW r \in CallStates,
               r.epoch <= issued, r.version <= version, call' = [call EXCEPT ![n][k] = r]
        PROVE  call' \in [Nodes -> [Kinds -> CallStates]] /\ CallsAreBounded'
    <2>1. issued' \in Epochs /\ issued <= issued' /\ version' \in Nat /\ version <= version'
          /\ r.epoch <= issued' /\ r.version <= version'
      BY <1>1, <1>2, <1>3
    <2> QED
      BY <1>3, <2>1, CallsType
  <1>4. ASSUME Applies(n) PROVE TypeInv'
    <2>1. /\ UNCHANGED <<draining, active, engine, faults, version, shown, due>>
          /\ pending' = FALSE
      BY <1>4 DEF Applies, ghosts
    <2>2. CASE /\ issued < MaxEpoch /\ issued' = issued + 1
               /\ call' = [call EXCEPT ![n]["apply"] = Computed("stage", issued')]
      <3>1. /\ issued' \in Epochs /\ issued <= issued' /\ issued' <= issued'
            /\ active \in 1..issued' /\ 1..issued \subseteq 1..issued'
        BY <1>1, <1>2, <2>2, RoutingAssumption DEF Epochs
      <3>2. /\ Computed("stage", issued') \in CallStates
            /\ Computed("stage", issued').epoch <= issued'
            /\ Computed("stage", issued').version <= version
        BY <1>1, <1>2, <3>1 DEF CallStates, Computed
      <3>3. engine' \in [Nodes -> [epoch : 1..issued', slots : [Epochs -> SUBSET Backends]]]
        <4>1. ASSUME NEW m \in Nodes
              PROVE  engine[m] \in [epoch : 1..issued', slots : [Epochs -> SUBSET Backends]]
          BY <1>1, <3>1
        <4> QED
          BY <1>1, <2>1, <4>1
      <3>4. call' \in [Nodes -> [Kinds -> CallStates]] /\ CallsAreBounded'
        <4>1. "apply" \in Kinds /\ version' \in Nat /\ version <= version'
              /\ Computed("stage", issued').version <= version'
          BY <1>1, <2>1, <3>2 DEF Kinds
        <4> QED
          BY <2>2, <3>1, <3>2, <4>1, CallsType
      <3> QED
        BY <1>1, <2>1, <3>1, <3>3, <3>4, TypeFromParts
    <2>3. CASE /\ issued' = issued
               /\ call' = [call EXCEPT ![n]["apply"] = Computed("push", engine[n].epoch)]
      <3>1. /\ Computed("push", engine[n].epoch) \in CallStates
            /\ Computed("push", engine[n].epoch).epoch <= issued
            /\ Computed("push", engine[n].epoch).version <= version
        BY <1>1, <1>2 DEF CallStates, Computed
      <3>2. "apply" \in Kinds
        BY DEF Kinds
      <3> QED
        BY <1>1, <1>3, <2>1, <2>3, <3>1, <3>2, TypeFromParts
    <2>4. \/ /\ issued < MaxEpoch /\ issued' = issued + 1
             /\ call' = [call EXCEPT ![n]["apply"] = Computed("stage", issued')]
          \/ /\ issued' = issued
             /\ call' = [call EXCEPT ![n]["apply"] = Computed("push", engine[n].epoch)]
      BY <1>4 DEF Applies
    <2> QED
      BY <2>2, <2>3, <2>4
  <1>5. ASSUME Ticks(n) PROVE TypeInv'
    <2> DEFINE r == IF engine[n].epoch = active THEN Projecting ELSE Computed("stage", active)
    <2>1. /\ UNCHANGED <<draining, pending, issued, active, engine, faults, version, shown, due>>
          /\ call' = [call EXCEPT ![n]["tick"] = r] /\ "tick" \in Kinds
      BY <1>5 DEF Ticks, ghosts, Kinds
    <2>2. r \in CallStates /\ r.epoch <= issued /\ r.version <= version
      BY <1>1, <1>2, NoCallType DEF CallStates, Computed
    <2> HIDE DEF r
    <2> QED
      BY <1>1, <1>3, <2>1, <2>2, TypeFromParts
  <1>6. ASSUME EndsSweep(n) \/ Boots(n) PROVE TypeInv'
    <2>1. UNCHANGED <<draining, pending, issued, active, engine, faults, version, shown, due>>
      BY <1>6 DEF EndsSweep, Boots, ghosts
    <2>2. \/ UNCHANGED call
          \/ \E k \in Kinds : call' = [call EXCEPT ![n][k] = Projecting]
      BY <1>6 DEF EndsSweep, Boots, Kinds
    <2>3. call' \in [Nodes -> [Kinds -> CallStates]] /\ CallsAreBounded'
      <3>1. version' \in Nat /\ version <= version' /\ issued' = issued
        BY <1>1, <1>2, <2>1
      <3> QED
        BY <1>3, <2>1, <2>2, <3>1, NoCallType, CallsStay
    <2> QED
      BY <1>1, <2>1, <2>3, TypeFromParts
  <1>7. ASSUME Crashes(n) PROVE TypeInv'
    <2>1. /\ UNCHANGED <<draining, pending, issued, active, engine, version, shown>>
          /\ faults > 0 /\ faults' = faults - 1 /\ Lacks(n)
          /\ call' = [call EXCEPT ![n] = [k \in Kinds |-> NoCall]]
      BY <1>7 DEF Crashes
    <2>2. call' \in [Nodes -> [Kinds -> CallStates]] /\ CallsAreBounded'
      <3>1. call' \in [Nodes -> [Kinds -> CallStates]]
        BY <1>1, <2>1, NoCallType
      <3>2. ASSUME NEW m \in Nodes, NEW j \in Kinds
            PROVE  call'[m][j].epoch <= issued /\ call'[m][j].version <= version
        <4>1. call'[m][j] = call[m][j] \/ call'[m][j] = NoCall
          BY <1>1, <2>1
        <4> QED
          BY <4>1, NoCallType DEF TypeInv, CallsAreBounded
      <3> QED
        BY <2>1, <3>1, <3>2 DEF CallsAreBounded
    <2>3. due' \in [Nodes -> 0..version] /\ faults' \in 0..MaxFaults
      BY <1>1, <2>1, GhostsType, RoutingAssumption
    <2> QED
      BY <1>1, <2>1, <2>2, <2>3, TypeFromParts
  <1>8. ASSUME NEW k \in Kinds, Fails(n, k) PROVE TypeInv'
    <2>1. /\ UNCHANGED <<draining, pending, issued, active, engine, version, shown>>
          /\ faults > 0 /\ faults' = faults - 1 /\ Lacks(n)
          /\ call' = [call EXCEPT ![n][k] = NoCall]
      BY <1>8 DEF Fails
    <2>2. call' \in [Nodes -> [Kinds -> CallStates]] /\ CallsAreBounded'
      BY <1>3, <2>1, NoCallType
    <2>3. due' \in [Nodes -> 0..version] /\ faults' \in 0..MaxFaults
      BY <1>1, <2>1, GhostsType, RoutingAssumption
    <2> QED
      BY <1>1, <2>1, <2>2, <2>3, TypeFromParts
  <1> QED
    BY <1>4, <1>5, <1>6, <1>7, <1>8

(* The steps that start or end no call, but a drain's.                     *)
LEMMA OtherStepsType ==
  ASSUME TypeInv, ProberTypeOK',
         \/ \E n \in Nodes :
              \/ Probing(n) \/ Writes(n) \/ FailsSweep(n) \/ Promoted(n) \/ EngineRestarts(n)
              \/ \E b \in Backends : Drains(n, b)
         \/ Demoted \/ EditsElsewhere \/ \E b \in Backends : Edits(b) \/ BackendTurns(b)
         \/ UNCHANGED routingVars
  PROVE  TypeInv'
  <1>1. /\ draining \subseteq Backends /\ pending \in BOOLEAN
        /\ issued \in Epochs /\ active \in 1..issued /\ faults \in 0..MaxFaults
        /\ engine \in [Nodes -> [epoch : 1..issued, slots : [Epochs -> SUBSET Backends]]]
        /\ call \in [Nodes -> [Kinds -> CallStates]]
        /\ version \in Nat /\ shown \in [Nodes -> 0..version] /\ due \in [Nodes -> 0..version]
        /\ version <= version /\ issued \in Nat /\ issued <= issued
    BY RoutingAssumption DEF TypeInv, RoutingTypeOK, Epochs
  <1>2. ASSUME UNCHANGED <<issued, version, call>>
        PROVE  call' \in [Nodes -> [Kinds -> CallStates]] /\ CallsAreBounded'
    BY <1>1, <1>2, CallsStay
  <1>3. ASSUME UNCHANGED <<draining, slotVars, faults, ghosts>>, pending' \in BOOLEAN
        PROVE  TypeInv'
    BY <1>1, <1>2, <1>3, TypeFromParts DEF slotVars, ghosts
  <1>4. ASSUME \/ \E n \in Nodes : Probing(n)
               \/ Demoted \/ EditsElsewhere \/ \E b \in Backends : BackendTurns(b)
               \/ UNCHANGED routingVars
        PROVE  TypeInv'
    BY <1>1, <1>3, <1>4 DEF Probing, Demoted, EditsElsewhere, BackendTurns, routingVars
  <1>5. ASSUME NEW told \in SUBSET Nodes, Counted(told), draining' \subseteq Backends,
               pending' \in BOOLEAN, UNCHANGED <<slotVars, faults, shown>>
        PROVE  TypeInv'
    <2>1. /\ version' \in Nat /\ version <= version'
          /\ shown' \in [Nodes -> 0..version'] /\ due' \in [Nodes -> 0..version']
      BY <1>5, CountedType
    <2>2. call' \in [Nodes -> [Kinds -> CallStates]] /\ CallsAreBounded'
      BY <1>5, <2>1, CallsStay DEF slotVars
    <2> QED
      BY <1>1, <1>5, <2>1, <2>2, TypeFromParts DEF slotVars
  <1>6. ASSUME NEW n \in Nodes, Writes(n) PROVE TypeInv'
    <2>1. Counted({n}) /\ UNCHANGED <<draining, pending, slotVars, faults, shown>>
      BY <1>6 DEF Writes
    <2> QED
      BY <1>1, <1>5, <2>1
  <1>7. ASSUME NEW b \in Backends, Edits(b) PROVE TypeInv'
    <2>1. /\ Counted(Nodes) /\ UNCHANGED <<slotVars, faults, shown>>
          /\ draining' = draining \ {b} /\ pending' = TRUE
      BY <1>7 DEF Edits
    <2> QED
      BY <1>1, <1>5, <2>1
  <1>8. ASSUME NEW n \in Nodes, NEW b \in Backends, Drains(n, b) PROVE TypeInv'
    <2>1. /\ Counted({n}) /\ UNCHANGED <<pending, issued, active, engine, faults, shown>>
          /\ call' = [call EXCEPT ![n]["drain"] = Projecting]
          /\ draining' \subseteq Backends /\ "drain" \in Kinds
      BY <1>1, <1>8 DEF Drains, Kinds
    <2>2. /\ version' \in Nat /\ version <= version'
          /\ shown' \in [Nodes -> 0..version'] /\ due' \in [Nodes -> 0..version']
      BY <2>1, CountedType
    <2>3. Projecting.epoch <= issued' /\ Projecting.version <= version'
          /\ Projecting \in CallStates /\ issued' \in Epochs /\ issued <= issued'
      <3>1. Projecting.version = 0 /\ issued' = issued
        BY <2>1 DEF Projecting, NoCall
      <3> QED
        BY <1>1, <2>2, <3>1, NoCallType
    <2>4. call' \in [Nodes -> [Kinds -> CallStates]] /\ CallsAreBounded'
      BY <2>1, <2>2, <2>3, CallsType
    <2> QED
      BY <1>1, <2>1, <2>2, <2>4, TypeFromParts
  <1>9. ASSUME NEW n \in Nodes, FailsSweep(n) \/ Promoted(n) PROVE TypeInv'
    <2>1. /\ UNCHANGED <<draining, pending, slotVars, version, shown>> /\ Lacks(n)
          /\ faults' = faults \/ (faults > 0 /\ faults' = faults - 1)
      BY <1>9 DEF FailsSweep, Promoted
    <2>2. due' \in [Nodes -> 0..version] /\ faults' \in 0..MaxFaults
      BY <1>1, <2>1, GhostsType, RoutingAssumption
    <2> QED
      BY <1>1, <1>2, <2>1, <2>2, TypeFromParts DEF slotVars
  <1>10. ASSUME NEW n \in Nodes, EngineRestarts(n) PROVE TypeInv'
    <2>1. /\ UNCHANGED <<draining, pending, issued, active, call, version, due>>
          /\ faults > 0 /\ faults' = faults - 1
          /\ engine' = [engine EXCEPT ![n].slots = [e \in Epochs |-> {}]]
          /\ shown' = [shown EXCEPT ![n] = 0]
      BY <1>10 DEF EngineRestarts
    <2>2. shown' \in [Nodes -> 0..version] /\ faults' \in 0..MaxFaults
      BY <1>1, <2>1, RoutingAssumption
    <2>3. engine' \in [Nodes -> [epoch : 1..issued, slots : [Epochs -> SUBSET Backends]]]
      BY <1>1, <2>1
    <2> QED
      BY <1>1, <1>2, <2>1, <2>2, <2>3, TypeFromParts
  <1> QED
    BY <1>4, <1>6, <1>7, <1>8, <1>9, <1>10

(* Every step of the routing keeps the type of the state.                  *)
LEMMA RoutingTypeStep == TypeInv /\ ProberInv /\ [RoutingNext]_routingVars => TypeInv'
  <1> SUFFICES ASSUME TypeInv, ProberInv, [RoutingNext]_routingVars PROVE TypeInv'
    OBVIOUS
  <1>1. ProberTypeOK'
    BY RoutingProbes, ProberStep DEF ProberInv
  <1>2. ASSUME NEW n \in Nodes, NEW k \in Kinds, Goes(n, k) PROVE TypeInv'
    BY <1>1, <1>2, GoesType
  <1>3. ASSUME NEW n \in Nodes,
               \/ Applies(n) \/ Ticks(n) \/ EndsSweep(n) \/ Boots(n) \/ Crashes(n)
               \/ \E k \in Kinds : Fails(n, k)
        PROVE  TypeInv'
    BY <1>1, <1>3, CallStartsType
  <1>4. ASSUME \/ \E n \in Nodes :
                    \/ Probing(n) \/ Writes(n) \/ FailsSweep(n) \/ Promoted(n)
                    \/ EngineRestarts(n) \/ \E b \in Backends : Drains(n, b)
               \/ Demoted \/ EditsElsewhere \/ \E b \in Backends : Edits(b) \/ BackendTurns(b)
               \/ UNCHANGED routingVars
        PROVE  TypeInv'
    BY <1>1, <1>4, OtherStepsType
  <1> QED
    BY <1>2, <1>3, <1>4 DEF RoutingNext, Sweeps

(* And it begins with it.                                                  *)
LEMMA RoutingTypeStarts == RoutingInit => TypeInv /\ ProberInv
  <1> SUFFICES ASSUME RoutingInit PROVE TypeInv /\ ProberInv
    OBVIOUS
  <1>1. ProberInv
    BY ProberStarts DEF RoutingInit
  <1>2. NoCall \in CallStates /\ 1 \in Epochs /\ NoCall.epoch <= 1 /\ NoCall.version <= 1
    BY RoutingAssumption DEF NoCall, CallStates, Epochs
  <1>3. RoutingTypeOK
    <2>1. 0 \in 0..MaxFaults /\ MaxFaults \in 0..MaxFaults /\ 1 \in 1..1 /\ 1 \in 0..1
      BY RoutingAssumption
    <2>2. engine \in [Nodes -> [epoch : 1..issued, slots : [Epochs -> SUBSET Backends]]]
      BY DEF RoutingInit
    <2> QED
      BY <1>1, <1>2, <2>1, <2>2 DEF RoutingInit, RoutingTypeOK, ProberInv
  <1>4. CallsAreBounded
    BY <1>2 DEF RoutingInit, CallsAreBounded
  <1> QED
    BY <1>1, <1>3, <1>4 DEF TypeInv

(* Every variable of the routing keeps its type, the epochs and versions   *)
(* that calls and engines know within those that were given out.           *)
THEOREM RoutingTypeCorrect == RoutingSpec => []RoutingTypeOK
  <1>1. RoutingSpec => [](TypeInv /\ ProberInv)
    <2>1. TypeInv /\ ProberInv /\ [RoutingNext]_routingVars => (TypeInv /\ ProberInv)'
      BY RoutingTypeStep, RoutingProbes, ProberStep
    <2> QED
      BY <2>1, RoutingTypeStarts, PTL DEF RoutingSpec
  <1>2. TypeInv => RoutingTypeOK
    BY DEF TypeInv
  <1> QED
    BY <1>1, <1>2, PTL

-----------------------------------------------------------------------------
(* What the leader's engine serves.                                        *)

(* No epoch is staged that was not before, and none that is staged is      *)
(* served: what is staged stays as it should.                              *)
LEMMA StagingStays ==
  ASSUME StagingInv, UNCHANGED active, \A m \in Nodes : engine'[m].epoch = engine[m].epoch,
         \A m \in Nodes, j \in Kinds :
           Staging(m, j)' => Staging(m, j) /\ call'[m][j].epoch = call[m][j].epoch
  PROVE  StagingInv'
  <1>1. OnlyTwoStage'
    BY DEF StagingInv, OnlyTwoStage
  <1>2. "apply" \in Kinds /\ "tick" \in Kinds
    BY DEF Kinds
  <1>3. AppliesAreFresh'
    <2> SUFFICES ASSUME NEW n \in Nodes, Staging(n, "apply")'
                 PROVE  /\ active' # call'[n]["apply"].epoch
                        /\ \A m \in Nodes :
                             /\ engine'[m].epoch # call'[n]["apply"].epoch
                             /\ \A k \in Kinds : Staging(m, k)'
                                  /\ call'[m][k].epoch = call'[n]["apply"].epoch =>
                                    m = n /\ k = "apply"
      BY DEF AppliesAreFresh
    <2>1. Staging(n, "apply") /\ call'[n]["apply"].epoch = call[n]["apply"].epoch
      BY <1>2
    <2> QED
      BY <2>1 DEF StagingInv, AppliesAreFresh
  <1>4. TicksGoElsewhere'
    BY <1>2 DEF StagingInv, TicksGoElsewhere
  <1> QED
    BY <1>1, <1>3, <1>4 DEF StagingInv

(* A call becomes one that stages nothing, or goes on staging its epoch.   *)
LEMMA StagingOneCall ==
  ASSUME TypeInv, StagingInv, UNCHANGED active,
         \A m \in Nodes : engine'[m].epoch = engine[m].epoch,
         NEW n \in Nodes, NEW k \in Kinds, NEW r, call' = [call EXCEPT ![n][k] = r],
         r.pc \notin {"stage", "activate"} \/ (Staging(n, k) /\ r.epoch = call[n][k].epoch)
  PROVE  StagingInv'
  <1>1. \A m \in Nodes, j \in Kinds :
          call'[m][j] = IF m = n /\ j = k THEN r ELSE call[m][j]
    BY DEF TypeInv, RoutingTypeOK
  <1>2. ASSUME NEW m \in Nodes, NEW j \in Kinds, Staging(m, j)'
        PROVE  Staging(m, j) /\ call'[m][j].epoch = call[m][j].epoch
    BY <1>1, <1>2 DEF Staging
  <1> QED
    BY <1>2, StagingStays

(* An apply stages an epoch that was just given out.                       *)
LEMMA StagingApply ==
  ASSUME TypeInv, StagingInv, NEW n \in Nodes, NEW r, r.epoch = issued + 1,
         UNCHANGED <<active, engine>>, call' = [call EXCEPT ![n]["apply"] = r]
  PROVE  StagingInv'
  <1>1. \A m \in Nodes, j \in Kinds :
          call'[m][j] = IF m = n /\ j = "apply" THEN r ELSE call[m][j]
    BY DEF TypeInv, RoutingTypeOK, Kinds
  <1>2. /\ issued \in Nat /\ active \in Nat /\ active <= issued
        /\ \A m \in Nodes : engine[m].epoch \in Nat /\ engine[m].epoch <= issued
        /\ \A m \in Nodes, j \in Kinds :
             call[m][j].epoch \in Nat /\ call[m][j].epoch <= issued
    <2>1. /\ issued \in Epochs /\ active \in 1..issued
          /\ engine \in [Nodes -> [epoch : 1..issued, slots : [Epochs -> SUBSET Backends]]]
          /\ call \in [Nodes -> [Kinds -> CallStates]]
      BY DEF TypeInv, RoutingTypeOK
    <2>2. ASSUME NEW m \in Nodes, NEW j \in Kinds PROVE call[m][j].epoch \in Epochs
      BY <2>1 DEF CallStates
    <2> QED
      BY <2>1, <2>2, RoutingAssumption DEF Epochs, TypeInv, CallsAreBounded
  <1>3. OnlyTwoStage'
    BY <1>1 DEF StagingInv, OnlyTwoStage, Staging
  <1>4. "apply" \in Kinds /\ "tick" \in Kinds
    BY DEF Kinds
  <1>5. AppliesAreFresh'
    <2> SUFFICES ASSUME NEW m \in Nodes, Staging(m, "apply")'
                 PROVE  /\ active # call'[m]["apply"].epoch
                        /\ \A l \in Nodes :
                             /\ engine[l].epoch # call'[m]["apply"].epoch
                             /\ \A k \in Kinds : Staging(l, k)'
                                  /\ call'[l][k].epoch = call'[m]["apply"].epoch =>
                                    l = m /\ k = "apply"
      BY DEF AppliesAreFresh
    <2>1. CASE m = n
      BY <1>1, <1>2, <1>4, <2>1
    <2>2. CASE m # n
      <3>1. Staging(m, "apply") /\ call'[m]["apply"] = call[m]["apply"]
        BY <1>1, <1>4, <2>2 DEF Staging
      <3>2. ASSUME NEW l \in Nodes, NEW k \in Kinds, Staging(l, k)',
                   call'[l][k].epoch = call'[m]["apply"].epoch
            PROVE  l = m /\ k = "apply"
        <4>1. ~(l = n /\ k = "apply")
          BY <1>1, <1>2, <1>4, <3>1, <3>2
        <4>2. Staging(l, k) /\ call[l][k].epoch = call[m]["apply"].epoch
          BY <1>1, <3>1, <3>2, <4>1 DEF Staging
        <4> QED
          BY <3>1, <4>2 DEF StagingInv, AppliesAreFresh
      <3> QED
        BY <3>1, <3>2 DEF StagingInv, AppliesAreFresh
    <2> QED
      BY <2>1, <2>2
  <1>6. TicksGoElsewhere'
    BY <1>1, <1>4 DEF StagingInv, TicksGoElsewhere, Staging
  <1> QED
    BY <1>3, <1>5, <1>6 DEF StagingInv

(* A tick stages the active epoch, which no apply stages.                  *)
LEMMA StagingTick ==
  ASSUME TypeInv, StagingInv, NEW n \in Nodes, NEW r, r.epoch = active,
         engine[n].epoch # active,
         UNCHANGED <<active, engine>>, call' = [call EXCEPT ![n]["tick"] = r]
  PROVE  StagingInv'
  <1>1. \A m \in Nodes, j \in Kinds :
          call'[m][j] = IF m = n /\ j = "tick" THEN r ELSE call[m][j]
    BY DEF TypeInv, RoutingTypeOK, Kinds
  <1>2. "apply" \in Kinds /\ "tick" \in Kinds
    BY DEF Kinds
  <1>3. OnlyTwoStage'
    BY <1>1 DEF StagingInv, OnlyTwoStage, Staging
  <1>4. AppliesAreFresh'
    <2> SUFFICES ASSUME NEW m \in Nodes, Staging(m, "apply")'
                 PROVE  /\ active # call'[m]["apply"].epoch
                        /\ \A l \in Nodes :
                             /\ engine[l].epoch # call'[m]["apply"].epoch
                             /\ \A k \in Kinds : Staging(l, k)'
                                  /\ call'[l][k].epoch = call'[m]["apply"].epoch =>
                                    l = m /\ k = "apply"
      BY DEF AppliesAreFresh
    <2>1. Staging(m, "apply") /\ call'[m]["apply"] = call[m]["apply"]
      BY <1>1, <1>2 DEF Staging
    <2>2. active # call[m]["apply"].epoch
      BY <2>1 DEF StagingInv, AppliesAreFresh
    <2>3. ASSUME NEW l \in Nodes, NEW k \in Kinds, Staging(l, k)',
                 call'[l][k].epoch = call'[m]["apply"].epoch
          PROVE  l = m /\ k = "apply"
      <3>1. Staging(l, k) /\ call[l][k].epoch = call[m]["apply"].epoch
        BY <1>1, <2>1, <2>2, <2>3 DEF Staging
      <3> QED
        BY <2>1, <3>1 DEF StagingInv, AppliesAreFresh
    <2> QED
      BY <2>1, <2>3 DEF StagingInv, AppliesAreFresh
  <1>5. TicksGoElsewhere'
    BY <1>1, <1>2 DEF StagingInv, TicksGoElsewhere, Staging
  <1> QED
    BY <1>3, <1>4, <1>5 DEF StagingInv

(* An epoch that begins to serve is no longer staged by anybody who should *)
(* be the only one to stage it.                                            *)
LEMMA StagingActivates ==
  ASSUME TypeInv, StagingInv, NEW n \in Nodes, NEW k \in Kinds, Activates(n, k)
  PROVE  StagingInv'
  <1> DEFINE r == call[n][k]
  <1>1. CASE ~(r.epoch > engine[n].epoch)
    <2>1. UNCHANGED <<active, engine>> /\ call' = [call EXCEPT ![n][k] = NoCall]
      BY <1>1 DEF Activates
    <2>2. NoCall.pc = "idle"
      BY DEF NoCall
    <2> QED
      BY <2>1, <2>2, StagingOneCall
  <1>2. CASE r.epoch > engine[n].epoch
    <2>1. /\ engine' = [engine EXCEPT ![n].epoch = r.epoch] /\ active' = Later(active, r.epoch)
          /\ call' = [call EXCEPT ![n][k] = Projecting]
          /\ r.pc = "activate"
      BY <1>2 DEF Activates, ThenProjects, At
    <2>2. \A m \in Nodes, j \in Kinds :
            call'[m][j] = IF m = n /\ j = k THEN Projecting ELSE call[m][j]
      BY <2>1 DEF TypeInv, RoutingTypeOK
    <2>3. /\ engine'[n].epoch = r.epoch
          /\ \A m \in Nodes : m # n => engine'[m] = engine[m]
      BY <2>1 DEF TypeInv, RoutingTypeOK
    <2>4. active' = active \/ active' = r.epoch
      BY <2>1 DEF Later
    <2>5. Staging(n, k) /\ k \in {"apply", "tick"} /\ "apply" \in Kinds /\ "tick" \in Kinds
      BY <2>1 DEF StagingInv, OnlyTwoStage, Staging, Kinds
    <2>6. \A m \in Nodes, j \in Kinds :
            Staging(m, j)' => /\ Staging(m, j) /\ call'[m][j] = call[m][j] /\ ~(m = n /\ j = k)
      BY <2>2 DEF Staging, Projecting, NoCall
    <2>7. OnlyTwoStage'
      BY <2>6 DEF StagingInv, OnlyTwoStage
    <2>8. AppliesAreFresh'
      <3> SUFFICES ASSUME NEW m \in Nodes, Staging(m, "apply")'
                   PROVE  /\ active' # call'[m]["apply"].epoch
                          /\ \A l \in Nodes :
                               /\ engine'[l].epoch # call'[m]["apply"].epoch
                               /\ \A j \in Kinds : Staging(l, j)'
                                    /\ call'[l][j].epoch = call'[m]["apply"].epoch =>
                                      l = m /\ j = "apply"
        BY DEF AppliesAreFresh
      <3>1. Staging(m, "apply") /\ call'[m]["apply"] = call[m]["apply"]
            /\ ~(m = n /\ k = "apply")
        BY <2>5, <2>6
      <3>2. /\ active # call[m]["apply"].epoch
            /\ \A l \in Nodes :
                 /\ engine[l].epoch # call[m]["apply"].epoch
                 /\ \A j \in Kinds : Staging(l, j) /\ call[l][j].epoch = call[m]["apply"].epoch =>
                      l = m /\ j = "apply"
        BY <3>1 DEF StagingInv, AppliesAreFresh
      <3>3. r.epoch # call[m]["apply"].epoch
        BY <2>5, <3>1, <3>2
      <3>4. active' # call'[m]["apply"].epoch
        BY <2>4, <3>1, <3>2, <3>3
      <3>5. \A l \in Nodes : engine'[l].epoch # call'[m]["apply"].epoch
        BY <2>3, <3>1, <3>2, <3>3
      <3> QED
        BY <2>6, <3>1, <3>2, <3>4, <3>5
    <2>9. TicksGoElsewhere'
      <3> SUFFICES ASSUME NEW m \in Nodes, Staging(m, "tick")'
                   PROVE  call'[m]["tick"].epoch # engine'[m].epoch
        BY DEF TicksGoElsewhere
      <3>1. Staging(m, "tick") /\ call'[m]["tick"] = call[m]["tick"] /\ ~(m = n /\ k = "tick")
        BY <2>5, <2>6
      <3>2. CASE m # n
        BY <2>3, <3>1, <3>2 DEF StagingInv, TicksGoElsewhere
      <3>3. CASE m = n
        <4>1. k = "apply" /\ Staging(n, "apply")
          BY <2>5, <3>1, <3>3
        <4>2. call[n]["tick"].epoch # call[n]["apply"].epoch
          BY <2>5, <3>1, <3>3, <4>1 DEF StagingInv, AppliesAreFresh
        <4> QED
          BY <2>3, <3>1, <3>3, <4>1, <4>2
      <3> QED
        BY <3>2, <3>3
    <2> QED
      BY <2>7, <2>8, <2>9 DEF StagingInv
  <1> QED
    BY <1>1, <1>2

(* Nothing is eligible but what the head, the verdicts and the drains say. *)
LEMMA EligibleStays == UNCHANGED <<head, verdict, draining>> => Eligible' = Eligible
  BY DEF Eligible, StateOf

(* The calls read and show what they did, or what is eligible.             *)
LEMMA CurrentStays ==
  ASSUME CurrentInv, Eligible' = Eligible, version' = version,
         \A m \in Nodes :
           shown'[m] = version =>
             Served(m)' = Eligible \/ (Served(m)' = Served(m) /\ shown'[m] = shown[m]),
         \A m \in Nodes, j \in Kinds :
           call'[m][j].pc \in {"push", "stage", "activate"} /\ call'[m][j].version = version =>
             \/ call'[m][j].slots = Eligible
             \/ /\ call[m][j].pc \in {"push", "stage", "activate"}
                /\ call'[m][j].version = call[m][j].version
                /\ call'[m][j].slots = call[m][j].slots
  PROVE  CurrentInv'
  <1>1. CallsAreCurrent'
    BY DEF CurrentInv, CallsAreCurrent
  <1>2. EnginesAreCurrent'
    BY DEF CurrentInv, EnginesAreCurrent
  <1> QED
    BY <1>1, <1>2 DEF CurrentInv

(* The engines stay as they are, and one call becomes another.             *)
LEMMA CurrentOneCall ==
  ASSUME TypeInv, CurrentInv, Eligible' = Eligible, version' = version, UNCHANGED <<engine, shown>>,
         NEW n \in Nodes, NEW k \in Kinds, NEW r, call' = [call EXCEPT ![n][k] = r],
         r.pc \notin {"push", "stage", "activate"} \/ r.slots = Eligible
  PROVE  CurrentInv'
  <1>1. \A m \in Nodes, j \in Kinds :
          call'[m][j] = IF m = n /\ j = k THEN r ELSE call[m][j]
    BY DEF TypeInv, RoutingTypeOK
  <1>2. \A m \in Nodes : Served(m)' = Served(m)
    BY DEF Served
  <1> QED
    BY <1>1, <1>2, CurrentStays

(* A change of what is eligible is a version of its own: nobody has it.    *)
LEMMA CurrentCounted ==
  ASSUME TypeInv, CurrentInv, NEW told, Counted(told), UNCHANGED <<engine, shown>>,
         \A m \in Nodes, j \in Kinds : call'[m][j] = call[m][j] \/ call'[m][j].pc = "epoch"
  PROVE  CurrentInv'
  <1>1. \A m \in Nodes : Served(m)' = Served(m)
    BY DEF Served
  <1>2. CASE Eligible' = Eligible
    <2>1. version' = version
      BY <1>2 DEF Counted
    <2> QED
      BY <1>1, <1>2, <2>1, CurrentStays
  <1>3. CASE Eligible' # Eligible
    <2>1. version' = version + 1 /\ version \in Nat
      BY <1>3 DEF Counted, TypeInv, RoutingTypeOK
    <2>2. ASSUME NEW m \in Nodes PROVE shown'[m] # version'
      <3>1. shown[m] \in 0..version
        BY DEF TypeInv, RoutingTypeOK
      <3> QED
        BY <2>1, <3>1
    <2>3. ASSUME NEW m \in Nodes, NEW j \in Kinds PROVE call[m][j].version # version'
      <3>1. call[m][j].version <= version /\ call[m][j] \in CallStates
        BY DEF TypeInv, RoutingTypeOK, CallsAreBounded
      <3>2. call[m][j].version \in Nat
        BY <3>1 DEF CallStates
      <3> QED
        BY <2>1, <3>1, <3>2
    <2> QED
      BY <2>2, <2>3 DEF CurrentInv, CallsAreCurrent, EnginesAreCurrent
  <1> QED
    BY <1>2, <1>3

(* The steps of the calls.                                                 *)
LEMMA CurrentGoes ==
  ASSUME TypeInv, version >= 1, StagingInv, CurrentInv, NEW n \in Nodes, NEW k \in Kinds, Goes(n, k)
  PROVE  CurrentInv'
  <1> DEFINE r == call[n][k]
  <1>1. /\ engine \in [Nodes -> [epoch : 1..issued, slots : [Epochs -> SUBSET Backends]]]
        /\ call \in [Nodes -> [Kinds -> CallStates]] /\ shown \in [Nodes -> 0..version]
        /\ version \in Nat /\ \A m \in Nodes : engine[m].epoch \in Epochs
    BY RoutingAssumption DEF TypeInv, RoutingTypeOK, Epochs
  <1>2. r \in CallStates /\ r.epoch \in Epochs /\ r.slots \in SUBSET Backends
    BY <1>1 DEF CallStates
  <1>3. Eligible' = Eligible /\ version' = version
    <2>1. UNCHANGED <<head, verdict, draining, version>>
      BY DEF Goes, Projects, ReadsEpoch, ReadsEligible, Pushes, Stages, Activates, ChangeHandled,
             proberVars, ghosts
    <2> QED
      BY <2>1, EligibleStays
  <1>4. ASSUME ReadsEpoch(n, k) PROVE CurrentInv'
    <2> DEFINE q == [r EXCEPT !.pc = "eligible", !.epoch = engine[n].epoch]
    <2>1. call' = [call EXCEPT ![n][k] = q] /\ UNCHANGED <<engine, shown>>
      BY <1>1, <1>4 DEF ReadsEpoch, ghosts
    <2>2. q.pc = "eligible"
      BY <1>2 DEF CallStates
    <2> HIDE DEF q
    <2> QED
      BY <1>3, <2>1, <2>2, CurrentOneCall
  <1>5. ASSUME ReadsEligible(n, k) PROVE CurrentInv'
    <2> DEFINE q == [r EXCEPT !.pc = "push", !.slots = Eligible, !.version = version]
    <2>1. call' = [call EXCEPT ![n][k] = q] /\ UNCHANGED <<engine, shown>>
      BY <1>1, <1>5 DEF ReadsEligible, ghosts
    <2>2. q.slots = Eligible
      BY <1>2 DEF CallStates
    <2> HIDE DEF q
    <2> QED
      BY <1>3, <2>1, <2>2, CurrentOneCall
  <1>6. ASSUME Pushes(n, k) PROVE CurrentInv'
    <2>1. /\ engine' = [engine EXCEPT ![n].slots[r.epoch] = r.slots] /\ r.pc = "push"
          /\ call' = [call EXCEPT ![n][k] = NoCall]
          /\ IF r.epoch = engine[n].epoch THEN Shows(n, r.version) ELSE UNCHANGED <<shown, due>>
      BY <1>6 DEF Pushes, At
    <2>2. /\ \A m \in Nodes : engine'[m].epoch = engine[m].epoch
          /\ \A m \in Nodes, d \in Epochs :
               engine'[m].slots[d] = IF m = n /\ d = r.epoch THEN r.slots ELSE engine[m].slots[d]
      <3>1. r.epoch \in Epochs /\ r.slots \in SUBSET Backends
            /\ engine' = WithSlots(n, r.epoch, r.slots)
        BY <1>2, <2>1 DEF WithSlots
      <3> HIDE DEF r
      <3> QED
        BY <3>1, SlotsType
    <2>3. \A m \in Nodes, j \in Kinds :
            call'[m][j] = IF m = n /\ j = k THEN NoCall ELSE call[m][j]
      BY <1>1, <2>1
    <2>4. ASSUME NEW m \in Nodes, shown'[m] = version
          PROVE  Served(m)' = Eligible \/ (Served(m)' = Served(m) /\ shown'[m] = shown[m])
      <3>1. CASE m = n /\ r.epoch = engine[n].epoch
        <4>1. shown'[n] = r.version
          BY <1>1, <2>1, <3>1 DEF Shows
        <4>2. r.slots = Eligible
          BY <2>1, <2>4, <3>1, <4>1 DEF CurrentInv, CallsAreCurrent
        <4> QED
          BY <1>1, <2>2, <3>1, <4>2 DEF Served
      <3>2. CASE ~(m = n /\ r.epoch = engine[n].epoch)
        <4>1. shown'[m] = shown[m]
          BY <1>1, <2>1, <3>2 DEF Shows
        <4>2. Served(m)' = Served(m)
          BY <1>1, <2>2, <3>2 DEF Served
        <4> QED
          BY <4>1, <4>2
      <3> QED
        BY <3>1, <3>2
    <2>5. NoCall.pc = "idle"
      BY DEF NoCall
    <2> QED
      BY <1>3, <2>3, <2>4, <2>5, CurrentStays
  <1>7. ASSUME Stages(n, k) PROVE CurrentInv'
    <2> DEFINE q == [r EXCEPT !.pc = "activate"]
    <2>1. /\ engine' = [engine EXCEPT ![n].slots[r.epoch] = r.slots] /\ r.pc = "stage"
          /\ call' = [call EXCEPT ![n][k] = q] /\ UNCHANGED shown
      BY <1>1, <1>7 DEF Stages, At, ghosts
    <2>2. /\ \A m \in Nodes : engine'[m].epoch = engine[m].epoch
          /\ \A m \in Nodes, d \in Epochs :
               engine'[m].slots[d] = IF m = n /\ d = r.epoch THEN r.slots ELSE engine[m].slots[d]
      <3>1. r.epoch \in Epochs /\ r.slots \in SUBSET Backends
            /\ engine' = WithSlots(n, r.epoch, r.slots)
        BY <1>2, <2>1 DEF WithSlots
      <3> HIDE DEF r
      <3> QED
        BY <3>1, SlotsType
    <2>3. r.epoch # engine[n].epoch
      <3>1. Staging(n, k) /\ k \in {"apply", "tick"}
        BY <2>1 DEF StagingInv, OnlyTwoStage, Staging
      <3> QED
        BY <3>1 DEF StagingInv, AppliesAreFresh, TicksGoElsewhere
    <2>4. \A m \in Nodes : Served(m)' = Served(m)
      BY <1>1, <2>2, <2>3 DEF Served
    <2>5. q.version = r.version /\ q.slots = r.slots
      BY <1>2 DEF CallStates
    <2> HIDE DEF q
    <2>6. \A m \in Nodes, j \in Kinds :
            call'[m][j] = IF m = n /\ j = k THEN q ELSE call[m][j]
      BY <1>1, <2>1
    <2>7. \A m \in Nodes, j \in Kinds :
            call'[m][j].pc \in {"push", "stage", "activate"} =>
              /\ call[m][j].pc \in {"push", "stage", "activate"}
              /\ call'[m][j].version = call[m][j].version
              /\ call'[m][j].slots = call[m][j].slots
      BY <2>1, <2>5, <2>6
    <2> QED
      BY <1>3, <2>1, <2>4, <2>7, CurrentStays
  <1>8. ASSUME Activates(n, k) PROVE CurrentInv'
    <2>1. CASE ~(r.epoch > engine[n].epoch)
      <3>1. UNCHANGED <<engine, shown>> /\ call' = [call EXCEPT ![n][k] = NoCall]
        BY <1>8, <2>1 DEF Activates
      <3>2. NoCall.pc = "idle"
        BY DEF NoCall
      <3> QED
        BY <1>3, <3>1, <3>2, CurrentOneCall
    <2>2. CASE r.epoch > engine[n].epoch
      <3>1. /\ engine' = [engine EXCEPT ![n].epoch = r.epoch]
            /\ shown' = [shown EXCEPT ![n] = IF engine[n].slots[r.epoch] = r.slots
                                             THEN r.version ELSE 0]
            /\ call' = [call EXCEPT ![n][k] = Projecting] /\ r.pc = "activate"
        BY <1>8, <2>2 DEF Activates, ThenProjects, Shows, At
      <3>2. \A m \in Nodes, j \in Kinds :
              call'[m][j] = IF m = n /\ j = k THEN Projecting ELSE call[m][j]
        BY <1>1, <3>1
      <3>3. ASSUME NEW m \in Nodes, shown'[m] = version
            PROVE  Served(m)' = Eligible \/ (Served(m)' = Served(m) /\ shown'[m] = shown[m])
        <4>1. CASE m = n
          <5>1. engine[n].slots[r.epoch] = r.slots /\ r.version = version
            BY <1>1, <3>1, <3>3, <4>1
          <5>2. r.slots = Eligible
            BY <3>1, <5>1 DEF CurrentInv, CallsAreCurrent
          <5>3. engine'[n].slots = engine[n].slots /\ engine'[n].epoch = r.epoch
            BY <1>1, <3>1
          <5> QED
            BY <4>1, <5>1, <5>2, <5>3 DEF Served
        <4>2. CASE m # n
          BY <1>1, <3>1, <4>2 DEF Served
        <4> QED
          BY <4>1, <4>2
      <3>4. Projecting.pc = "epoch"
        BY DEF Projecting, NoCall
      <3> QED
        BY <1>3, <3>2, <3>3, <3>4, CurrentStays
    <2> QED
      BY <2>1, <2>2
  <1> QED
    BY <1>4, <1>5, <1>6, <1>7, <1>8 DEF Goes, Projects

(* A sweep has flipped a verdict only while it writes its results.         *)
LEMMA FlipsStep ==
  ASSUME ProberTypeOK, FlipsAreBeingWritten, [ProberNext]_proberVars
  PROVE  FlipsAreBeingWritten'
  <1>1. prober \in [Nodes -> Probers]
    BY DEF ProberTypeOK
  <1>2. ASSUME NEW n \in Nodes, NEW p, prober' = [prober EXCEPT ![n] = p],
               p.flipped => p.pc = "writing"
        PROVE  FlipsAreBeingWritten'
    <2>1. \A m \in Nodes : prober'[m] = IF m = n THEN p ELSE prober[m]
      BY <1>1, <1>2
    <2> QED
      BY <1>2, <2>1 DEF FlipsAreBeingWritten
  <1>3. ASSUME UNCHANGED prober PROVE FlipsAreBeingWritten'
    BY <1>3 DEF FlipsAreBeingWritten
  <1>4. ASSUME NEW n \in Nodes, Probes(n) PROVE FlipsAreBeingWritten'
    <2> DEFINE p == prober[n]
    <2>1. p \in Probers /\ (p.flipped => p.pc = "writing")
      BY <1>1 DEF FlipsAreBeingWritten
    <2>2. ASSUME NEW places \in Targets, SweepStarts(n, places) PROVE FlipsAreBeingWritten'
      <3> DEFINE q == [pc |-> "probing", next |-> First(n) + Len(places), flipped |-> FALSE,
           runs |-> [i \in DOMAIN places |->
             [b |-> BackendOrder[places[i]], seq |-> First(n) + i - 1, start |-> LastStart + i,
              ok |-> FALSE, answered |-> FALSE]]]
      <3>1. prober' = [prober EXCEPT ![n] = q]
        BY <2>2 DEF SweepStarts
      <3>2. ~q.flipped
        OBVIOUS
      <3> HIDE DEF q
      <3> QED
        BY <1>2, <3>1, <3>2
    <2>3. ASSUME NEW i \in DOMAIN prober[n].runs, Answers(n, i) PROVE FlipsAreBeingWritten'
      <3> DEFINE r == prober[n].runs[i]
                 r2 == [r EXCEPT !.ok = up[r.b], !.answered = TRUE]
                 q == [prober[n] EXCEPT !.runs = [@ EXCEPT ![i] = r2]]
      <3>1. prober' = [prober EXCEPT ![n] = q]
        <4>1. prober[n].runs \in Seq(Runs)
          BY <2>1 DEF Probers
        <4> QED
          BY <2>1, <2>3, <4>1 DEF Answers, ProberTypeOK
      <3>2. q.flipped = p.flipped /\ q.pc = p.pc
        BY <2>1 DEF Probers
      <3> HIDE DEF q
      <3> QED
        BY <1>2, <2>1, <3>1, <3>2
    <2>4. ASSUME Answered(n) \/ ChangeHandled(n) PROVE FlipsAreBeingWritten'
      <3> DEFINE q(pc) == [p EXCEPT !.pc = pc]
      <3>1. PICK pc : prober' = [prober EXCEPT ![n] = q(pc)]
        BY <1>1, <2>4 DEF Answered, ChangeHandled
      <3>2. p.pc # "writing" /\ q(pc).flipped = p.flipped
        BY <2>1, <2>4 DEF Answered, ChangeHandled, Probers
      <3> HIDE DEF q
      <3> QED
        BY <1>2, <2>1, <3>1, <3>2
    <2>5. ASSUME WritesResult(n) PROVE FlipsAreBeingWritten'
      <3>1. p.pc = "writing" /\ \A m \in Nodes : prober'[m].pc = prober[m].pc
            /\ (m # n => prober'[m] = prober[m])
        <4>1. p.pc = "writing"
          BY <2>5 DEF WritesResult, Writing
        <4>2. PICK t, f : prober' = [prober EXCEPT ![n].runs = t, ![n].flipped = f]
          BY <2>5 DEF WritesResult
        <4>3. prober' = [prober EXCEPT ![n] = [p EXCEPT !.runs = t, !.flipped = f]]
          BY <1>1, <4>2
        <4>4. [p EXCEPT !.runs = t, !.flipped = f].pc = p.pc
          BY <2>1 DEF Probers
        <4> QED
          BY <1>1, <4>1, <4>3, <4>4
      <3> QED
        BY <3>1 DEF FlipsAreBeingWritten
    <2>6. ASSUME SweepEnds(n) PROVE FlipsAreBeingWritten'
      <3> DEFINE q(pc) == [p EXCEPT !.pc = pc, !.flipped = FALSE]
      <3>1. PICK pc : prober' = [prober EXCEPT ![n] = q(pc)]
        BY <1>1, <2>6 DEF SweepEnds
      <3>2. ~q(pc).flipped
        BY <2>1 DEF Probers
      <3> HIDE DEF q
      <3> QED
        BY <1>2, <3>1, <3>2
    <2>7. ASSUME SweepFails(n) PROVE FlipsAreBeingWritten'
      <3>1. prober' = [prober EXCEPT ![n] = [Fresh EXCEPT !.next = prober[n].next]]
        BY <2>7 DEF SweepFails
      <3>2. ~[Fresh EXCEPT !.next = prober[n].next].flipped
        BY DEF Fresh
      <3> QED
        BY <1>2, <3>1, <3>2
    <2> QED
      BY <1>4, <2>2, <2>3, <2>4, <2>5, <2>6, <2>7 DEF Probes
  <1>5. ASSUME NEW n \in Nodes, Dies(n) PROVE FlipsAreBeingWritten'
    <2>1. prober' = [prober EXCEPT ![n] = Fresh] /\ ~Fresh.flipped
      BY <1>5 DEF Dies, Fresh
    <2> QED
      BY <1>2, <2>1
  <1>6. ASSUME \/ \E n \in Nodes : Leads(n)
               \/ Yields \/ \E b \in Backends : Turns(b) \/ Adds(b) \/ Removes(b)
               \/ UNCHANGED proberVars
        PROVE  FlipsAreBeingWritten'
    BY <1>3, <1>6 DEF Leads, Yields, Turns, Adds, Removes, proberVars
  <1> QED
    BY <1>4, <1>5, <1>6 DEF ProberNext

(* What is known to be lacked only grows.                                  *)
LEMMA KnownGrows ==
  ASSUME VersionsBegin, ShownIsKnown, TypeInv, TypeInv', version <= version',
         \A m \in Nodes : due[m] <= due'[m],
         \A m \in Nodes : shown'[m] \in {0, shown[m]} \/ shown'[m] <= due'[m]
  PROVE  VersionsBegin' /\ ShownIsKnown'
  <1>1. /\ version \in Nat /\ version' \in Nat
        /\ \A m \in Nodes : /\ due[m] \in Nat /\ due'[m] \in Nat
                            /\ shown[m] \in Nat /\ shown'[m] \in Nat
    BY DEF TypeInv, RoutingTypeOK
  <1>2. VersionsBegin'
    BY <1>1 DEF VersionsBegin
  <1>3. ShownIsKnown'
    <2> SUFFICES ASSUME NEW m \in Nodes PROVE shown'[m] <= due'[m]
      BY DEF ShownIsKnown
    <2>1. shown[m] <= due[m] /\ due[m] <= due'[m]
      BY DEF ShownIsKnown
    <2> QED
      BY <1>1, <2>1
  <1> QED
    BY <1>2, <1>3

(* Every step.                                                             *)
LEMMA KnownStep ==
  ASSUME VersionsBegin, ShownIsKnown, TypeInv, TypeInv', [RoutingNext]_routingVars
  PROVE  VersionsBegin' /\ ShownIsKnown'
  <1>1. /\ version \in Nat /\ due \in [Nodes -> 0..version] /\ shown \in [Nodes -> 0..version]
        /\ call \in [Nodes -> [Kinds -> CallStates]]
    BY DEF TypeInv, RoutingTypeOK
  <1>2. ASSUME UNCHANGED ghosts PROVE VersionsBegin' /\ ShownIsKnown'
    BY <1>2 DEF ghosts, VersionsBegin, ShownIsKnown
  <1>3. ASSUME NEW n \in Nodes, Lacks(n), UNCHANGED <<version, shown>>
        PROVE  VersionsBegin' /\ ShownIsKnown'
    <2>1. \A m \in Nodes : due[m] <= due'[m]
      BY <1>1, <1>3 DEF Lacks, Later
    <2> QED
      BY <1>1, <1>3, <2>1, KnownGrows
  <1>4. ASSUME NEW told, Counted(told), UNCHANGED shown PROVE VersionsBegin' /\ ShownIsKnown'
    <2>1. version <= version' /\ version' \in Nat
      BY <1>1, <1>4 DEF Counted
    <2>2. \A m \in Nodes : due[m] <= due'[m]
      BY <1>1, <1>4, <2>1 DEF Counted, Later
    <2> QED
      BY <1>4, <2>1, <2>2, KnownGrows
  <1>5. ASSUME NEW n \in Nodes, NEW v \in Nat, Shows(n, v), UNCHANGED version
        PROVE  VersionsBegin' /\ ShownIsKnown'
    <2>1. \A m \in Nodes : due[m] <= due'[m]
      BY <1>1, <1>5 DEF Shows, Later
    <2>2. \A m \in Nodes : shown'[m] = shown[m] \/ shown'[m] <= due'[m]
      BY <1>1, <1>5 DEF Shows, Later
    <2> QED
      BY <1>1, <1>5, <2>1, <2>2, KnownGrows
  <1>6. ASSUME NEW n \in Nodes, EngineRestarts(n) PROVE VersionsBegin' /\ ShownIsKnown'
    <2>1. /\ \A m \in Nodes : shown'[m] \in {0, shown[m]}
          /\ UNCHANGED <<version, due>>
      BY <1>1, <1>6 DEF EngineRestarts
    <2> QED
      BY <1>1, <2>1, KnownGrows
  <1>7. ASSUME NEW n \in Nodes, NEW k \in Kinds, Goes(n, k) PROVE VersionsBegin' /\ ShownIsKnown'
    <2>1. call[n][k].version \in Nat /\ 0 \in Nat
      BY <1>1 DEF CallStates
    <2>2. \/ UNCHANGED ghosts
          \/ \E v \in Nat : Shows(n, v) /\ UNCHANGED version
      BY <1>7, <2>1 DEF Goes, Projects, ReadsEpoch, ReadsEligible, Pushes, Stages, Activates, ghosts
    <2> QED
      BY <1>2, <1>5, <2>2
  <1>8. ASSUME NEW n \in Nodes, Applies(n) \/ Ticks(n) \/ Boots(n) \/ Probing(n) \/ EndsSweep(n)
        PROVE  VersionsBegin' /\ ShownIsKnown'
    BY <1>2, <1>8 DEF Applies, Ticks, Boots, Probing, EndsSweep
  <1>9. ASSUME NEW n \in Nodes, Writes(n) \/ \E b \in Backends : Drains(n, b)
        PROVE  VersionsBegin' /\ ShownIsKnown'
    BY <1>4, <1>9 DEF Writes, Drains
  <1>10. ASSUME NEW n \in Nodes,
                \/ FailsSweep(n) \/ Promoted(n) \/ Crashes(n) \/ \E k \in Kinds : Fails(n, k)
         PROVE  VersionsBegin' /\ ShownIsKnown'
    BY <1>3, <1>10 DEF FailsSweep, Promoted, Crashes, Fails
  <1>11. ASSUME \/ Demoted \/ EditsElsewhere \/ \E b \in Backends : Edits(b) \/ BackendTurns(b)
                \/ UNCHANGED routingVars
         PROVE  VersionsBegin' /\ ShownIsKnown'
    BY <1>2, <1>4, <1>11 DEF Demoted, EditsElsewhere, Edits, BackendTurns, routingVars
  <1> QED
    BY <1>6, <1>7, <1>8, <1>9, <1>10, <1>11 DEF RoutingNext, Sweeps

-----------------------------------------------------------------------------
(* What is owed to the leader's engine.                                    *)

(* A node goes on owing if its flips stay and each call that owed goes on. *)
LEMMA OwesStays ==
  ASSUME NEW n \in Nodes, Owes(n), prober[n].flipped => prober'[n].flipped,
         engine'[n].epoch = engine[n].epoch, version' = version,
         \A j \in Kinds : Owing(n, j) => call'[n][j] = call[n][j] \/ Owing(n, j)'
  PROVE  Owes(n)'
  <1>1. \A j \in Kinds : Owing(n, j) => Owing(n, j)'
    BY DEF Owing
  <1> QED
    BY <1>1 DEF Owes

(* Nothing that is owed changes.                                           *)
LEMMA OwedStays ==
  ASSUME ChangesAreOwed, UNCHANGED <<pending, call, version, due>>,
         leader' = leader \/ leader' \notin Nodes,
         \A m \in Nodes : prober[m].flipped => prober'[m].flipped,
         \A m \in Nodes : engine'[m].epoch = engine[m].epoch
  PROVE  ChangesAreOwed'
  <1> SUFFICES ASSUME NEW m \in Nodes, leader' = m, ~pending, due[m] < version PROVE Owes(m)'
    BY DEF ChangesAreOwed
  <1>1. Owes(m)
    BY DEF ChangesAreOwed
  <1> QED
    BY <1>1, OwesStays

(* A node n is known to lack what is eligible, or owes: the others as      *)
(* before.                                                                 *)
LEMMA OwedButOne ==
  ASSUME TypeInv, ChangesAreOwed, UNCHANGED <<pending, version>>, NEW n \in Nodes,
         leader' = leader \/ leader' \notin Nodes \ {n},
         \A m \in Nodes \ {n} :
           /\ prober[m].flipped => prober'[m].flipped
           /\ engine'[m].epoch = engine[m].epoch /\ call'[m] = call[m] /\ due'[m] = due[m],
         (leader' = n /\ ~pending /\ due'[n] < version) => Owes(n)'
  PROVE  ChangesAreOwed'
  <1> SUFFICES ASSUME NEW m \in Nodes, leader' = m, ~pending, due'[m] < version PROVE Owes(m)'
    BY DEF ChangesAreOwed
  <1>1. CASE m = n
    BY <1>1
  <1>2. CASE m # n
    <2>1. leader = m /\ due[m] < version
      BY <1>2
    <2>2. Owes(m)
      BY <2>1 DEF ChangesAreOwed
    <2> QED
      BY <1>2, <2>2, OwesStays
  <1> QED
    BY <1>1, <1>2

(* A node that is known to lack what is eligible owes nothing.             *)
LEMMA LackingIsKnown ==
  ASSUME TypeInv, NEW n \in Nodes, Lacks(n), version' = version
  PROVE  ~(due'[n] < version) /\ \A m \in Nodes \ {n} : due'[m] = due[m]
  <1>1. version \in Nat /\ due \in [Nodes -> 0..version]
    BY DEF TypeInv, RoutingTypeOK
  <1> QED
    BY <1>1 DEF Lacks, Later

(* A call that projects will read it.                                      *)
LEMMA ProjectingOwes ==
  ASSUME NEW n \in Nodes, NEW k \in Kinds, call'[n][k] = Projecting
  PROVE  Owes(n)'
  <1>1. Owing(n, k)'
    BY DEF Owing, Projecting, NoCall
  <1> QED
    BY <1>1 DEF Owes

(* The change of a verdict is handled without a word about flips.          *)
LEMMA HandledKeepsFlips ==
  ASSUME ProberTypeOK, NEW n \in Nodes, ChangeHandled(n) \/ UNCHANGED proberVars
  PROVE  leader' = leader /\ \A m \in Nodes : prober'[m].flipped = prober[m].flipped
  <1>1. CASE ChangeHandled(n)
    <2>1. leader' = leader /\ prober' = [prober EXCEPT ![n] = [@ EXCEPT !.pc = "idle"]]
          /\ prober \in [Nodes -> Probers] /\ prober[n] \in Probers
      BY <1>1 DEF ChangeHandled, ProberTypeOK
    <2>2. [prober[n] EXCEPT !.pc = "idle"].flipped = prober[n].flipped
      BY <2>1 DEF Probers
    <2> QED
      BY <2>1, <2>2
  <1>2. CASE UNCHANGED proberVars
    BY <1>2 DEF proberVars
  <1> QED
    BY <1>1, <1>2

(* A call's step keeps what it owes, or pays it.                           *)
LEMMA OwedGoes ==
  ASSUME TypeInv, TypeInv', ChangesAreOwed, NEW n \in Nodes, NEW k \in Kinds, Goes(n, k)
  PROVE  ChangesAreOwed'
  <1> DEFINE r == call[n][k]
  <1>1. /\ engine \in [Nodes -> [epoch : 1..issued, slots : [Epochs -> SUBSET Backends]]]
        /\ call \in [Nodes -> [Kinds -> CallStates]] /\ due \in [Nodes -> 0..version]
        /\ version \in Nat /\ ProberTypeOK /\ issued \in Nat
        /\ r \in CallStates /\ r.epoch \in Epochs /\ r.epoch \in Nat /\ r.version \in Nat
        /\ engine[n].epoch \in Nat
    <2>1. /\ engine \in [Nodes -> [epoch : 1..issued, slots : [Epochs -> SUBSET Backends]]]
          /\ call \in [Nodes -> [Kinds -> CallStates]] /\ due \in [Nodes -> 0..version]
          /\ version \in Nat /\ ProberTypeOK /\ issued \in Epochs
      BY DEF TypeInv, RoutingTypeOK
    <2>2. r \in CallStates /\ r.epoch \in Epochs /\ r.version \in Nat
      BY <2>1 DEF CallStates
    <2> QED
      BY <2>1, <2>2, RoutingAssumption DEF Epochs
  <1>2. UNCHANGED <<pending, version>> /\ (ChangeHandled(n) \/ UNCHANGED proberVars)
    BY DEF Goes, Projects, ReadsEpoch, ReadsEligible, Pushes, Stages, Activates, ghosts
  <1>3. leader' = leader /\ \A m \in Nodes : prober'[m].flipped = prober[m].flipped
    BY <1>1, <1>2, HandledKeepsFlips
  <1>4. ASSUME NEW q, call' = [call EXCEPT ![n][k] = q],
               \A m \in Nodes : engine'[m].epoch = engine[m].epoch,
               due[n] <= due'[n], \A m \in Nodes \ {n} : due'[m] = due[m],
               Owing(n, k) => Owing(n, k)' \/ ~(due'[n] < version)
        PROVE  ChangesAreOwed'
    <2>1. /\ \A m \in Nodes \ {n} : call'[m] = call[m]
          /\ \A j \in Kinds : j # k => call'[n][j] = call[n][j]
      BY <1>1, <1>4
    <2>2. ASSUME leader' = n, ~pending, due'[n] < version PROVE Owes(n)'
      <3>1. due[n] < version
        <4>1. due[n] \in Nat /\ due'[n] \in Nat
          BY <1>1 DEF TypeInv, RoutingTypeOK
        <4> QED
          BY <1>1, <1>4, <2>2, <4>1
      <3>2. Owes(n)
        BY <1>3, <2>2, <3>1 DEF ChangesAreOwed
      <3> QED
        BY <1>2, <1>3, <1>4, <2>1, <2>2, <3>2, OwesStays
    <2> QED
      BY <1>2, <1>3, <1>4, <2>1, <2>2, OwedButOne
  <1>t. due[n] <= due[n]
    BY <1>1
  <1>5. ASSUME ReadsEpoch(n, k) PROVE ChangesAreOwed'
    <2> DEFINE q == [r EXCEPT !.pc = "eligible", !.epoch = engine[n].epoch]
    <2>1. call' = [call EXCEPT ![n][k] = q] /\ UNCHANGED <<engine, due>>
      BY <1>1, <1>5 DEF ReadsEpoch, ghosts
    <2>2. q.pc = "eligible" /\ q.epoch = engine[n].epoch
      BY <1>1 DEF CallStates
    <2> HIDE DEF q
    <2>3. call'[n][k] = q
      BY <1>1, <2>1
    <2>4. Owing(n, k)'
      BY <2>1, <2>2, <2>3 DEF Owing
    <2>5. /\ \A m \in Nodes : engine'[m].epoch = engine[m].epoch
          /\ due[n] <= due'[n] /\ \A m \in Nodes \ {n} : due'[m] = due[m]
      BY <1>t, <2>1
    <2> QED
      BY <1>4, <2>1, <2>4, <2>5
  <1>6. ASSUME ReadsEligible(n, k) PROVE ChangesAreOwed'
    <2> DEFINE q == [r EXCEPT !.pc = "push", !.slots = Eligible, !.version = version]
    <2>1. call' = [call EXCEPT ![n][k] = q] /\ UNCHANGED <<engine, due>> /\ r.pc = "eligible"
      BY <1>1, <1>6 DEF ReadsEligible, ghosts, At
    <2>2. q.pc = "push" /\ q.epoch = r.epoch /\ q.version = version
      BY <1>1 DEF CallStates
    <2> HIDE DEF q
    <2>3. call'[n][k] = q
      BY <1>1, <2>1
    <2>4. Owing(n, k) => Owing(n, k)'
      BY <1>2, <2>1, <2>2, <2>3 DEF Owing
    <2>5. /\ \A m \in Nodes : engine'[m].epoch = engine[m].epoch
          /\ due[n] <= due'[n] /\ \A m \in Nodes \ {n} : due'[m] = due[m]
      BY <1>t, <2>1
    <2> QED
      BY <1>4, <2>1, <2>4, <2>5
  <1>7. ASSUME Pushes(n, k) PROVE ChangesAreOwed'
    <2>1. /\ engine' = [engine EXCEPT ![n].slots[r.epoch] = r.slots] /\ r.pc = "push"
          /\ call' = [call EXCEPT ![n][k] = NoCall]
          /\ IF r.epoch = engine[n].epoch THEN Shows(n, r.version) ELSE UNCHANGED <<shown, due>>
      BY <1>7 DEF Pushes, At
    <2>2. \A m \in Nodes : engine'[m].epoch = engine[m].epoch
      BY <1>1, <2>1
    <2>3. due[n] <= due'[n] /\ \A m \in Nodes \ {n} : due'[m] = due[m]
      BY <1>1, <2>1 DEF Shows, Later
    <2>4. Owing(n, k) => ~(due'[n] < version)
      BY <1>1, <2>1 DEF Owing, Shows, Later
    <2> QED
      BY <1>4, <2>1, <2>2, <2>3, <2>4
  <1>8. ASSUME Stages(n, k) PROVE ChangesAreOwed'
    <2> DEFINE q == [r EXCEPT !.pc = "activate"]
    <2>1. /\ engine' = [engine EXCEPT ![n].slots[r.epoch] = r.slots] /\ r.pc = "stage"
          /\ call' = [call EXCEPT ![n][k] = q] /\ UNCHANGED due
      BY <1>1, <1>8 DEF Stages, At, ghosts
    <2>2. \A m \in Nodes : engine'[m].epoch = engine[m].epoch
      BY <1>1, <2>1
    <2>3. q.pc = "activate" /\ q.epoch = r.epoch
      BY <1>1 DEF CallStates
    <2> HIDE DEF q
    <2>4. call'[n][k] = q
      BY <1>1, <2>1
    <2>5. Owing(n, k) => Owing(n, k)'
      BY <2>1, <2>2, <2>3, <2>4 DEF Owing
    <2>6. due[n] <= due'[n] /\ \A m \in Nodes \ {n} : due'[m] = due[m]
      BY <1>t, <2>1
    <2> QED
      BY <1>4, <2>1, <2>2, <2>5, <2>6
  <1>9. ASSUME Activates(n, k) PROVE ChangesAreOwed'
    <2>1. CASE ~(r.epoch > engine[n].epoch)
      <3>1. UNCHANGED <<engine, due>> /\ call' = [call EXCEPT ![n][k] = NoCall]
            /\ r.pc = "activate"
        BY <1>9, <2>1 DEF Activates, At
      <3>2. ~Owing(n, k)
        BY <2>1, <3>1 DEF Owing
      <3>3. /\ \A m \in Nodes : engine'[m].epoch = engine[m].epoch
            /\ due[n] <= due'[n] /\ \A m \in Nodes \ {n} : due'[m] = due[m]
        BY <1>t, <3>1
      <3> QED
        BY <1>4, <3>1, <3>2, <3>3
    <2>2. CASE r.epoch > engine[n].epoch
      <3>1. /\ engine' = [engine EXCEPT ![n].epoch = r.epoch]
            /\ due' = [due EXCEPT ![n] = Later(@, IF engine[n].slots[r.epoch] = r.slots
                                                  THEN r.version ELSE 0)]
            /\ call' = [call EXCEPT ![n][k] = Projecting]
        BY <1>9, <2>2 DEF Activates, ThenProjects, Shows
      <3>2. call'[n][k] = Projecting
        BY <1>1, <3>1
      <3>3. \A m \in Nodes \ {n} :
              engine'[m] = engine[m] /\ call'[m] = call[m] /\ due'[m] = due[m]
        BY <1>1, <3>1
      <3>4. Owes(n)'
        BY <3>2, ProjectingOwes
      <3> QED
        BY <1>2, <1>3, <3>3, <3>4, OwedButOne
    <2> QED
      BY <2>1, <2>2
  <1> QED
    BY <1>5, <1>6, <1>7, <1>8, <1>9 DEF Goes, Projects

(* An apply takes what is pending over.                                    *)
LEMMA OwedApplies ==
  ASSUME TypeInv, ChangesAreOwed, NEW n \in Nodes, Applies(n)
  PROVE  ChangesAreOwed'
  <1>1. /\ issued \in Nat /\ engine[n].epoch \in Nat /\ engine[n].epoch <= issued
        /\ call \in [Nodes -> [Kinds -> CallStates]] /\ "apply" \in Kinds
    <2>1. engine[n].epoch \in 1..issued /\ issued \in Epochs
          /\ call \in [Nodes -> [Kinds -> CallStates]]
      BY DEF TypeInv, RoutingTypeOK
    <2> QED
      BY <2>1, RoutingAssumption DEF Epochs, Kinds
  <1>2. leader = n /\ UNCHANGED <<engine, leader, version>>
    BY DEF Applies, proberVars, ghosts
  <1>3. \/ call'[n]["apply"] = Computed("stage", issued + 1)
        \/ call'[n]["apply"] = Computed("push", engine[n].epoch)
    BY <1>1 DEF Applies
  <1>4. Owing(n, "apply")'
    BY <1>1, <1>2, <1>3 DEF Owing, Computed
  <1>5. Owes(n)'
    BY <1>1, <1>4 DEF Owes
  <1> QED
    BY <1>2, <1>5 DEF ChangesAreOwed

(* A result that changes what is eligible has flipped a verdict.           *)
LEMMA ChangesFlip ==
  ASSUME TypeInv, RowsAreCounted, NEW n \in Nodes, Writes(n), Eligible' # Eligible
  PROVE  prober'[n].flipped
  <1> DEFINE r == Head(prober[n].runs)
             row == Observed(r)
             flips == ~IsStale(r) /\ row.state # StateOf(r.b)
  <1>1. ProberInv /\ ProberTypeOK
    BY DEF TypeInv, RoutingTypeOK, ProberInv
  <1>2. WritesResult(n) /\ Writing(n) /\ draining' = draining
    BY DEF Writes, WritesResult
  <1>3. r \in Runs /\ r.b \in Backends
    BY <1>1, <1>2, RunsType DEF Runs
  <1>4. row \in VerdictRows /\ row # None
    BY <1>1, <1>3, ObservedIsCounted, NoneAssumption
  <1>5. /\ prober' = [prober EXCEPT ![n].runs = Tail(@), ![n].flipped = @ \/ flips]
        /\ verdict' = IF IsStale(r) THEN verdict ELSE [verdict EXCEPT ![r.b] = row]
        /\ head' = head
    BY <1>2 DEF WritesResult
  <1> HIDE DEF r, row
  <1>6. CASE ~flips
    <2>1. ASSUME NEW b \in Backends PROVE StateOf(b)' = StateOf(b)
      <3>1. CASE IsStale(r)
        BY <1>5, <3>1 DEF StateOf
      <3>2. CASE ~IsStale(r)
        <4>1. row.state = StateOf(r.b) /\ verdict' = [verdict EXCEPT ![r.b] = row]
              /\ verdict \in [Backends -> VerdictRows \cup {None}]
          BY <1>1, <1>5, <1>6, <3>2 DEF ProberTypeOK
        <4>2. CASE b = r.b
          BY <1>3, <1>4, <4>1, <4>2 DEF StateOf
        <4>3. CASE b # r.b
          BY <4>1, <4>3 DEF StateOf
        <4> QED
          BY <4>2, <4>3
      <3> QED
        BY <3>1, <3>2
    <2>2. head \subseteq Backends
      BY <1>1 DEF ProberTypeOK
    <2>3. Eligible' = Eligible
      BY <1>2, <1>5, <2>1, <2>2 DEF Eligible
    <2> QED
      BY <2>3
  <1>7. CASE flips
    <2> DEFINE q == [prober[n] EXCEPT !.runs = Tail(@), !.flipped = TRUE]
    <2>1. prober \in [Nodes -> Probers] /\ prober[n] \in Probers
      BY <1>1 DEF ProberTypeOK
    <2>2. (prober[n].flipped \/ flips) = TRUE
      BY <1>7
    <2> HIDE DEF flips
    <2>3. prober' = [prober EXCEPT ![n].runs = Tail(@), ![n].flipped = TRUE]
      BY <1>5, <2>2
    <2>4. prober' = [prober EXCEPT ![n] = q]
      BY <2>1, <2>3
    <2>5. q.flipped
      BY <2>1 DEF Probers
    <2> HIDE DEF q
    <2> QED
      BY <2>1, <2>4, <2>5
  <1> QED
    BY <1>6, <1>7

(* Its flips stay.                                                         *)
LEMMA WritesKeepsFlips ==
  ASSUME ProberTypeOK, NEW n \in Nodes, WritesResult(n)
  PROVE  \A m \in Nodes : prober[m].flipped => prober'[m].flipped
  <1> DEFINE r == Head(prober[n].runs)
             flips == ~IsStale(r) /\ Observed(r).state # StateOf(r.b)
             flipped == prober[n].flipped \/ flips
             q == [prober[n] EXCEPT !.runs = Tail(@), !.flipped = flipped]
  <1>1. prober' = [prober EXCEPT ![n].runs = Tail(@), ![n].flipped = @ \/ flips]
    BY DEF WritesResult
  <1>2. prober \in [Nodes -> Probers] /\ prober[n] \in Probers
    BY DEF ProberTypeOK
  <1> HIDE DEF flips
  <1>3. prober' = [prober EXCEPT ![n] = q]
    BY <1>1, <1>2
  <1>4. prober[n].flipped => flipped
    OBVIOUS
  <1> HIDE DEF flipped
  <1>5. q.flipped = flipped
    BY <1>2 DEF Probers
  <1> HIDE DEF q
  <1> QED
    BY <1>2, <1>3, <1>4, <1>5

(* A change that the leader makes it owes; the others are known to lack it.*)
LEMMA OwedCounted ==
  ASSUME TypeInv, TypeInv', ChangesAreOwed, NEW n \in Nodes, Counted({n}),
         UNCHANGED <<pending, leader>>,
         leader = n /\ ~pending /\ due[n] < version' => Owes(n)'
  PROVE  ChangesAreOwed'
  <1> SUFFICES ASSUME NEW m \in Nodes, leader' = m, ~pending', due'[m] < version'
               PROVE  Owes(m)'
    BY DEF ChangesAreOwed
  <1>1. version' \in Nat /\ due \in [Nodes -> 0..version] /\ version \in Nat
    BY DEF TypeInv, RoutingTypeOK
  <1>2. CASE m = n
    BY <1>2 DEF Counted
  <1>3. CASE m # n
    BY <1>1, <1>3 DEF Counted, Later
  <1> QED
    BY <1>2, <1>3

(* What is owed is kept by every step.                                     *)
LEMMA OwedStep ==
  ASSUME TypeInv, TypeInv', RowsAreCounted, FlipsAreBeingWritten, ChangesAreOwed,
         [RoutingNext]_routingVars
  PROVE  ChangesAreOwed'
  <1>1. /\ call \in [Nodes -> [Kinds -> CallStates]] /\ due \in [Nodes -> 0..version]
        /\ version \in Nat /\ ProberTypeOK /\ prober \in [Nodes -> Probers]
        /\ None \notin Nodes
    BY ProberAssumption DEF TypeInv, RoutingTypeOK, ProberTypeOK
  <1>2. ASSUME NEW n \in Nodes, NEW k \in Kinds, Goes(n, k) PROVE ChangesAreOwed'
    BY <1>2, OwedGoes
  <1>3. ASSUME NEW n \in Nodes, NEW k \in Kinds, Fails(n, k) PROVE ChangesAreOwed'
    <2>1. /\ UNCHANGED <<pending, version, engine>> /\ Lacks(n)
          /\ call' = [call EXCEPT ![n][k] = NoCall] /\ (ChangeHandled(n) \/ UNCHANGED proberVars)
      BY <1>3 DEF Fails
    <2>2. leader' = leader /\ \A m \in Nodes : prober'[m].flipped = prober[m].flipped
      BY <1>1, <2>1, HandledKeepsFlips
    <2>3. ~(due'[n] < version) /\ \A m \in Nodes \ {n} : due'[m] = due[m]
      BY <2>1, LackingIsKnown
    <2>4. \A m \in Nodes \ {n} : call'[m] = call[m]
      BY <1>1, <2>1
    <2> QED
      BY <2>1, <2>2, <2>3, <2>4, OwedButOne
  <1>4. ASSUME NEW n \in Nodes, Applies(n) PROVE ChangesAreOwed'
    BY <1>4, OwedApplies
  <1>5. ASSUME NEW n \in Nodes, Ticks(n) PROVE ChangesAreOwed'
    <2>1. /\ UNCHANGED <<pending, version, engine, due, leader, prober>> /\ leader # n
          /\ \A m \in Nodes \ {n} : call'[m] = call[m]
      BY <1>1, <1>5 DEF Ticks, proberVars, ghosts
    <2> QED
      BY <2>1, OwedButOne
  <1>6. ASSUME NEW n \in Nodes, Probing(n) PROVE ChangesAreOwed'
    <2>1. UNCHANGED <<pending, call, version, due, leader, engine>>
      BY <1>6 DEF Probing, slotVars, ghosts, SweepStarts, Answers, Answered
    <2>2. prober[n].pc \in {"idle", "probing"} /\ \A m \in Nodes \ {n} : prober'[m] = prober[m]
      BY <1>1, <1>6 DEF Probing, SweepStarts, Answers, Answered
    <2>3. \A m \in Nodes : prober[m].flipped => prober'[m].flipped
      BY <2>2 DEF FlipsAreBeingWritten
    <2> QED
      BY <2>1, <2>3, OwedStays
  <1>7. ASSUME NEW n \in Nodes, Writes(n) PROVE ChangesAreOwed'
    <2>1. /\ WritesResult(n) /\ UNCHANGED <<pending, leader, call, engine>> /\ Counted({n})
      BY <1>7 DEF Writes, WritesResult, slotVars
    <2>2. ASSUME leader = n, ~pending, due[n] < version' PROVE Owes(n)'
      <3>1. CASE Eligible' = Eligible
        <4>1. version' = version
          BY <2>1, <3>1 DEF Counted
        <4>2. Owes(n)
          BY <2>2, <4>1 DEF ChangesAreOwed
        <4>3. prober[n].flipped => prober'[n].flipped
          BY <1>1, <2>1, WritesKeepsFlips
        <4> QED
          BY <2>1, <4>1, <4>2, <4>3, OwesStays
      <3>2. CASE Eligible' # Eligible
        <4>1. prober'[n].flipped
          BY <1>7, <3>2, ChangesFlip
        <4> QED
          BY <4>1 DEF Owes
      <3> QED
        BY <3>1, <3>2
    <2> QED
      BY <2>1, <2>2, OwedCounted
  <1>8. ASSUME NEW n \in Nodes, EndsSweep(n) PROVE ChangesAreOwed'
    <2>1. /\ UNCHANGED <<pending, version, engine, due, leader>>
          /\ \A m \in Nodes \ {n} : call'[m] = call[m] /\ prober'[m] = prober[m]
      BY <1>1, <1>8 DEF EndsSweep, SweepEnds, ghosts
    <2>2. CASE prober[n].flipped
      <3>1. call'[n]["flips"] = Projecting /\ "flips" \in Kinds
        BY <1>1, <1>8, <2>2 DEF EndsSweep, Kinds
      <3>2. Owes(n)'
        BY <3>1, ProjectingOwes
      <3> QED
        BY <2>1, <3>2, OwedButOne
    <2>3. CASE ~prober[n].flipped
      <3>1. call' = call
        BY <1>8, <2>3 DEF EndsSweep
      <3> QED
        BY <2>1, <2>3, <3>1, OwedStays
    <2> QED
      BY <2>2, <2>3
  <1>9. ASSUME NEW n \in Nodes, FailsSweep(n) PROVE ChangesAreOwed'
    <2>1. /\ UNCHANGED <<pending, version, engine, call, leader>> /\ Lacks(n)
          /\ \A m \in Nodes \ {n} : prober'[m] = prober[m]
      BY <1>1, <1>9 DEF FailsSweep, SweepFails, slotVars
    <2>2. ~(due'[n] < version) /\ \A m \in Nodes \ {n} : due'[m] = due[m]
      BY <2>1, LackingIsKnown
    <2> QED
      BY <2>1, <2>2, OwedButOne
  <1>10. ASSUME NEW n \in Nodes, NEW b \in Backends, Drains(n, b) PROVE ChangesAreOwed'
    <2>1. UNCHANGED <<pending, leader>> /\ Counted({n})
          /\ call' = [call EXCEPT ![n]["drain"] = Projecting]
      BY <1>10 DEF Drains, proberVars
    <2>2. call'[n]["drain"] = Projecting /\ "drain" \in Kinds
      BY <1>1, <2>1 DEF Kinds
    <2> QED
      BY <2>1, <2>2, ProjectingOwes, OwedCounted
  <1>11. ASSUME NEW n \in Nodes, Promoted(n) PROVE ChangesAreOwed'
    <2>1. /\ UNCHANGED <<pending, version, engine, call, prober>> /\ Lacks(n) /\ leader' = n
      BY <1>11 DEF Promoted, Leads, slotVars
    <2>2. ~(due'[n] < version) /\ \A m \in Nodes \ {n} : due'[m] = due[m]
      BY <2>1, LackingIsKnown
    <2> QED
      BY <2>1, <2>2, OwedButOne
  <1>12. ASSUME NEW n \in Nodes, Boots(n) PROVE ChangesAreOwed'
    <2>1. /\ UNCHANGED <<pending, version, engine, due, prober>> /\ leader' = n
          /\ \A m \in Nodes \ {n} : call'[m] = call[m]
          /\ call'[n]["boot"] = Projecting /\ "boot" \in Kinds
      BY <1>1, <1>12 DEF Boots, Leads, ghosts, Kinds
    <2>2. Owes(n)'
      BY <2>1, ProjectingOwes
    <2> QED
      BY <2>1, <2>2, OwedButOne
  <1>13. ASSUME NEW n \in Nodes, Crashes(n) PROVE ChangesAreOwed'
    <2>1. /\ UNCHANGED <<pending, version, engine>> /\ Lacks(n) /\ leader' \in {leader, None}
          /\ \A m \in Nodes \ {n} : prober'[m] = prober[m] /\ call'[m] = call[m]
      BY <1>1, <1>13 DEF Crashes, Dies
    <2>2. ~(due'[n] < version) /\ \A m \in Nodes \ {n} : due'[m] = due[m]
      BY <2>1, LackingIsKnown
    <2> QED
      BY <1>1, <2>1, <2>2, OwedButOne
  <1>14. ASSUME NEW n \in Nodes, EngineRestarts(n) PROVE ChangesAreOwed'
    <2>1. /\ UNCHANGED <<pending, call, version, due, leader, prober>>
          /\ \A m \in Nodes : engine'[m].epoch = engine[m].epoch
      BY <1>14 DEF EngineRestarts, proberVars, TypeInv, RoutingTypeOK
    <2> QED
      BY <2>1, OwedStays
  <1>15. ASSUME EditsElsewhere \/ \E b \in Backends : Edits(b) PROVE ChangesAreOwed'
    BY <1>15 DEF EditsElsewhere, Edits, ChangesAreOwed
  <1>16. ASSUME Demoted \/ (\E b \in Backends : BackendTurns(b)) \/ UNCHANGED routingVars
         PROVE  ChangesAreOwed'
    <2>1. /\ UNCHANGED <<pending, call, version, due, prober, engine>>
          /\ leader' = leader \/ leader' = None
      BY <1>16 DEF Demoted, Yields, BackendTurns, Turns, routingVars, proberVars, slotVars, ghosts
    <2> QED
      BY <1>1, <2>1, OwedStays
  <1> QED
    BY <1>2, <1>3, <1>4, <1>5, <1>6, <1>7, <1>8, <1>9, <1>10, <1>11, <1>12, <1>13, <1>14, <1>15,
       <1>16 DEF RoutingNext, Sweeps

-----------------------------------------------------------------------------
(* Every step keeps what is staged and what is known as it should be.      *)

(* What is staged.                                                         *)
LEMMA StagingStep ==
  ASSUME TypeInv, StagingInv, [RoutingNext]_routingVars
  PROVE  StagingInv'
  <1>1. call \in [Nodes -> [Kinds -> CallStates]]
        /\ engine \in [Nodes -> [epoch : 1..issued, slots : [Epochs -> SUBSET Backends]]]
    BY DEF TypeInv, RoutingTypeOK
  <1>2. NoCall.pc = "idle" /\ Projecting.pc = "epoch"
    BY DEF Projecting, NoCall
  <1>3. ASSUME UNCHANGED <<active, engine, call>> PROVE StagingInv'
    BY <1>3, StagingStays DEF Staging
  <1>4. ASSUME NEW n \in Nodes, NEW k \in Kinds, Projects(n, k) \/ Stages(n, k)
        PROVE  StagingInv'
    <2> DEFINE r == call[n][k]
    <2>1. UNCHANGED active /\ \A m \in Nodes : engine'[m].epoch = engine[m].epoch
      <3>1. /\ UNCHANGED active
            /\ UNCHANGED engine \/ engine' = [engine EXCEPT ![n].slots[r.epoch] = r.slots]
        BY <1>4 DEF Projects, ReadsEpoch, ReadsEligible, Pushes, Stages
      <3> HIDE DEF r
      <3> QED
        BY <1>1, <3>1
    <2>2. r \in CallStates
      BY <1>1
    <2>3. PICK q : /\ call' = [call EXCEPT ![n][k] = q]
                   /\ q.pc \notin {"stage", "activate"} \/ (Staging(n, k) /\ q.epoch = r.epoch)
      <3>1. CASE ReadsEpoch(n, k)
        <4>1. call' = [call EXCEPT ![n][k] = [r EXCEPT !.pc = "eligible", !.epoch = engine[n].epoch]]
          BY <1>1, <3>1 DEF ReadsEpoch
        <4>2. [r EXCEPT !.pc = "eligible", !.epoch = engine[n].epoch].pc = "eligible"
          BY <2>2 DEF CallStates
        <4> QED
          BY <4>1, <4>2
      <3>2. CASE ReadsEligible(n, k)
        <4>1. call' = [call EXCEPT ![n][k] =
                         [r EXCEPT !.pc = "push", !.slots = Eligible, !.version = version]]
          BY <1>1, <3>2 DEF ReadsEligible
        <4>2. [r EXCEPT !.pc = "push", !.slots = Eligible, !.version = version].pc = "push"
          BY <2>2 DEF CallStates
        <4> QED
          BY <4>1, <4>2
      <3>3. CASE Pushes(n, k)
        BY <1>2, <3>3 DEF Pushes
      <3>4. CASE Stages(n, k)
        <4>1. call' = [call EXCEPT ![n][k] = [r EXCEPT !.pc = "activate"]] /\ r.pc = "stage"
          BY <1>1, <3>4 DEF Stages, At
        <4>2. [r EXCEPT !.pc = "activate"].epoch = r.epoch
          BY <2>2 DEF CallStates
        <4> QED
          BY <4>1, <4>2 DEF Staging
      <3> QED
        BY <1>4, <3>1, <3>2, <3>3, <3>4 DEF Projects
    <2> QED
      BY <2>1, <2>3, StagingOneCall
  <1>5. ASSUME NEW n \in Nodes, NEW k \in Kinds, Activates(n, k) PROVE StagingInv'
    BY <1>5, StagingActivates
  <1>6. ASSUME NEW n \in Nodes, NEW k \in Kinds, NEW r, r.pc \notin {"stage", "activate"},
               call' = [call EXCEPT ![n][k] = r], UNCHANGED <<active, engine>>
        PROVE  StagingInv'
    BY <1>6, StagingOneCall
  <1>7. ASSUME NEW n \in Nodes, NEW k \in Kinds, Fails(n, k) PROVE StagingInv'
    BY <1>2, <1>6, <1>7 DEF Fails
  <1>8. ASSUME NEW n \in Nodes, Applies(n) PROVE StagingInv'
    <2>1. UNCHANGED <<active, engine>> /\ "apply" \in Kinds
      BY <1>8 DEF Applies, Kinds
    <2>2. /\ \A pc, e : Computed(pc, e).pc = pc
          /\ \A pc, e : Computed(pc, e).epoch = e
      BY DEF Computed
    <2>3. CASE call' = [call EXCEPT ![n]["apply"] = Computed("stage", issued + 1)]
      <3>1. Computed("stage", issued + 1).epoch = issued + 1
        BY <2>2
      <3> QED
        BY <2>1, <2>3, <3>1, StagingApply
    <2>4. CASE call' = [call EXCEPT ![n]["apply"] = Computed("push", engine[n].epoch)]
      <3>1. Computed("push", engine[n].epoch).pc = "push"
        BY <2>2
      <3> QED
        BY <1>6, <2>1, <2>4, <3>1
    <2> QED
      BY <1>8, <2>3, <2>4 DEF Applies
  <1>9. ASSUME NEW n \in Nodes, Ticks(n) PROVE StagingInv'
    <2>1. UNCHANGED <<active, engine>> /\ "tick" \in Kinds
      BY <1>9 DEF Ticks, Kinds
    <2>2. CASE engine[n].epoch = active
      BY <1>2, <1>6, <1>9, <2>1, <2>2 DEF Ticks
    <2>3. CASE engine[n].epoch # active
      <3>1. call' = [call EXCEPT ![n]["tick"] = Computed("stage", active)]
        BY <1>9, <2>3 DEF Ticks
      <3>2. Computed("stage", active).epoch = active
        BY DEF Computed
      <3> QED
        BY <2>1, <2>3, <3>1, <3>2, StagingTick
    <2> QED
      BY <2>2, <2>3
  <1>10. ASSUME NEW n \in Nodes, EndsSweep(n) \/ Boots(n) \/ \E b \in Backends : Drains(n, b)
         PROVE  StagingInv'
    <2>1. UNCHANGED <<active, engine>>
      BY <1>10 DEF EndsSweep, Boots, Drains
    <2>2. UNCHANGED call \/ \E k \in Kinds : call' = [call EXCEPT ![n][k] = Projecting]
      BY <1>10 DEF EndsSweep, Boots, Drains, Kinds
    <2> QED
      BY <1>2, <1>3, <1>6, <2>1, <2>2
  <1>11. ASSUME NEW n \in Nodes, Crashes(n) PROVE StagingInv'
    <2>1. UNCHANGED <<active, engine>> /\ call' = [call EXCEPT ![n] = [k \in Kinds |-> NoCall]]
      BY <1>11 DEF Crashes
    <2>2. \A m \in Nodes, j \in Kinds : call'[m][j] = call[m][j] \/ call'[m][j] = NoCall
      BY <1>1, <2>1
    <2> QED
      BY <1>2, <2>1, <2>2, StagingStays DEF Staging
  <1>12. ASSUME NEW n \in Nodes, EngineRestarts(n) PROVE StagingInv'
    <2>1. UNCHANGED <<active, call>> /\ \A m \in Nodes : engine'[m].epoch = engine[m].epoch
      BY <1>1, <1>12 DEF EngineRestarts
    <2> QED
      BY <2>1, StagingStays DEF Staging
  <1>13. ASSUME \/ \E n \in Nodes : Probing(n) \/ Writes(n) \/ FailsSweep(n) \/ Promoted(n)
                \/ Demoted \/ EditsElsewhere \/ \E b \in Backends : Edits(b) \/ BackendTurns(b)
                \/ UNCHANGED routingVars
         PROVE  StagingInv'
    <2>1. UNCHANGED slotVars
      BY <1>13 DEF Probing, Writes, FailsSweep, Promoted, Demoted, EditsElsewhere, Edits,
                   BackendTurns, routingVars
    <2> QED
      BY <1>3, <2>1 DEF slotVars
  <1> QED
    BY <1>4, <1>5, <1>7, <1>8, <1>9, <1>10, <1>11, <1>12, <1>13 DEF RoutingNext, Goes, Sweeps

(* What calls and engines know of the current version.                     *)
LEMMA CurrentStep ==
  ASSUME TypeInv, VersionsBegin, StagingInv, CurrentInv, [RoutingNext]_routingVars
  PROVE  CurrentInv'
  <1>1. /\ call \in [Nodes -> [Kinds -> CallStates]] /\ shown \in [Nodes -> 0..version]
        /\ version >= 1 /\ version \in Nat
    BY DEF TypeInv, RoutingTypeOK, VersionsBegin
  <1>2. NoCall.pc = "idle" /\ Projecting.pc = "epoch" /\ \A pc, e : Computed(pc, e).slots = Eligible
    BY DEF Projecting, NoCall, Computed
  <1>3. ASSUME UNCHANGED <<head, verdict, draining, version, engine, call, shown>>
        PROVE  CurrentInv'
    <2>1. Eligible' = Eligible /\ \A m \in Nodes : Served(m)' = Served(m)
      BY <1>3, EligibleStays DEF Served
    <2> QED
      BY <1>3, <2>1, CurrentStays
  <1>4. ASSUME NEW n \in Nodes, NEW k \in Kinds, NEW r, call' = [call EXCEPT ![n][k] = r],
               r.pc \notin {"push", "stage", "activate"} \/ r.slots = Eligible,
               UNCHANGED <<head, verdict, draining, version, engine, shown>>
        PROVE  CurrentInv'
    BY <1>4, EligibleStays, CurrentOneCall
  <1>5. ASSUME NEW n \in Nodes, NEW k \in Kinds, Goes(n, k) PROVE CurrentInv'
    BY <1>1, <1>5, CurrentGoes
  <1>6. ASSUME NEW n \in Nodes, NEW k \in Kinds, Fails(n, k) PROVE CurrentInv'
    <2>1. /\ call' = [call EXCEPT ![n][k] = NoCall]
          /\ UNCHANGED <<head, verdict, draining, version, engine, shown>>
      BY <1>6 DEF Fails, ChangeHandled, proberVars
    <2> QED
      BY <1>2, <1>4, <2>1
  <1>7. ASSUME NEW n \in Nodes, Applies(n) PROVE CurrentInv'
    <2>1. UNCHANGED <<head, verdict, draining, version, engine, shown>> /\ "apply" \in Kinds
      BY <1>7 DEF Applies, proberVars, ghosts, Kinds
    <2>2. PICK pc, e : call' = [call EXCEPT ![n]["apply"] = Computed(pc, e)]
      BY <1>7 DEF Applies
    <2> QED
      BY <1>2, <1>4, <2>1, <2>2
  <1>8. ASSUME NEW n \in Nodes, Ticks(n) PROVE CurrentInv'
    <2>1. UNCHANGED <<head, verdict, draining, version, engine, shown>> /\ "tick" \in Kinds
      BY <1>8 DEF Ticks, proberVars, ghosts, Kinds
    <2>2. \/ call' = [call EXCEPT ![n]["tick"] = Projecting]
          \/ call' = [call EXCEPT ![n]["tick"] = Computed("stage", active)]
      BY <1>8 DEF Ticks
    <2> QED
      BY <1>2, <1>4, <2>1, <2>2
  <1>9. ASSUME NEW n \in Nodes, EndsSweep(n) \/ Boots(n) PROVE CurrentInv'
    <2>1. UNCHANGED <<head, verdict, draining, version, engine, shown>>
      BY <1>9 DEF EndsSweep, SweepEnds, Boots, Leads, ghosts
    <2>2. UNCHANGED call \/ \E k \in Kinds : call' = [call EXCEPT ![n][k] = Projecting]
      BY <1>9 DEF EndsSweep, Boots, Kinds
    <2> QED
      BY <1>2, <1>3, <1>4, <2>1, <2>2
  <1>10. ASSUME NEW n \in Nodes, Crashes(n) PROVE CurrentInv'
    <2>1. /\ call' = [call EXCEPT ![n] = [k \in Kinds |-> NoCall]]
          /\ UNCHANGED <<head, verdict, draining, version, engine, shown>>
      BY <1>10 DEF Crashes, Dies
    <2>2. \A m \in Nodes, j \in Kinds : call'[m][j] = call[m][j] \/ call'[m][j] = NoCall
      BY <1>1, <2>1
    <2>3. Eligible' = Eligible /\ \A m \in Nodes : Served(m)' = Served(m)
      BY <2>1, EligibleStays DEF Served
    <2> QED
      BY <1>2, <2>1, <2>2, <2>3, CurrentStays
  <1>11. ASSUME NEW n \in Nodes, EngineRestarts(n) PROVE CurrentInv'
    <2>1. /\ UNCHANGED <<head, verdict, draining, version, call>>
          /\ shown' = [shown EXCEPT ![n] = 0]
          /\ \A m \in Nodes \ {n} : engine'[m] = engine[m]
      BY <1>11 DEF EngineRestarts, proberVars, TypeInv, RoutingTypeOK
    <2>2. Eligible' = Eligible
      BY <2>1, EligibleStays
    <2>3. \A m \in Nodes : shown'[m] = version => Served(m)' = Served(m) /\ shown'[m] = shown[m]
      BY <1>1, <2>1 DEF Served
    <2> QED
      BY <2>1, <2>2, <2>3, CurrentStays
  <1>12. ASSUME NEW n \in Nodes, Writes(n) PROVE CurrentInv'
    BY <1>12, CurrentCounted DEF Writes, slotVars
  <1>13. ASSUME NEW n \in Nodes, NEW b \in Backends, Drains(n, b) PROVE CurrentInv'
    <2>1. UNCHANGED <<engine, shown>> /\ Counted({n})
          /\ call' = [call EXCEPT ![n]["drain"] = Projecting]
      BY <1>13 DEF Drains
    <2>2. \A m \in Nodes, j \in Kinds : call'[m][j] = call[m][j] \/ call'[m][j] = Projecting
      BY <1>1, <2>1
    <2> QED
      BY <1>2, <2>1, <2>2, CurrentCounted
  <1>14. ASSUME NEW b \in Backends, Edits(b) PROVE CurrentInv'
    BY <1>14, CurrentCounted DEF Edits, slotVars
  <1>15. ASSUME \/ \E n \in Nodes : Probing(n) \/ FailsSweep(n) \/ Promoted(n)
                \/ Demoted \/ EditsElsewhere \/ \E b \in Backends : BackendTurns(b)
                \/ UNCHANGED routingVars
         PROVE  CurrentInv'
    <2>1. UNCHANGED <<head, verdict, draining, version, engine, call, shown>>
      BY <1>15 DEF Probing, SweepStarts, Answers, Answered, FailsSweep, SweepFails, Promoted, Leads,
                   Demoted, Yields, EditsElsewhere, BackendTurns, Turns, routingVars, proberVars,
                   slotVars, ghosts
    <2> QED
      BY <1>3, <2>1
  <1> QED
    BY <1>5, <1>6, <1>7, <1>8, <1>9, <1>10, <1>11, <1>12, <1>13, <1>14, <1>15
    DEF RoutingNext, Sweeps

(* The invariant holds at the start.                                       *)
LEMMA ServingStarts == RoutingInit => ServingInv
  <1> SUFFICES ASSUME RoutingInit PROVE ServingInv
    OBVIOUS
  <1>1. /\ version = 1 /\ \A n \in Nodes : due[n] = 1 /\ shown[n] = 1
        /\ \A n \in Nodes, k \in Kinds : call[n][k].pc = "idle"
        /\ \A n \in Nodes : ~prober[n].flipped /\ Served(n) = Backends
        /\ "apply" \in Kinds /\ "tick" \in Kinds
    <2>1. 1 \in Epochs
      BY RoutingAssumption DEF Epochs
    <2>2. \A n \in Nodes : Served(n) = Backends
      BY <2>1 DEF RoutingInit, Served
    <2> QED
      BY <2>2 DEF RoutingInit, ProberInit, NoCall, Fresh, Kinds
  <1>2. Eligible = Backends
    <2>1. \A b \in Backends : StateOf(b) = "unknown"
      BY DEF RoutingInit, ProberInit, StateOf
    <2> QED
      BY <2>1 DEF RoutingInit, ProberInit, Eligible
  <1>3. StagingInv
    BY <1>1 DEF StagingInv, OnlyTwoStage, AppliesAreFresh, TicksGoElsewhere, Staging
  <1>4. CurrentInv
    BY <1>1, <1>2 DEF CurrentInv, CallsAreCurrent, EnginesAreCurrent
  <1>5. VersionsBegin /\ FlipsAreBeingWritten /\ ShownIsKnown /\ ChangesAreOwed
    BY <1>1 DEF VersionsBegin, FlipsAreBeingWritten, ShownIsKnown, ChangesAreOwed
  <1> QED
    BY <1>3, <1>4, <1>5 DEF ServingInv

(* An engine whose node has nothing to do, and is not known to lack        *)
(* anything, serves what is eligible.                                      *)
LEMMA ServingFollows == TypeInv /\ ServingInv => LeaderServesTheEligible
  <1> SUFFICES ASSUME TypeInv, ServingInv, NEW n \in Nodes,
                      leader = n, ~pending, Quiet(n), shown[n] >= due[n]
               PROVE  Served(n) = Eligible
    BY DEF LeaderServesTheEligible
  <1>1. ~Owes(n)
    BY DEF Quiet, At, Owes, Owing
  <1>2. ~(due[n] < version)
    BY <1>1 DEF ServingInv, ChangesAreOwed
  <1>3. shown[n] \in 0..version /\ due[n] \in 0..version /\ version \in Nat
    BY DEF TypeInv, RoutingTypeOK
  <1>4. shown[n] = version
    BY <1>2, <1>3
  <1> QED
    BY <1>4 DEF ServingInv, CurrentInv, EnginesAreCurrent

(* Once the leader's calls are done, no apply is pending and none of its   *)
(* calls failed since, its engine sends traffic to the eligible backends   *)
(* and to no other, whatever the sweeps, drains, applies, promotions,      *)
(* crashes and restarts before (plane.ts:477-516, 745;                     *)
(* barycenterd.ts:1024).                                                   *)
THEOREM LeaderServes == RoutingSpec => []LeaderServesTheEligible
  <1> DEFINE Inv == TypeInv /\ ProberInv /\ ServingInv
  <1>1. RoutingInit => Inv
    BY RoutingTypeStarts, ServingStarts
  <1>2. Inv /\ [RoutingNext]_routingVars => Inv'
    <2> SUFFICES ASSUME Inv, [RoutingNext]_routingVars PROVE Inv'
      OBVIOUS
    <2>1. TypeInv' /\ ProberInv'
      BY RoutingTypeStep, RoutingProbes, ProberStep
    <2>2. [ProberNext]_proberVars /\ ProberTypeOK /\ RowsAreCounted
      BY RoutingProbes DEF ProberInv
    <2>3. /\ VersionsBegin /\ StagingInv /\ CurrentInv
          /\ FlipsAreBeingWritten /\ ShownIsKnown /\ ChangesAreOwed
      BY DEF ServingInv
    <2>4. StagingInv' /\ CurrentInv'
      BY <2>3, StagingStep, CurrentStep
    <2>5. FlipsAreBeingWritten'
      BY <2>2, <2>3, FlipsStep
    <2>6. VersionsBegin' /\ ShownIsKnown'
      BY <2>1, <2>3, KnownStep
    <2>7. ChangesAreOwed'
      BY <2>1, <2>2, <2>3, OwedStep
    <2> QED
      BY <2>1, <2>4, <2>5, <2>6, <2>7 DEF ServingInv
  <1>3. Inv => LeaderServesTheEligible
    BY ServingFollows
  <1> QED
    BY <1>1, <1>2, <1>3, PTL DEF RoutingSpec

===============================================================================
