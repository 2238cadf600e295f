---------------------------- MODULE HealthProber ----------------------------
(***************************************************************************)
(* The leader's health prober (control/health.ts): a sweep numbers its     *)
(* probes from the greatest number that is stored, lets them answer in any *)
(* order, and writes each result in a transaction of its own; a result     *)
(* whose number is not above the stored one is dropped.  The verdict of a  *)
(* backend turns after Fall failures or Rise successes in a row.           *)
(*                                                                         *)
(* A node is one process at a time.  Who leads may change while a sweep is *)
(* under way: the sweep goes on.  Pools' own thresholds and timeouts are   *)
(* left out; their own intervals make a sweep skip some of the backends.   *)
(***************************************************************************)
EXTENDS Naturals, Sequences, FiniteSets

CONSTANTS
  Nodes, Backends, None,
  BackendOrder,   \* the backends in the order a model lists them
  Fall, Rise,     \* failThreshold, riseThreshold
  MaxSeq          \* bound: probes are numbered up to here

ASSUME ProberAssumption ==
  /\ BackendOrder \in Seq(Backends) /\ Backends = {BackendOrder[i] : i \in DOMAIN BackendOrder}
  /\ Fall \in Nat \ {0} /\ Rise \in Nat \ {0} /\ MaxSeq \in Nat
  /\ IsFiniteSet(Nodes) /\ None \notin Nodes

VARIABLES
  up,       \* which backends would answer a probe now
  head,     \* the backends of the head revision's model
  verdict,  \* backend_health, by backend
  leader,   \* who believes it leads: one node at most
  prober    \* each process's HealthProber

proberVars == <<up, head, verdict, leader, prober>>

States == {"unknown", "healthy", "unhealthy"}
(* A probe under way: its number; `start`, the order the probes really     *)
(* started in; and its result once it answered.                            *)
Runs == [b : Backends, seq : 1..MaxSeq, start : Nat, ok : BOOLEAN, answered : BOOLEAN]
(* A row: `last` has the latest results that were not dropped.             *)
VerdictRows == [state : States, seq : 1..MaxSeq, ok : BOOLEAN, streak : 1..(Fall + Rise),
                start : Nat, last : Seq(BOOLEAN)]
ASSUME NoneAssumption == None \notin VerdictRows
Probers == [pc : {"idle", "probing", "writing", "projecting"}, next : 0..(MaxSeq + 1),
            runs : Seq(Runs), flipped : BOOLEAN]
Fresh == [pc |-> "idle", next |-> 0, runs |-> <<>>, flipped |-> FALSE]

ProberInit ==
  /\ up = [b \in Backends |-> TRUE] /\ head = Backends
  /\ verdict = [b \in Backends |-> None]
  /\ leader \in Nodes /\ prober = [n \in Nodes |-> Fresh]

-----------------------------------------------------------------------------
(* A backend that has no row is unknown: not measured is not dead.         *)
StateOf(b) == IF verdict[b] = None THEN "unknown" ELSE verdict[b].state
StoredSeq(b) == IF verdict[b] = None THEN 0 ELSE verdict[b].seq

Greatest(S) == CHOOSE x \in S : \A y \in S : y <= x
LastSeq == Greatest({StoredSeq(b) : b \in Backends})
Started ==
  {verdict[b].start : b \in {x \in Backends : verdict[x] # None}}
    \cup UNION {{prober[n].runs[i].start : i \in DOMAIN prober[n].runs} : n \in Nodes}
LastStart == Greatest({0} \cup Started)

(* Where a sweep's numbers begin: the stored maximum is read by the first  *)
(* sweep of a process only.                                                *)
FirstIsStored(n) ==   \* the stored maximum itself
  IF prober[n].next = 0 THEN LastSeq ELSE prober[n].next
First(n) == IF prober[n].next = 0 THEN LastSeq + 1 ELSE prober[n].next

(* A sweep is of some of the backends, by their places in the model's      *)
(* order.                                                                  *)
Targets ==
  {places \in UNION {[1..k -> DOMAIN BackendOrder] : k \in DOMAIN BackendOrder} :
     \A i, j \in DOMAIN places : i < j => places[i] < places[j]}

(* It begins at the leader; the numbers are given before any probe is sent.*)
SweepStarts(n, places) ==
  LET first == First(n)
  IN /\ leader = n /\ prober[n].pc = "idle"
     /\ \A i \in DOMAIN places : BackendOrder[places[i]] \in head
     /\ first + Len(places) <= MaxSeq + 1
     /\ prober' = [prober EXCEPT ![n] =
          [pc |-> "probing", next |-> first + Len(places), flipped |-> FALSE,
           runs |-> [i \in DOMAIN places |->
             [b |-> BackendOrder[places[i]], seq |-> first + i - 1, start |-> LastStart + i,
              ok |-> FALSE, answered |-> FALSE]]]]
     /\ UNCHANGED <<up, head, verdict, leader>>

Answers(n, i) ==
  /\ prober[n].pc = "probing" /\ ~prober[n].runs[i].answered
  /\ prober' = [prober EXCEPT ![n].runs[i].ok = up[prober[n].runs[i].b],
                              ![n].runs[i].answered = TRUE]
  /\ UNCHANGED <<up, head, verdict, leader>>
Answered(n) ==
  /\ prober[n].pc = "probing" /\ \A i \in DOMAIN prober[n].runs : prober[n].runs[i].answered
  /\ prober' = [prober EXCEPT ![n].pc = "writing"]
  /\ UNCHANGED <<up, head, verdict, leader>>

(* The run of equal results is counted, not that of equal states.          *)
StreakOfStates(row, ok) ==   \* of equal states
  IF row # None /\ row.state = (IF ok THEN "healthy" ELSE "unhealthy")
  THEN IF row.streak < Fall + Rise THEN row.streak + 1 ELSE row.streak
  ELSE 1
Streak(row, ok) ==
  IF row # None /\ row.ok = ok
  THEN IF row.streak < Fall + Rise THEN row.streak + 1 ELSE row.streak
  ELSE 1
Judged(state, ok, streak) ==
  IF ok /\ streak >= Rise THEN "healthy"
  ELSE IF ~ok /\ streak >= Fall THEN "unhealthy" ELSE state
Latest(row, ok) ==
  LET before == IF row = None THEN <<>> ELSE row.last IN
  IF Len(before) < Fall + Rise THEN Append(before, ok) ELSE Append(Tail(before), ok)
Observed(r) ==
  LET streak == Streak(verdict[r.b], r.ok) IN
  [state |-> Judged(StateOf(r.b), r.ok, streak), seq |-> r.seq, ok |-> r.ok,
   streak |-> streak, start |-> r.start, last |-> Latest(verdict[r.b], r.ok)]

(* One result, in its transaction.                                         *)
IsStale(r) == r.seq <= StoredSeq(r.b)
Writing(n) == prober[n].pc = "writing" /\ prober[n].runs # <<>>
WritesResult(n) ==
  LET r == Head(prober[n].runs)
      row == Observed(r)
  IN /\ Writing(n)
     /\ prober' = [prober EXCEPT ![n].runs = Tail(@),
                     ![n].flipped = @ \/ (~IsStale(r) /\ row.state # StateOf(r.b))]
     /\ verdict' = IF IsStale(r) THEN verdict ELSE [verdict EXCEPT ![r.b] = row]
     /\ UNCHANGED <<up, head, leader>>

(* The callback of a change is awaited before the next sweep begins.       *)
SweepEnds(n) ==
  /\ prober[n].pc = "writing" /\ prober[n].runs = <<>>
  /\ prober' = [prober EXCEPT ![n].pc = IF prober[n].flipped THEN "projecting" ELSE "idle",
                              ![n].flipped = FALSE]
  /\ UNCHANGED <<up, head, verdict, leader>>
ChangeHandled(n) ==
  /\ prober[n].pc = "projecting"
  /\ prober' = [prober EXCEPT ![n].pc = "idle"]
  /\ UNCHANGED <<up, head, verdict, leader>>
(* A query fails: what the sweep still had, and what flipped, is forgotten.*)
SweepFails(n) ==
  /\ prober[n].pc \in {"probing", "writing"}
  /\ prober' = [prober EXCEPT ![n] = [Fresh EXCEPT !.next = prober[n].next]]
  /\ UNCHANGED <<up, head, verdict, leader>>

-----------------------------------------------------------------------------
(* Around it: backends die and come back, a commit adds or removes one     *)
(* (the trigger deletes its row, not what a sweep has under way), and      *)
(* nodes lead, cease to and die.                                           *)
Turns(b) == up' = [up EXCEPT ![b] = ~@] /\ UNCHANGED <<head, verdict, leader, prober>>
Adds(b) ==
  b \notin head /\ head' = head \cup {b} /\ UNCHANGED <<up, verdict, leader, prober>>
Removes(b) ==
  /\ b \in head /\ head' = head \ {b}
  /\ verdict' = [verdict EXCEPT ![b] = None]
  /\ UNCHANGED <<up, leader, prober>>
Leads(n) == leader = None /\ leader' = n /\ UNCHANGED <<up, head, verdict, prober>>
Yields == leader # None /\ leader' = None /\ UNCHANGED <<up, head, verdict, prober>>
Dies(n) ==
  /\ leader' = IF leader = n THEN None ELSE leader
  /\ prober' = [prober EXCEPT ![n] = Fresh]
  /\ UNCHANGED <<up, head, verdict>>

Probes(n) ==
  \/ \E places \in Targets : SweepStarts(n, places)
  \/ \E i \in DOMAIN prober[n].runs : Answers(n, i)
  \/ Answered(n) \/ WritesResult(n) \/ SweepEnds(n) \/ ChangeHandled(n) \/ SweepFails(n)
ProberNext ==
  \/ \E n \in Nodes : Probes(n) \/ Leads(n) \/ Dies(n)
  \/ Yields
  \/ \E b \in Backends : Turns(b) \/ Adds(b) \/ Removes(b)
ProberSpec == ProberInit /\ [][ProberNext]_proberVars
-----------------------------------------------------------------------------
ProberTypeOK ==
  /\ up \in [Backends -> BOOLEAN] /\ head \subseteq Backends
  /\ verdict \in [Backends -> VerdictRows \cup {None}]
  /\ leader \in Nodes \cup {None} /\ prober \in [Nodes -> Probers]

(* The latest results decide: Fall failures in a row make a backend        *)
(* unhealthy and Rise successes healthy, whatever its verdict was          *)
(* (health.ts:462).                                                        *)
EndsIn(s, k, ok) == Len(s) >= k /\ \A i \in (Len(s) - k + 1)..Len(s) : s[i] = ok
VerdictsFollowResults ==
  \A b \in Backends : verdict[b] # None =>
    /\ EndsIn(verdict[b].last, Fall, FALSE) => verdict[b].state = "unhealthy"
    /\ EndsIn(verdict[b].last, Rise, TRUE) => verdict[b].state = "healthy"

(* A result is dropped only where a probe that started later is stored: a  *)
(* process goes on from the stored maximum, across restarts and changes of *)
(* the leader (health.ts:355-361, 374).                                    *)
OnlyOvertakenResultsAreDropped ==
  [][\A n \in Nodes :
       LET r == Head(prober[n].runs) IN
       Writing(n) /\ IsStale(r) /\ prober'[n] = [prober[n] EXCEPT !.runs = Tail(@)]
         => verdict[r.b].start > r.start]_proberVars
=============================================================================
