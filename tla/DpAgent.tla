------------------------------ MODULE DpAgent ------------------------------
(***************************************************************************)
(* The data-plane agent: the durable record that decides which apply       *)
(* operation may move which plane (src/src/dp/agent.ts).                    *)
(*                                                                         *)
(* Every mutator of class DpAgent runs inside DpAgent.serial: it loads the *)
(* state, changes a copy, prunes it, checks assertInvariants and saves it  *)
(* with a compare-and-swap on the version, retrying on a conflict.  A call *)
(* is therefore one atomic step whoever makes it, and a call that throws   *)
(* saves nothing.  The operators below map a state to the SET of states a  *)
(* call may save: the empty set is a rejection (a thrown DpRejection).     *)
(*                                                                         *)
(* Abstractions.  operationId and transitionId always travel together and  *)
(* are one `name`.  The generation of a config operation is named after    *)
(* its activation epoch (control/plane.ts), so `epoch` stands for both.    *)
(* A tuple's canonical form is its envelope; digests are not modelled      *)
(* apart from it.                                                          *)
(***************************************************************************)
EXTENDS Naturals, FiniteSets

CONSTANTS
  Planes,              \* {"http", "stream"}: the planes an apply must declare
  Ops,                 \* envelopes of config applies (control/plane.ts apply, followActive)
  HealthOps,           \* envelopes of membership-only applies (applyMembershipOnly)
  None,                \* an absent optional field
  CompletedRetention,  \* COMPLETED_RETENTION, 64 in the code
  EvidenceRetention    \* EVIDENCE_RETENTION, 64 in the code

Steps == {"reserve", "stage", "commit", "health"}
Verdicts == {"activated", "failed", "aborted"}
Progress == {"reserved", "staged", "committed", "failed"}
TerminalPhases == {"activated", "partial_exhausted", "failed", "superseded"}
Phases == TerminalPhases \cup
  {"preflight", "publish_intent", "published", "membership_staged",
   "reload_intent", "reload_observed", "partially_activated"}

Coordinates == [epoch : Nat, rev : Nat]
AllOps == Ops \cup HealthOps
Names == {op.name : op \in AllOps}
Tokens == {op.token : op \in AllOps}
Epochs == {op.epoch : op \in AllOps}

(* An envelope names its operation, the leader token it was issued under,  *)
(* the coordinate it moves both planes to and the one it expects to find.  *)
Envelopes ==
  [name : Names, token : Nat \ {0}, epoch : Nat \ {0}, rev : Nat,
   exp : [Planes -> Coordinates]]

Whos == [name : Names, token : Tokens]
Records == [name : Names, token : Tokens, epoch : Epochs]
PlaneStates == [epoch : Nat, rev : Nat, by : Whos \cup {None}]
Slots == [op : AllOps, staged : BOOLEAN]
Journals ==
  [op : Ops, phase : Phases, attempts : Nat, seq : Nat,
   progress : [Planes -> Progress]]

Positions == [Planes -> PlaneStates]
Reservations == [Planes -> [Epochs -> Slots \cup {None}]]
Ledgers == SUBSET [op : AllOps, plane : Planes, step : Steps]
VerdictMaps == [Whos \X Planes -> Verdicts \cup {None}]
VerdictEpochs == [Whos \X Planes -> Epochs \cup {None}]
Evidence == SUBSET (Planes \X Nat)
MaybeRecord == Records \cup {None}

AgentStates ==
  [max               : Nat,
   planes            : Positions,
   reservations      : Reservations,
   completed         : Ledgers,
   terminal          : VerdictMaps,
   terminalAt        : VerdictEpochs,
   evidence          : Evidence,
   holder            : MaybeRecord,
   lastActivated     : MaybeRecord,
   lastPublishIntent : MaybeRecord,
   pendingActivation : MaybeRecord,
   pendingEpochs     : Epochs \cup {None},
   journal           : Journals \cup {None}]

ASSUME PlanesAssumption ==
  Planes # {} /\ Planes \subseteq {"http", "stream"}
ASSUME OpsAssumption ==
  Ops \subseteq Envelopes /\ HealthOps \subseteq Envelopes
ASSUME RetentionAssumption ==
  CompletedRetention \in Nat /\ EvidenceRetention \in Nat
ASSUME NoneAssumption ==
  /\ None \notin Whos /\ None \notin Records /\ None \notin Epochs
  /\ None \notin Verdicts /\ None \notin Slots /\ None \notin Journals
  /\ None \notin Phases /\ None \notin AllOps

InitialAgent ==
  [max               |-> 0,
   planes            |-> [p \in Planes |-> [epoch |-> 0, rev |-> 0, by |-> None]],
   reservations      |-> [p \in Planes |-> [e \in Epochs |-> None]],
   completed         |-> {},
   terminal          |-> [k \in Whos \X Planes |-> None],
   terminalAt        |-> [k \in Whos \X Planes |-> None],
   evidence          |-> {},
   holder            |-> None,
   lastActivated     |-> None,
   lastPublishIntent |-> None,
   pendingActivation |-> None,
   pendingEpochs     |-> None,
   journal           |-> None]

-----------------------------------------------------------------------------
(* Identities and lookups.                                                 *)

Who(x) == [name |-> x.name, token |-> x.token]

(* An operation id is drawn for one activation epoch (apply), and whoever  *)
(* carries the operation again under its id, carries it to that epoch      *)
(* (followActive).                                                         *)
ASSUME IdentityAssumption ==
  \A a, b \in Ops : Who(a) = Who(b) => a.epoch = b.epoch

RecordOf(op) == [name |-> op.name, token |-> op.token, epoch |-> op.epoch]
Target(op) == [epoch |-> op.epoch, rev |-> op.rev]
At(s, p) == [epoch |-> s.planes[p].epoch, rev |-> s.planes[p].rev]

(* authoredBy, ownsSlotOp and ownsJournal compare name AND token: two      *)
(* leaders may issue one name, and their slots and journals are not shared.*)
OwnedSlot(s, p, e, who) ==
  s.reservations[p][e] # None /\ Who(s.reservations[p][e].op) = who
OwnsJournalByName(j, op) ==   \* the token is not compared
  j # None /\ j.op.name = op.name
OwnsJournal(j, op) == j # None /\ Who(j.op) = Who(op)
Unfinished(j) == j # None /\ j.phase \notin TerminalPhases
TerminalOf(s, op, p) == s.terminal[<<Who(op), p>>]

(* ownsSlot: the canonical form of the whole tuple must agree.             *)
HasSlot(s, op, p) ==
  s.reservations[p][op.epoch] # None /\ s.reservations[p][op.epoch].op = op

(* The reservations without the slots that `who` owns at epoch e.          *)
SlotsKept(s, who, e) == s.reservations   \* superseding forgets the slots
SlotsFreed(s, who, e) ==
  [p \in Planes |-> [d \in Epochs |->
     IF d = e /\ OwnedSlot(s, p, d, who) THEN None ELSE s.reservations[p][d]]]
(* The reservations without op's own slot on the planes ps.                *)
SlotsReleased(s, op, ps) ==
  [p \in Planes |-> [d \in Epochs |->
     IF p \in ps /\ d = op.epoch /\ HasSlot(s, op, p)
     THEN None ELSE s.reservations[p][d]]]

MovedByMe(s, op, p) ==
  s.planes[p].epoch = op.epoch /\ s.planes[p].by = Who(op)

(* reachedPhase: what the planes say of the journal's operation, whoever   *)
(* asks.  Read only while there is a journal.                              *)
ReachedPhase(s) ==
  LET moved == {p \in Planes : MovedByMe(s, s.journal.op, p)} IN
  IF moved = Planes THEN "activated"
  ELSE IF moved = {} THEN "failed" ELSE "partial_exhausted"

-----------------------------------------------------------------------------
(* The baseline: a candidate is promoted to lastActivated only when every  *)
(* plane stands where the candidate put it.                                *)

PositionsReached(s, epoch) == epoch # None /\ \A p \in Planes : s.planes[p].epoch = epoch

CandidateArrived(s, candidate, epoch) ==
  /\ PositionsReached(s, epoch)
  /\ \A p \in Planes :
       IF s.planes[p].by = None
       THEN s.terminal[<<Who(candidate), p>>] = "activated"
       ELSE s.planes[p].by = Who(candidate)

CandidateEpochs(s, name) ==
  IF s.pendingEpochs # None THEN s.pendingEpochs
  ELSE IF s.journal # None /\ s.journal.op.name = name THEN s.journal.op.epoch
  ELSE None

FinalizeUnasked(s, name) ==   \* the planes are not asked whether it arrived
  IF s.pendingActivation = None \/ s.pendingActivation.name # name THEN s
  ELSE [s EXCEPT !.lastActivated = s.pendingActivation,
                 !.pendingActivation = None, !.pendingEpochs = None]
FinalizeCandidate(s, name) ==
  LET candidate == s.pendingActivation
      epoch     == CandidateEpochs(s, name)
  IN IF candidate = None \/ candidate.name # name THEN s
     ELSE [s EXCEPT
            !.lastActivated = IF CandidateArrived(s, candidate, epoch) THEN candidate
                              ELSE IF PositionsReached(s, epoch) THEN None ELSE @,
            !.pendingActivation = None,
            !.pendingEpochs = None]

(* An entry that is closed keeps what it says of the planes.               *)
ClosedEntry(j, how) == [j EXCEPT !.phase = how, !.seq = @ + 1]
HoldEnded(s, who) ==
  [s EXCEPT !.holder = IF @ # None /\ Who(@) = who THEN None ELSE @]

(* supersede: the holder's slots go, its journal is closed, its candidate  *)
(* is settled and its hold on the apply path ends, in one step.            *)
SlotsAndJournalClosed(s, holder) ==
  [s EXCEPT
    !.reservations = SlotsFreed(s, Who(holder), holder.epoch),
    !.journal = IF Unfinished(@) /\ @.op.name = holder.name
                THEN ClosedEntry(@, "superseded") ELSE @]
Supersede(s, holder) ==
  HoldEnded(FinalizeCandidate(SlotsAndJournalClosed(s, holder), holder.name),
            Who(holder))

-----------------------------------------------------------------------------
(* Admission and the ledger of completed steps.                            *)

IsLeader(s, token) == token >= s.max

SameKey(c, op, p, step) == Who(c.op) = Who(op) /\ c.plane = p /\ c.step = step
Seen(s, op, p, step) == {c \in s.completed : SameKey(c, op, p, step)}

(* admit lets a call through when the leader is current and the transition *)
(* is not closed; a step already recorded under the same key is replayed,  *)
(* and refused when its tuple differs.                                     *)
Admitted(s, op, p) ==
  IsLeader(s, op.token) /\ TerminalOf(s, op, p) \notin {"failed", "aborted"}
Replayed(s, op, p, step) ==
  /\ Admitted(s, op, p)
  /\ Seen(s, op, p, step) # {}
  /\ \A c \in Seen(s, op, p, step) : c.op = op
Fresh(s, op, p, step) ==
  Admitted(s, op, p) /\ Seen(s, op, p, step) = {} /\ TerminalOf(s, op, p) = None

Raised(s, op) == [s EXCEPT !.max = op.token]
Recorded(s, op, p, step) ==
  [s EXCEPT !.completed = @ \cup {[op |-> op, plane |-> p, step |-> step]}]

(* acquire: a slot (plane, epoch) belongs to one tuple; a new one needs the *)
(* plane where the tuple expects it and an epoch above the standing one.   *)
Acquirable(s, op, p) ==
  \/ HasSlot(s, op, p)
  \/ /\ s.reservations[p][op.epoch] = None
     /\ At(s, p) = op.exp[p]
     /\ op.epoch > s.planes[p].epoch
Acquired(s, op, p, staged) ==
  [s EXCEPT !.reservations[p][op.epoch] =
     [op |-> op, staged |-> staged \/ (@ # None /\ @.staged)]]

(* finish: the own slot goes and the verdict is written with its place.    *)
ClosedWhereItCameFrom(s, op, p, verdict) ==   \* the epoch it expected, not its own
  [s EXCEPT !.reservations = SlotsReleased(s, op, {p}),
            !.terminal[<<Who(op), p>>] = verdict,
            !.terminalAt[<<Who(op), p>>] = op.exp[p].epoch]
Closed(s, op, p, verdict) ==
  [s EXCEPT !.reservations = SlotsReleased(s, op, {p}),
            !.terminal[<<Who(op), p>>] = verdict,
            !.terminalAt[<<Who(op), p>>] = op.epoch]

-----------------------------------------------------------------------------
(* The calls on one tuple (an envelope on one plane).                      *)

Stage(s, op, p) ==
  IF Replayed(s, op, p, "stage") THEN {Raised(s, op)}
  ELSE IF Fresh(s, op, p, "stage") /\ Acquirable(s, op, p)
  THEN {Recorded(Acquired(Raised(s, op), op, p, TRUE), op, p, "stage")}
  ELSE {}

(* The position moves only from where the tuple expects it, into a slot    *)
(* the tuple staged.                                                       *)
Movable(s, op, p) ==
  /\ HasSlot(s, op, p) /\ s.reservations[p][op.epoch].staged
  /\ At(s, p) = op.exp[p]

(* The callers pass evidence that proves the generation (the runner checks *)
(* it first), so `proof` says whether it does.                             *)
Commit(s, op, p, proof) ==
  LET moved ==
        [Raised(s, op) EXCEPT
          !.planes[p] = [epoch |-> op.epoch, rev |-> op.rev, by |-> Who(op)],
          !.evidence = @ \cup {<<p, op.epoch>>},
          !.pendingEpochs =
             IF s.holder # None /\ Who(s.holder) = Who(op) THEN s.holder.epoch ELSE @,
          !.pendingActivation = RecordOf(op)]
      arrived == At(s, p) = Target(op) /\ s.planes[p].by = Who(op)
  IN IF Replayed(s, op, p, "commit") THEN {Raised(s, op)}
     ELSE IF Fresh(s, op, p, "commit") /\ arrived
     THEN {Recorded(Raised(s, op), op, p, "commit")}
     ELSE IF Fresh(s, op, p, "commit") /\ Movable(s, op, p) /\ proof
     THEN {Recorded(Closed(moved, op, p, "activated"), op, p, "commit")}
     ELSE {}

(* abort and fail: a verdict is written once; repeating it changes nothing *)
(* but the token, contradicting it is refused.                             *)
FinalizeAnew(s, op, p, verdict) ==   \* the verdict that stands is not asked
  IF IsLeader(s, op.token) THEN {Closed(Raised(s, op), op, p, verdict)} ELSE {}
Finalize(s, op, p, verdict) ==
  IF ~IsLeader(s, op.token) THEN {}
  ELSE IF TerminalOf(s, op, p) = None THEN {Closed(Raised(s, op), op, p, verdict)}
  ELSE IF TerminalOf(s, op, p) = verdict THEN {Raised(s, op)}
  ELSE {}
Abort(s, op, p) == Finalize(s, op, p, "aborted")
Fail(s, op, p) == Finalize(s, op, p, "failed")

(* A membership delta moves the revision forward inside the standing epoch *)
(* and keeps the author of the epoch.                                      *)
HealthTakesTheEpoch(s, op, p) ==   \* the delta becomes the author
  IF Replayed(s, op, p, "health") THEN {Raised(s, op)}
  ELSE IF Fresh(s, op, p, "health") /\ At(s, p) = op.exp[p]
          /\ op.epoch = s.planes[p].epoch /\ op.rev > s.planes[p].rev
  THEN {Recorded([Raised(s, op) EXCEPT
          !.planes[p] = [epoch |-> op.epoch, rev |-> op.rev, by |-> Who(op)]], op, p, "health")}
  ELSE {}
ApplyHealth(s, op, p) ==
  IF Replayed(s, op, p, "health") THEN {Raised(s, op)}
  ELSE IF /\ Fresh(s, op, p, "health")
          /\ At(s, p) = op.exp[p]
          /\ op.epoch = s.planes[p].epoch
          /\ op.rev > s.planes[p].rev
  THEN {Recorded([Raised(s, op) EXCEPT !.planes[p].rev = op.rev], op, p, "health")}
  ELSE {}

-----------------------------------------------------------------------------
(* The calls on an operation.                                              *)

(* fence: a higher token ends the hold of the operation in flight.         *)
Fence(s, token) ==
  LET raised == [s EXCEPT !.max = token] IN
  IF ~IsLeader(s, token) THEN {}
  ELSE IF s.holder # None /\ s.holder.token < token THEN {Supersede(raised, s.holder)}
  ELSE {raised}

NextSeq(s) == 1 + IF s.journal = None THEN 0 ELSE s.journal.seq
Opening(op, seq) ==
  [op |-> op, phase |-> "preflight", attempts |-> 0, seq |-> seq,
   progress |-> [p \in Planes |-> "reserved"]]

(* A journal that another operation left unfinished is closed before the   *)
(* reservation: its open planes are aborted and it is superseded.          *)
StaleClosed(s, op) ==
  LET stale == s.journal.op
      judged == [s EXCEPT !.terminal =
                  [k \in DOMAIN @ |->
                     IF k[1] = Who(stale) /\ @[k] = None THEN "aborted" ELSE @[k]]]
  IN IF Unfinished(s.journal) /\ ~OwnsJournal(s.journal, op)
     THEN Supersede(judged, RecordOf(stale)) ELSE s

(* reserveAll: every plane is reserved, the hold taken and the journal     *)
(* opened in one save, or nothing is.                                      *)
Reservable(s, op, p) ==
  \/ Replayed(s, op, p, "reserve")
  \/ Fresh(s, op, p, "reserve") /\ Acquirable(s, op, p)
ReserveEach(s, op) ==
  LET fresh == {p \in Planes : ~Replayed(s, op, p, "reserve")} IN
  [Raised(s, op) EXCEPT
    !.reservations = [p \in Planes |->
       IF p \in fresh THEN Acquired(s, op, p, FALSE).reservations[p] ELSE @[p]],
    !.completed = @ \cup {[op |-> op, plane |-> p, step |-> "reserve"] : p \in fresh}]

ReserveAll(s, op) ==
  LET mine == s.holder = None \/ s.holder.name = op.name
      t    == StaleClosed(s, op)
  IN IF IsLeader(s, op.token) /\ mine /\ \A p \in Planes : Reservable(t, op, p)
     THEN {[ReserveEach(t, op) EXCEPT
             !.holder = RecordOf(op),
             !.journal = IF OwnsJournal(@, op) THEN @
                         ELSE Opening(op, NextSeq(t))]}
     ELSE {}

RecordPublishIntent(s, op) ==
  IF IsLeader(s, op.token) THEN {[s EXCEPT !.lastPublishIntent = RecordOf(op)]} ELSE {}

(* writeJournal: only the holder writes, and only on the entry it has read.*)
WriteJournal(s, entry) ==
  IF /\ IsLeader(s, entry.op.token)
     /\ s.holder # None /\ s.holder.name = entry.op.name
     /\ entry.seq = NextSeq(s)
  THEN {[s EXCEPT !.journal = entry]} ELSE {}
Writable(s, op) ==
  IsLeader(s, op.token) /\ s.holder # None /\ s.holder.name = op.name

CloseJournal(s, op, how) ==
  IF OwnsJournal(s.journal, op) /\ Unfinished(s.journal)
  THEN {[s EXCEPT !.journal = ClosedEntry(@, how)]} ELSE {s}

FinishOperation(s, op, releasePlanes) ==
  LET t == FinalizeCandidate(s, op.name) IN
  {HoldEnded([t EXCEPT !.reservations = SlotsReleased(t, op, releasePlanes)], Who(op))}

ReleaseHolderSlots(s, op) ==
  IF s.holder # None /\ Who(s.holder) = Who(op)
  THEN {[s EXCEPT !.reservations = SlotsFreed(s, Who(op), s.holder.epoch),
                  !.holder = None]}
  ELSE {s}

ReleaseStaleSlots(s, op) ==
  IF s.holder = None
  THEN {[s EXCEPT !.reservations = SlotsFreed(s, Who(op), op.epoch)]} ELSE {s}

ReleaseIdleHolder(s) ==
  IF s.holder # None /\ s.journal = None
  THEN {[s EXCEPT !.reservations =
            [p \in Planes |-> [@[p] EXCEPT ![s.holder.epoch] = None]],
          !.holder = None]}
  ELSE {s}

ReclaimWhateverToken(s, op) ==   \* the token is not compared again
  IF s.holder # None THEN {s} ELSE {[s EXCEPT !.holder = RecordOf(op)]}
ReclaimOperation(s, op) ==
  IF s.holder # None THEN {s}
  ELSE IF IsLeader(s, op.token) THEN {[s EXCEPT !.holder = RecordOf(op)]} ELSE {}

(* assertOwnership, also the check of an ApplyLease: read just before an   *)
(* effect, it compares the NAME of the holder and the token.               *)
LeaseByToken(s, op) == op.token >= s.max   \* the hold itself is not checked
LeaseByName(s, op) ==   \* the token is not checked
  s.holder # None /\ s.holder.name = op.name
LeaseValid(s, op) ==
  op.token >= s.max /\ s.holder # None /\ s.holder.name = op.name

-----------------------------------------------------------------------------
(* serial: pruning, the guard of assertInvariants, and the save.           *)

LiveWhos(s) ==
  LET live == {s.holder, s.lastActivated, s.lastPublishIntent, s.pendingActivation,
               IF s.journal = None THEN None ELSE s.journal.op} \ {None}
  IN {Who(x) : x \in live}

(* terminalPrunable: a verdict may go once the plane stands above its      *)
(* epoch, no slot holds that epoch and nothing refers to the transition.   *)
PrunableOnceIdle(s, who, p, at) ==   \* a verdict at or above the position goes too
  /\ at # None
  /\ who \notin LiveWhos(s)
  /\ \A e \in Epochs : ~OwnedSlot(s, p, e, who)
TerminalPrunable(s, who, p, at) ==
  /\ at # None
  /\ at < s.planes[p].epoch
  /\ s.reservations[p][at] = None
  /\ who \notin LiveWhos(s)
  /\ \A e \in Epochs : ~OwnedSlot(s, p, e, who)

PruneTerminal(s) ==
  LET gone(k) == TerminalPrunable(s, k[1], k[2], s.terminalAt[k]) IN
  [s EXCEPT !.terminal = [k \in DOMAIN @ |-> IF gone(k) THEN None ELSE @[k]],
            !.terminalAt = [k \in DOMAIN @ |-> IF gone(k) THEN None ELSE @[k]]]

(* The code drops the oldest transitions first; here any that are not live *)
(* may be the oldest.                                                      *)
Droppable(s) ==
  LET kept   == {Who(c.op) : c \in s.completed}
      idle   == kept \ ({Who(x) : x \in {s.holder, IF s.journal = None THEN None
                                         ELSE s.journal.op} \ {None}})
      excess == IF Cardinality(kept) > CompletedRetention
                THEN Cardinality(kept) - CompletedRetention ELSE 0
  IN {d \in SUBSET idle :
        Cardinality(d) = IF excess < Cardinality(idle) THEN excess ELSE Cardinality(idle)}
Standing(s) == {<<p, s.planes[p].epoch>> : p \in Planes}
AnyEvidenceDroppable(s) ==   \* also where a plane stands
  LET excess == IF Cardinality(s.evidence) > EvidenceRetention
                THEN Cardinality(s.evidence) - EvidenceRetention ELSE 0
  IN {d \in SUBSET s.evidence : Cardinality(d) = excess}
EvidenceDroppable(s) ==
  LET past   == s.evidence \ Standing(s)
      excess == IF Cardinality(s.evidence) > EvidenceRetention
                THEN Cardinality(s.evidence) - EvidenceRetention ELSE 0
  IN {d \in SUBSET past :
        Cardinality(d) = IF excess < Cardinality(past) THEN excess ELSE Cardinality(past)}

Trimmed(s, d, e) ==
  [s EXCEPT !.completed = {c \in @ : Who(c.op) \notin d}, !.evidence = @ \ e]
Pruned(s) ==
  {Trimmed(PruneTerminal(s), d, e) :
     d \in Droppable(PruneTerminal(s)), e \in EvidenceDroppable(s)}

(* What the calls of an outcome set may save, before assertInvariants.     *)
Outcomes(calls) == UNION {Pruned(s) : s \in calls}

(* assertInvariants, clause by clause.                                     *)
I1HolderIsNewest(next) == next.holder # None => next.holder.token = next.max
I1SlotsNotAbove(next) ==
  \A p \in Planes, e \in Epochs :
    next.reservations[p][e] # None => next.reservations[p][e].op.token <= next.max
I3NoRewind(before, next) ==
  /\ next.max >= before.max
  /\ \A p \in Planes : next.planes[p].epoch >= before.planes[p].epoch
  /\ before.journal # None /\ next.journal # None => next.journal.seq >= before.journal.seq
I5IntentFenced(before, next) ==
  /\ \A r \in {next.lastPublishIntent, next.lastActivated, next.pendingActivation} \ {None} :
       r.token <= next.max
  /\ LET was == before.lastPublishIntent
         now == next.lastPublishIntent
     IN now # None /\ (was = None \/ was.name # now.name \/ was.epoch # now.epoch)
          => now.token = next.max
I6BaselineFromCandidate(before, next) ==
  LET was       == before.lastActivated
      now       == next.lastActivated
      candidate == before.pendingActivation
  IN /\ now # None /\ now # was => now = candidate
     /\ ( /\ candidate # None /\ next.pendingActivation = None
          /\ CandidateArrived(next, candidate, CandidateEpochs(before, candidate.name))
          /\ next.journal # None /\ next.journal.phase = "activated"
          /\ next.journal.op.name = candidate.name )
        => now = candidate
I7VerdictsAndEvidenceKept(before, next) ==
  /\ \A k \in DOMAIN before.terminal : before.terminal[k] # None =>
       \/ next.terminal[k] = before.terminal[k]
       \/ /\ next.terminal[k] = None
          /\ TerminalPrunable(next, k[1], k[2], before.terminalAt[k])
  /\ \A v \in before.evidence \cap Standing(next) : v \in next.evidence

Breaks(clause, holds) == IF holds THEN {} ELSE {clause}
BrokenClauses(before, next) ==
  Breaks("I1 holder", I1HolderIsNewest(next))
    \cup Breaks("I1 slots", I1SlotsNotAbove(next))
    \cup Breaks("I3", I3NoRewind(before, next))
    \cup Breaks("I5", I5IntentFenced(before, next))
    \cup Breaks("I6", I6BaselineFromCandidate(before, next))
    \cup Breaks("I7", I7VerdictsAndEvidenceKept(before, next))

(* What a call made in state s leaves saved when its outcome is t: nothing *)
(* new when assertInvariants throws.                                       *)
Guarded(s, t) == IF BrokenClauses(s, t) = {} THEN t ELSE s
=============================================================================
