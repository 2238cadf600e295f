--------------------------- MODULE DpAgentLemmas ---------------------------
(***************************************************************************)
(* What the calls of the agent (DpAgent) do to its state, whoever makes    *)
(* them and whenever: they keep its type, move planes only up, keep what   *)
(* is on record (Keeps), settle a candidate only where it arrived          *)
(* (Settled), and pruning takes away only what nobody needs.  The theorems *)
(* about the agent under any calls (DpAgentProofs) and about the apply     *)
(* path (DpApplyProofs) rest on them.                                      *)
(***************************************************************************)
EXTENDS DpAgent, TLAPS

-----------------------------------------------------------------------------
(* The parts an outcome is built from keep their types.                    *)

(* What an envelope contributes has the type the state gives it.           *)
LEMMA EnvelopeTypes ==
  ASSUME NEW op \in AllOps
  PROVE  /\ op \in Envelopes
         /\ op.token \in Nat /\ op.epoch \in Nat /\ op.rev \in Nat
         /\ op.name \in Names /\ op.token \in Tokens /\ op.epoch \in Epochs
         /\ op.epoch > 0
         /\ Who(op) \in Whos /\ RecordOf(op) \in Records
  <1>1. op \in Envelopes
    BY OpsAssumption DEF AllOps
  <1>2. op.name \in Names /\ op.token \in Tokens /\ op.epoch \in Epochs
    BY DEF Names, Tokens, Epochs
  <1>3. op.token \in Nat /\ op.epoch \in Nat /\ op.rev \in Nat /\ op.epoch > 0
    BY <1>1 DEF Envelopes
  <1> QED
    BY <1>1, <1>2, <1>3 DEF Who, RecordOf, Whos, Records

(* The state an agent starts with has its type.                            *)
LEMMA InitialAgentType == InitialAgent \in AgentStates
  <1>1. [p \in Planes |-> [epoch |-> 0, rev |-> 0, by |-> None]] \in Positions
    BY DEF Positions, PlaneStates
  <1>2. [p \in Planes |-> [e \in Epochs |-> None]] \in Reservations
    BY DEF Reservations
  <1>3. [k \in Whos \X Planes |-> None] \in VerdictMaps \cap VerdictEpochs
    BY DEF VerdictMaps, VerdictEpochs
  <1>4. {} \in Ledgers \cap Evidence
    BY DEF Ledgers, Evidence
  <1> QED
    BY <1>1, <1>2, <1>3, <1>4 DEF InitialAgent, AgentStates, MaybeRecord

(* Freeing slots leaves reservations.                                      *)
LEMMA SlotsFreedType ==
  ASSUME NEW s \in AgentStates, NEW who, NEW e
  PROVE  SlotsFreed(s, who, e) \in Reservations
  <1>1. s.reservations \in Reservations
    BY DEF AgentStates
  <1> QED
    BY <1>1 DEF SlotsFreed, Reservations

(* Releasing an operation's own slots keeps the type of the reservations.  *)
LEMMA SlotsReleasedType ==
  ASSUME NEW s \in AgentStates, NEW op, NEW ps
  PROVE  SlotsReleased(s, op, ps) \in Reservations
  <1>1. s.reservations \in Reservations
    BY DEF AgentStates
  <1> QED
    BY <1>1 DEF SlotsReleased, Reservations

(* Settling a candidate and superseding keep the type.                     *)
LEMMA FinalizeCandidateType ==
  ASSUME NEW s \in AgentStates, NEW name
  PROVE  FinalizeCandidate(s, name) \in AgentStates
  BY DEF FinalizeCandidate, AgentStates, MaybeRecord

(* A journal that is closed is still a journal.                            *)
LEMMA ClosedEntryType ==
  ASSUME NEW j \in Journals, NEW how \in Phases
  PROVE  ClosedEntry(j, how) \in Journals
  <1> DEFINE n == j.seq + 1
  <1>1. n \in Nat
    BY DEF Journals
  <1> HIDE DEF n
  <1>2. [j EXCEPT !.phase = how, !.seq = n] \in Journals
    BY <1>1 DEF Journals
  <1> QED
    BY <1>2 DEF ClosedEntry, n

(* Ending a hold keeps the type of the state.                              *)
LEMMA HoldEndedType ==
  ASSUME NEW s \in AgentStates, NEW who
  PROVE  HoldEnded(s, who) \in AgentStates
  BY DEF HoldEnded, AgentStates, MaybeRecord

(* So does the first half of supersede: its slots and its journal.         *)
LEMMA SlotsAndJournalClosedType ==
  ASSUME NEW s \in AgentStates, NEW holder
  PROVE  SlotsAndJournalClosed(s, holder) \in AgentStates
  <1> DEFINE j == IF Unfinished(s.journal) /\ s.journal.op.name = holder.name
                  THEN ClosedEntry(s.journal, "superseded") ELSE s.journal
  <1>1. SlotsFreed(s, Who(holder), holder.epoch) \in Reservations
    BY SlotsFreedType
  <1>2. s.journal \in Journals \cup {None}
    BY DEF AgentStates
  <1>3. j \in Journals \cup {None}
    <2>1. Unfinished(s.journal) => s.journal \in Journals
      BY <1>2 DEF Unfinished
    <2>2. "superseded" \in Phases
      BY DEF Phases, TerminalPhases
    <2> QED
      BY <1>2, <2>1, <2>2, ClosedEntryType
  <1> HIDE DEF j
  <1>4. [s EXCEPT !.reservations = SlotsFreed(s, Who(holder), holder.epoch),
                  !.journal = j] \in AgentStates
    BY <1>1, <1>3 DEF AgentStates
  <1> QED
    BY <1>4 DEF SlotsAndJournalClosed, j

(* supersede keeps the type.                                               *)
LEMMA SupersedeType ==
  ASSUME NEW s \in AgentStates, NEW holder
  PROVE  Supersede(s, holder) \in AgentStates
  BY SlotsAndJournalClosedType, FinalizeCandidateType, HoldEndedType DEF Supersede

(* The token an envelope brings, the ledger, slots and verdicts.           *)
LEMMA RaisedType ==
  ASSUME NEW s \in AgentStates, NEW op \in AllOps
  PROVE  Raised(s, op) \in AgentStates
  BY EnvelopeTypes DEF Raised, AgentStates

(* Recording a step in the ledger keeps the type.                          *)
LEMMA RecordedType ==
  ASSUME NEW s \in AgentStates, NEW op \in AllOps, NEW p \in Planes, NEW step \in Steps
  PROVE  Recorded(s, op, p, step) \in AgentStates
  <1>1. s.completed \cup {[op |-> op, plane |-> p, step |-> step]} \in Ledgers
    BY DEF AgentStates, Ledgers
  <1> QED
    BY <1>1 DEF Recorded, AgentStates

(* acquire keeps the type.                                                 *)
LEMMA AcquiredType ==
  ASSUME NEW s \in AgentStates, NEW op \in AllOps, NEW p \in Planes, NEW staged \in BOOLEAN
  PROVE  Acquired(s, op, p, staged) \in AgentStates
  <1> DEFINE was == s.reservations[p][op.epoch]
             slot == [op |-> op, staged |-> staged \/ (was # None /\ was.staged)]
             slots == [s.reservations EXCEPT ![p][op.epoch] = slot]
  <1>1. s.reservations \in Reservations /\ op.epoch \in Epochs
    BY EnvelopeTypes DEF AgentStates
  <1>2. slot \in Slots
    BY DEF Slots
  <1> HIDE DEF slot
  <1>3. slots \in Reservations
    BY <1>1, <1>2 DEF Reservations
  <1> HIDE DEF slots
  <1>4. [s EXCEPT !.reservations = slots] \in AgentStates
    BY <1>3 DEF AgentStates
  <1> QED
    BY <1>4 DEF Acquired, slots, slot

(* Writing a verdict (finish) keeps the type.                              *)
LEMMA ClosedType ==
  ASSUME NEW s \in AgentStates, NEW op \in AllOps, NEW p \in Planes, NEW verdict \in Verdicts
  PROVE  Closed(s, op, p, verdict) \in AgentStates
  <1> DEFINE verdicts == [s.terminal EXCEPT ![<<Who(op), p>>] = verdict]
             places == [s.terminalAt EXCEPT ![<<Who(op), p>>] = op.epoch]
  <1>1. SlotsReleased(s, op, {p}) \in Reservations
    BY SlotsReleasedType
  <1>2. verdicts \in VerdictMaps
    BY DEF AgentStates, VerdictMaps
  <1>3. places \in VerdictEpochs
    BY EnvelopeTypes DEF AgentStates, VerdictEpochs
  <1> HIDE DEF verdicts, places
  <1>4. [s EXCEPT !.reservations = SlotsReleased(s, op, {p}),
                  !.terminal = verdicts, !.terminalAt = places] \in AgentStates
    BY <1>1, <1>2, <1>3 DEF AgentStates
  <1> QED
    BY <1>4 DEF Closed, verdicts, places
-----------------------------------------------------------------------------
(* Every call maps a typed state to typed states.                          *)

(* Every state stage may save has its type.                                *)
LEMMA StageType ==
  ASSUME NEW s \in AgentStates, NEW op \in AllOps, NEW p \in Planes
  PROVE  Stage(s, op, p) \subseteq AgentStates
  <1>1. Raised(s, op) \in AgentStates
    BY RaisedType
  <1>2. Recorded(Acquired(Raised(s, op), op, p, TRUE), op, p, "stage") \in AgentStates
    BY <1>1, AcquiredType, RecordedType DEF Steps
  <1> QED
    BY <1>1, <1>2 DEF Stage

(* Every state commit may save has its type.                               *)
LEMMA CommitType ==
  ASSUME NEW s \in AgentStates, NEW op \in AllOps, NEW p \in Planes, NEW proof
  PROVE  Commit(s, op, p, proof) \subseteq AgentStates
  <1> DEFINE r == Raised(s, op)
             there == [epoch |-> op.epoch, rev |-> op.rev, by |-> Who(op)]
             planes == [r.planes EXCEPT ![p] = there]
             evidence == r.evidence \cup {<<p, op.epoch>>}
             epochs == IF s.holder # None /\ Who(s.holder) = Who(op)
                       THEN s.holder.epoch ELSE r.pendingEpochs
             moved == [r EXCEPT !.planes = planes, !.evidence = evidence,
                                !.pendingEpochs = epochs,
                                !.pendingActivation = RecordOf(op)]
  <1>1. r \in AgentStates
    BY RaisedType
  <1>2. planes \in Positions
    BY <1>1, EnvelopeTypes DEF AgentStates, Positions, PlaneStates
  <1>3. evidence \in Evidence
    BY <1>1, EnvelopeTypes DEF AgentStates, Evidence
  <1>4. epochs \in Epochs \cup {None}
    BY <1>1 DEF AgentStates, MaybeRecord, Records
  <1>5. RecordOf(op) \in MaybeRecord
    BY EnvelopeTypes DEF MaybeRecord
  <1> HIDE DEF r, planes, evidence, epochs
  <1>6. moved \in AgentStates
    BY <1>1, <1>2, <1>3, <1>4, <1>5 DEF AgentStates
  <1>7. Recorded(Closed(moved, op, p, "activated"), op, p, "commit") \in AgentStates
    <2> HIDE DEF moved
    <2> QED
      BY <1>6, ClosedType, RecordedType DEF Steps, Verdicts
  <1>8. Recorded(r, op, p, "commit") \in AgentStates
    BY <1>1, RecordedType DEF Steps
  <1> QED
    BY <1>1, <1>7, <1>8 DEF Commit, r, planes, evidence, epochs

(* Every state abort or fail may save has its type.                        *)
LEMMA FinalizeType ==
  ASSUME NEW s \in AgentStates, NEW op \in AllOps, NEW p \in Planes, NEW verdict \in Verdicts
  PROVE  Finalize(s, op, p, verdict) \subseteq AgentStates
  <1>1. Raised(s, op) \in AgentStates
    BY RaisedType
  <1> QED
    BY <1>1, ClosedType DEF Finalize

(* Every state applyHealth may save has its type.                          *)
LEMMA ApplyHealthType ==
  ASSUME NEW s \in AgentStates, NEW op \in AllOps, NEW p \in Planes
  PROVE  ApplyHealth(s, op, p) \subseteq AgentStates
  <1> DEFINE r == Raised(s, op)
             planes == [r.planes EXCEPT ![p].rev = op.rev]
  <1>1. r \in AgentStates
    BY RaisedType
  <1>2. planes \in Positions
    BY <1>1, EnvelopeTypes DEF AgentStates, Positions, PlaneStates
  <1> HIDE DEF r, planes
  <1>3. [r EXCEPT !.planes = planes] \in AgentStates
    BY <1>1, <1>2 DEF AgentStates
  <1>4. Recorded([r EXCEPT !.planes = planes], op, p, "health") \in AgentStates
    BY <1>3, RecordedType DEF Steps
  <1> QED
    BY <1>1, <1>4 DEF ApplyHealth, r, planes

(* Every state fence may save has its type.                                *)
LEMMA FenceType ==
  ASSUME NEW s \in AgentStates, NEW token \in Nat
  PROVE  Fence(s, token) \subseteq AgentStates
  <1>1. [s EXCEPT !.max = token] \in AgentStates
    BY DEF AgentStates
  <1> QED
    BY <1>1, SupersedeType DEF Fence

(* reserveAll's clean-up of a stale journal keeps the type.                *)
LEMMA StaleClosedType ==
  ASSUME NEW s \in AgentStates, NEW op
  PROVE  StaleClosed(s, op) \in AgentStates
  <1> DEFINE verdicts == [k \in DOMAIN s.terminal |->
                            IF k[1] = Who(s.journal.op) /\ s.terminal[k] = None
                            THEN "aborted" ELSE s.terminal[k]]
  <1>1. verdicts \in VerdictMaps
    BY DEF AgentStates, VerdictMaps, Verdicts
  <1> HIDE DEF verdicts
  <1>2. [s EXCEPT !.terminal = verdicts] \in AgentStates
    BY <1>1 DEF AgentStates
  <1>3. Supersede([s EXCEPT !.terminal = verdicts], RecordOf(s.journal.op)) \in AgentStates
    BY <1>2, SupersedeType
  <1> QED
    BY <1>3 DEF StaleClosed, verdicts

(* The journal reserveAll opens is a journal.                              *)
LEMMA OpeningType ==
  ASSUME NEW s \in AgentStates, NEW op \in Ops
  PROVE  Opening(op, NextSeq(s)) \in Journals
  <1>1. NextSeq(s) \in Nat
    BY DEF NextSeq, AgentStates, Journals
  <1>2. [p \in Planes |-> "reserved"] \in [Planes -> Progress]
    BY DEF Progress
  <1> HIDE DEF NextSeq
  <1> QED
    BY <1>1, <1>2 DEF Opening, Journals, Phases

(* Acquiring the slots of both planes keeps the type.                      *)
LEMMA ReserveEachType ==
  ASSUME NEW s \in AgentStates, NEW op \in AllOps
  PROVE  ReserveEach(s, op) \in AgentStates
  <1> DEFINE r == Raised(s, op)
             fresh == {p \in Planes : ~Replayed(s, op, p, "reserve")}
             slots == [p \in Planes |->
                         IF p \in fresh THEN Acquired(s, op, p, FALSE).reservations[p]
                         ELSE r.reservations[p]]
             entries == r.completed \cup
                          {[op |-> op, plane |-> p, step |-> "reserve"] : p \in fresh}
  <1>1. r \in AgentStates
    BY RaisedType
  <1>2. \A p \in Planes : Acquired(s, op, p, FALSE) \in AgentStates
    BY AcquiredType
  <1>3. slots \in Reservations
    BY <1>1, <1>2 DEF AgentStates, Reservations
  <1>4. entries \in Ledgers
    BY <1>1 DEF AgentStates, Ledgers, Steps
  <1> HIDE DEF r, slots, entries
  <1>5. [r EXCEPT !.reservations = slots, !.completed = entries] \in AgentStates
    BY <1>1, <1>3, <1>4 DEF AgentStates
  <1> QED
    BY <1>5 DEF ReserveEach, r, fresh, slots, entries

(* Every state reserveAll may save has its type.                           *)
LEMMA ReserveAllType ==
  ASSUME NEW s \in AgentStates, NEW op \in Ops
  PROVE  ReserveAll(s, op) \subseteq AgentStates
  <1> DEFINE t == StaleClosed(s, op)
             u == ReserveEach(t, op)
             j == IF OwnsJournal(u.journal, op) THEN u.journal ELSE Opening(op, NextSeq(t))
  <1>1. op \in AllOps
    BY DEF AllOps
  <1>2. t \in AgentStates
    BY StaleClosedType
  <1>3. u \in AgentStates
    BY <1>1, <1>2, ReserveEachType
  <1>4. j \in Journals \cup {None}
    BY <1>2, <1>3, OpeningType DEF AgentStates
  <1>5. RecordOf(op) \in MaybeRecord
    BY <1>1, EnvelopeTypes DEF MaybeRecord
  <1> HIDE DEF t, u, j
  <1>6. [u EXCEPT !.holder = RecordOf(op), !.journal = j] \in AgentStates
    BY <1>3, <1>4, <1>5 DEF AgentStates
  <1> QED
    BY <1>6 DEF ReserveAll, t, u, j

(* Every state recordPublishIntent may save has its type.                  *)
LEMMA RecordPublishIntentType ==
  ASSUME NEW s \in AgentStates, NEW op \in AllOps
  PROVE  RecordPublishIntent(s, op) \subseteq AgentStates
  BY EnvelopeTypes DEF RecordPublishIntent, AgentStates, MaybeRecord

(* Every state writeJournal may save has its type.                         *)
LEMMA WriteJournalType ==
  ASSUME NEW s \in AgentStates, NEW entry \in Journals
  PROVE  WriteJournal(s, entry) \subseteq AgentStates
  BY DEF WriteJournal, AgentStates

(* Every state closeJournal may save has its type.                         *)
LEMMA CloseJournalType ==
  ASSUME NEW s \in AgentStates, NEW op, NEW how \in Phases
  PROVE  CloseJournal(s, op, how) \subseteq AgentStates
  <1> DEFINE j == ClosedEntry(s.journal, how)
  <1>1. CASE OwnsJournal(s.journal, op)
    <2>1. j \in Journals
      BY <1>1, ClosedEntryType DEF OwnsJournal, AgentStates
    <2> HIDE DEF j
    <2>2. [s EXCEPT !.journal = j] \in AgentStates
      BY <2>1 DEF AgentStates
    <2> QED
      BY <2>2 DEF CloseJournal, j
  <1>2. CASE ~OwnsJournal(s.journal, op)
    BY <1>2 DEF CloseJournal
  <1> QED
    BY <1>1, <1>2

(* Every state finishOperation may save has its type.                      *)
LEMMA FinishOperationType ==
  ASSUME NEW s \in AgentStates, NEW op, NEW ps
  PROVE  FinishOperation(s, op, ps) \subseteq AgentStates
  <1> DEFINE t == FinalizeCandidate(s, op.name)
  <1>1. t \in AgentStates
    BY FinalizeCandidateType
  <1> HIDE DEF t
  <1>2. SlotsReleased(t, op, ps) \in Reservations
    BY <1>1, SlotsReleasedType
  <1>3. [t EXCEPT !.reservations = SlotsReleased(t, op, ps)] \in AgentStates
    BY <1>1, <1>2 DEF AgentStates
  <1> QED
    BY <1>3, HoldEndedType DEF FinishOperation, t

(* Every state releaseHolderSlots may save has its type.                   *)
LEMMA ReleaseHolderSlotsType ==
  ASSUME NEW s \in AgentStates, NEW op
  PROVE  ReleaseHolderSlots(s, op) \subseteq AgentStates
  <1> DEFINE slots == SlotsFreed(s, Who(op), s.holder.epoch)
  <1>1. slots \in Reservations
    BY SlotsFreedType
  <1> HIDE DEF slots
  <1>2. [s EXCEPT !.reservations = slots, !.holder = None] \in AgentStates
    BY <1>1 DEF AgentStates, MaybeRecord
  <1> QED
    BY <1>2 DEF ReleaseHolderSlots, slots

(* Every state releaseStaleSlots may save has its type.                    *)
LEMMA ReleaseStaleSlotsType ==
  ASSUME NEW s \in AgentStates, NEW op
  PROVE  ReleaseStaleSlots(s, op) \subseteq AgentStates
  BY SlotsFreedType DEF ReleaseStaleSlots, AgentStates

(* Every state releaseIdleHolder may save has its type.                    *)
LEMMA ReleaseIdleHolderType ==
  ASSUME NEW s \in AgentStates
  PROVE  ReleaseIdleHolder(s) \subseteq AgentStates
  <1> DEFINE slots == [p \in Planes |-> [s.reservations[p] EXCEPT ![s.holder.epoch] = None]]
  <1>1. slots \in Reservations
    BY DEF AgentStates, Reservations
  <1> HIDE DEF slots
  <1>2. [s EXCEPT !.reservations = slots, !.holder = None] \in AgentStates
    BY <1>1 DEF AgentStates, MaybeRecord
  <1> QED
    BY <1>2 DEF ReleaseIdleHolder, slots

(* Every state reclaimOperation may save has its type.                     *)
LEMMA ReclaimOperationType ==
  ASSUME NEW s \in AgentStates, NEW op \in AllOps
  PROVE  ReclaimOperation(s, op) \subseteq AgentStates
  BY EnvelopeTypes DEF ReclaimOperation, AgentStates, MaybeRecord

-----------------------------------------------------------------------------
(* Pruning keeps the type, so what a call saves has it.                    *)

(* Pruning the verdicts keeps the type.                                    *)
LEMMA PruneTerminalType ==
  ASSUME NEW s \in AgentStates
  PROVE  PruneTerminal(s) \in AgentStates
  <1> DEFINE gone(k) == TerminalPrunable(s, k[1], k[2], s.terminalAt[k])
             verdicts == [k \in DOMAIN s.terminal |-> IF gone(k) THEN None ELSE s.terminal[k]]
             places == [k \in DOMAIN s.terminalAt |-> IF gone(k) THEN None ELSE s.terminalAt[k]]
  <1> HIDE DEF gone
  <1>1. verdicts \in VerdictMaps
    BY DEF AgentStates, VerdictMaps
  <1>2. places \in VerdictEpochs
    BY DEF AgentStates, VerdictEpochs
  <1> HIDE DEF verdicts, places
  <1>3. [s EXCEPT !.terminal = verdicts, !.terminalAt = places] \in AgentStates
    BY <1>1, <1>2 DEF AgentStates
  <1> QED
    BY <1>3 DEF PruneTerminal, verdicts, places, gone

(* Pruning the evidence and the ledger keeps the type.                     *)
LEMMA TrimmedType ==
  ASSUME NEW s \in AgentStates, NEW d, NEW e
  PROVE  Trimmed(s, d, e) \in AgentStates
  <1>1. {c \in s.completed : Who(c.op) \notin d} \in Ledgers
    BY DEF AgentStates, Ledgers
  <1>2. s.evidence \ e \in Evidence
    BY DEF AgentStates, Evidence
  <1> QED
    BY <1>1, <1>2 DEF Trimmed, AgentStates

(* What serial saves after pruning has its type.                           *)
LEMMA OutcomesType ==
  ASSUME NEW calls \in SUBSET AgentStates, NEW t \in Outcomes(calls)
  PROVE  t \in AgentStates
  <1>1. PICK s \in calls : t \in Pruned(s)
    BY DEF Outcomes
  <1>2. PruneTerminal(s) \in AgentStates
    BY PruneTerminalType
  <1> QED
    BY <1>1, <1>2, TrimmedType DEF Pruned

-----------------------------------------------------------------------------
(* Positions move up: a slot was acquired above the position its operation *)
(* expects, so a commit, which moves from exactly that position, moves up  *)
(* whenever it comes.                                                      *)

SlotIsAbove(slot, p) == slot # None => slot.op.epoch > slot.op.exp[p].epoch
SlotsAreAbove(s) == \A p \in Planes, e \in Epochs : SlotIsAbove(s.reservations[p][e], p)

PositionUp(was, now) ==
  \/ now.epoch > was.epoch
  \/ now.epoch = was.epoch /\ now.by = was.by /\ now.rev >= was.rev
PlanesUp(s, t) == \A p \in Planes : PositionUp(s.planes[p], t.planes[p])

(* Most of what a call does leaves the planes alone and only frees slots.  *)
OnlyFrees(s, t) ==
  /\ t.planes = s.planes
  /\ \A p \in Planes, e \in Epochs :
       t.reservations[p][e] = None \/ t.reservations[p][e] = s.reservations[p][e]

(* Freeing slots twice is freeing slots.                                   *)
LEMMA OnlyFreesIsTransitive ==
  ASSUME NEW s, NEW t, NEW u, OnlyFrees(s, t), OnlyFrees(t, u)
  PROVE  OnlyFrees(s, u)
  BY DEF OnlyFrees

(* Who only frees slots leaves every slot above its plane.                 *)
LEMMA OnlyFreesIsSafe ==
  ASSUME NEW s \in AgentStates, NEW t, OnlyFrees(s, t), SlotsAreAbove(s)
  PROVE  SlotsAreAbove(t) /\ PlanesUp(s, t)
  <1>1. SlotsAreAbove(t)
    BY DEF OnlyFrees, SlotsAreAbove, SlotIsAbove
  <1>2. \A p \in Planes : s.planes[p].epoch \in Nat /\ s.planes[p].rev \in Nat
    BY DEF AgentStates, Positions, PlaneStates
  <1> QED
    BY <1>1, <1>2 DEF OnlyFrees, PlanesUp, PositionUp

(* Settling a candidate moves no plane and takes no slot.                  *)
LEMMA FinalizeCandidateOnlyFrees ==
  ASSUME NEW s \in AgentStates, NEW name
  PROVE  OnlyFrees(s, FinalizeCandidate(s, name))
  BY DEF OnlyFrees, FinalizeCandidate, AgentStates

(* Ending a hold moves no plane and takes no slot.                         *)
LEMMA HoldEndedOnlyFrees ==
  ASSUME NEW s \in AgentStates, NEW who
  PROVE  OnlyFrees(s, HoldEnded(s, who))
  BY DEF OnlyFrees, HoldEnded, AgentStates

(* supersede moves no plane and only frees slots.                          *)
LEMMA SupersedeOnlyFrees ==
  ASSUME NEW s \in AgentStates, NEW holder
  PROVE  OnlyFrees(s, Supersede(s, holder))
  <1> DEFINE t == SlotsAndJournalClosed(s, holder)
             u == FinalizeCandidate(t, holder.name)
  <1>1. OnlyFrees(s, t)
    BY DEF OnlyFrees, SlotsAndJournalClosed, SlotsFreed, AgentStates
  <1>2. t \in AgentStates /\ u \in AgentStates
    BY SlotsAndJournalClosedType, FinalizeCandidateType
  <1>3. OnlyFrees(t, u)
    BY <1>2, FinalizeCandidateOnlyFrees
  <1>4. OnlyFrees(u, HoldEnded(u, Who(holder)))
    BY <1>2, HoldEndedOnlyFrees
  <1> HIDE DEF t, u
  <1>5. OnlyFrees(s, HoldEnded(u, Who(holder)))
    BY <1>1, <1>3, <1>4, OnlyFreesIsTransitive
  <1> QED
    BY <1>5 DEF Supersede, t, u

(* Raising the token moves no plane and takes no slot.                     *)
LEMMA RaisedOnlyFrees ==
  ASSUME NEW s \in AgentStates, NEW op
  PROVE  OnlyFrees(s, Raised(s, op))
  BY DEF OnlyFrees, Raised, AgentStates

(* Recording a step moves no plane and takes no slot.                      *)
LEMMA RecordedOnlyFrees ==
  ASSUME NEW s \in AgentStates, NEW op, NEW p, NEW step
  PROVE  OnlyFrees(s, Recorded(s, op, p, step))
  BY DEF OnlyFrees, Recorded, AgentStates

(* Writing a verdict moves no plane and only frees slots.                  *)
LEMMA ClosedOnlyFrees ==
  ASSUME NEW s \in AgentStates, NEW op, NEW p, NEW verdict
  PROVE  OnlyFrees(s, Closed(s, op, p, verdict))
  BY DEF OnlyFrees, Closed, SlotsReleased, AgentStates

(* Pruning moves no plane and takes no slot.                               *)
LEMMA PrunedOnlyFrees ==
  ASSUME NEW s \in AgentStates, NEW t \in Pruned(s)
  PROVE  OnlyFrees(s, t)
  <1>1. PICK d, e : t = Trimmed(PruneTerminal(s), d, e)
    BY DEF Pruned
  <1> QED
    BY <1>1 DEF Trimmed, PruneTerminal, OnlyFrees, AgentStates

(* fence moves no plane and only frees slots.                              *)
LEMMA FenceOnlyFrees ==
  ASSUME NEW s \in AgentStates, NEW token \in Nat, NEW t \in Fence(s, token)
  PROVE  OnlyFrees(s, t)
  <1> DEFINE r == [s EXCEPT !.max = token]
  <1>1. r \in AgentStates /\ OnlyFrees(s, r)
    BY DEF OnlyFrees, AgentStates
  <1>2. t = r \/ t = Supersede(r, s.holder)
    BY DEF Fence
  <1> HIDE DEF r
  <1> QED
    BY <1>1, <1>2, SupersedeOnlyFrees, OnlyFreesIsTransitive

(* abort and fail move no plane and only free slots.                       *)
LEMMA FinalizeOnlyFrees ==
  ASSUME NEW s \in AgentStates, NEW op \in AllOps, NEW p, NEW verdict,
         NEW t \in Finalize(s, op, p, verdict)
  PROVE  OnlyFrees(s, t)
  <1> DEFINE r == Raised(s, op)
  <1>1. r \in AgentStates /\ OnlyFrees(s, r)
    BY RaisedType, RaisedOnlyFrees
  <1>2. t = r \/ t = Closed(r, op, p, verdict)
    BY DEF Finalize
  <1> HIDE DEF r
  <1> QED
    BY <1>1, <1>2, ClosedOnlyFrees, OnlyFreesIsTransitive

(* The calls on an operation that name no plane.                           *)
LEMMA AdministrationOnlyFrees ==
  ASSUME NEW s \in AgentStates, NEW op \in Ops, NEW entry, NEW how, NEW ps, NEW t,
         \/ t \in RecordPublishIntent(s, op)
         \/ t \in WriteJournal(s, entry)
         \/ t \in CloseJournal(s, op, how)
         \/ t \in ReleaseHolderSlots(s, op)
         \/ t \in ReleaseStaleSlots(s, op)
         \/ t \in ReclaimOperation(s, op)
  PROVE  OnlyFrees(s, t)
  <1>1. CASE t \in RecordPublishIntent(s, op)
    BY <1>1 DEF RecordPublishIntent, OnlyFrees, AgentStates
  <1>2. CASE t \in WriteJournal(s, entry)
    BY <1>2 DEF WriteJournal, OnlyFrees, AgentStates
  <1>3. CASE t \in CloseJournal(s, op, how)
    BY <1>3 DEF CloseJournal, OnlyFrees, AgentStates
  <1>4. CASE t \in ReleaseHolderSlots(s, op)
    <2> DEFINE slots == SlotsFreed(s, Who(op), s.holder.epoch)
    <2>1. t = s \/ t = [s EXCEPT !.reservations = slots, !.holder = None]
      BY <1>4 DEF ReleaseHolderSlots
    <2>2. \A p \in Planes, e \in Epochs : slots[p][e] \in {None, s.reservations[p][e]}
      BY DEF SlotsFreed
    <2> HIDE DEF slots
    <2>3. CASE t = s
      BY <2>3 DEF OnlyFrees
    <2>4. CASE t = [s EXCEPT !.reservations = slots, !.holder = None]
      <3>1. t.planes = s.planes /\ t.reservations = slots
        BY <2>4 DEF AgentStates
      <3> QED
        BY <3>1, <2>2 DEF OnlyFrees
    <2> QED
      BY <2>1, <2>3, <2>4
  <1>5. CASE t \in ReleaseStaleSlots(s, op)
    BY <1>5 DEF ReleaseStaleSlots, SlotsFreed, OnlyFrees, AgentStates
  <1>6. CASE t \in ReclaimOperation(s, op)
    BY <1>6 DEF ReclaimOperation, OnlyFrees, AgentStates
  <1> QED
    BY <1>1, <1>2, <1>3, <1>4, <1>5, <1>6

(* releaseIdleHolder moves no plane and only frees slots.                  *)
LEMMA ReleaseIdleHolderOnlyFrees ==
  ASSUME NEW s \in AgentStates, NEW t \in ReleaseIdleHolder(s)
  PROVE  OnlyFrees(s, t)
  <1> DEFINE slots == [p \in Planes |-> [s.reservations[p] EXCEPT ![s.holder.epoch] = None]]
  <1>1. t = s \/ t = [s EXCEPT !.reservations = slots, !.holder = None]
    BY DEF ReleaseIdleHolder
  <1>2. \A p \in Planes, e \in Epochs : slots[p][e] \in {None, s.reservations[p][e]}
    BY DEF AgentStates, Reservations
  <1> HIDE DEF slots
  <1>3. CASE t = s
    BY <1>3 DEF OnlyFrees
  <1>4. CASE t = [s EXCEPT !.reservations = slots, !.holder = None]
    <2>1. t.planes = s.planes /\ t.reservations = slots
      BY <1>4 DEF AgentStates
    <2> QED
      BY <2>1, <1>2 DEF OnlyFrees
  <1> QED
    BY <1>1, <1>3, <1>4

(* finishOperation moves no plane and only frees slots.                    *)
LEMMA FinishOperationOnlyFrees ==
  ASSUME NEW s \in AgentStates, NEW op, NEW ps, NEW t \in FinishOperation(s, op, ps)
  PROVE  OnlyFrees(s, t)
  <1> DEFINE f == FinalizeCandidate(s, op.name)
             r == [f EXCEPT !.reservations = SlotsReleased(f, op, ps)]
  <1>1. f \in AgentStates /\ OnlyFrees(s, f)
    BY FinalizeCandidateType, FinalizeCandidateOnlyFrees
  <1> HIDE DEF f
  <1>2. SlotsReleased(f, op, ps) \in Reservations
    BY <1>1, SlotsReleasedType
  <1>3. r \in AgentStates
    BY <1>1, <1>2 DEF AgentStates
  <1>4. OnlyFrees(f, r)
    BY <1>1 DEF OnlyFrees, SlotsReleased, AgentStates
  <1>5. t = HoldEnded(r, Who(op))
    BY DEF FinishOperation, f
  <1> HIDE DEF r
  <1> QED
    BY <1>1, <1>3, <1>4, <1>5, HoldEndedOnlyFrees, OnlyFreesIsTransitive

(* A slot that is acquired is above the position its tuple expects.        *)
LEMMA AcquiredIsAbove ==
  ASSUME NEW s \in AgentStates, NEW op \in AllOps, NEW p \in Planes,
         NEW staged \in BOOLEAN, SlotsAreAbove(s), Acquirable(s, op, p)
  PROVE  /\ SlotsAreAbove(Acquired(s, op, p, staged))
         /\ Acquired(s, op, p, staged).planes = s.planes
  <1> DEFINE t == Acquired(s, op, p, staged)
  <1>1. op.epoch \in Epochs /\ s.reservations \in Reservations
    BY EnvelopeTypes DEF AgentStates
  <1>2. op.epoch > op.exp[p].epoch
    <2>1. CASE HasSlot(s, op, p)
      BY <2>1, <1>1 DEF HasSlot, SlotsAreAbove, SlotIsAbove
    <2>2. CASE At(s, p) = op.exp[p] /\ op.epoch > s.planes[p].epoch
      BY <2>2 DEF At
    <2> QED
      BY <2>1, <2>2 DEF Acquirable
  <1>3. t.planes = s.planes
    BY DEF Acquired, AgentStates
  <1>4. /\ t.reservations[p][op.epoch].op = op
        /\ \A q \in Planes, e \in Epochs : q # p \/ e # op.epoch =>
             t.reservations[q][e] = s.reservations[q][e]
    BY <1>1 DEF Acquired, AgentStates, Reservations
  <1> HIDE DEF t
  <1>5. ASSUME NEW q \in Planes, NEW e \in Epochs PROVE SlotIsAbove(t.reservations[q][e], q)
    <2>1. CASE q = p /\ e = op.epoch
      BY <2>1, <1>2, <1>4 DEF SlotIsAbove
    <2>2. CASE q # p \/ e # op.epoch
      BY <2>2, <1>4 DEF SlotsAreAbove
    <2> QED
      BY <2>1, <2>2
  <1> QED
    BY <1>3, <1>5 DEF SlotsAreAbove, t

(* stage moves no plane; the slot it takes is above its plane.             *)
LEMMA StageMovesUp ==
  ASSUME NEW s \in AgentStates, NEW op \in AllOps, NEW p \in Planes,
         SlotsAreAbove(s), NEW t \in Stage(s, op, p)
  PROVE  SlotsAreAbove(t) /\ PlanesUp(s, t)
  <1> DEFINE r == Raised(s, op)
             a == Acquired(r, op, p, TRUE)
  <1>1. r \in AgentStates /\ OnlyFrees(s, r)
    BY RaisedType, RaisedOnlyFrees
  <1>2. SlotsAreAbove(r) /\ PlanesUp(s, r) /\ r.planes = s.planes
    BY <1>1, OnlyFreesIsSafe DEF OnlyFrees
  <1>3. CASE t = r
    BY <1>2, <1>3
  <1>4. CASE Acquirable(s, op, p) /\ t = Recorded(a, op, p, "stage")
    <2>1. Acquirable(r, op, p)
      BY <1>4 DEF Acquirable, HasSlot, At, Raised, AgentStates
    <2>2. SlotsAreAbove(a) /\ a.planes = s.planes /\ a \in AgentStates
      BY <1>1, <1>2, <2>1, AcquiredIsAbove, AcquiredType
    <2> HIDE DEF a, r
    <2>3. OnlyFrees(a, t)
      BY <1>4, <2>2, RecordedOnlyFrees
    <2>4. SlotsAreAbove(t)
      BY <2>2, <2>3, OnlyFreesIsSafe
    <2>5. t.planes = r.planes
      BY <1>2, <2>2, <2>3 DEF OnlyFrees
    <2> QED
      BY <1>2, <2>4, <2>5 DEF PlanesUp
  <1> QED
    BY <1>3, <1>4 DEF Stage

(* reserveAll moves no plane; the slots it takes are above them.           *)
LEMMA ReserveAllMovesUp ==
  ASSUME NEW s \in AgentStates, NEW op \in Ops, SlotsAreAbove(s), NEW t \in ReserveAll(s, op)
  PROVE  SlotsAreAbove(t) /\ PlanesUp(s, t)
  <1> DEFINE c == StaleClosed(s, op)
             u == ReserveEach(c, op)
  <1>1. op \in AllOps
    BY DEF AllOps
  <1>2. c \in AgentStates /\ OnlyFrees(s, c)
    <2> DEFINE verdicts == [k \in DOMAIN s.terminal |->
                              IF k[1] = Who(s.journal.op) /\ s.terminal[k] = None
                              THEN "aborted" ELSE s.terminal[k]]
               judged == [s EXCEPT !.terminal = verdicts]
    <2>1. verdicts \in VerdictMaps
      BY DEF AgentStates, VerdictMaps, Verdicts
    <2>2. c = s \/ c = Supersede(judged, RecordOf(s.journal.op))
      BY DEF StaleClosed
    <2> HIDE DEF verdicts, c
    <2>3. judged \in AgentStates /\ OnlyFrees(s, judged)
      BY <2>1 DEF AgentStates, OnlyFrees
    <2> HIDE DEF judged
    <2>4. OnlyFrees(s, c)
      <3>1. OnlyFrees(s, s)
        BY DEF OnlyFrees
      <3> QED
        BY <2>2, <2>3, <3>1, SupersedeOnlyFrees, OnlyFreesIsTransitive
    <2> QED
      BY <2>4, StaleClosedType DEF c
  <1>3. SlotsAreAbove(c) /\ PlanesUp(s, c)
    BY <1>2, OnlyFreesIsSafe
  <1>4. /\ \A p \in Planes : Reservable(c, op, p)
        /\ t.reservations = u.reservations /\ t.planes = u.planes
    <2>1. c \in AgentStates /\ u \in AgentStates
      BY <1>1, <1>2, ReserveEachType
    <2> HIDE DEF u
    <2> QED
      BY <2>1 DEF ReserveAll, u, AgentStates
  <1> HIDE DEF c
  <1>5. u.planes = c.planes
    BY <1>2 DEF ReserveEach, Raised, AgentStates
  <1>6. \A p \in Planes :
          u.reservations[p] = IF ~Replayed(c, op, p, "reserve")
                              THEN Acquired(c, op, p, FALSE).reservations[p]
                              ELSE c.reservations[p]
    BY <1>2 DEF ReserveEach, Raised, AgentStates
  <1>7. ASSUME NEW p \in Planes, NEW e \in Epochs
        PROVE  SlotIsAbove(u.reservations[p][e], p)
    <2>1. CASE Replayed(c, op, p, "reserve")
      BY <2>1, <1>3, <1>6 DEF SlotsAreAbove
    <2>2. CASE ~Replayed(c, op, p, "reserve")
      <3>1. Acquirable(c, op, p)
        BY <2>2, <1>4 DEF Reservable
      <3>2. SlotsAreAbove(Acquired(c, op, p, FALSE))
        BY <3>1, <1>1, <1>2, <1>3, AcquiredIsAbove
      <3> QED
        BY <3>2, <2>2, <1>6 DEF SlotsAreAbove
    <2> QED
      BY <2>1, <2>2
  <1> HIDE DEF u
  <1> QED
    BY <1>3, <1>4, <1>5, <1>7 DEF SlotsAreAbove, PlanesUp

(* A commit moves from the expected position into a slot above it.         *)
LEMMA CommitMovesUp ==
  ASSUME NEW s \in AgentStates, NEW op \in AllOps, NEW p \in Planes, NEW proof,
         SlotsAreAbove(s), NEW t \in Commit(s, op, p, proof)
  PROVE  SlotsAreAbove(t) /\ PlanesUp(s, t)
  <1>0. Movable(s, op, p) => op.epoch > s.planes[p].epoch
    <2> SUFFICES ASSUME Movable(s, op, p) PROVE op.epoch > s.planes[p].epoch
      OBVIOUS
    <2>1. op.epoch \in Epochs
      BY EnvelopeTypes
    <2>2. HasSlot(s, op, p) => op.epoch > op.exp[p].epoch
      BY <2>1 DEF HasSlot, SlotsAreAbove, SlotIsAbove
    <2>3. At(s, p) = op.exp[p] /\ At(s, p).epoch = s.planes[p].epoch
      BY DEF Movable, At
    <2> QED
      BY <2>2, <2>3 DEF Movable
  <1> DEFINE r == Raised(s, op)
             there == [epoch |-> op.epoch, rev |-> op.rev, by |-> Who(op)]
             evidence == r.evidence \cup {<<p, op.epoch>>}
             epochs == IF s.holder # None /\ Who(s.holder) = Who(op)
                       THEN s.holder.epoch ELSE r.pendingEpochs
             moved == [r EXCEPT !.planes[p] = there, !.evidence = evidence,
                                !.pendingEpochs = epochs,
                                !.pendingActivation = RecordOf(op)]
  <1>1. r \in AgentStates /\ OnlyFrees(s, r)
    BY RaisedType, RaisedOnlyFrees
  <1>2. SlotsAreAbove(r) /\ PlanesUp(s, r) /\ r.planes = s.planes
    BY <1>1, OnlyFreesIsSafe DEF OnlyFrees
  <1>3. CASE t = r
    BY <1>2, <1>3
  <1>4. CASE t = Recorded(r, op, p, "commit")
    <2>1. OnlyFrees(r, t)
      BY <1>1, <1>4, RecordedOnlyFrees
    <2>2. OnlyFrees(s, t)
      BY <1>1, <2>1, OnlyFreesIsTransitive
    <2> QED
      BY <2>2, OnlyFreesIsSafe
  <1>5. CASE /\ Movable(s, op, p)
             /\ t = Recorded(Closed(moved, op, p, "activated"), op, p, "commit")
    <2>1. op.epoch > s.planes[p].epoch
      BY <1>0, <1>5
    <2>2. /\ t.planes = [s.planes EXCEPT ![p] = there]
          /\ t.reservations = SlotsReleased(moved, op, {p})
      BY <1>2, <1>5, <1>1 DEF Recorded, Closed, AgentStates
    <2>3. moved.reservations = s.reservations
      BY DEF Raised, AgentStates
    <2>4. \A q \in Planes, e \in Epochs :
            t.reservations[q][e] \in {None, s.reservations[q][e]}
      BY <2>2, <2>3 DEF SlotsReleased
    <2>5. SlotsAreAbove(t)
      BY <2>4 DEF SlotsAreAbove, SlotIsAbove
    <2>6. PlanesUp(s, t)
      <3>1. t.planes[p].epoch = op.epoch
        BY <2>2 DEF AgentStates, Positions
      <3>2. \A q \in Planes : q # p => t.planes[q] = r.planes[q]
        BY <1>2, <2>2 DEF AgentStates, Positions
      <3> HIDE DEF r
      <3> QED
        BY <2>1, <3>1, <3>2, <1>2 DEF PlanesUp, PositionUp
    <2> QED
      BY <2>5, <2>6
  <1> QED
    BY <1>3, <1>4, <1>5 DEF Commit

(* applyHealth moves the revision up inside the standing epoch.            *)
LEMMA ApplyHealthMovesUp ==
  ASSUME NEW s \in AgentStates, NEW op \in AllOps, NEW p \in Planes,
         SlotsAreAbove(s), NEW t \in ApplyHealth(s, op, p)
  PROVE  SlotsAreAbove(t) /\ PlanesUp(s, t)
  <1> DEFINE r == Raised(s, op)
             planes == [r.planes EXCEPT ![p].rev = op.rev]
  <1>1. r \in AgentStates /\ OnlyFrees(s, r)
    BY RaisedType, RaisedOnlyFrees
  <1>2. SlotsAreAbove(r) /\ PlanesUp(s, r) /\ r.planes = s.planes
                        /\ r.reservations = s.reservations
    BY <1>1, OnlyFreesIsSafe DEF OnlyFrees, Raised, AgentStates
  <1>3. CASE t = r
    BY <1>2, <1>3
  <1>4. CASE /\ op.rev > s.planes[p].rev
             /\ t = Recorded([r EXCEPT !.planes = planes], op, p, "health")
    <2>1. t.planes = planes /\ t.reservations = s.reservations
      BY <1>1, <1>2, <1>4 DEF Recorded, AgentStates
    <2>2. SlotsAreAbove(t)
      BY <2>1 DEF SlotsAreAbove
    <2>3. /\ planes[p].epoch = s.planes[p].epoch /\ planes[p].by = s.planes[p].by
          /\ planes[p].rev = op.rev
          /\ \A q \in Planes : q # p => planes[q] = r.planes[q]
      BY <1>2 DEF AgentStates, Positions, PlaneStates
    <2>4. op.rev \in Nat /\ s.planes[p].rev \in Nat
      BY EnvelopeTypes DEF AgentStates, Positions, PlaneStates
    <2> HIDE DEF planes, r
    <2> QED
      BY <1>2, <1>4, <2>1, <2>2, <2>3, <2>4 DEF PlanesUp, PositionUp
  <1> QED
    BY <1>3, <1>4 DEF ApplyHealth

-----------------------------------------------------------------------------
(* What is on record.                                                      *)

(* Whoever moved a plane is on record with it; nobody moved one that       *)
(* stands at the start.                                                    *)
PlaneIsJustified(s, p) ==
  IF s.planes[p].by = None THEN s.planes[p].epoch = 0
  ELSE /\ s.terminal[<<s.planes[p].by, p>>] = "activated"
       /\ s.terminalAt[<<s.planes[p].by, p>>] = s.planes[p].epoch
       /\ <<p, s.planes[p].epoch>> \in s.evidence
Justified(s) == \A p \in Planes : PlaneIsJustified(s, p)

(* No slot is held under a token the agent has not seen.                   *)
SlotsFenced(s) ==
  \A p \in Planes, e \in Epochs :
    s.reservations[p][e] # None => s.reservations[p][e].op.token <= s.max

(* A verdict is placed at the epoch its operation moves to.                *)
EpochIs(who, e) == \A op \in Ops : Who(op) = who => op.epoch = e
Placed(s) ==
  \A k \in Whos \X Planes : s.terminalAt[k] # None => EpochIs(k[1], s.terminalAt[k])

(* What was closed is closed still, or the plane is past it.               *)
IsPast(s, k) == \A op \in Ops : Who(op) = k[1] => op.epoch < s.planes[k[2]].epoch
StaysClosed(s, k) == s.terminal[k] \in {"failed", "aborted"} \/ IsPast(s, k)
(* An operation with a verdict on a plane, or that the plane is past, will *)
(* not be reserved there again.                                            *)
Decided(s, k) == s.terminal[k] # None \/ IsPast(s, k)

-----------------------------------------------------------------------------
(* What a call does to the record, before it is pruned.                    *)

(* Nothing on record is taken back or moved, the token only rises, a new   *)
(* slot is under the newest one, the journal's seq only rises, and a place *)
(* that is written is the epoch of its operation.                          *)
VerdictsKept(s, t) ==
  \A k \in Whos \X Planes :
    s.terminal[k] # None => t.terminal[k] = s.terminal[k] /\ t.terminalAt[k] = s.terminalAt[k]
PlacesKept(s, t) ==
  \A k \in Whos \X Planes :
    \/ t.terminalAt[k] = s.terminalAt[k]
    \/ \E op \in Ops : k[1] = Who(op) /\ t.terminalAt[k] = op.epoch
SlotsKeptFenced(s, t) ==
  \A p \in Planes, e \in Epochs :
    \/ t.reservations[p][e] \in {None, s.reservations[p][e]}
    \/ t.reservations[p][e].op.token <= t.max
JournalKept(s, t) ==
  s.journal # None => t.journal # None /\ t.journal.seq >= s.journal.seq
Keeps(s, t) ==
  /\ t.max >= s.max
  /\ VerdictsKept(s, t) /\ PlacesKept(s, t)
  /\ s.evidence \subseteq t.evidence
  /\ SlotsKeptFenced(s, t)
  /\ JournalKept(s, t)

(* A candidate becomes the baseline when it has arrived, and only then; the *)
(* baseline is not touched otherwise but to withdraw it.                   *)
HasArrived(s) ==
  CandidateArrived(s, s.pendingActivation, CandidateEpochs(s, s.pendingActivation.name))
Unsettled(s, t) ==
  /\ t.lastActivated = s.lastActivated
  /\ s.pendingActivation # None => t.pendingActivation # None
SettledNow(s, t) ==
  /\ s.pendingActivation # None
  /\ IF HasArrived(s) THEN t.lastActivated = s.pendingActivation
     ELSE t.lastActivated \in {s.lastActivated, None}
Settled(s, t) == Unsettled(s, t) \/ SettledNow(s, t)

(* A call that moves no plane.                                             *)
Administers(s, t) == t.planes = s.planes /\ Keeps(s, t) /\ Settled(s, t)

(* Keeping twice is keeping.                                               *)
LEMMA KeepsIsTransitive ==
  ASSUME NEW s \in AgentStates, NEW t \in AgentStates, NEW u \in AgentStates,
         Keeps(s, t), Keeps(t, u), SlotsFenced(s)
  PROVE  Keeps(s, u)
  <1>1. s.max \in Nat /\ t.max \in Nat /\ u.max \in Nat
    BY DEF AgentStates
  <1>2. u.max >= s.max
    BY <1>1 DEF Keeps
  <1>3. VerdictsKept(s, u) /\ PlacesKept(s, u) /\ s.evidence \subseteq u.evidence
    BY DEF Keeps, VerdictsKept, PlacesKept
  <1>4. SlotsKeptFenced(s, u)
    <2> SUFFICES ASSUME NEW p \in Planes, NEW e \in Epochs
                 PROVE  \/ u.reservations[p][e] \in {None, s.reservations[p][e]}
                        \/ u.reservations[p][e].op.token <= u.max
      BY DEF SlotsKeptFenced
    <2>1. CASE u.reservations[p][e] = t.reservations[p][e] /\ t.reservations[p][e] # None
      <3>1. CASE t.reservations[p][e] = s.reservations[p][e]
        BY <2>1, <3>1
      <3>2. CASE t.reservations[p][e].op.token <= t.max
        <4>1. t.reservations[p][e].op.token \in Nat
          BY <2>1, OpsAssumption DEF AgentStates, Reservations, Slots, AllOps, Envelopes
        <4> QED
          BY <1>1, <2>1, <3>2, <4>1 DEF Keeps
      <3> QED
        BY <2>1, <3>1, <3>2 DEF Keeps, SlotsKeptFenced
    <2> QED
      BY <2>1 DEF Keeps, SlotsKeptFenced
  <1>5. JournalKept(s, u)
    <2>1. \A j \in Journals : j.seq \in Nat
      BY DEF Journals
    <2> QED
      BY <2>1 DEF Keeps, JournalKept, AgentStates
  <1> QED
    BY <1>2, <1>3, <1>4, <1>5 DEF Keeps

(* A call that saves what it read keeps it.                                *)
LEMMA NothingKeeps ==
  ASSUME NEW s \in AgentStates
  PROVE  Administers(s, s)
  <1>1. s.max \in Nat /\ (s.journal # None => s.journal.seq \in Nat)
    BY DEF AgentStates, Journals
  <1> QED
    BY <1>1 DEF Administers, Keeps, VerdictsKept, PlacesKept, SlotsKeptFenced, JournalKept,
       Settled, Unsettled

(* The record of a state in which only slots, the hold, the journal's      *)
(* phase and the token may differ is the same record.                      *)
SameLedger(s, t) ==
  /\ t.planes = s.planes /\ t.terminal = s.terminal /\ t.terminalAt = s.terminalAt
  /\ t.evidence = s.evidence
SlotsOnlyFreed(s, t) ==
  \A p \in Planes, e \in Epochs : t.reservations[p][e] \in {None, s.reservations[p][e]}

(* Whoever touches neither plane, verdict nor evidence, frees slots only   *)
(* and lets the token and the journal rise keeps what is on record.        *)
LEMMA SameLedgerKeeps ==
  ASSUME NEW s \in AgentStates, NEW t, SameLedger(s, t), SlotsOnlyFreed(s, t),
         t.max >= s.max, JournalKept(s, t)
  PROVE  Keeps(s, t)
  BY DEF SameLedger, SlotsOnlyFreed, Keeps, VerdictsKept, PlacesKept, SlotsKeptFenced

(* Settling a candidate: nothing else changes, and the baseline is what    *)
(* Settled says.                                                           *)
LEMMA FinalizeCandidateSettles ==
  ASSUME NEW s \in AgentStates, NEW name
  PROVE  LET t == FinalizeCandidate(s, name) IN
         /\ SameLedger(s, t) /\ t.reservations = s.reservations /\ t.max = s.max
         /\ t.journal = s.journal /\ t.holder = s.holder /\ t.completed = s.completed
         /\ Settled(s, t)
  <1> DEFINE t == FinalizeCandidate(s, name)
  <1>1. CASE s.pendingActivation = None \/ s.pendingActivation.name # name
    BY <1>1 DEF FinalizeCandidate, SameLedger, Settled, Unsettled
  <1>2. CASE s.pendingActivation # None /\ s.pendingActivation.name = name
    <2> DEFINE last == IF HasArrived(s) THEN s.pendingActivation
                       ELSE IF PositionsReached(s, CandidateEpochs(s, name)) THEN None
                       ELSE s.lastActivated
    <2>1. t = [s EXCEPT !.lastActivated = last, !.pendingActivation = None,
                        !.pendingEpochs = None]
      BY <1>2 DEF FinalizeCandidate, HasArrived
    <2> HIDE DEF t
    <2>2. /\ SameLedger(s, t) /\ t.reservations = s.reservations /\ t.max = s.max
          /\ t.journal = s.journal /\ t.holder = s.holder /\ t.completed = s.completed
          /\ t.lastActivated = last
      <3> HIDE DEF last
      <3> QED
        BY <2>1 DEF AgentStates, SameLedger
    <2>3. SettledNow(s, t)
      BY <1>2, <2>2 DEF SettledNow
    <2> QED
      BY <2>2, <2>3 DEF Settled, t
  <1> QED
    BY <1>1, <1>2

(* Two states that agree on what settling a candidate reads.               *)
SameCandidate(s, r) ==
  /\ r.planes = s.planes /\ r.lastActivated = s.lastActivated
  /\ r.pendingActivation = s.pendingActivation /\ r.pendingEpochs = s.pendingEpochs
  /\ r.journal = None <=> s.journal = None
  /\ s.journal # None => r.journal.op = s.journal.op
  /\ \A k \in Whos \X Planes : r.terminal[k] = "activated" <=> s.terminal[k] = "activated"

(* Settling does not tell such states apart.                               *)
LEMMA SettledCarries ==
  ASSUME NEW s \in AgentStates, NEW r \in AgentStates, NEW t,
         SameCandidate(s, r), Settled(r, t)
  PROVE  Settled(s, t)
  <1>1. CASE Unsettled(r, t)
    BY <1>1 DEF Settled, Unsettled, SameCandidate
  <1>2. CASE SettledNow(r, t)
    <2> DEFINE c == s.pendingActivation
    <2>1. c # None /\ r.pendingActivation = c
      BY <1>2 DEF SettledNow, SameCandidate
    <2>2. Who(c) \in Whos
      BY <2>1 DEF AgentStates, MaybeRecord, Records, Who, Whos
    <2>3. CandidateEpochs(r, c.name) = CandidateEpochs(s, c.name)
      BY DEF CandidateEpochs, SameCandidate
    <2> HIDE DEF c
    <2>4. \A e : CandidateArrived(r, c, e) <=> CandidateArrived(s, c, e)
      BY <2>2 DEF CandidateArrived, PositionsReached, SameCandidate
    <2>5. HasArrived(r) <=> HasArrived(s)
      BY <2>1, <2>3, <2>4 DEF HasArrived, c
    <2> QED
      BY <1>2, <2>1, <2>5 DEF Settled, SettledNow, SameCandidate, c
  <1> QED
    BY <1>1, <1>2 DEF Settled

(* Closing slots and journal rewrites neither planes nor verdicts nor the  *)
(* candidate.                                                              *)
LEMMA SlotsAndJournalClosedKeeps ==
  ASSUME NEW s \in AgentStates, NEW holder
  PROVE  LET t == SlotsAndJournalClosed(s, holder) IN
         /\ SameLedger(s, t) /\ SlotsOnlyFreed(s, t) /\ t.max = s.max
         /\ JournalKept(s, t) /\ SameCandidate(s, t)
  <1> DEFINE j == IF Unfinished(s.journal) /\ s.journal.op.name = holder.name
                  THEN ClosedEntry(s.journal, "superseded") ELSE s.journal
             slots == SlotsFreed(s, Who(holder), holder.epoch)
             t == [s EXCEPT !.reservations = slots, !.journal = j]
  <1>1. SlotsAndJournalClosed(s, holder) = t
    BY DEF SlotsAndJournalClosed
  <1>2. \A p \in Planes, e \in Epochs : slots[p][e] \in {None, s.reservations[p][e]}
    BY DEF SlotsFreed
  <1>3. /\ j = None <=> s.journal = None
        /\ s.journal # None => j.op = s.journal.op /\ j.seq >= s.journal.seq
    <2>1. CASE s.journal # None
      <3>1. s.journal \in Journals /\ s.journal.seq \in Nat
        BY <2>1 DEF AgentStates, Journals
      <3>2. \A how \in Phases : ClosedEntry(s.journal, how) \in Journals
        BY <3>1, ClosedEntryType
      <3>3. ClosedEntry(s.journal, "superseded").op = s.journal.op
        BY <3>1 DEF ClosedEntry, Journals
      <3>4. ClosedEntry(s.journal, "superseded").seq = s.journal.seq + 1
        BY <3>1 DEF ClosedEntry, Journals
      <3>5. "superseded" \in Phases
        BY DEF Phases, TerminalPhases
      <3> QED
        BY <2>1, <3>1, <3>2, <3>3, <3>4, <3>5, NoneAssumption
    <2>2. CASE s.journal = None
      BY <2>2 DEF Unfinished
    <2> QED
      BY <2>1, <2>2
  <1> HIDE DEF j, slots
  <1>4. /\ t.planes = s.planes /\ t.terminal = s.terminal /\ t.terminalAt = s.terminalAt
        /\ t.evidence = s.evidence /\ t.max = s.max /\ t.reservations = slots
        /\ t.journal = j /\ t.lastActivated = s.lastActivated
        /\ t.pendingActivation = s.pendingActivation /\ t.pendingEpochs = s.pendingEpochs
    BY DEF AgentStates
  <1> HIDE DEF t
  <1> QED
    BY <1>1, <1>2, <1>3, <1>4 DEF SameLedger, SlotsOnlyFreed, JournalKept, SameCandidate

(* Ending a hold touches the hold only.                                    *)
LEMMA HoldEndedKeeps ==
  ASSUME NEW s \in AgentStates, NEW who
  PROVE  LET t == HoldEnded(s, who) IN
         /\ SameLedger(s, t) /\ t.reservations = s.reservations /\ t.max = s.max
         /\ t.journal = s.journal /\ SameCandidate(s, t)
  BY DEF HoldEnded, SameLedger, SameCandidate, AgentStates

(* supersede: slots and journal, candidate, hold, in this order.           *)
LEMMA SupersedeSettles ==
  ASSUME NEW s \in AgentStates, NEW holder
  PROVE  LET t == Supersede(s, holder) IN
         /\ SameLedger(s, t) /\ SlotsOnlyFreed(s, t) /\ t.max = s.max
         /\ JournalKept(s, t) /\ Settled(s, t)
  <1> DEFINE c == SlotsAndJournalClosed(s, holder)
             f == FinalizeCandidate(c, holder.name)
             t == HoldEnded(f, Who(holder))
  <1>1. c \in AgentStates /\ f \in AgentStates
    BY SlotsAndJournalClosedType, FinalizeCandidateType
  <1>2. /\ SameLedger(s, c) /\ SlotsOnlyFreed(s, c) /\ c.max = s.max
        /\ JournalKept(s, c) /\ SameCandidate(s, c)
    BY SlotsAndJournalClosedKeeps
  <1> HIDE DEF c
  <1>3. /\ SameLedger(c, f) /\ f.reservations = c.reservations /\ f.max = c.max
        /\ f.journal = c.journal /\ Settled(c, f)
    BY <1>1, FinalizeCandidateSettles
  <1> HIDE DEF f
  <1>4. /\ SameLedger(f, t) /\ t.reservations = f.reservations /\ t.max = f.max
        /\ t.journal = f.journal /\ SameCandidate(f, t)
    BY <1>1, HoldEndedKeeps
  <1> HIDE DEF t
  <1>5. Settled(s, f)
    BY <1>1, <1>2, <1>3, SettledCarries
  <1>6. Settled(s, t)
    BY <1>4, <1>5 DEF Settled, Unsettled, SettledNow, SameCandidate
  <1>7. t = Supersede(s, holder)
    BY DEF Supersede, t, f, c
  <1> QED
    BY <1>2, <1>3, <1>4, <1>6, <1>7 DEF SameLedger, SlotsOnlyFreed, JournalKept

-----------------------------------------------------------------------------
(* The calls, one by one.                                                  *)

(* A commit that moves a plane: up, once, by a current operation that has  *)
(* no verdict there yet, and leaves its own.                               *)
MovesPlane(s, t, op, p) ==
  /\ Keeps(s, t) /\ Unsettled(s, t)
  /\ op.token >= s.max /\ t.max = op.token
  /\ op.epoch > s.planes[p].epoch
  /\ t.planes = [s.planes EXCEPT ![p] = [epoch |-> op.epoch, rev |-> op.rev, by |-> Who(op)]]
  /\ s.terminal[<<Who(op), p>>] = None
  /\ \A k \in Whos \X Planes :
       t.terminal[k] = IF k = <<Who(op), p>> THEN "activated" ELSE s.terminal[k]
  /\ t.terminalAt[<<Who(op), p>>] = op.epoch
  /\ <<p, op.epoch>> \in t.evidence

(* A membership delta that moves a plane, inside its epoch.                *)
RefreshesPlane(s, t, op, p) ==
  /\ Keeps(s, t) /\ Unsettled(s, t)
  /\ t.max = op.token
  /\ op.epoch = s.planes[p].epoch /\ op.rev > s.planes[p].rev
  /\ t.planes = [s.planes EXCEPT ![p].rev = op.rev]
  /\ t.terminal = s.terminal

Effect(s, t) ==
  \/ Administers(s, t)
  \/ \E op \in Ops, p \in Planes : MovesPlane(s, t, op, p)
  \/ \E op \in HealthOps, p \in Planes : RefreshesPlane(s, t, op, p)

(* A current leader's token, and a step in the ledger, touch no more.      *)
LEMMA RaisedAdministers ==
  ASSUME NEW s \in AgentStates, NEW op \in AllOps, IsLeader(s, op.token)
  PROVE  Administers(s, Raised(s, op)) /\ Raised(s, op).max = op.token
  <1> DEFINE t == Raised(s, op)
  <1>1. t.max = op.token /\ t.journal = s.journal
    BY DEF Raised, AgentStates
  <1>2. SameLedger(s, t) /\ SlotsOnlyFreed(s, t)
    BY DEF Raised, AgentStates, SameLedger, SlotsOnlyFreed
  <1>3. JournalKept(s, t)
    BY <1>1 DEF JournalKept, AgentStates, Journals
  <1>4. Unsettled(s, t)
    BY DEF Raised, AgentStates, Unsettled
  <1> HIDE DEF t
  <1>5. Keeps(s, t)
    BY <1>1, <1>2, <1>3, SameLedgerKeeps DEF IsLeader
  <1> QED
    BY <1>1, <1>2, <1>4, <1>5 DEF Administers, Settled, SameLedger, t

(* Recording a step touches the ledger of steps only.                      *)
LEMMA RecordedFields ==
  ASSUME NEW s \in AgentStates, NEW op, NEW p, NEW step
  PROVE  LET t == Recorded(s, op, p, step) IN
         /\ SameLedger(s, t) /\ t.reservations = s.reservations /\ t.max = s.max
         /\ t.journal = s.journal /\ Unsettled(s, t)
  BY DEF Recorded, AgentStates, SameLedger, Unsettled

(* Recording a step after whatever was done changes nothing of it.         *)
LEMMA RecordedAdministers ==
  ASSUME NEW s \in AgentStates, NEW t \in AgentStates, NEW op, NEW p, NEW step,
         Administers(s, t)
  PROVE  Administers(s, Recorded(t, op, p, step))
  <1> DEFINE u == Recorded(t, op, p, step)
  <1>1. /\ SameLedger(t, u) /\ u.reservations = t.reservations /\ u.max = t.max
        /\ u.journal = t.journal /\ u.lastActivated = t.lastActivated
        /\ u.pendingActivation = t.pendingActivation
    BY DEF Recorded, AgentStates, SameLedger
  <1> HIDE DEF u
  <1> QED
    BY <1>1 DEF Administers, Keeps, VerdictsKept, PlacesKept, SlotsKeptFenced, JournalKept,
       Settled, Unsettled, SettledNow, SameLedger, u

(* stage acquires a slot under the newest token.                           *)
LEMMA StageEffect ==
  ASSUME NEW s \in AgentStates, NEW op \in AllOps, NEW p \in Planes, NEW t \in Stage(s, op, p)
  PROVE  Administers(s, t)
  <1> DEFINE r == Raised(s, op)
             a == Acquired(r, op, p, TRUE)
  <1>1. IsLeader(s, op.token)
    BY DEF Stage, Replayed, Fresh, Admitted
  <1>2. r \in AgentStates /\ Administers(s, r) /\ r.max = op.token
    BY <1>1, RaisedType, RaisedAdministers
  <1>3. CASE t = r
    BY <1>2, <1>3
  <1>4. CASE t = Recorded(a, op, p, "stage")
    <2> HIDE DEF r
    <2>1. a \in AgentStates
      BY <1>2, AcquiredType
    <2>2. /\ SameLedger(r, a) /\ a.max = r.max /\ a.journal = r.journal
          /\ a.lastActivated = r.lastActivated /\ a.pendingActivation = r.pendingActivation
      BY <1>2 DEF Acquired, AgentStates, SameLedger
    <2>3. /\ a.reservations[p][op.epoch].op = op
          /\ \A q \in Planes, e \in Epochs : q # p \/ e # op.epoch =>
               a.reservations[q][e] = r.reservations[q][e]
      BY <1>2, EnvelopeTypes DEF Acquired, AgentStates, Reservations
    <2> HIDE DEF a
    <2>4. op.token <= a.max
      <3>1. op.token \in Nat /\ a.max = op.token
        BY <1>2, <2>2, EnvelopeTypes
      <3> QED
        BY <3>1
    <2>5. SlotsKeptFenced(s, a)
      BY <1>2, <2>2, <2>3, <2>4 DEF SlotsKeptFenced, Administers, Keeps
    <2>6. Administers(s, a)
      BY <1>2, <2>2, <2>5 DEF Administers, Keeps, VerdictsKept, PlacesKept, JournalKept,
         Settled, Unsettled, SettledNow, SameLedger
    <2> QED
      BY <1>4, <2>1, <2>6, RecordedAdministers
  <1> QED
    BY <1>3, <1>4 DEF Stage

(* finish writes one verdict and its place, and frees the own slot.        *)
LEMMA ClosedFields ==
  ASSUME NEW s \in AgentStates, NEW op \in AllOps, NEW p \in Planes, NEW verdict \in Verdicts,
         NEW t, t = Closed(s, op, p, verdict)
  PROVE  /\ t.planes = s.planes /\ t.max = s.max /\ t.evidence = s.evidence
         /\ t.journal = s.journal /\ Unsettled(s, t) /\ SlotsOnlyFreed(s, t)
         /\ \A k \in Whos \X Planes :
              /\ t.terminal[k] = IF k = <<Who(op), p>> THEN verdict ELSE s.terminal[k]
              /\ t.terminalAt[k] = IF k = <<Who(op), p>> THEN op.epoch ELSE s.terminalAt[k]
  <1> DEFINE k0 == <<Who(op), p>>
  <1>1. k0 \in Whos \X Planes
    BY EnvelopeTypes
  <1>2. /\ t.planes = s.planes /\ t.max = s.max /\ t.evidence = s.evidence
        /\ t.journal = s.journal /\ Unsettled(s, t)
        /\ t.terminal = [s.terminal EXCEPT ![k0] = verdict]
        /\ t.terminalAt = [s.terminalAt EXCEPT ![k0] = op.epoch]
        /\ t.reservations = SlotsReleased(s, op, {p})
    BY DEF Closed, AgentStates, Unsettled
  <1>3. SlotsOnlyFreed(s, t)
    BY <1>2 DEF SlotsReleased, SlotsOnlyFreed
  <1>4. \A k \in Whos \X Planes :
          /\ t.terminal[k] = IF k = k0 THEN verdict ELSE s.terminal[k]
          /\ t.terminalAt[k] = IF k = k0 THEN op.epoch ELSE s.terminalAt[k]
    BY <1>2 DEF AgentStates, VerdictMaps, VerdictEpochs
  <1> QED
    BY <1>2, <1>3, <1>4

(* A verdict is written where there is none, at its operation's epoch.     *)
LEMMA ClosedKeeps ==
  ASSUME NEW s \in AgentStates, NEW op \in Ops, NEW p \in Planes, NEW verdict \in Verdicts,
         TerminalOf(s, op, p) = None, NEW t, t = Closed(s, op, p, verdict)
  PROVE  Keeps(s, t)
  <1>0. op \in AllOps /\ <<Who(op), p>> \in Whos \X Planes /\ s.max \in Nat
    BY EnvelopeTypes DEF AllOps, AgentStates
  <1>1. /\ t.planes = s.planes /\ t.max = s.max /\ t.evidence = s.evidence
        /\ t.journal = s.journal /\ SlotsOnlyFreed(s, t)
        /\ \A k \in Whos \X Planes :
              /\ t.terminal[k] = IF k = <<Who(op), p>> THEN verdict ELSE s.terminal[k]
              /\ t.terminalAt[k] = IF k = <<Who(op), p>> THEN op.epoch ELSE s.terminalAt[k]
    BY <1>0, ClosedFields
  <1>2. JournalKept(s, t)
    BY <1>1 DEF JournalKept, AgentStates, Journals
  <1>3. VerdictsKept(s, t)
    BY <1>1 DEF VerdictsKept, TerminalOf
  <1>4. PlacesKept(s, t)
    BY <1>1 DEF PlacesKept
  <1>5. SlotsKeptFenced(s, t)
    BY <1>1 DEF SlotsKeptFenced, SlotsOnlyFreed
  <1>6. t.max >= s.max /\ s.evidence \subseteq t.evidence
    BY <1>0, <1>1
  <1> QED
    BY <1>2, <1>3, <1>4, <1>5, <1>6 DEF Keeps

(* abort and fail.                                                         *)
LEMMA FinalizeEffect ==
  ASSUME NEW s \in AgentStates, NEW op \in Ops, NEW p \in Planes, NEW verdict \in Verdicts,
         NEW t \in Finalize(s, op, p, verdict), SlotsFenced(s)
  PROVE  Administers(s, t)
  <1> DEFINE r == Raised(s, op)
  <1>0. op \in AllOps
    BY DEF AllOps
  <1>1. IsLeader(s, op.token)
    BY DEF Finalize
  <1>2. r \in AgentStates /\ Administers(s, r)
    BY <1>0, <1>1, RaisedType, RaisedAdministers
  <1>3. CASE t = r
    BY <1>2, <1>3
  <1>4. CASE TerminalOf(s, op, p) = None /\ t = Closed(r, op, p, verdict)
    <2>1. TerminalOf(r, op, p) = None
      BY <1>4 DEF TerminalOf, Raised, AgentStates
    <2> HIDE DEF r
    <2>2. Keeps(r, t) /\ Unsettled(r, t) /\ t.planes = r.planes
      BY <1>0, <1>2, <1>4, <2>1, ClosedKeeps, ClosedFields
    <2>3. t \in AgentStates
      BY <1>0, <1>2, <1>4, ClosedType
    <2>4. Keeps(s, t)
      BY <1>2, <2>2, <2>3, KeepsIsTransitive DEF Administers
    <2> QED
      BY <1>2, <2>2, <2>4 DEF Administers, Settled, Unsettled, SettledNow
  <1> QED
    BY <1>3, <1>4 DEF Finalize

(* commit moves one plane, or records that it has, or changes the token.   *)
LEMMA CommitEffect ==
  ASSUME NEW s \in AgentStates, NEW op \in Ops, NEW p \in Planes, NEW proof,
         NEW t \in Commit(s, op, p, proof), SlotsAreAbove(s), SlotsFenced(s)
  PROVE  Administers(s, t) \/ MovesPlane(s, t, op, p)
  <1> DEFINE r == Raised(s, op)
             there == [epoch |-> op.epoch, rev |-> op.rev, by |-> Who(op)]
             planes == [r.planes EXCEPT ![p] = there]
             evidence == r.evidence \cup {<<p, op.epoch>>}
             epochs == IF s.holder # None /\ Who(s.holder) = Who(op)
                       THEN s.holder.epoch ELSE r.pendingEpochs
             moved == [r EXCEPT !.planes = planes, !.evidence = evidence,
                                !.pendingEpochs = epochs,
                                !.pendingActivation = RecordOf(op)]
             c == Closed(moved, op, p, "activated")
  <1>0. op \in AllOps
    BY DEF AllOps
  <1>1. IsLeader(s, op.token)
    BY DEF Commit, Replayed, Fresh, Admitted
  <1>2. r \in AgentStates /\ Administers(s, r) /\ r.max = op.token
    BY <1>0, <1>1, RaisedType, RaisedAdministers
  <1>3. CASE t = r
    BY <1>2, <1>3
  <1>4. CASE t = Recorded(r, op, p, "commit")
    BY <1>2, <1>4, RecordedAdministers
  <1>5. CASE /\ Movable(s, op, p) /\ Fresh(s, op, p, "commit")
             /\ t = Recorded(c, op, p, "commit")
    <2>1. op.epoch > s.planes[p].epoch
      BY <1>0, <1>5, EnvelopeTypes DEF Movable, HasSlot, At, SlotsAreAbove, SlotIsAbove
    <2>2. /\ r.planes = s.planes /\ r.terminal = s.terminal
          /\ r.terminalAt = s.terminalAt /\ r.evidence = s.evidence
          /\ r.reservations = s.reservations /\ r.journal = s.journal
          /\ r.lastActivated = s.lastActivated
      BY DEF Raised, AgentStates
    <2>3. /\ planes \in Positions /\ evidence \in Evidence
          /\ epochs \in Epochs \cup {None} /\ RecordOf(op) \in MaybeRecord
      <3>1. planes \in Positions
        BY <1>0, <1>2, EnvelopeTypes DEF AgentStates, Positions, PlaneStates
      <3>2. evidence \in Evidence
        BY <1>0, <1>2, EnvelopeTypes DEF AgentStates, Evidence
      <3>3. epochs \in Epochs \cup {None}
        BY <1>2 DEF AgentStates, MaybeRecord, Records
      <3>4. RecordOf(op) \in MaybeRecord
        BY <1>0, EnvelopeTypes DEF MaybeRecord
      <3> QED
        BY <3>1, <3>2, <3>3, <3>4
    <2>4. RecordOf(op) # None
      BY <1>0, EnvelopeTypes, NoneAssumption
    <2> HIDE DEF r, planes, evidence, epochs
    <2>5. moved \in AgentStates
      BY <1>2, <2>3 DEF AgentStates
    <2>6. /\ moved.planes = planes /\ moved.evidence = evidence /\ moved.max = r.max
          /\ moved.terminal = r.terminal /\ moved.terminalAt = r.terminalAt
          /\ moved.reservations = r.reservations /\ moved.journal = r.journal
          /\ moved.lastActivated = r.lastActivated
          /\ moved.pendingActivation = RecordOf(op)
      BY <1>2 DEF AgentStates
    <2> HIDE DEF moved
    <2>7. TerminalOf(moved, op, p) = None /\ s.terminal[<<Who(op), p>>] = None
      BY <1>5, <2>2, <2>6 DEF Fresh, TerminalOf
    <2>8. c \in AgentStates
      BY <1>0, <2>5, ClosedType DEF Verdicts
    <2>9. "activated" \in Verdicts
      BY DEF Verdicts
    <2>10. /\ Keeps(moved, c) /\ c.planes = moved.planes /\ c.max = moved.max
           /\ c.evidence = moved.evidence /\ Unsettled(moved, c)
           /\ \A k \in Whos \X Planes :
                c.terminal[k] = IF k = <<Who(op), p>> THEN "activated" ELSE moved.terminal[k]
      BY <1>0, <2>5, <2>7, <2>9, ClosedKeeps, ClosedFields
    <2>11. c.terminalAt[<<Who(op), p>>] = op.epoch
      BY <1>0, <2>5, <2>9, ClosedFields, EnvelopeTypes
    <2> HIDE DEF c
    <2>12. /\ SameLedger(c, t) /\ t.reservations = c.reservations /\ t.max = c.max
           /\ t.journal = c.journal /\ Unsettled(c, t)
      BY <1>5, <2>8, RecordedFields
    <2>13. /\ t.max = op.token
           /\ t.planes = [s.planes EXCEPT ![p] = there]
           /\ \A k \in Whos \X Planes :
                t.terminal[k] = IF k = <<Who(op), p>> THEN "activated" ELSE s.terminal[k]
           /\ t.terminalAt[<<Who(op), p>>] = op.epoch
           /\ t.evidence = evidence
      BY <1>2, <2>2, <2>6, <2>10, <2>11, <2>12 DEF SameLedger, planes
    <2>14. s.evidence \subseteq t.evidence /\ <<p, op.epoch>> \in t.evidence
      BY <2>2, <2>13 DEF evidence
    <2>15. Keeps(s, t)
      <3>1. VerdictsKept(s, t) /\ PlacesKept(s, t) /\ SlotsKeptFenced(s, t) /\ JournalKept(s, t)
        BY <2>2, <2>6, <2>10, <2>12 DEF Keeps, VerdictsKept, PlacesKept, SlotsKeptFenced,
           JournalKept, SameLedger
      <3> QED
        BY <1>1, <2>13, <2>14, <3>1 DEF Keeps, IsLeader
    <2>16. Unsettled(s, t)
      BY <2>2, <2>4, <2>6, <2>10, <2>12 DEF Unsettled
    <2> QED
      BY <1>1, <2>1, <2>7, <2>13, <2>14, <2>15, <2>16 DEF MovesPlane, IsLeader
  <1> QED
    BY <1>3, <1>4, <1>5 DEF Commit

(* applyHealth moves one revision, or changes the token.                   *)
LEMMA ApplyHealthEffect ==
  ASSUME NEW s \in AgentStates, NEW op \in AllOps, NEW p \in Planes,
         NEW t \in ApplyHealth(s, op, p), SlotsFenced(s)
  PROVE  Administers(s, t) \/ RefreshesPlane(s, t, op, p)
  <1> DEFINE r == Raised(s, op)
             planes == [r.planes EXCEPT ![p].rev = op.rev]
             m == [r EXCEPT !.planes = planes]
  <1>1. IsLeader(s, op.token)
    BY DEF ApplyHealth, Replayed, Fresh, Admitted
  <1>2. r \in AgentStates /\ Administers(s, r) /\ r.max = op.token
    BY <1>1, RaisedType, RaisedAdministers
  <1>3. CASE t = r
    BY <1>2, <1>3
  <1>4. CASE /\ op.epoch = s.planes[p].epoch /\ op.rev > s.planes[p].rev
             /\ t = Recorded(m, op, p, "health")
    <2>1. /\ r.planes = s.planes /\ r.terminal = s.terminal
      BY DEF Raised, AgentStates
    <2>2. planes \in Positions
      BY <1>2, EnvelopeTypes DEF AgentStates, Positions, PlaneStates
    <2>3. planes = [s.planes EXCEPT ![p].rev = op.rev]
      BY <2>1
    <2> HIDE DEF r, planes
    <2>4. m \in AgentStates
      BY <1>2, <2>2 DEF AgentStates
    <2>5. /\ m.planes = planes /\ m.evidence = r.evidence /\ m.max = r.max
          /\ m.terminal = r.terminal /\ m.terminalAt = r.terminalAt
          /\ m.reservations = r.reservations /\ m.journal = r.journal
          /\ m.lastActivated = r.lastActivated
          /\ m.pendingActivation = r.pendingActivation
      BY <1>2 DEF AgentStates
    <2> HIDE DEF m
    <2>6. /\ SameLedger(m, t) /\ t.reservations = m.reservations /\ t.max = m.max
          /\ t.journal = m.journal /\ Unsettled(m, t)
      BY <1>4, <2>4, RecordedFields
    <2>7. Keeps(s, t)
      BY <1>2, <2>5, <2>6 DEF Administers, Keeps, VerdictsKept, PlacesKept, SlotsKeptFenced,
         JournalKept, SameLedger
    <2>8. Unsettled(s, r)
      BY <1>2 DEF Raised, Unsettled, AgentStates, r
    <2>9. Unsettled(s, t)
      BY <2>5, <2>6, <2>8 DEF Unsettled
    <2> QED
      BY <1>2, <1>4, <2>1, <2>3, <2>5, <2>6, <2>7, <2>9 DEF RefreshesPlane, SameLedger
  <1> QED
    BY <1>3, <1>4 DEF ApplyHealth

(* Whoever leaves planes, verdicts and evidence, frees slots only and does *)
(* not settle a candidate administers.                                     *)
LEMMA QuietAdministers ==
  ASSUME NEW s \in AgentStates, NEW t, OnlyFrees(s, t), t.max = s.max,
         t.terminal = s.terminal, t.terminalAt = s.terminalAt, t.evidence = s.evidence,
         JournalKept(s, t), t.lastActivated = s.lastActivated,
         t.pendingActivation = s.pendingActivation
  PROVE  Administers(s, t)
  <1>1. s.max \in Nat
    BY DEF AgentStates
  <1>2. SameLedger(s, t) /\ SlotsOnlyFreed(s, t)
    BY DEF OnlyFrees, SameLedger, SlotsOnlyFreed
  <1>3. Keeps(s, t)
    BY <1>1, <1>2, SameLedgerKeeps
  <1> QED
    BY <1>3 DEF Administers, Settled, Unsettled, OnlyFrees

(* The calls on an operation that name no plane; a journal entry that is   *)
(* written is the next one.                                                *)
LEMMA AdministrationEffect ==
  ASSUME NEW s \in AgentStates, NEW op \in Ops, NEW entry, NEW how, NEW t,
         \/ t \in RecordPublishIntent(s, op)
         \/ entry \in Journals /\ t \in WriteJournal(s, entry)
         \/ how \in Phases /\ t \in CloseJournal(s, op, how)
         \/ t \in ReleaseHolderSlots(s, op)
         \/ t \in ReleaseStaleSlots(s, op)
         \/ t \in ReclaimOperation(s, op)
  PROVE  Administers(s, t)
  <1>1. OnlyFrees(s, t)
    BY AdministrationOnlyFrees
  <1>2. JournalKept(s, s)
    BY DEF JournalKept, AgentStates, Journals
  <1>3. CASE t \in RecordPublishIntent(s, op)
    BY <1>1, <1>2, <1>3, QuietAdministers DEF RecordPublishIntent, AgentStates, JournalKept
  <1>4. CASE entry \in Journals /\ t \in WriteJournal(s, entry)
    <2>1. t = [s EXCEPT !.journal = entry] /\ entry.seq = NextSeq(s)
      BY <1>4 DEF WriteJournal
    <2>2. entry # None /\ (s.journal # None => s.journal.seq \in Nat)
      BY <1>4, NoneAssumption DEF AgentStates, Journals
    <2>3. t.journal = entry
      BY <2>1 DEF AgentStates
    <2>4. JournalKept(s, t)
      BY <2>1, <2>2, <2>3 DEF JournalKept, NextSeq
    <2> QED
      BY <1>1, <2>1, <2>4, QuietAdministers DEF AgentStates
  <1>5. CASE how \in Phases /\ t \in CloseJournal(s, op, how)
    <2>1. CASE t = s
      BY <2>1, NothingKeeps
    <2>2. CASE s.journal # None /\ t = [s EXCEPT !.journal = ClosedEntry(s.journal, how)]
      <3>1. s.journal \in Journals /\ s.journal.seq \in Nat
        BY <2>2 DEF AgentStates, Journals
      <3>2. ClosedEntry(s.journal, how) \in Journals
        BY <1>5, <3>1, ClosedEntryType
      <3>3. ClosedEntry(s.journal, how).seq = s.journal.seq + 1
        BY <3>1 DEF ClosedEntry, Journals
      <3>4. t.journal = ClosedEntry(s.journal, how)
        BY <2>2 DEF AgentStates
      <3>5. JournalKept(s, t)
        BY <3>1, <3>2, <3>3, <3>4, NoneAssumption DEF JournalKept
      <3> QED
        BY <1>1, <2>2, <3>5, QuietAdministers DEF AgentStates
    <2> QED
      BY <1>5, <2>1, <2>2 DEF CloseJournal, OwnsJournal
  <1>6. CASE t \in ReleaseHolderSlots(s, op)
    <2> DEFINE slots == SlotsFreed(s, Who(op), s.holder.epoch)
    <2>1. t = s \/ t = [s EXCEPT !.reservations = slots, !.holder = None]
      BY <1>6 DEF ReleaseHolderSlots
    <2> HIDE DEF slots
    <2> QED
      BY <1>1, <1>2, <2>1, QuietAdministers, NothingKeeps DEF AgentStates, JournalKept
  <1>7. CASE t \in ReleaseStaleSlots(s, op)
    <2> DEFINE slots == SlotsFreed(s, Who(op), op.epoch)
    <2>1. t = s \/ t = [s EXCEPT !.reservations = slots]
      BY <1>7 DEF ReleaseStaleSlots
    <2> HIDE DEF slots
    <2> QED
      BY <1>1, <1>2, <2>1, QuietAdministers, NothingKeeps DEF AgentStates, JournalKept
  <1>8. CASE t \in ReclaimOperation(s, op)
    BY <1>1, <1>2, <1>8, QuietAdministers, NothingKeeps DEF ReclaimOperation, AgentStates, JournalKept
  <1> QED
    BY <1>3, <1>4, <1>5, <1>6, <1>7, <1>8

(* releaseIdleHolder.                                                      *)
LEMMA ReleaseIdleHolderEffect ==
  ASSUME NEW s \in AgentStates, NEW t \in ReleaseIdleHolder(s)
  PROVE  Administers(s, t)
  <1> DEFINE slots == [p \in Planes |-> [s.reservations[p] EXCEPT ![s.holder.epoch] = None]]
  <1>1. t = s \/ t = [s EXCEPT !.reservations = slots, !.holder = None]
    BY DEF ReleaseIdleHolder
  <1>2. OnlyFrees(s, t)
    BY ReleaseIdleHolderOnlyFrees
  <1>3. JournalKept(s, s)
    BY DEF JournalKept, AgentStates, Journals
  <1> HIDE DEF slots
  <1> QED
    BY <1>1, <1>2, <1>3, QuietAdministers, NothingKeeps DEF AgentStates, JournalKept

(* finishOperation settles its own candidate.                              *)
LEMMA FinishOperationEffect ==
  ASSUME NEW s \in AgentStates, NEW op, NEW ps, NEW t \in FinishOperation(s, op, ps)
  PROVE  Administers(s, t)
  <1> DEFINE f == FinalizeCandidate(s, op.name)
             r == [f EXCEPT !.reservations = SlotsReleased(f, op, ps)]
  <1>1. OnlyFrees(s, t)
    BY FinishOperationOnlyFrees
  <1>2. f \in AgentStates
    BY FinalizeCandidateType
  <1>3. /\ SameLedger(s, f) /\ f.max = s.max /\ f.journal = s.journal /\ Settled(s, f)
    BY FinalizeCandidateSettles
  <1>4. SlotsReleased(f, op, ps) \in Reservations
    BY <1>2, SlotsReleasedType
  <1>5. t = HoldEnded(r, Who(op))
    BY DEF FinishOperation
  <1> HIDE DEF f
  <1>6. r \in AgentStates
    BY <1>2, <1>4 DEF AgentStates
  <1>7. /\ SameLedger(f, r) /\ r.max = f.max /\ r.journal = f.journal
        /\ r.lastActivated = f.lastActivated /\ r.pendingActivation = f.pendingActivation
    BY <1>2 DEF AgentStates, SameLedger
  <1> HIDE DEF r
  <1>8. /\ SameLedger(r, t) /\ t.max = r.max /\ t.journal = r.journal /\ SameCandidate(r, t)
    BY <1>5, <1>6, HoldEndedKeeps
  <1>9. Settled(s, t)
    BY <1>3, <1>7, <1>8 DEF Settled, Unsettled, SettledNow, SameCandidate
  <1>10. SameLedger(s, t) /\ t.max = s.max /\ t.journal = s.journal
    BY <1>3, <1>7, <1>8 DEF SameLedger
  <1>11. /\ SlotsOnlyFreed(s, t) /\ JournalKept(s, t) /\ t.max >= s.max
    BY <1>1, <1>10 DEF OnlyFrees, SlotsOnlyFreed, JournalKept, AgentStates, Journals
  <1>12. Keeps(s, t)
    BY <1>10, <1>11, SameLedgerKeeps
  <1> QED
    BY <1>9, <1>10, <1>12 DEF Administers, SameLedger

(* fence: a higher token settles what the operation in flight left.        *)
LEMMA FenceEffect ==
  ASSUME NEW s \in AgentStates, NEW token \in Nat, NEW t \in Fence(s, token)
  PROVE  Administers(s, t)
  <1> DEFINE r == [s EXCEPT !.max = token]
  <1>1. token >= s.max /\ (t = r \/ t = Supersede(r, s.holder))
    BY DEF Fence, IsLeader
  <1>2. /\ r \in AgentStates /\ r.max = token /\ SameLedger(s, r)
        /\ r.reservations = s.reservations /\ r.journal = s.journal /\ SameCandidate(s, r)
    BY DEF AgentStates, SameLedger, SameCandidate
  <1> HIDE DEF r
  <1>3. JournalKept(r, r)
    BY <1>2 DEF JournalKept, AgentStates, Journals
  <1>4. /\ SameLedger(r, t) /\ SlotsOnlyFreed(r, t) /\ t.max = r.max
        /\ JournalKept(r, t) /\ Settled(r, t)
    <2>1. CASE t = r
      BY <2>1, <1>3 DEF SameLedger, SlotsOnlyFreed, Settled, Unsettled
    <2>2. CASE t = Supersede(r, s.holder)
      BY <2>2, <1>2, SupersedeSettles
    <2> QED
      BY <1>1, <2>1, <2>2
  <1>5. Settled(s, t)
    BY <1>2, <1>4, SettledCarries
  <1>6. /\ SameLedger(s, t) /\ SlotsOnlyFreed(s, t) /\ JournalKept(s, t) /\ t.max >= s.max
    BY <1>1, <1>2, <1>4 DEF SameLedger, SlotsOnlyFreed, JournalKept
  <1>7. Keeps(s, t)
    BY <1>6, SameLedgerKeeps
  <1> QED
    BY <1>5, <1>6, <1>7 DEF Administers, SameLedger

(* reserveAll's clean-up closes what has no verdict yet, and settles.      *)
LEMMA StaleClosedEffect ==
  ASSUME NEW s \in AgentStates, NEW op, NEW t, t = StaleClosed(s, op)
  PROVE  Administers(s, t) /\ t.max = s.max
  <1> DEFINE verdicts == [k \in DOMAIN s.terminal |->
                            IF k[1] = Who(s.journal.op) /\ s.terminal[k] = None
                            THEN "aborted" ELSE s.terminal[k]]
             r == [s EXCEPT !.terminal = verdicts]
  <1>1. verdicts \in VerdictMaps
    BY DEF AgentStates, VerdictMaps, Verdicts
  <1>2. t = s \/ t = Supersede(r, RecordOf(s.journal.op))
    BY DEF StaleClosed
  <1>3. /\ \A k \in Whos \X Planes : s.terminal[k] # None => verdicts[k] = s.terminal[k]
        /\ \A k \in Whos \X Planes : verdicts[k] = "activated" <=> s.terminal[k] = "activated"
    BY NoneAssumption DEF AgentStates, VerdictMaps, Verdicts
  <1> HIDE DEF verdicts
  <1>4. /\ r \in AgentStates /\ r.max = s.max /\ r.planes = s.planes
        /\ r.terminalAt = s.terminalAt /\ r.evidence = s.evidence
        /\ r.reservations = s.reservations /\ r.journal = s.journal /\ r.terminal = verdicts
        /\ SameCandidate(s, r)
    BY <1>1, <1>3 DEF AgentStates, SameCandidate
  <1> HIDE DEF r
  <1>5. CASE t = s
    BY <1>5, NothingKeeps
  <1>6. CASE t = Supersede(r, RecordOf(s.journal.op))
    <2>1. /\ SameLedger(r, t) /\ SlotsOnlyFreed(r, t) /\ t.max = r.max
          /\ JournalKept(r, t) /\ Settled(r, t)
      BY <1>4, <1>6, SupersedeSettles
    <2>2. Settled(s, t)
      BY <1>4, <2>1, SettledCarries
    <2>3. VerdictsKept(s, t) /\ PlacesKept(s, t) /\ SlotsKeptFenced(s, t) /\ JournalKept(s, t)
      BY <1>3, <1>4, <2>1 DEF VerdictsKept, PlacesKept, SlotsKeptFenced, JournalKept,
         SameLedger, SlotsOnlyFreed
    <2>4. s.max \in Nat
      BY DEF AgentStates
    <2>5. Keeps(s, t)
      BY <1>4, <2>1, <2>3, <2>4 DEF Keeps, SameLedger
    <2> QED
      BY <1>4, <2>1, <2>2, <2>5 DEF Administers, SameLedger
  <1> QED
    BY <1>2, <1>5, <1>6

(* The slots and the journal reserveAll takes are the operation's own.     *)
LEMMA ReserveEachEffect ==
  ASSUME NEW s \in AgentStates, NEW op \in AllOps, IsLeader(s, op.token),
         NEW t, t = ReserveEach(s, op)
  PROVE  /\ SameLedger(s, t) /\ t.max = op.token /\ t.journal = s.journal
         /\ SlotsKeptFenced(s, t)
         /\ t.lastActivated = s.lastActivated /\ t.pendingActivation = s.pendingActivation
  <1> DEFINE r == Raised(s, op)
             fresh == {p \in Planes : ~Replayed(s, op, p, "reserve")}
             slots == [p \in Planes |->
                         IF p \in fresh THEN Acquired(s, op, p, FALSE).reservations[p]
                         ELSE r.reservations[p]]
             entries == r.completed \cup
                          {[op |-> op, plane |-> p, step |-> "reserve"] : p \in fresh}
  <1>1. t = [r EXCEPT !.reservations = slots, !.completed = entries]
    BY DEF ReserveEach
  <1>2. /\ r \in AgentStates /\ SameLedger(s, r) /\ r.max = op.token /\ r.journal = s.journal
        /\ r.lastActivated = s.lastActivated /\ r.pendingActivation = s.pendingActivation
        /\ r.reservations = s.reservations
    BY RaisedType DEF Raised, AgentStates, SameLedger
  <1>3. ASSUME NEW p \in Planes, NEW e \in Epochs
        PROVE  \/ slots[p][e] = s.reservations[p][e]
               \/ slots[p][e].op = op
    <2>1. /\ Acquired(s, op, p, FALSE).reservations[p][op.epoch].op = op
          /\ e # op.epoch => Acquired(s, op, p, FALSE).reservations[p][e] = s.reservations[p][e]
      BY EnvelopeTypes DEF Acquired, AgentStates, Reservations
    <2> QED
      BY <1>2, <2>1
  <1> HIDE DEF r, slots, entries, fresh
  <1>4. /\ SameLedger(r, t) /\ t.max = r.max /\ t.journal = r.journal
        /\ t.lastActivated = r.lastActivated /\ t.pendingActivation = r.pendingActivation
        /\ t.reservations = slots
    BY <1>1, <1>2 DEF AgentStates, SameLedger
  <1>5. op.token \in Nat /\ op.token <= t.max
    <2>1. op.token \in Nat /\ t.max = op.token
      BY <1>2, <1>4, EnvelopeTypes
    <2> QED
      BY <2>1
  <1>6. SlotsKeptFenced(s, t)
    BY <1>3, <1>4, <1>5 DEF SlotsKeptFenced
  <1> QED
    BY <1>2, <1>4, <1>6 DEF SameLedger

(* reserveAll: the clean-up, then the reservation.                         *)
LEMMA ReserveAllEffect ==
  ASSUME NEW s \in AgentStates, NEW op \in Ops, SlotsFenced(s), NEW t \in ReserveAll(s, op)
  PROVE  Administers(s, t)
  <1> DEFINE c == StaleClosed(s, op)
             u == ReserveEach(c, op)
             j == IF OwnsJournal(u.journal, op) THEN u.journal ELSE Opening(op, NextSeq(c))
  <1>0. op \in AllOps
    BY DEF AllOps
  <1>1. c \in AgentStates /\ u \in AgentStates
    BY <1>0, StaleClosedType, ReserveEachType
  <1>2. Administers(s, c) /\ c.max = s.max
    BY StaleClosedEffect
  <1>3. op.token >= s.max /\ t = [u EXCEPT !.holder = RecordOf(op), !.journal = j]
    BY DEF ReserveAll, IsLeader
  <1> HIDE DEF c
  <1>4. IsLeader(c, op.token)
    BY <1>2, <1>3 DEF IsLeader
  <1>5. /\ SameLedger(c, u) /\ u.max = op.token /\ u.journal = c.journal
        /\ SlotsKeptFenced(c, u)
        /\ u.lastActivated = c.lastActivated /\ u.pendingActivation = c.pendingActivation
    BY <1>0, <1>1, <1>4, ReserveEachEffect
  <1>6. /\ j # None
        /\ c.journal # None => j.seq >= c.journal.seq
    <2>1. Opening(op, NextSeq(c)) \in Journals
      BY <1>1, OpeningType
    <2>2. Opening(op, NextSeq(c)).seq = NextSeq(c)
      BY DEF Opening
    <2>3. c.journal # None => c.journal.seq \in Nat
      BY <1>1 DEF AgentStates, Journals
    <2>4. c.journal # None => NextSeq(c) = 1 + c.journal.seq
      BY DEF NextSeq
    <2> QED
      BY <1>5, <2>1, <2>2, <2>3, <2>4, NoneAssumption DEF OwnsJournal
  <1> HIDE DEF u, j
  <1>7. /\ SameLedger(u, t) /\ t.max = u.max /\ t.journal = j /\ t.reservations = u.reservations
        /\ t.lastActivated = u.lastActivated /\ t.pendingActivation = u.pendingActivation
    BY <1>1, <1>3 DEF AgentStates, SameLedger
  <1>8. t \in AgentStates
    BY ReserveAllType
  <1>9. Keeps(c, t)
    <2>1. VerdictsKept(c, t) /\ PlacesKept(c, t) /\ c.evidence \subseteq t.evidence
      BY <1>5, <1>7 DEF SameLedger, VerdictsKept, PlacesKept
    <2>2. SlotsKeptFenced(c, t) /\ JournalKept(c, t)
      BY <1>5, <1>6, <1>7 DEF SlotsKeptFenced, JournalKept
    <2> QED
      BY <1>2, <1>3, <1>5, <1>7, <2>1, <2>2 DEF Keeps
  <1>10. Keeps(s, t)
    BY <1>1, <1>2, <1>8, <1>9, KeepsIsTransitive DEF Administers
  <1>11. Settled(s, t)
    BY <1>2, <1>5, <1>7 DEF Administers, Settled, Unsettled, SettledNow
  <1> QED
    BY <1>2, <1>5, <1>7, <1>10, <1>11 DEF Administers, SameLedger

-----------------------------------------------------------------------------
(* What is saved: an outcome of the call, pruned, and checked.             *)

(* Pruning takes no evidence a plane stands on, and only verdicts that are *)
(* prunable, in the state it leaves as in the one it finds.                *)
LEMMA PrunedFields ==
  ASSUME NEW s \in AgentStates, NEW u, u \in Pruned(s)
  PROVE  /\ u \in AgentStates
         /\ u.planes = s.planes /\ u.max = s.max /\ u.reservations = s.reservations
         /\ u.journal = s.journal /\ u.lastActivated = s.lastActivated
         /\ u.pendingActivation = s.pendingActivation
         /\ \A v \in s.evidence : v \in Standing(s) => v \in u.evidence
         /\ \A k \in Whos \X Planes :
              \/ u.terminal[k] = s.terminal[k] /\ u.terminalAt[k] = s.terminalAt[k]
              \/ /\ u.terminal[k] = None /\ u.terminalAt[k] = None
                 /\ TerminalPrunable(s, k[1], k[2], s.terminalAt[k])
                 /\ TerminalPrunable(u, k[1], k[2], s.terminalAt[k])
  <1> DEFINE r == PruneTerminal(s)
             gone(k) == TerminalPrunable(s, k[1], k[2], s.terminalAt[k])
             terminal == [k \in DOMAIN s.terminal |-> IF gone(k) THEN None ELSE s.terminal[k]]
             terminalAt == [k \in DOMAIN s.terminalAt |->
                              IF gone(k) THEN None ELSE s.terminalAt[k]]
  <1>1. r \in AgentStates
    BY PruneTerminalType
  <1>2. r = [s EXCEPT !.terminal = terminal, !.terminalAt = terminalAt]
    BY DEF PruneTerminal
  <1>3. \A k \in Whos \X Planes :
          \/ terminal[k] = s.terminal[k] /\ terminalAt[k] = s.terminalAt[k]
          \/ terminal[k] = None /\ terminalAt[k] = None /\ gone(k)
    <2>1. DOMAIN s.terminal = Whos \X Planes /\ DOMAIN s.terminalAt = Whos \X Planes
      BY DEF AgentStates, VerdictMaps, VerdictEpochs
    <2> SUFFICES ASSUME NEW k \in Whos \X Planes
                 PROVE  \/ terminal[k] = s.terminal[k] /\ terminalAt[k] = s.terminalAt[k]
                        \/ terminal[k] = None /\ terminalAt[k] = None /\ gone(k)
      OBVIOUS
    <2> HIDE DEF gone
    <2>2. /\ terminal[k] = IF gone(k) THEN None ELSE s.terminal[k]
          /\ terminalAt[k] = IF gone(k) THEN None ELSE s.terminalAt[k]
      BY <2>1
    <2> HIDE DEF terminal, terminalAt
    <2> QED
      BY <2>2
  <1> HIDE DEF terminal, terminalAt, gone
  <1>4. PICK d, e : e \in EvidenceDroppable(s) /\ u = Trimmed(PruneTerminal(s), d, e)
    BY DEF Pruned
  <1>5. /\ r.planes = s.planes /\ r.max = s.max /\ r.reservations = s.reservations
        /\ r.journal = s.journal /\ r.lastActivated = s.lastActivated
        /\ r.pendingActivation = s.pendingActivation /\ r.holder = s.holder
        /\ r.lastPublishIntent = s.lastPublishIntent
        /\ r.evidence = s.evidence /\ r.terminal = terminal /\ r.terminalAt = terminalAt
    BY <1>2 DEF AgentStates
  <1>6. /\ u.planes = r.planes /\ u.max = r.max /\ u.reservations = r.reservations
        /\ u.journal = r.journal /\ u.lastActivated = r.lastActivated
        /\ u.pendingActivation = r.pendingActivation /\ u.holder = r.holder
        /\ u.lastPublishIntent = r.lastPublishIntent
        /\ u.evidence = r.evidence \ e /\ u.terminal = r.terminal
        /\ u.terminalAt = r.terminalAt
    BY <1>1, <1>4 DEF AgentStates, Trimmed
  <1>7. u \in AgentStates
    BY <1>1, <1>4, TrimmedType
  <1>8. e \cap Standing(s) = {}
    BY <1>4 DEF EvidenceDroppable, Standing
  <1>9. ASSUME NEW who, NEW p, NEW at
        PROVE  TerminalPrunable(s, who, p, at) <=> TerminalPrunable(u, who, p, at)
    BY <1>5, <1>6 DEF TerminalPrunable, LiveWhos, OwnedSlot
  <1> QED
    BY <1>3, <1>5, <1>6, <1>7, <1>8, <1>9 DEF gone

-----------------------------------------------------------------------------
(* The record is kept by every call and by pruning.                        *)

LedgerAt(s) == Justified(s) /\ SlotsFenced(s) /\ Placed(s)
EpochsUp(s, t) == \A p \in Planes : t.planes[p].epoch >= s.planes[p].epoch

(* A plane that keeps its epoch and its author stays on record.            *)
LEMMA StandingStays ==
  ASSUME NEW s \in AgentStates, NEW t, NEW p \in Planes, PlaneIsJustified(s, p), Keeps(s, t),
         t.planes[p].epoch = s.planes[p].epoch, t.planes[p].by = s.planes[p].by
  PROVE  PlaneIsJustified(t, p)
  <1>1. s.planes[p].by # None => <<s.planes[p].by, p>> \in Whos \X Planes
    BY DEF AgentStates, Positions, PlaneStates
  <1>2. "activated" # None
    BY NoneAssumption DEF Verdicts
  <1> QED
    BY <1>1, <1>2 DEF PlaneIsJustified, Keeps, VerdictsKept

(* An operation's Who is one, and it is somebody.                          *)
LEMMA WhoTypes == \A op \in AllOps : Who(op) \in Whos /\ Who(op) # None
  BY EnvelopeTypes, NoneAssumption

(* Whatever call is made, the planes stay on record and move only up.      *)
LEMMA EffectKeepsLedger ==
  ASSUME NEW s \in AgentStates, LedgerAt(s), NEW t \in AgentStates, Effect(s, t)
  PROVE  LedgerAt(t) /\ Keeps(s, t) /\ EpochsUp(s, t)
  <1>0. /\ Justified(s) /\ SlotsFenced(s) /\ Placed(s)
        /\ \A p \in Planes : s.planes[p].epoch \in Nat
        /\ s.max \in Nat /\ t.max \in Nat
    BY DEF LedgerAt, AgentStates, Positions, PlaneStates
  <1>1. Keeps(s, t)
    BY DEF Effect, Administers, MovesPlane, RefreshesPlane
  <1>2. ASSUME Administers(s, t) PROVE Justified(t) /\ EpochsUp(s, t)
    BY <1>0, <1>1, <1>2, StandingStays DEF Administers, Justified, EpochsUp
  <1>3. ASSUME NEW op \in Ops, NEW q \in Planes, MovesPlane(s, t, op, q)
        PROVE  Justified(t) /\ EpochsUp(s, t)
    <2>1. /\ t.planes[q].epoch = op.epoch /\ t.planes[q].by = Who(op)
          /\ \A p \in Planes : p # q => t.planes[p] = s.planes[p]
      BY <1>3 DEF MovesPlane, AgentStates, Positions
    <2>2. Who(op) # None /\ op.epoch \in Nat /\ <<Who(op), q>> \in Whos \X Planes
      BY WhoTypes, EnvelopeTypes DEF AllOps
    <2>3. t.terminal[<<Who(op), q>>] = "activated" /\ t.terminalAt[<<Who(op), q>>] = op.epoch
          /\ <<q, op.epoch>> \in t.evidence /\ op.epoch > s.planes[q].epoch
      BY <1>3, <2>2 DEF MovesPlane
    <2>4. PlaneIsJustified(t, q)
      BY <2>1, <2>2, <2>3 DEF PlaneIsJustified
    <2>5. \A p \in Planes : p # q => PlaneIsJustified(t, p)
      BY <1>0, <1>1, <2>1, StandingStays DEF Justified
    <2> QED
      BY <1>0, <2>1, <2>2, <2>3, <2>4, <2>5 DEF Justified, EpochsUp
  <1>4. ASSUME NEW op \in HealthOps, NEW q \in Planes, RefreshesPlane(s, t, op, q)
        PROVE  Justified(t) /\ EpochsUp(s, t)
    <2>1. \A p \in Planes : /\ t.planes[p].epoch = s.planes[p].epoch
                            /\ t.planes[p].by = s.planes[p].by
      BY <1>4 DEF RefreshesPlane, AgentStates, Positions, PlaneStates
    <2> QED
      BY <1>0, <1>1, <2>1, StandingStays DEF Justified, EpochsUp
  <1>5. SlotsFenced(t)
    <2> SUFFICES ASSUME NEW p \in Planes, NEW e \in Epochs, t.reservations[p][e] # None
                 PROVE  t.reservations[p][e].op.token <= t.max
      BY DEF SlotsFenced
    <2>1. t.reservations[p][e].op.token \in Nat
      BY OpsAssumption DEF AgentStates, Reservations, Slots, AllOps, Envelopes
    <2> QED
      BY <1>0, <1>1, <2>1 DEF Keeps, SlotsKeptFenced, SlotsFenced
  <1>6. Placed(t)
    BY <1>0, <1>1, IdentityAssumption DEF Keeps, PlacesKept, Placed, EpochIs
  <1>7. Justified(t) /\ EpochsUp(s, t)
    BY <1>2, <1>3, <1>4 DEF Effect
  <1> QED
    BY <1>1, <1>5, <1>6, <1>7 DEF LedgerAt

(* Pruning keeps the planes on record.                                     *)
LEMMA PrunedKeepsLedger ==
  ASSUME NEW s \in AgentStates, LedgerAt(s), NEW u, u \in Pruned(s)
  PROVE  LedgerAt(u)
  <1>1. /\ Justified(s) /\ SlotsFenced(s) /\ Placed(s)
    BY DEF LedgerAt
  <1>2. /\ u.planes = s.planes /\ u.max = s.max /\ u.reservations = s.reservations
        /\ \A v \in s.evidence : v \in Standing(s) => v \in u.evidence
        /\ \A k \in Whos \X Planes :
             \/ u.terminal[k] = s.terminal[k] /\ u.terminalAt[k] = s.terminalAt[k]
             \/ /\ u.terminal[k] = None /\ u.terminalAt[k] = None
                /\ TerminalPrunable(s, k[1], k[2], s.terminalAt[k])
    BY PrunedFields
  <1>3. ASSUME NEW p \in Planes PROVE PlaneIsJustified(u, p)
    <2>1. CASE s.planes[p].by = None
      BY <1>1, <1>2, <2>1 DEF Justified, PlaneIsJustified
    <2>2. CASE s.planes[p].by # None
      <3> DEFINE k == <<s.planes[p].by, p>>
      <3>1. /\ k \in Whos \X Planes /\ k[2] = p
            /\ s.planes[p].epoch \in Nat
        BY <2>2 DEF AgentStates, Positions, PlaneStates
      <3>2. /\ s.terminal[k] = "activated" /\ s.terminalAt[k] = s.planes[p].epoch
            /\ <<p, s.planes[p].epoch>> \in s.evidence
        BY <1>1, <2>2 DEF Justified, PlaneIsJustified
      <3> HIDE DEF k
      <3>3. ~TerminalPrunable(s, k[1], k[2], s.terminalAt[k])
        BY <3>1, <3>2 DEF TerminalPrunable
      <3>4. u.terminal[k] = s.terminal[k] /\ u.terminalAt[k] = s.terminalAt[k]
        BY <1>2, <3>1, <3>3
      <3>5. <<p, s.planes[p].epoch>> \in u.evidence
        BY <1>2, <3>2 DEF Standing
      <3> QED
        BY <1>2, <2>2, <3>2, <3>4, <3>5 DEF PlaneIsJustified, k
    <2> QED
      BY <2>1, <2>2
  <1>4. SlotsFenced(u) /\ Placed(u)
    BY <1>1, <1>2 DEF SlotsFenced, Placed
  <1> QED
    BY <1>3, <1>4 DEF LedgerAt, Justified

(* What is closed stays closed, through the call and its pruning.          *)
LEMMA ClosedStaysClosed ==
  ASSUME NEW s \in AgentStates, NEW t \in AgentStates, Keeps(s, t), EpochsUp(s, t), Placed(t),
         NEW u, u \in Pruned(t), NEW k \in Whos \X Planes, StaysClosed(s, k)
  PROVE  StaysClosed(u, k)
  <1>0. /\ k[2] \in Planes
        /\ s.planes[k[2]].epoch \in Nat /\ t.planes[k[2]].epoch \in Nat
        /\ \A op \in Ops : op.epoch \in Nat
    BY EnvelopeTypes DEF AgentStates, Positions, PlaneStates, AllOps
  <1>1. StaysClosed(t, k)
    <2>1. CASE s.terminal[k] \in {"failed", "aborted"}
      <3>1. s.terminal[k] # None
        BY <2>1, NoneAssumption DEF Verdicts
      <3> QED
        BY <2>1, <3>1 DEF Keeps, VerdictsKept, StaysClosed
    <2>2. CASE IsPast(s, k)
      BY <1>0, <2>2 DEF IsPast, StaysClosed, EpochsUp
    <2> QED
      BY <2>1, <2>2 DEF StaysClosed
  <1>2. /\ u.planes = t.planes
        /\ \/ u.terminal[k] = t.terminal[k]
           \/ TerminalPrunable(t, k[1], k[2], t.terminalAt[k])
    BY PrunedFields
  <1>3. CASE TerminalPrunable(t, k[1], k[2], t.terminalAt[k])
    <2>1. t.terminalAt[k] # None /\ t.terminalAt[k] < t.planes[k[2]].epoch
      BY <1>3 DEF TerminalPrunable
    <2>2. EpochIs(k[1], t.terminalAt[k])
      BY <2>1 DEF Placed
    <2>3. IsPast(u, k)
      BY <1>2, <2>1, <2>2 DEF IsPast, EpochIs
    <2> QED
      BY <2>3 DEF StaysClosed
  <1>4. CASE u.terminal[k] = t.terminal[k]
    BY <1>1, <1>2, <1>4 DEF StaysClosed, IsPast
  <1> QED
    BY <1>2, <1>3, <1>4

-----------------------------------------------------------------------------
(* The clauses of assertInvariants.                                        *)

(* Where the planes are on record, arriving is standing there by the       *)
(* candidate's hand: a plane nobody moved is at no candidate's epoch.      *)
LEMMA ArrivedIsStanding ==
  ASSUME NEW s, Justified(s), NEW candidate, NEW epoch \in Epochs \cup {None},
         CandidateArrived(s, candidate, epoch)
  PROVE  \A p \in Planes : s.planes[p].epoch = epoch /\ s.planes[p].by = Who(candidate)
  <1>1. epoch \in Epochs /\ \A p \in Planes : s.planes[p].epoch = epoch
    BY DEF CandidateArrived, PositionsReached
  <1>2. epoch # 0
    BY <1>1, EnvelopeTypes DEF Epochs
  <1> QED
    BY <1>1, <1>2 DEF CandidateArrived, Justified, PlaneIsJustified

(* The converse needs somebody standing there.                             *)
LEMMA StandingIsArrived ==
  ASSUME NEW s, NEW candidate, Who(candidate) # None, NEW epoch, epoch # None,
         \A p \in Planes : s.planes[p].epoch = epoch /\ s.planes[p].by = Who(candidate)
  PROVE  CandidateArrived(s, candidate, epoch)
  BY DEF CandidateArrived, PositionsReached

(* The epoch a candidate is expected at is an epoch, or there is none.     *)
LEMMA CandidateEpochsType ==
  ASSUME NEW s \in AgentStates, NEW name
  PROVE  CandidateEpochs(s, name) \in Epochs \cup {None}
  <1>1. s.journal # None => s.journal.op \in AllOps
    BY DEF AgentStates, Journals, AllOps
  <1> QED
    BY <1>1 DEF CandidateEpochs, AgentStates, Epochs

(* I6: the baseline changes to the candidate only, and does when it has    *)
(* arrived.                                                                *)
LEMMA BaselineClauseHolds ==
  ASSUME NEW s \in AgentStates, NEW t \in AgentStates, NEW u,
         Effect(s, t), u \in Pruned(t), Justified(s), Justified(u)
  PROVE  I6BaselineFromCandidate(s, u)
  <1> DEFINE c == s.pendingActivation
             e == CandidateEpochs(s, c.name)
  <1>1. /\ u.planes = t.planes /\ u.lastActivated = t.lastActivated
        /\ u.pendingActivation = t.pendingActivation
    BY PrunedFields
  <1>2. CASE Unsettled(s, t)
    BY <1>1, <1>2 DEF Unsettled, I6BaselineFromCandidate
  <1>3. CASE SettledNow(s, t) /\ t.planes = s.planes
    <2>1. c # None
      BY <1>3 DEF SettledNow
    <2>2. Who(c) # None
      BY <2>1, NoneAssumption DEF AgentStates, MaybeRecord, Records, Who, Whos
    <2>3. e \in Epochs \cup {None}
      BY CandidateEpochsType
    <2> HIDE DEF c, e
    <2>4. ASSUME CandidateArrived(u, c, e) PROVE u.lastActivated = c
      <3>1. /\ \A p \in Planes : u.planes[p].epoch = e /\ u.planes[p].by = Who(c)
            /\ e # None
        BY <2>3, <2>4, ArrivedIsStanding DEF CandidateArrived, PositionsReached
      <3>2. CandidateArrived(s, c, e)
        BY <1>1, <1>3, <2>2, <3>1, StandingIsArrived
      <3> QED
        BY <1>1, <1>3, <3>2 DEF SettledNow, HasArrived, c, e
    <2> QED
      BY <1>1, <1>3, <2>4 DEF I6BaselineFromCandidate, SettledNow, c, e
  <1> QED
    BY <1>2, <1>3 DEF Effect, Administers, MovesPlane, RefreshesPlane, Settled

(* I7: a verdict that is gone was prunable, and evidence goes only where   *)
(* no plane stands.                                                        *)
LEMMA RecordClauseHolds ==
  ASSUME NEW s \in AgentStates, NEW t \in AgentStates, NEW u, Keeps(s, t), u \in Pruned(t)
  PROVE  I7VerdictsAndEvidenceKept(s, u)
  <1>1. DOMAIN s.terminal = Whos \X Planes
    BY DEF AgentStates, VerdictMaps
  <1>2. u.planes = t.planes /\ \A v \in t.evidence : v \in Standing(t) => v \in u.evidence
    BY PrunedFields
  <1>3. \A v \in s.evidence \cap Standing(u) : v \in u.evidence
    BY <1>2 DEF Keeps, Standing
  <1>4. ASSUME NEW k \in Whos \X Planes, s.terminal[k] # None
        PROVE  \/ u.terminal[k] = s.terminal[k]
               \/ /\ u.terminal[k] = None
                  /\ TerminalPrunable(u, k[1], k[2], s.terminalAt[k])
    <2>1. t.terminal[k] = s.terminal[k] /\ t.terminalAt[k] = s.terminalAt[k]
      BY <1>4 DEF Keeps, VerdictsKept
    <2>2. \/ u.terminal[k] = t.terminal[k]
          \/ /\ u.terminal[k] = None
             /\ TerminalPrunable(u, k[1], k[2], t.terminalAt[k])
      BY PrunedFields
    <2> QED
      BY <2>1, <2>2
  <1> QED
    BY <1>1, <1>3, <1>4 DEF I7VerdictsAndEvidenceKept

(* Whatever call comes, no clause is broken but the two about a leader     *)
(* that did not fence.                                                     *)
LEMMA OutcomesKeepTheClauses ==
  ASSUME NEW s \in AgentStates, LedgerAt(s), NEW t \in AgentStates, Effect(s, t),
         NEW u, u \in Pruned(t)
  PROVE  BrokenClauses(s, u) \subseteq {"I1 holder", "I5"}
  <1>1. LedgerAt(t) /\ Keeps(s, t) /\ EpochsUp(s, t)
    BY EffectKeepsLedger
  <1>2. LedgerAt(u) /\ Justified(s) /\ Justified(u) /\ SlotsFenced(u)
    BY <1>1, PrunedKeepsLedger DEF LedgerAt
  <1>3. u.planes = t.planes /\ u.max = t.max /\ u.journal = t.journal
    BY PrunedFields
  <1>4. I1SlotsNotAbove(u)
    BY <1>2 DEF SlotsFenced, I1SlotsNotAbove
  <1>5. I3NoRewind(s, u)
    BY <1>1, <1>3 DEF I3NoRewind, Keeps, EpochsUp, JournalKept
  <1>6. I6BaselineFromCandidate(s, u)
    BY <1>2, BaselineClauseHolds
  <1>7. I7VerdictsAndEvidenceKept(s, u)
    BY <1>1, RecordClauseHolds
  <1> QED
    BY <1>4, <1>5, <1>6, <1>7 DEF BrokenClauses, Breaks

-----------------------------------------------------------------------------
(* The hold and the records a call leaves: what a call of an operation     *)
(* does to them it does under a current token, and for that operation.     *)

RecordsBy(s, t, op) ==
  /\ \/ t.max = s.max
     \/ t.max = op.token /\ IsLeader(s, op.token)
  /\ \/ t.holder \in {s.holder, None}
     \/ t.holder = RecordOf(op) /\ IsLeader(s, op.token)
  /\ \/ t.lastPublishIntent = s.lastPublishIntent
     \/ t.lastPublishIntent = RecordOf(op) /\ IsLeader(s, op.token)
  /\ t.lastActivated \in {s.lastActivated, None, s.pendingActivation}
  /\ \/ t.pendingActivation \in {s.pendingActivation, None}
     \/ t.pendingActivation = RecordOf(op) /\ IsLeader(s, op.token)
SameRecords(s, t) ==
  /\ t.max = s.max /\ t.holder = s.holder /\ t.lastPublishIntent = s.lastPublishIntent
  /\ t.lastActivated = s.lastActivated /\ t.pendingActivation = s.pendingActivation
(* Ending a hold and settling a candidate.                                 *)
RecordsDropped(s, t) ==
  /\ t.max = s.max /\ t.holder \in {s.holder, None}
  /\ t.lastPublishIntent = s.lastPublishIntent
  /\ t.lastActivated \in {s.lastActivated, None, s.pendingActivation}
  /\ t.pendingActivation \in {s.pendingActivation, None}

(* What a call adds: slots, reserve records and a journal are added only   *)
(* for its operation, or not at all.                                       *)
AddsNothing(s, t) ==
  /\ SlotsOnlyFreed(s, t)
  /\ \A c \in t.completed : c \in s.completed \/ c.step # "reserve"
  /\ t.journal # None => s.journal # None /\ t.journal.op = s.journal.op
AddsFor(s, t, op) ==
  /\ \A p \in Planes, e \in Epochs :
       t.reservations[p][e] \in {None, s.reservations[p][e]} \/ t.reservations[p][e].op = op
  /\ \A c \in t.completed : c \in s.completed \/ c.op = op \/ c.step # "reserve"
  /\ t.journal # None =>
       \/ s.journal # None /\ t.journal.op = s.journal.op
       \/ t.journal.op = op

(* Ending a hold.                                                          *)
LEMMA HoldEndedDrops ==
  ASSUME NEW s \in AgentStates, NEW who
  PROVE  RecordsDropped(s, HoldEnded(s, who)) /\ AddsNothing(s, HoldEnded(s, who))
  BY DEF HoldEnded, AgentStates, RecordsDropped, AddsNothing, SlotsOnlyFreed

(* Settling a candidate.                                                   *)
LEMMA FinalizeCandidateDrops ==
  ASSUME NEW s \in AgentStates, NEW name
  PROVE  /\ RecordsDropped(s, FinalizeCandidate(s, name))
         /\ AddsNothing(s, FinalizeCandidate(s, name))
  <1> DEFINE c == s.pendingActivation
             last == IF CandidateArrived(s, c, CandidateEpochs(s, name)) THEN c
                     ELSE IF PositionsReached(s, CandidateEpochs(s, name)) THEN None
                     ELSE s.lastActivated
             t == [s EXCEPT !.lastActivated = last, !.pendingActivation = None,
                            !.pendingEpochs = None]
  <1>1. FinalizeCandidate(s, name) \in {s, t}
    BY DEF FinalizeCandidate
  <1>2. last \in {s.lastActivated, None, s.pendingActivation}
    OBVIOUS
  <1> HIDE DEF last
  <1>3. RecordsDropped(s, t) /\ AddsNothing(s, t)
    BY <1>2 DEF AgentStates, RecordsDropped, AddsNothing, SlotsOnlyFreed
  <1>4. RecordsDropped(s, s) /\ AddsNothing(s, s)
    BY DEF RecordsDropped, AddsNothing, SlotsOnlyFreed
  <1> QED
    BY <1>1, <1>3, <1>4

(* What drops, drops for any operation.                                    *)
LEMMA DroppedIsBy ==
  ASSUME NEW s, NEW t, NEW op, RecordsDropped(s, t)
  PROVE  RecordsBy(s, t, op)
  BY DEF RecordsDropped, RecordsBy

(* The current token and a step in the ledger.                             *)
LEMMA RaisedRecords ==
  ASSUME NEW s \in AgentStates, NEW op, IsLeader(s, op.token)
  PROVE  /\ RecordsBy(s, Raised(s, op), op) /\ AddsNothing(s, Raised(s, op))
         /\ Raised(s, op).max = op.token
         /\ Raised(s, op).holder = s.holder
         /\ Raised(s, op).lastPublishIntent = s.lastPublishIntent
         /\ Raised(s, op).lastActivated = s.lastActivated
         /\ Raised(s, op).pendingActivation = s.pendingActivation
  BY DEF Raised, AgentStates, RecordsBy, AddsNothing, SlotsOnlyFreed

(* A step in the ledger: only a reservation is one that opens something.   *)
LEMMA RecordedAdds ==
  ASSUME NEW s \in AgentStates, NEW op, NEW p, NEW step
  PROVE  /\ SameRecords(s, Recorded(s, op, p, step))
         /\ step # "reserve" => AddsNothing(s, Recorded(s, op, p, step))
  BY DEF Recorded, AgentStates, SameRecords, AddsNothing, SlotsOnlyFreed

(* Writing a verdict frees a slot and adds nothing.                        *)
LEMMA ClosedAdds ==
  ASSUME NEW s \in AgentStates, NEW op, NEW p, NEW verdict
  PROVE  /\ SameRecords(s, Closed(s, op, p, verdict))
         /\ AddsNothing(s, Closed(s, op, p, verdict))
  <1> DEFINE slots == SlotsReleased(s, op, {p})
             verdicts == [s.terminal EXCEPT ![<<Who(op), p>>] = verdict]
             places == [s.terminalAt EXCEPT ![<<Who(op), p>>] = op.epoch]
             t == [s EXCEPT !.reservations = slots, !.terminal = verdicts,
                            !.terminalAt = places]
  <1>1. \A q \in Planes, e \in Epochs : slots[q][e] \in {None, s.reservations[q][e]}
    BY DEF SlotsReleased
  <1> HIDE DEF slots, verdicts, places
  <1>2. /\ SameRecords(s, t) /\ t.reservations = slots /\ t.completed = s.completed
        /\ t.journal = s.journal
    BY DEF AgentStates, SameRecords
  <1>3. t = Closed(s, op, p, verdict)
    BY DEF Closed, slots, verdicts, places
  <1> HIDE DEF t
  <1> QED
    BY <1>1, <1>2, <1>3 DEF AddsNothing, SlotsOnlyFreed

(* Changing one after the other.                                           *)
LEMMA RecordsFollow ==
  ASSUME NEW s, NEW t, NEW u, NEW op
  PROVE  /\ RecordsBy(s, t, op) /\ SameRecords(t, u) => RecordsBy(s, u, op)
         /\ SameRecords(s, t) /\ RecordsBy(t, u, op) => RecordsBy(s, u, op)
         /\ AddsNothing(s, t) /\ AddsNothing(t, u) => AddsNothing(s, u)
         /\ AddsNothing(s, t) /\ AddsFor(t, u, op) => AddsFor(s, u, op)
         /\ AddsFor(s, t, op) /\ AddsNothing(t, u) => AddsFor(s, u, op)
         /\ AddsNothing(s, t) => AddsFor(s, t, op)
  <1>1. RecordsBy(s, t, op) /\ SameRecords(t, u) => RecordsBy(s, u, op)
    BY DEF RecordsBy, SameRecords
  <1>2. SameRecords(s, t) /\ RecordsBy(t, u, op) => RecordsBy(s, u, op)
    BY DEF RecordsBy, SameRecords, IsLeader
  <1>3. AddsNothing(s, t) /\ AddsNothing(t, u) => AddsNothing(s, u)
    <2> SUFFICES ASSUME AddsNothing(s, t), AddsNothing(t, u) PROVE AddsNothing(s, u)
      OBVIOUS
    <2>1. SlotsOnlyFreed(s, u)
      BY DEF AddsNothing, SlotsOnlyFreed
    <2> QED
      BY <2>1 DEF AddsNothing
  <1>4. AddsNothing(s, t) /\ AddsFor(t, u, op) => AddsFor(s, u, op)
    BY DEF AddsNothing, AddsFor, SlotsOnlyFreed
  <1>5. AddsFor(s, t, op) /\ AddsNothing(t, u) => AddsFor(s, u, op)
    BY DEF AddsNothing, AddsFor, SlotsOnlyFreed
  <1>6. AddsNothing(s, t) => AddsFor(s, t, op)
    BY DEF AddsNothing, AddsFor, SlotsOnlyFreed
  <1> QED
    BY <1>1, <1>2, <1>3, <1>4, <1>5, <1>6

(* supersede drops the hold and settles the candidate.                     *)
LEMMA SupersedeDrops ==
  ASSUME NEW s \in AgentStates, NEW holder
  PROVE  LET t == Supersede(s, holder) IN
         /\ RecordsDropped(s, t) /\ AddsNothing(s, t)
         /\ s.holder # None /\ Who(s.holder) = Who(holder) => t.holder = None
  <1> DEFINE j == IF Unfinished(s.journal) /\ s.journal.op.name = holder.name
                  THEN ClosedEntry(s.journal, "superseded") ELSE s.journal
             slots == SlotsFreed(s, Who(holder), holder.epoch)
             c == [s EXCEPT !.reservations = slots, !.journal = j]
             f == FinalizeCandidate(c, holder.name)
             t == HoldEnded(f, Who(holder))
  <1>1. c = SlotsAndJournalClosed(s, holder)
    BY DEF SlotsAndJournalClosed
  <1>2. c \in AgentStates /\ f \in AgentStates
    BY <1>1, SlotsAndJournalClosedType, FinalizeCandidateType
  <1>3. \A p \in Planes, e \in Epochs : slots[p][e] \in {None, s.reservations[p][e]}
    BY DEF SlotsFreed
  <1>4. j # None => s.journal # None /\ j.op = s.journal.op
    BY NoneAssumption DEF ClosedEntry, Unfinished, AgentStates, Journals
  <1> HIDE DEF slots, j
  <1>5. /\ SameRecords(s, c) /\ c.reservations = slots /\ c.journal = j
        /\ c.completed = s.completed
    BY DEF AgentStates, SameRecords
  <1> HIDE DEF c
  <1>6. AddsNothing(s, c)
    BY <1>3, <1>4, <1>5 DEF AddsNothing, SlotsOnlyFreed
  <1>7. /\ RecordsDropped(c, f) /\ AddsNothing(c, f) /\ f.holder = c.holder
    BY <1>2, FinalizeCandidateDrops, FinalizeCandidateSettles
  <1> HIDE DEF f
  <1>8. /\ t.lastActivated = f.lastActivated /\ t.max = f.max
        /\ t.holder = IF f.holder # None /\ Who(f.holder) = Who(holder) THEN None ELSE f.holder
        /\ t.lastPublishIntent = f.lastPublishIntent
        /\ t.pendingActivation = f.pendingActivation
        /\ AddsNothing(f, t)
    BY <1>2, HoldEndedDrops DEF HoldEnded, AgentStates
  <1>9. t = Supersede(s, holder)
    BY <1>1 DEF Supersede, t, f
  <1> HIDE DEF t
  <1>10. AddsNothing(s, t)
    BY <1>6, <1>7, <1>8, RecordsFollow
  <1>11. RecordsDropped(s, t)
    BY <1>5, <1>7, <1>8 DEF RecordsDropped, SameRecords
  <1>12. s.holder # None /\ Who(s.holder) = Who(holder) => t.holder = None
    BY <1>5, <1>7, <1>8 DEF SameRecords
  <1> QED
    BY <1>9, <1>10, <1>11, <1>12

(* abort and fail.                                                         *)
LEMMA FinalizeRecords ==
  ASSUME NEW s \in AgentStates, NEW op \in AllOps, NEW p, NEW verdict,
         NEW t \in Finalize(s, op, p, verdict)
  PROVE  RecordsBy(s, t, op) /\ AddsNothing(s, t)
  <1> DEFINE r == Raised(s, op)
  <1>1. IsLeader(s, op.token) /\ t \in {r, Closed(r, op, p, verdict)}
    BY DEF Finalize
  <1>2. r \in AgentStates /\ RecordsBy(s, r, op) /\ AddsNothing(s, r)
    BY <1>1, RaisedType, RaisedRecords
  <1> HIDE DEF r
  <1>3. SameRecords(r, Closed(r, op, p, verdict)) /\ AddsNothing(r, Closed(r, op, p, verdict))
    BY <1>2, ClosedAdds
  <1> QED
    BY <1>1, <1>2, <1>3, RecordsFollow

(* The calls on an operation that name no plane and take no slot.          *)
LEMMA AdministrationRecords ==
  ASSUME NEW s \in AgentStates, NEW op \in Ops, NEW how, NEW t,
         \/ t \in RecordPublishIntent(s, op)
         \/ t \in CloseJournal(s, op, how)
         \/ t \in ReleaseHolderSlots(s, op)
         \/ t \in ReleaseStaleSlots(s, op)
         \/ t \in ReclaimOperation(s, op)
  PROVE  RecordsBy(s, t, op) /\ AddsNothing(s, t)
  <1>0. RecordsBy(s, s, op) /\ AddsNothing(s, s)
    BY DEF RecordsBy, AddsNothing, SlotsOnlyFreed
  <1>1. CASE t \in RecordPublishIntent(s, op)
    BY <1>1 DEF RecordPublishIntent, AgentStates, RecordsBy, AddsNothing, SlotsOnlyFreed
  <1>2. CASE t \in CloseJournal(s, op, how)
    <2> DEFINE j == ClosedEntry(s.journal, how)
    <2>1. t = s \/ (s.journal # None /\ t = [s EXCEPT !.journal = j])
      BY <1>2 DEF CloseJournal, OwnsJournal
    <2>2. s.journal # None => j.op = s.journal.op
      BY DEF ClosedEntry, AgentStates, Journals
    <2> HIDE DEF j
    <2> QED
      BY <1>0, <2>1, <2>2 DEF AgentStates, RecordsBy, AddsNothing, SlotsOnlyFreed
  <1>3. CASE t \in ReleaseHolderSlots(s, op)
    <2> DEFINE slots == SlotsFreed(s, Who(op), s.holder.epoch)
    <2>1. \A p \in Planes, d \in Epochs : slots[p][d] \in {None, s.reservations[p][d]}
      BY DEF SlotsFreed
    <2>2. t = s \/ t = [s EXCEPT !.reservations = slots, !.holder = None]
      BY <1>3 DEF ReleaseHolderSlots
    <2> HIDE DEF slots
    <2> QED
      BY <1>0, <2>1, <2>2 DEF AgentStates, RecordsBy, AddsNothing, SlotsOnlyFreed
  <1>4. CASE t \in ReleaseStaleSlots(s, op)
    <2> DEFINE slots == SlotsFreed(s, Who(op), op.epoch)
    <2>1. \A p \in Planes, d \in Epochs : slots[p][d] \in {None, s.reservations[p][d]}
      BY DEF SlotsFreed
    <2>2. t = s \/ t = [s EXCEPT !.reservations = slots]
      BY <1>4 DEF ReleaseStaleSlots
    <2> HIDE DEF slots
    <2> QED
      BY <1>0, <2>1, <2>2 DEF AgentStates, RecordsBy, AddsNothing, SlotsOnlyFreed
  <1>5. CASE t \in ReclaimOperation(s, op)
    BY <1>0, <1>5 DEF ReclaimOperation, AgentStates, RecordsBy, AddsNothing, SlotsOnlyFreed
  <1> QED
    BY <1>1, <1>2, <1>3, <1>4, <1>5

(* releaseIdleHolder drops the hold.                                       *)
LEMMA ReleaseIdleHolderRecords ==
  ASSUME NEW s \in AgentStates, NEW t \in ReleaseIdleHolder(s)
  PROVE  RecordsDropped(s, t) /\ AddsNothing(s, t)
  <1> DEFINE slots == [p \in Planes |-> [s.reservations[p] EXCEPT ![s.holder.epoch] = None]]
  <1>1. t = s \/ t = [s EXCEPT !.reservations = slots, !.holder = None]
    BY DEF ReleaseIdleHolder, AgentStates, Reservations
  <1>2. \A p \in Planes, e \in Epochs : slots[p][e] \in {None, s.reservations[p][e]}
    BY DEF AgentStates, Reservations
  <1> HIDE DEF slots
  <1> QED
    BY <1>1, <1>2 DEF AgentStates, RecordsDropped, AddsNothing, SlotsOnlyFreed

(* finishOperation settles the candidate and ends the hold.                *)
LEMMA FinishOperationRecords ==
  ASSUME NEW s \in AgentStates, NEW op, NEW ps, NEW t \in FinishOperation(s, op, ps)
  PROVE  RecordsDropped(s, t) /\ AddsNothing(s, t)
  <1> DEFINE f == FinalizeCandidate(s, op.name)
             slots == SlotsReleased(f, op, ps)
             r == [f EXCEPT !.reservations = slots]
  <1>1. f \in AgentStates /\ RecordsDropped(s, f) /\ AddsNothing(s, f)
    BY FinalizeCandidateType, FinalizeCandidateDrops
  <1>2. t = HoldEnded(r, Who(op))
    BY DEF FinishOperation
  <1> HIDE DEF f
  <1>3. slots \in Reservations
        /\ \A p \in Planes, e \in Epochs : slots[p][e] \in {None, f.reservations[p][e]}
    BY <1>1, SlotsReleasedType DEF SlotsReleased
  <1> HIDE DEF slots
  <1>4. /\ SameRecords(f, r) /\ r.reservations = slots /\ r.completed = f.completed
        /\ r.journal = f.journal /\ r \in AgentStates
    BY <1>1, <1>3 DEF AgentStates, SameRecords
  <1> HIDE DEF r
  <1>5. AddsNothing(f, r)
    BY <1>3, <1>4 DEF AddsNothing, SlotsOnlyFreed
  <1>6. /\ t.lastActivated = r.lastActivated /\ t.max = r.max
        /\ t.holder \in {r.holder, None}
        /\ t.lastPublishIntent = r.lastPublishIntent
        /\ t.pendingActivation = r.pendingActivation
        /\ AddsNothing(r, t)
    BY <1>2, <1>4, HoldEndedDrops DEF HoldEnded, AgentStates
  <1>7. AddsNothing(s, t)
    BY <1>1, <1>5, <1>6, RecordsFollow
  <1>8. RecordsDropped(s, t)
    BY <1>1, <1>4, <1>6 DEF RecordsDropped, SameRecords
  <1> QED
    BY <1>7, <1>8

(* stage takes a slot for its operation.                                   *)
LEMMA StageRecords ==
  ASSUME NEW s \in AgentStates, NEW op \in AllOps, NEW p \in Planes, NEW t \in Stage(s, op, p)
  PROVE  RecordsBy(s, t, op) /\ AddsFor(s, t, op)
  <1> DEFINE r == Raised(s, op)
             a == Acquired(r, op, p, TRUE)
  <1>1. IsLeader(s, op.token) /\ t \in {r, Recorded(a, op, p, "stage")}
    BY DEF Stage, Replayed, Fresh, Admitted
  <1>2. r \in AgentStates /\ RecordsBy(s, r, op) /\ AddsNothing(s, r)
    BY <1>1, RaisedType, RaisedRecords
  <1> HIDE DEF r
  <1>3. a \in AgentStates
    BY <1>2, AcquiredType
  <1>4. SameRecords(r, a) /\ a.completed = r.completed /\ a.journal = r.journal
    BY <1>2 DEF Acquired, AgentStates, SameRecords
  <1>5. /\ a.reservations[p][op.epoch].op = op
        /\ \A q \in Planes, e \in Epochs : q # p \/ e # op.epoch =>
             a.reservations[q][e] = r.reservations[q][e]
    BY <1>2, EnvelopeTypes DEF Acquired, AgentStates, Reservations
  <1> HIDE DEF a
  <1>6. AddsFor(r, a, op)
    BY <1>4, <1>5 DEF AddsFor
  <1>7. /\ SameRecords(a, Recorded(a, op, p, "stage"))
        /\ AddsNothing(a, Recorded(a, op, p, "stage"))
    BY <1>3, RecordedAdds
  <1> QED
    BY <1>1, <1>2, <1>4, <1>6, <1>7, RecordsFollow

(* commit makes its operation the candidate, and takes nothing.            *)
LEMMA CommitRecords ==
  ASSUME NEW s \in AgentStates, NEW op \in Ops, NEW p \in Planes, NEW proof,
         NEW t \in Commit(s, op, p, proof)
  PROVE  RecordsBy(s, t, op) /\ AddsNothing(s, t)
  <1> DEFINE r == Raised(s, op)
             planes == [r.planes EXCEPT
                          ![p] = [epoch |-> op.epoch, rev |-> op.rev, by |-> Who(op)]]
             evidence == r.evidence \cup {<<p, op.epoch>>}
             epochs == IF s.holder # None /\ Who(s.holder) = Who(op)
                       THEN s.holder.epoch ELSE r.pendingEpochs
             moved == [r EXCEPT !.planes = planes, !.evidence = evidence,
                                !.pendingEpochs = epochs,
                                !.pendingActivation = RecordOf(op)]
             c == Closed(moved, op, p, "activated")
  <1>0. op \in AllOps
    BY DEF AllOps
  <1>1. /\ IsLeader(s, op.token)
        /\ t \in {r, Recorded(r, op, p, "commit"), Recorded(c, op, p, "commit")}
    BY DEF Commit, Replayed, Fresh, Admitted
  <1>2. r \in AgentStates /\ RecordsBy(s, r, op) /\ AddsNothing(s, r)
    BY <1>0, <1>1, RaisedType, RaisedRecords
  <1>3. /\ planes \in Positions /\ evidence \in Evidence
        /\ epochs \in Epochs \cup {None} /\ RecordOf(op) \in MaybeRecord
    <2> HIDE DEF r
    <2>1. planes \in Positions
      BY <1>0, <1>2, EnvelopeTypes DEF AgentStates, Positions, PlaneStates
    <2>2. evidence \in Evidence
      BY <1>0, <1>2, EnvelopeTypes DEF AgentStates, Evidence
    <2>3. epochs \in Epochs \cup {None}
      BY <1>2 DEF AgentStates, MaybeRecord, Records
    <2>4. RecordOf(op) \in MaybeRecord
      BY <1>0, EnvelopeTypes DEF MaybeRecord
    <2> QED
      BY <2>1, <2>2, <2>3, <2>4
  <1> HIDE DEF planes, evidence, epochs
  <1>4. /\ r.max = op.token /\ r.holder = s.holder
        /\ r.lastPublishIntent = s.lastPublishIntent /\ r.lastActivated = s.lastActivated
    BY <1>1, RaisedRecords
  <1> HIDE DEF r
  <1>5. /\ moved \in AgentStates
        /\ moved.max = r.max /\ moved.holder = r.holder
        /\ moved.lastPublishIntent = r.lastPublishIntent
        /\ moved.lastActivated = r.lastActivated /\ moved.pendingActivation = RecordOf(op)
        /\ moved.reservations = r.reservations /\ moved.completed = r.completed
        /\ moved.journal = r.journal
    BY <1>2, <1>3 DEF AgentStates
  <1> HIDE DEF moved
  <1>6. RecordsBy(s, moved, op)
    BY <1>1, <1>4, <1>5 DEF RecordsBy
  <1>7. AddsNothing(r, moved)
    BY <1>5 DEF AddsNothing, SlotsOnlyFreed
  <1>8. SameRecords(moved, c) /\ AddsNothing(moved, c) /\ c \in AgentStates
    BY <1>0, <1>5, ClosedAdds, ClosedType DEF Verdicts
  <1> HIDE DEF c
  <1>9. RecordsBy(s, c, op) /\ AddsNothing(s, c)
    BY <1>2, <1>6, <1>7, <1>8, RecordsFollow
  <1>10. CASE t = r
    BY <1>2, <1>10
  <1>11. CASE t = Recorded(r, op, p, "commit")
    <2>1. SameRecords(r, t) /\ AddsNothing(r, t)
      BY <1>2, <1>11, RecordedAdds
    <2> QED
      BY <1>2, <2>1, RecordsFollow
  <1>12. CASE t = Recorded(c, op, p, "commit")
    <2>1. SameRecords(c, t) /\ AddsNothing(c, t)
      BY <1>8, <1>12, RecordedAdds
    <2> QED
      BY <1>9, <2>1, RecordsFollow
  <1> QED
    BY <1>1, <1>10, <1>11, <1>12

(* reserveAll's clean-up drops the hold and settles the candidate.         *)
LEMMA StaleClosedDrops ==
  ASSUME NEW s \in AgentStates, NEW op
  PROVE  RecordsDropped(s, StaleClosed(s, op)) /\ AddsNothing(s, StaleClosed(s, op))
  <1> DEFINE verdicts == [k \in DOMAIN s.terminal |->
                            IF k[1] = Who(s.journal.op) /\ s.terminal[k] = None
                            THEN "aborted" ELSE s.terminal[k]]
             r == [s EXCEPT !.terminal = verdicts]
             t == Supersede(r, RecordOf(s.journal.op))
  <1>1. verdicts \in VerdictMaps
    BY DEF AgentStates, VerdictMaps, Verdicts
  <1>2. StaleClosed(s, op) \in {s, t}
    BY DEF StaleClosed
  <1> HIDE DEF verdicts
  <1>3. /\ r \in AgentStates /\ SameRecords(s, r) /\ r.reservations = s.reservations
        /\ r.completed = s.completed /\ r.journal = s.journal
    BY <1>1 DEF AgentStates, SameRecords
  <1> HIDE DEF r
  <1>4. RecordsDropped(r, t) /\ AddsNothing(r, t)
    BY <1>3, SupersedeDrops
  <1> HIDE DEF t
  <1>5. RecordsDropped(s, t) /\ AddsNothing(s, t)
    BY <1>3, <1>4 DEF RecordsDropped, SameRecords, AddsNothing, SlotsOnlyFreed
  <1>6. RecordsDropped(s, s) /\ AddsNothing(s, s)
    BY DEF RecordsDropped, AddsNothing, SlotsOnlyFreed
  <1> QED
    BY <1>2, <1>5, <1>6

(* reserveAll takes slots, the hold and the journal for its operation.     *)
LEMMA ReserveAllRecords ==
  ASSUME NEW s \in AgentStates, NEW op \in Ops, NEW t \in ReserveAll(s, op)
  PROVE  /\ RecordsBy(s, t, op) /\ AddsFor(s, t, op)
         /\ t.max = op.token /\ t.journal # None
  <1> DEFINE c == StaleClosed(s, op)
             r == Raised(c, op)
             fresh == {p \in Planes : ~Replayed(c, op, p, "reserve")}
             slots == [p \in Planes |->
                         IF p \in fresh THEN Acquired(c, op, p, FALSE).reservations[p]
                         ELSE r.reservations[p]]
             entries == r.completed \cup
                          {[op |-> op, plane |-> p, step |-> "reserve"] : p \in fresh}
             u == [r EXCEPT !.reservations = slots, !.completed = entries]
             j == IF OwnsJournal(u.journal, op) THEN u.journal ELSE Opening(op, NextSeq(c))
  <1>0. op \in AllOps
    BY DEF AllOps
  <1>1. c \in AgentStates /\ c.max = s.max /\ RecordsDropped(s, c) /\ AddsNothing(s, c)
    BY StaleClosedType, StaleClosedEffect, StaleClosedDrops
  <1>2. /\ IsLeader(s, op.token)
        /\ t = [u EXCEPT !.holder = RecordOf(op), !.journal = j]
    BY DEF ReserveAll, ReserveEach
  <1> HIDE DEF c
  <1>3. IsLeader(c, op.token)
    BY <1>1, <1>2 DEF IsLeader
  <1>4. /\ r \in AgentStates /\ r.max = op.token /\ r.holder = c.holder
        /\ r.lastPublishIntent = c.lastPublishIntent /\ r.lastActivated = c.lastActivated
        /\ r.pendingActivation = c.pendingActivation /\ r.completed = c.completed
        /\ r.journal = c.journal /\ r.reservations = c.reservations
    BY <1>0, <1>1, <1>3, RaisedType DEF Raised, AgentStates
  <1>5. ASSUME NEW p \in Planes, NEW e \in Epochs
        PROVE  slots[p][e] = c.reservations[p][e] \/ slots[p][e].op = op
    <2>1. /\ Acquired(c, op, p, FALSE).reservations[p][op.epoch].op = op
          /\ e # op.epoch => Acquired(c, op, p, FALSE).reservations[p][e] = c.reservations[p][e]
      BY <1>0, <1>1, EnvelopeTypes DEF Acquired, AgentStates, Reservations
    <2> QED
      BY <1>4, <2>1
  <1>6. \A d \in entries : d \in c.completed \/ d.op = op
    BY <1>4
  <1> HIDE DEF r, slots, entries, fresh
  <1>7. /\ u.max = r.max /\ u.lastPublishIntent = r.lastPublishIntent
        /\ u.lastActivated = r.lastActivated /\ u.pendingActivation = r.pendingActivation
        /\ u.reservations = slots /\ u.completed = entries /\ u.journal = r.journal
        /\ DOMAIN u = DOMAIN r
    BY <1>4 DEF AgentStates
  <1>8. DOMAIN u = DOMAIN s
    BY <1>4, <1>7 DEF AgentStates
  <1>9. /\ j # None
        /\ j.op = op \/ (c.journal # None /\ j.op = c.journal.op)
    <2>1. Opening(op, NextSeq(c)) \in Journals /\ Opening(op, NextSeq(c)).op = op
      BY <1>1, OpeningType DEF Opening
    <2> QED
      BY <1>4, <1>7, <2>1, NoneAssumption DEF OwnsJournal
  <1> HIDE DEF u, j
  <1>10. /\ t.max = u.max /\ t.lastPublishIntent = u.lastPublishIntent
         /\ t.lastActivated = u.lastActivated /\ t.pendingActivation = u.pendingActivation
         /\ t.reservations = u.reservations /\ t.completed = u.completed /\ t.journal = j
         /\ t.holder = RecordOf(op)
    BY <1>2, <1>8 DEF AgentStates
  <1>11. AddsFor(c, t, op)
    BY <1>5, <1>6, <1>7, <1>9, <1>10 DEF AddsFor
  <1>12. AddsFor(s, t, op)
    BY <1>1, <1>11, RecordsFollow
  <1>13. RecordsBy(s, t, op)
    BY <1>1, <1>2, <1>4, <1>7, <1>10 DEF RecordsBy, RecordsDropped
  <1> QED
    BY <1>4, <1>7, <1>9, <1>10, <1>12, <1>13

(* writeJournal writes the entry's operation.                              *)
LEMMA WriteJournalRecords ==
  ASSUME NEW s \in AgentStates, NEW entry, NEW t \in WriteJournal(s, entry)
  PROVE  SameRecords(s, t) /\ AddsFor(s, t, entry.op) /\ t.journal = entry
  <1>1. t = [s EXCEPT !.journal = entry]
    BY DEF WriteJournal
  <1> QED
    BY <1>1 DEF AgentStates, SameRecords, AddsFor

(* applyHealth takes nothing.                                              *)
LEMMA ApplyHealthRecords ==
  ASSUME NEW s \in AgentStates, NEW op \in AllOps, NEW p \in Planes,
         NEW t \in ApplyHealth(s, op, p)
  PROVE  /\ RecordsBy(s, t, op) /\ AddsNothing(s, t)
         /\ t.pendingActivation = s.pendingActivation
  <1> DEFINE r == Raised(s, op)
             planes == [r.planes EXCEPT ![p].rev = op.rev]
             m == [r EXCEPT !.planes = planes]
  <1>1. IsLeader(s, op.token) /\ t \in {r, Recorded(m, op, p, "health")}
    BY DEF ApplyHealth, Replayed, Fresh, Admitted
  <1>2. /\ r \in AgentStates /\ RecordsBy(s, r, op) /\ AddsNothing(s, r)
        /\ r.pendingActivation = s.pendingActivation
    BY <1>1, RaisedType, RaisedRecords
  <1> HIDE DEF r
  <1>3. planes \in Positions
    BY <1>2, EnvelopeTypes DEF AgentStates, Positions, PlaneStates
  <1> HIDE DEF planes
  <1>4. m \in AgentStates /\ SameRecords(r, m) /\ AddsNothing(r, m)
    BY <1>2, <1>3 DEF AgentStates, SameRecords, AddsNothing, SlotsOnlyFreed
  <1> HIDE DEF m
  <1>5. SameRecords(m, Recorded(m, op, p, "health")) /\ AddsNothing(m, Recorded(m, op, p, "health"))
    BY <1>4, RecordedAdds
  <1>6. t.pendingActivation = s.pendingActivation
    BY <1>1, <1>2, <1>4, <1>5 DEF SameRecords
  <1> QED
    BY <1>1, <1>2, <1>4, <1>5, <1>6, RecordsFollow

(* A fence drops the hold of an older token.                               *)
LEMMA FenceRecords ==
  ASSUME NEW s \in AgentStates, NEW token \in Nat, NEW t \in Fence(s, token)
  PROVE  LET r == [s EXCEPT !.max = token] IN
         /\ RecordsDropped(r, t) /\ AddsNothing(s, t)
         /\ s.holder # None /\ s.holder.token < token => t.holder = None
  <1> DEFINE r == [s EXCEPT !.max = token]
  <1>1. /\ t \in {r, Supersede(r, s.holder)}
        /\ s.holder # None /\ s.holder.token < token => t = Supersede(r, s.holder)
    BY DEF Fence
  <1>2. /\ r \in AgentStates /\ r.holder = s.holder /\ r.reservations = s.reservations
        /\ r.completed = s.completed /\ r.journal = s.journal
    BY DEF AgentStates
  <1> HIDE DEF r
  <1>3. RecordsDropped(r, r) /\ AddsNothing(r, r) /\ AddsNothing(s, r)
    BY <1>2 DEF RecordsDropped, AddsNothing, SlotsOnlyFreed
  <1>4. /\ RecordsDropped(r, Supersede(r, s.holder)) /\ AddsNothing(r, Supersede(r, s.holder))
        /\ s.holder # None => Supersede(r, s.holder).holder = None
    BY <1>2, SupersedeDrops
  <1>5. AddsNothing(s, t)
    BY <1>1, <1>3, <1>4, RecordsFollow
  <1> QED
    BY <1>1, <1>3, <1>4, <1>5 DEF r

(* Pruning touches neither the hold nor the records, and adds nothing.     *)
LEMMA PrunedRecords ==
  ASSUME NEW s \in AgentStates, NEW u \in Pruned(s)
  PROVE  SameRecords(s, u) /\ AddsNothing(s, u)
  <1> DEFINE gone(k) == TerminalPrunable(s, k[1], k[2], s.terminalAt[k])
             terminal == [k \in DOMAIN s.terminal |-> IF gone(k) THEN None ELSE s.terminal[k]]
             terminalAt == [k \in DOMAIN s.terminalAt |->
                              IF gone(k) THEN None ELSE s.terminalAt[k]]
             r == PruneTerminal(s)
  <1>1. PICK d, e : u = Trimmed(r, d, e)
    BY DEF Pruned
  <1>2. r = [s EXCEPT !.terminal = terminal, !.terminalAt = terminalAt]
    BY DEF PruneTerminal
  <1>3. r \in AgentStates
    BY PruneTerminalType
  <1> HIDE DEF terminal, terminalAt, gone, r
  <1>4. /\ r \in AgentStates /\ SameRecords(s, r) /\ r.reservations = s.reservations
        /\ r.completed = s.completed /\ r.journal = s.journal
    BY <1>2, <1>3 DEF AgentStates, SameRecords
  <1>5. /\ SameRecords(r, u) /\ u.reservations = r.reservations
        /\ u.completed \subseteq r.completed /\ u.journal = r.journal
    BY <1>1, <1>4 DEF AgentStates, Trimmed, SameRecords
  <1> QED
    BY <1>4, <1>5 DEF SameRecords, AddsNothing, SlotsOnlyFreed

-----------------------------------------------------------------------------
(* What a call tells: where the planes stand, which reservations and       *)
(* commits are in the ledger, what was activated, and the journal.         *)

(* No plane moves, nothing is reserved or committed, nothing is activated. *)
SamePlaces(s, t) ==
  \A p \in Planes : t.planes[p].epoch = s.planes[p].epoch /\ t.planes[p].by = s.planes[p].by
SameSteps(s, t) ==
  /\ s.completed \subseteq t.completed
  /\ \A c \in t.completed : c \in s.completed \/ c.step \notin {"reserve", "commit"}
NobodyActivated(s, t) ==
  \A k \in Whos \X Planes : t.terminal[k] = "activated" => s.terminal[k] = "activated"
NoNews(s, t) == SamePlaces(s, t) /\ SameSteps(s, t) /\ NobodyActivated(s, t)

(* No news twice is no news.                                               *)
LEMMA NoNewsCarries ==
  ASSUME NEW s, NEW t, NEW u, NoNews(s, t), NoNews(t, u)
  PROVE  NoNews(s, u)
  BY DEF NoNews, SamePlaces, SameSteps, NobodyActivated

(* The same record is no news.                                             *)
LEMMA SameLedgerIsNoNews ==
  ASSUME NEW s, NEW t, t.planes = s.planes, t.terminal = s.terminal, t.completed = s.completed
  PROVE  NoNews(s, t)
  BY DEF NoNews, SamePlaces, SameSteps, NobodyActivated

(* A token, and a step that neither reserves nor commits, are no news.     *)
LEMMA RaisedIsNoNews ==
  ASSUME NEW s \in AgentStates, NEW op
  PROVE  NoNews(s, Raised(s, op)) /\ Raised(s, op).journal = s.journal
  BY DEF Raised, AgentStates, NoNews, SamePlaces, SameSteps, NobodyActivated

(* A step in the ledger.                                                   *)
LEMMA RecordedSteps ==
  ASSUME NEW s \in AgentStates, NEW op, NEW p, NEW step
  PROVE  LET t == Recorded(s, op, p, step) IN
         /\ t.completed = s.completed \cup {[op |-> op, plane |-> p, step |-> step]}
         /\ t.planes = s.planes /\ t.terminal = s.terminal /\ t.journal = s.journal
         /\ step \notin {"reserve", "commit"} => NoNews(s, t)
  <1> DEFINE t == Recorded(s, op, p, step)
  <1>1. /\ t.completed = s.completed \cup {[op |-> op, plane |-> p, step |-> step]}
        /\ t.planes = s.planes /\ t.terminal = s.terminal /\ t.journal = s.journal
    BY DEF Recorded, AgentStates
  <1> HIDE DEF t
  <1>2. step \notin {"reserve", "commit"} => NoNews(s, t)
    BY <1>1 DEF NoNews, SamePlaces, SameSteps, NobodyActivated
  <1> QED
    BY <1>1, <1>2 DEF t

(* stage.                                                                  *)
LEMMA StageIsNoNews ==
  ASSUME NEW s \in AgentStates, NEW op \in AllOps, NEW p \in Planes, NEW t \in Stage(s, op, p)
  PROVE  NoNews(s, t) /\ t.journal = s.journal
  <1> DEFINE r == Raised(s, op)
             a == Acquired(r, op, p, TRUE)
  <1>1. IsLeader(s, op.token) /\ t \in {r, Recorded(a, op, p, "stage")}
    BY DEF Stage, Replayed, Fresh, Admitted
  <1>2. r \in AgentStates /\ NoNews(s, r) /\ r.journal = s.journal
    BY <1>1, RaisedType, RaisedIsNoNews
  <1> HIDE DEF r
  <1>3. a \in AgentStates
    BY <1>2, AcquiredType
  <1>4. /\ a.planes = r.planes /\ a.terminal = r.terminal /\ a.completed = r.completed
        /\ a.journal = r.journal
    BY <1>2 DEF Acquired, AgentStates
  <1> HIDE DEF a
  <1>5. /\ NoNews(a, Recorded(a, op, p, "stage"))
        /\ Recorded(a, op, p, "stage").journal = a.journal
    BY <1>3, RecordedSteps
  <1>6. NoNews(r, a)
    BY <1>4, SameLedgerIsNoNews
  <1> QED
    BY <1>1, <1>2, <1>4, <1>5, <1>6, NoNewsCarries

(* abort and fail: their verdict is not that a plane was activated.        *)
LEMMA FinalizeIsNoNews ==
  ASSUME NEW s \in AgentStates, NEW op \in AllOps, NEW p \in Planes,
         NEW verdict \in {"aborted", "failed"}, NEW t \in Finalize(s, op, p, verdict)
  PROVE  NoNews(s, t) /\ t.journal = s.journal
  <1> DEFINE r == Raised(s, op)
             d == Closed(r, op, p, verdict)
  <1>1. IsLeader(s, op.token) /\ t \in {r, d}
    BY DEF Finalize
  <1>2. r \in AgentStates /\ NoNews(s, r) /\ r.journal = s.journal
    BY <1>1, RaisedType, RaisedIsNoNews
  <1> HIDE DEF r
  <1>3. /\ d.planes = r.planes /\ d.journal = r.journal
        /\ \A k \in Whos \X Planes :
             d.terminal[k] = IF k = <<Who(op), p>> THEN verdict ELSE r.terminal[k]
    BY <1>2, ClosedFields DEF Verdicts
  <1>4. d.completed = r.completed
    BY <1>2 DEF Closed, AgentStates
  <1> HIDE DEF d
  <1>5. NoNews(r, d)
    BY <1>3, <1>4 DEF NoNews, SamePlaces, SameSteps, NobodyActivated
  <1> QED
    BY <1>1, <1>2, <1>3, <1>5, NoNewsCarries

(* A membership delta keeps the epoch of the plane and its author.         *)
LEMMA ApplyHealthIsNoNews ==
  ASSUME NEW s \in AgentStates, NEW op \in AllOps, NEW p \in Planes,
         NEW t \in ApplyHealth(s, op, p)
  PROVE  NoNews(s, t) /\ t.journal = s.journal
  <1> DEFINE r == Raised(s, op)
             planes == [r.planes EXCEPT ![p].rev = op.rev]
             m == [r EXCEPT !.planes = planes]
  <1>1. IsLeader(s, op.token) /\ t \in {r, Recorded(m, op, p, "health")}
    BY DEF ApplyHealth, Replayed, Fresh, Admitted
  <1>2. r \in AgentStates /\ NoNews(s, r) /\ r.journal = s.journal
    BY <1>1, RaisedType, RaisedIsNoNews
  <1> HIDE DEF r
  <1>3. /\ planes \in Positions
        /\ \A q \in Planes : planes[q].epoch = r.planes[q].epoch /\ planes[q].by = r.planes[q].by
    BY <1>2, EnvelopeTypes DEF AgentStates, Positions, PlaneStates
  <1> HIDE DEF planes
  <1>4. /\ m \in AgentStates /\ m.planes = planes /\ m.terminal = r.terminal
        /\ m.completed = r.completed /\ m.journal = r.journal
    BY <1>2, <1>3 DEF AgentStates
  <1> HIDE DEF m
  <1>5. NoNews(r, m)
    BY <1>3, <1>4 DEF NoNews, SamePlaces, SameSteps, NobodyActivated
  <1>6. /\ NoNews(m, Recorded(m, op, p, "health"))
        /\ Recorded(m, op, p, "health").journal = m.journal
    BY <1>4, RecordedSteps
  <1> QED
    BY <1>1, <1>2, <1>4, <1>5, <1>6, NoNewsCarries

(* The calls on the hold and the records tell nothing, and leave the       *)
(* journal alone.                                                          *)
Untold(s, t) == NoNews(s, t) /\ t.journal = s.journal

(* Settling a candidate and ending a hold.                                 *)
LEMMA SettlingIsUntold ==
  ASSUME NEW s \in AgentStates, NEW name, NEW who
  PROVE  Untold(s, FinalizeCandidate(s, name)) /\ Untold(s, HoldEnded(s, who))
  <1> DEFINE f == FinalizeCandidate(s, name)
             h == HoldEnded(s, who)
  <1>1. /\ f.planes = s.planes /\ f.terminal = s.terminal /\ f.completed = s.completed
        /\ f.journal = s.journal
    BY FinalizeCandidateSettles DEF SameLedger
  <1>2. /\ h.planes = s.planes /\ h.terminal = s.terminal /\ h.completed = s.completed
        /\ h.journal = s.journal
    BY DEF HoldEnded, AgentStates
  <1> HIDE DEF f, h
  <1>3. Untold(s, f) /\ Untold(s, h)
    BY <1>1, <1>2, SameLedgerIsNoNews DEF Untold
  <1> QED
    BY <1>3 DEF f, h

(* finishOperation.                                                        *)
LEMMA FinishIsUntold ==
  ASSUME NEW s \in AgentStates, NEW op, NEW ps, NEW t \in FinishOperation(s, op, ps)
  PROVE  Untold(s, t)
  <1> DEFINE f == FinalizeCandidate(s, op.name)
             slots == SlotsReleased(f, op, ps)
             r == [f EXCEPT !.reservations = slots]
  <1>1. t = HoldEnded(r, Who(op))
    BY DEF FinishOperation
  <1>2. f \in AgentStates /\ Untold(s, f)
    BY FinalizeCandidateType, SettlingIsUntold
  <1> HIDE DEF f
  <1>3. slots \in Reservations
    BY <1>2, SlotsReleasedType
  <1> HIDE DEF slots
  <1>4. /\ r \in AgentStates /\ r.planes = f.planes /\ r.terminal = f.terminal
        /\ r.completed = f.completed /\ r.journal = f.journal
    BY <1>2, <1>3 DEF AgentStates
  <1> HIDE DEF r
  <1>5. Untold(r, t)
    BY <1>1, <1>4, SettlingIsUntold
  <1>6. Untold(f, r)
    BY <1>4, SameLedgerIsNoNews DEF Untold
  <1> QED
    BY <1>2, <1>5, <1>6, NoNewsCarries DEF Untold

(* The other calls on the hold, and the publish intent.                    *)
LEMMA HoldCallsAreUntold ==
  ASSUME NEW s \in AgentStates, NEW op, NEW t,
         \/ t \in RecordPublishIntent(s, op) \/ t \in ReleaseHolderSlots(s, op)
         \/ t \in ReleaseStaleSlots(s, op) \/ t \in ReclaimOperation(s, op)
         \/ t \in ReleaseIdleHolder(s)
  PROVE  Untold(s, t)
  <1>1. /\ t.planes = s.planes /\ t.terminal = s.terminal /\ t.completed = s.completed
        /\ t.journal = s.journal
    <2>1. CASE t \in RecordPublishIntent(s, op) \/ t \in ReclaimOperation(s, op)
      BY <2>1 DEF RecordPublishIntent, ReclaimOperation, AgentStates
    <2>2. CASE t \in ReleaseHolderSlots(s, op)
      <3> DEFINE slots == SlotsFreed(s, Who(op), s.holder.epoch)
      <3>1. t = s \/ t = [s EXCEPT !.reservations = slots, !.holder = None]
        BY <2>2 DEF ReleaseHolderSlots
      <3> HIDE DEF slots
      <3> QED
        BY <3>1 DEF AgentStates
    <2>3. CASE t \in ReleaseStaleSlots(s, op)
      <3> DEFINE slots == SlotsFreed(s, Who(op), op.epoch)
      <3>1. t = s \/ t = [s EXCEPT !.reservations = slots]
        BY <2>3 DEF ReleaseStaleSlots
      <3> HIDE DEF slots
      <3> QED
        BY <3>1 DEF AgentStates
    <2>4. CASE t \in ReleaseIdleHolder(s)
      <3> DEFINE slots == [p \in Planes |-> [s.reservations[p] EXCEPT ![s.holder.epoch] = None]]
      <3>1. t = s \/ t = [s EXCEPT !.reservations = slots, !.holder = None]
        BY <2>4 DEF ReleaseIdleHolder
      <3> HIDE DEF slots
      <3> QED
        BY <3>1 DEF AgentStates
    <2> QED
      BY <2>1, <2>2, <2>3, <2>4
  <1> QED
    BY <1>1, SameLedgerIsNoNews DEF Untold

-----------------------------------------------------------------------------
(* What the record says of the planes, and that it is true.                *)

(* The operation moved the plane, and it has not gone back since.          *)
ReachedIn(s, op, p) == s.planes[p].epoch > op.epoch \/ MovedByMe(s, op, p)

(* What an entry notes of the planes is true, and so is a closing phase.   *)
NotesTell(s, notes, op) == \A p \in Planes : notes[p] = "committed" => ReachedIn(s, op, p)
PhaseTells(s, phase, op) ==
  /\ phase = "activated" => \A p \in Planes : ReachedIn(s, op, p)
  /\ phase = "failed" => \A p \in Planes : ~MovedByMe(s, op, p)
  /\ phase \in {"partially_activated", "partial_exhausted"} =>
       \E p \in Planes : ReachedIn(s, op, p)
EntryTells(s, e) == NotesTell(s, e.progress, e.op) /\ PhaseTells(s, e.phase, e.op)
JournalTells(s) == s.journal # None => EntryTells(s, s.journal)

(* The journal of an operation goes on: to a later entry, a true one.      *)
JournalGoesOn(s, t) ==
  \/ t.journal = s.journal
  \/ /\ s.journal # None /\ t.journal # None /\ t.journal.op = s.journal.op
     /\ t.journal.seq > s.journal.seq /\ EntryTells(s, t.journal)
Tells(s, t) == NoNews(s, t) /\ JournalGoesOn(s, t)

(* What may be closed: a journal that is there, whatever phase it is given *)
(* as long as that is true.                                                *)
ClosedAs(s, t, how) == s.journal # None /\ t.journal = ClosedEntry(s.journal, how)

(* Two envelopes of one operation are told of alike.                       *)
LEMMA TwinsAlike ==
  ASSUME NEW s, NEW a \in Ops, NEW b \in Ops, Who(a) = Who(b)
  PROVE  /\ a.epoch = b.epoch /\ a.token = b.token /\ a.name = b.name
         /\ \A p : MovedByMe(s, a, p) <=> MovedByMe(s, b, p)
         /\ \A p : ReachedIn(s, a, p) <=> ReachedIn(s, b, p)
         /\ \A phase : PhaseTells(s, phase, a) => PhaseTells(s, phase, b)
  <1>1. a.epoch = b.epoch
    BY IdentityAssumption
  <1>2. a.token = b.token /\ a.name = b.name
    BY DEF Who
  <1>3. \A p : MovedByMe(s, a, p) <=> MovedByMe(s, b, p)
    BY <1>1 DEF MovedByMe
  <1>4. \A p : ReachedIn(s, a, p) <=> ReachedIn(s, b, p)
    BY <1>1, <1>3 DEF ReachedIn
  <1> QED
    BY <1>1, <1>2, <1>3, <1>4 DEF PhaseTells

(* An entry that is closed with a true phase is true, and is a later one.  *)
LEMMA ClosingGoesOn ==
  ASSUME NEW s \in AgentStates, NEW t, NEW how \in Phases, ClosedAs(s, t, how), JournalTells(s),
         PhaseTells(s, how, s.journal.op)
  PROVE  JournalGoesOn(s, t)
  <1> DEFINE j == s.journal
             k == t.journal
             n == j.seq + 1
  <1>1. j # None /\ j \in Journals /\ EntryTells(s, j)
    BY DEF ClosedAs, AgentStates, JournalTells
  <1>2. n \in Nat /\ n > j.seq
    BY <1>1 DEF Journals
  <1>3. k = [j EXCEPT !.phase = how, !.seq = n]
    BY DEF ClosedAs, ClosedEntry
  <1> HIDE DEF n, k
  <1>4. k.op = j.op /\ k.progress = j.progress /\ k.phase = how /\ k.seq = n /\ k \in Journals
    BY <1>1, <1>2, <1>3 DEF Journals
  <1>5. EntryTells(s, k)
    BY <1>1, <1>4 DEF EntryTells
  <1>6. k # None
    BY <1>4, NoneAssumption
  <1> QED
    BY <1>1, <1>2, <1>4, <1>5, <1>6 DEF JournalGoesOn, k

(* supersede tells nothing, and closes the journal of an operation of the  *)
(* holder's name.                                                          *)
LEMMA SupersedeTells ==
  ASSUME NEW s \in AgentStates, NEW holder
  PROVE  LET t == Supersede(s, holder) IN
         /\ NoNews(s, t) /\ t.completed = s.completed
         /\ \/ t.journal = s.journal
            \/ ClosedAs(s, t, "superseded") /\ s.journal.op.name = holder.name
         /\ Unfinished(s.journal) /\ s.journal.op.name = holder.name => ClosedAs(s, t, "superseded")
  <1> DEFINE c == SlotsAndJournalClosed(s, holder)
             f == FinalizeCandidate(c, holder.name)
             t == HoldEnded(f, Who(holder))
             slots == SlotsFreed(s, Who(holder), holder.epoch)
             j == IF Unfinished(s.journal) /\ s.journal.op.name = holder.name
                  THEN ClosedEntry(s.journal, "superseded") ELSE s.journal
  <1>0. t = Supersede(s, holder)
    BY DEF Supersede
  <1>1. c \in AgentStates /\ f \in AgentStates
    BY SlotsAndJournalClosedType, FinalizeCandidateType
  <1>2. Untold(c, f) /\ Untold(f, t)
    BY <1>1, SettlingIsUntold
  <1>8. f.completed = c.completed /\ t.completed = f.completed
    <2>1. f.completed = c.completed
      BY <1>1, FinalizeCandidateSettles
    <2> HIDE DEF c, f
    <2> QED
      BY <1>1, <2>1 DEF HoldEnded, AgentStates
  <1>3. c = [s EXCEPT !.reservations = slots, !.journal = j]
    BY DEF SlotsAndJournalClosed
  <1> HIDE DEF slots, j, c, f, t
  <1>4. /\ c.planes = s.planes /\ c.terminal = s.terminal /\ c.completed = s.completed
        /\ c.journal = j
    BY <1>3 DEF AgentStates
  <1>5. NoNews(s, t) /\ t.journal = j
    BY <1>2, <1>4, SameLedgerIsNoNews, NoNewsCarries DEF Untold
  <1>6. Unfinished(s.journal) => s.journal # None
    BY DEF Unfinished
  <1>7. /\ t.journal = s.journal \/ (ClosedAs(s, t, "superseded") /\ s.journal.op.name = holder.name)
        /\ Unfinished(s.journal) /\ s.journal.op.name = holder.name => ClosedAs(s, t, "superseded")
    BY <1>5, <1>6 DEF ClosedAs, j
  <1> QED
    BY <1>0, <1>4, <1>5, <1>7, <1>8

(* A journal that is superseded goes on.                                   *)
LEMMA SupersedingGoesOn ==
  ASSUME NEW s \in AgentStates, JournalTells(s), NEW t,
         t.journal = s.journal \/ ClosedAs(s, t, "superseded")
  PROVE  JournalGoesOn(s, t)
  <1>1. "superseded" \in Phases /\ \A op : PhaseTells(s, "superseded", op)
    BY DEF Phases, TerminalPhases, PhaseTells
  <1> QED
    BY <1>1, ClosingGoesOn DEF JournalGoesOn

(* fence tells nothing; the journal it closes is under an older token.     *)
LEMMA FenceTells ==
  ASSUME NEW s \in AgentStates, JournalTells(s), NEW token \in Nat, NEW t \in Fence(s, token)
  PROVE  /\ Tells(s, t) /\ t.max = token
         /\ t.journal = s.journal \/ (s.holder # None /\ s.holder.token < token)
  <1> DEFINE r == [s EXCEPT !.max = token]
  <1>1. t = r \/ (t = Supersede(r, s.holder) /\ s.holder # None /\ s.holder.token < token)
    BY DEF Fence
  <1>2. /\ r \in AgentStates /\ r.max = token /\ r.planes = s.planes /\ r.terminal = s.terminal
        /\ r.completed = s.completed /\ r.journal = s.journal
    BY DEF AgentStates
  <1> HIDE DEF r
  <1>3. NoNews(s, r)
    BY <1>2, SameLedgerIsNoNews
  <1>4. CASE t = r
    BY <1>2, <1>3, <1>4 DEF Tells, JournalGoesOn
  <1>5. CASE t = Supersede(r, s.holder) /\ s.holder # None /\ s.holder.token < token
    <2>1. NoNews(r, t) /\ (t.journal = r.journal \/ ClosedAs(r, t, "superseded"))
      BY <1>2, <1>5, SupersedeTells
    <2>2. t.journal = s.journal \/ ClosedAs(s, t, "superseded")
      BY <1>2, <2>1 DEF ClosedAs
    <2>3. t.max = r.max
      BY <1>2, <1>5, SupersedeSettles
    <2> QED
      BY <1>2, <1>3, <1>5, <2>1, <2>2, <2>3, NoNewsCarries, SupersedingGoesOn DEF Tells
  <1> QED
    BY <1>1, <1>4, <1>5

(* closeJournal closes the operation's own entry.                          *)
LEMMA CloseJournalTells ==
  ASSUME NEW s \in AgentStates, JournalTells(s), NEW op \in Ops, NEW how \in Phases,
         OwnsJournal(s.journal, op) => PhaseTells(s, how, op), NEW t \in CloseJournal(s, op, how)
  PROVE  Tells(s, t) /\ (t.journal = s.journal \/ OwnsJournal(s.journal, op))
  <1>1. CASE t = s
    BY <1>1, SameLedgerIsNoNews DEF Tells, JournalGoesOn
  <1>2. CASE t # s
    <2> DEFINE k == ClosedEntry(s.journal, how)
    <2>1. OwnsJournal(s.journal, op) /\ t = [s EXCEPT !.journal = k]
      BY <1>2 DEF CloseJournal
    <2> HIDE DEF k
    <2>2. /\ t.planes = s.planes /\ t.terminal = s.terminal /\ t.completed = s.completed
          /\ t.journal = k
      BY <2>1 DEF AgentStates
    <2>3. ClosedAs(s, t, how)
      BY <2>1, <2>2 DEF ClosedAs, OwnsJournal, k
    <2>4. s.journal.op \in Ops /\ Who(s.journal.op) = Who(op)
      BY <2>1 DEF OwnsJournal, AgentStates, Journals
    <2>5. PhaseTells(s, how, s.journal.op)
      BY <2>1, <2>4, TwinsAlike
    <2> QED
      BY <2>1, <2>2, <2>3, <2>5, ClosingGoesOn, SameLedgerIsNoNews DEF Tells
  <1> QED
    BY <1>1, <1>2

(* writeJournal writes a true entry of the same operation.                 *)
LEMMA WriteJournalTells ==
  ASSUME NEW s \in AgentStates, NEW entry \in Journals, NEW t \in WriteJournal(s, entry),
         s.journal # None, s.journal.op = entry.op, EntryTells(s, entry)
  PROVE  Tells(s, t) /\ t.journal = entry
  <1>1. t = [s EXCEPT !.journal = entry] /\ entry.seq = NextSeq(s)
    BY DEF WriteJournal
  <1>2. /\ t.planes = s.planes /\ t.terminal = s.terminal /\ t.completed = s.completed
        /\ t.journal = entry
    BY <1>1 DEF AgentStates
  <1>3. s.journal.seq \in Nat /\ entry.seq = 1 + s.journal.seq
    BY <1>1 DEF NextSeq, AgentStates, Journals
  <1>4. entry # None
    BY NoneAssumption
  <1>5. entry.seq > s.journal.seq
    BY <1>3
  <1> QED
    BY <1>2, <1>4, <1>5, SameLedgerIsNoNews DEF Tells, JournalGoesOn

(* reserveAll's clean-up judges what the stale journal left open.          *)
LEMMA StaleClosedTells ==
  ASSUME NEW s \in AgentStates, JournalTells(s), NEW op, NEW t, t = StaleClosed(s, op)
  PROVE  /\ Tells(s, t) /\ t.completed = s.completed /\ t.planes = s.planes
         /\ OwnsJournal(s.journal, op) => t.journal = s.journal
         /\ ~OwnsJournal(t.journal, op) \/ OwnsJournal(s.journal, op)
         /\ Unfinished(s.journal) /\ ~OwnsJournal(s.journal, op) =>
              \A p \in Planes : t.terminal[<<Who(s.journal.op), p>>] # None
  <1>1. CASE ~(Unfinished(s.journal) /\ ~OwnsJournal(s.journal, op))
    <2>1. t = s
      BY <1>1 DEF StaleClosed
    <2> QED
      BY <1>1, <2>1, SameLedgerIsNoNews DEF Tells, JournalGoesOn
  <1>2. CASE Unfinished(s.journal) /\ ~OwnsJournal(s.journal, op)
    <2> DEFINE stale == s.journal.op
               verdicts == [k \in DOMAIN s.terminal |->
                              IF k[1] = Who(stale) /\ s.terminal[k] = None
                              THEN "aborted" ELSE s.terminal[k]]
               r == [s EXCEPT !.terminal = verdicts]
    <2>1. t = Supersede(r, RecordOf(stale))
      BY <1>2 DEF StaleClosed
    <2>2. /\ verdicts \in VerdictMaps
          /\ \A k \in Whos \X Planes :
               verdicts[k] = IF k[1] = Who(stale) /\ s.terminal[k] = None
                             THEN "aborted" ELSE s.terminal[k]
      BY DEF AgentStates, VerdictMaps, Verdicts
    <2>3. s.journal # None /\ s.journal \in Journals /\ Who(stale) \in Whos /\ stale \in Ops
      BY <1>2, EnvelopeTypes DEF Unfinished, AgentStates, Journals, AllOps
    <2> HIDE DEF verdicts
    <2>4. /\ r \in AgentStates /\ r.planes = s.planes /\ r.completed = s.completed
          /\ r.journal = s.journal /\ r.terminal = verdicts
      BY <2>2 DEF AgentStates
    <2> HIDE DEF r
    <2>5. NoNews(s, r)
      BY <2>2, <2>4 DEF NoNews, SamePlaces, SameSteps, NobodyActivated
    <2>6. NoNews(r, t) /\ (t.journal = r.journal \/ ClosedAs(r, t, "superseded"))
      BY <2>1, <2>4, SupersedeTells
    <2>7. t.journal = s.journal \/ ClosedAs(s, t, "superseded")
      BY <2>4, <2>6 DEF ClosedAs
    <2>8. t.terminal = verdicts /\ t.planes = s.planes
      BY <2>1, <2>4, SupersedeSettles DEF SameLedger
    <2>9. t.completed = s.completed
      <3> DEFINE holder == RecordOf(stale)
      <3>1. Supersede(r, holder).completed = r.completed
        <4> HIDE DEF holder
        <4> QED
          BY <2>4, SupersedeTells
      <3> QED
        BY <2>1, <2>4, <3>1
    <2>10. \A p \in Planes : t.terminal[<<Who(stale), p>>] # None
      BY <2>2, <2>3, <2>8, NoneAssumption DEF Verdicts
    <2>11. JournalGoesOn(s, t)
      BY <2>7, SupersedingGoesOn
    <2>12. ~OwnsJournal(t.journal, op)
      BY <1>2, <2>11 DEF JournalGoesOn, OwnsJournal
    <2> QED
      BY <1>2, <2>5, <2>6, <2>8, <2>9, <2>10, <2>11, <2>12, NoNewsCarries DEF Tells
  <1> QED
    BY <1>1, <1>2

(* commit is replayed, or moves the plane and is recorded: a plane that    *)
(* stands there already is on record, and was not aborted since.           *)
LEMMA CommitTells ==
  ASSUME NEW s \in AgentStates, NEW op \in Ops, NEW p \in Planes, NEW proof,
         NEW t \in Commit(s, op, p, proof), Justified(s), SlotsAreAbove(s), SlotsFenced(s)
  PROVE  /\ t.journal = s.journal
         /\ \/ NoNews(s, t) /\ Replayed(s, op, p, "commit")
            \/ /\ MovesPlane(s, t, op, p) /\ Fresh(s, op, p, "commit")
               /\ t.completed = s.completed \cup {[op |-> op, plane |-> p, step |-> "commit"]}
  <1> DEFINE r == Raised(s, op)
             planes == [r.planes EXCEPT
                          ![p] = [epoch |-> op.epoch, rev |-> op.rev, by |-> Who(op)]]
             evidence == r.evidence \cup {<<p, op.epoch>>}
             epochs == IF s.holder # None /\ Who(s.holder) = Who(op)
                       THEN s.holder.epoch ELSE r.pendingEpochs
             moved == [r EXCEPT !.planes = planes, !.evidence = evidence,
                                !.pendingEpochs = epochs,
                                !.pendingActivation = RecordOf(op)]
             c == Closed(moved, op, p, "activated")
  <1>0. op \in AllOps /\ Who(op) # None
    BY WhoTypes DEF AllOps
  <1>1. IsLeader(s, op.token)
    BY DEF Commit, Replayed, Fresh, Admitted
  <1>2. /\ r \in AgentStates /\ NoNews(s, r) /\ r.journal = s.journal
        /\ r.completed = s.completed /\ r.planes = s.planes
    BY <1>0, <1>1, RaisedType, RaisedIsNoNews DEF Raised, AgentStates
  <1>3. CASE t = r /\ Replayed(s, op, p, "commit")
    BY <1>2, <1>3
  <1>4. CASE Fresh(s, op, p, "commit") /\ At(s, p) = Target(op) /\ s.planes[p].by = Who(op)
    <2>1. PlaneIsJustified(s, p)
      BY DEF Justified
    <2>2. s.terminal[<<Who(op), p>>] = "activated" /\ "activated" # None
      BY <1>0, <1>4, <2>1, NoneAssumption DEF PlaneIsJustified, Verdicts
    <2> QED
      BY <1>4, <2>2 DEF Fresh, TerminalOf
  <1>5. CASE /\ Movable(s, op, p) /\ Fresh(s, op, p, "commit")
             /\ t = Recorded(c, op, p, "commit")
    <2>10. op.epoch > s.planes[p].epoch
      <3>1. op.epoch \in Epochs /\ SlotIsAbove(s.reservations[p][op.epoch], p)
        BY <1>0, EnvelopeTypes DEF SlotsAreAbove
      <3>2. s.reservations[p][op.epoch] # None /\ s.reservations[p][op.epoch].op = op
        BY <1>5 DEF Movable, HasSlot
      <3>3. op.exp[p].epoch = s.planes[p].epoch
        BY <1>5 DEF Movable, At
      <3> QED
        BY <3>1, <3>2, <3>3 DEF SlotIsAbove
    <2>1. /\ planes \in Positions /\ evidence \in Evidence
          /\ epochs \in Epochs \cup {None} /\ RecordOf(op) \in MaybeRecord
      <3> HIDE DEF r
      <3>1. planes \in Positions
        BY <1>0, <1>2, EnvelopeTypes DEF AgentStates, Positions, PlaneStates
      <3>2. evidence \in Evidence
        BY <1>0, <1>2, EnvelopeTypes DEF AgentStates, Evidence
      <3>3. epochs \in Epochs \cup {None}
        BY <1>2 DEF AgentStates, MaybeRecord, Records
      <3>4. RecordOf(op) \in MaybeRecord
        BY <1>0, EnvelopeTypes DEF MaybeRecord
      <3> QED
        BY <3>1, <3>2, <3>3, <3>4
    <2>9. planes[p].epoch = op.epoch
      BY <1>2 DEF AgentStates, Positions
    <2> HIDE DEF r, planes, evidence, epochs
    <2>2. /\ moved \in AgentStates /\ moved.completed = r.completed /\ moved.journal = r.journal
          /\ moved.planes = planes
      BY <1>2, <2>1 DEF AgentStates
    <2> HIDE DEF moved
    <2>3. c \in AgentStates
      BY <1>0, <2>2, ClosedType DEF Verdicts
    <2>4. /\ c.completed = moved.completed /\ c.journal = moved.journal
          /\ c.planes = moved.planes
      BY <2>2 DEF Closed, AgentStates
    <2> HIDE DEF c
    <2>5. /\ t.completed = c.completed \cup {[op |-> op, plane |-> p, step |-> "commit"]}
          /\ t.planes = c.planes /\ t.journal = c.journal
      BY <1>5, <2>3, RecordedSteps
    <2>6. t.completed = s.completed \cup {[op |-> op, plane |-> p, step |-> "commit"]}
      BY <1>2, <2>2, <2>4, <2>5
    <2>7. t.journal = s.journal
      BY <1>2, <2>2, <2>4, <2>5
    <2>8. MovesPlane(s, t, op, p)
      <3>2. t.planes[p].epoch = op.epoch
        BY <2>2, <2>4, <2>5, <2>9
      <3>3. s.planes[p].epoch \in Nat /\ op.epoch \in Nat
        BY <1>0, EnvelopeTypes DEF AgentStates, Positions, PlaneStates
      <3>4. ~Administers(s, t)
        BY <2>10, <3>2, <3>3 DEF Administers
      <3> QED
        BY <3>4, CommitEffect
    <2> QED
      BY <1>5, <2>6, <2>7, <2>8
  <1> QED
    BY <1>3, <1>4, <1>5 DEF Commit

(* What reserveAll takes, after what was stale is closed: a reservation on *)
(* each plane, and a journal.                                              *)
Reservation(op, p) == [op |-> op, plane |-> p, step |-> "reserve"]
Taken(m, t, op) ==
  /\ t.planes = m.planes /\ t.terminal = m.terminal /\ t.max = op.token /\ op.token >= m.max
  /\ m.completed \subseteq t.completed
  /\ \A p \in Planes : Reservation(op, p) \in t.completed /\ Reservable(m, op, p)
  /\ \A c \in t.completed : c \in m.completed \/
       \E p \in Planes : /\ c = Reservation(op, p)
                         /\ Fresh(m, op, p, "reserve") /\ Acquirable(m, op, p)
  /\ t.journal = IF OwnsJournal(m.journal, op) THEN m.journal ELSE Opening(op, NextSeq(m))
(* reserveAll records one reservation on each plane, replayed or fresh,    *)
(* and opens a journal unless the operation has one.                       *)
LEMMA ReserveAllTells ==
  ASSUME NEW s \in AgentStates, NEW op \in Ops, NEW t \in ReserveAll(s, op)
  PROVE  Taken(StaleClosed(s, op), t, op)
  <1> DEFINE m == StaleClosed(s, op)
             r == Raised(m, op)
             fresh == {p \in Planes : ~Replayed(m, op, p, "reserve")}
             slots == [p \in Planes |->
                         IF p \in fresh THEN Acquired(m, op, p, FALSE).reservations[p]
                         ELSE r.reservations[p]]
             entries == r.completed \cup
                          {[op |-> op, plane |-> p, step |-> "reserve"] : p \in fresh}
             u == [r EXCEPT !.reservations = slots, !.completed = entries]
             j == IF OwnsJournal(u.journal, op) THEN u.journal ELSE Opening(op, NextSeq(m))
  <1>0. op \in AllOps
    BY DEF AllOps
  <1>1. m \in AgentStates /\ m.max = s.max
    BY StaleClosedType, StaleClosedEffect
  <1>2. /\ IsLeader(s, op.token)
        /\ t = [u EXCEPT !.holder = RecordOf(op), !.journal = j]
        /\ \A p \in Planes : Reservable(m, op, p)
    BY DEF ReserveAll, ReserveEach
  <1> HIDE DEF m
  <1>3. /\ r \in AgentStates /\ r.max = op.token /\ r.planes = m.planes
        /\ r.terminal = m.terminal /\ r.completed = m.completed /\ r.journal = m.journal
    BY <1>0, <1>1, <1>2, RaisedType DEF Raised, AgentStates, IsLeader
  <1>4. \A p \in Planes : p \in fresh \/ Replayed(m, op, p, "reserve")
    OBVIOUS
  <1>5. \A p \in fresh : /\ p \in Planes /\ Fresh(m, op, p, "reserve") /\ Acquirable(m, op, p)
    BY <1>2 DEF Reservable
  <1>6. entries = m.completed \cup {Reservation(op, p) : p \in fresh}
    BY <1>3 DEF Reservation
  <1> HIDE DEF r, slots, entries, fresh
  <1>7. /\ u.max = r.max /\ u.planes = r.planes /\ u.terminal = r.terminal
        /\ u.completed = entries /\ u.journal = r.journal /\ DOMAIN u = DOMAIN r
    BY <1>3 DEF AgentStates
  <1>8. DOMAIN u = DOMAIN s
    BY <1>3, <1>7 DEF AgentStates
  <1>9. j = IF OwnsJournal(m.journal, op) THEN m.journal ELSE Opening(op, NextSeq(m))
    BY <1>3, <1>7
  <1> HIDE DEF u, j
  <1>10. /\ t.max = u.max /\ t.planes = u.planes /\ t.terminal = u.terminal
         /\ t.completed = u.completed /\ t.journal = j
    BY <1>2, <1>8 DEF AgentStates
  <1>11. ASSUME NEW p \in Planes, Replayed(m, op, p, "reserve")
         PROVE  Reservation(op, p) \in m.completed
    <2>1. PICK c \in m.completed : SameKey(c, op, p, "reserve") /\ c.op = op
      BY <1>11 DEF Replayed, Seen
    <2>2. c \in [op : AllOps, plane : Planes, step : Steps]
      BY <1>1 DEF AgentStates, Ledgers
    <2>3. c = Reservation(op, p)
      BY <2>1, <2>2 DEF SameKey, Reservation
    <2> QED
      BY <2>1, <2>3
  <1>12. \A p \in Planes : Reservation(op, p) \in t.completed /\ Reservable(m, op, p)
    BY <1>2, <1>4, <1>6, <1>7, <1>10, <1>11
  <1>13. /\ m.completed \subseteq t.completed
         /\ \A c \in t.completed : c \in m.completed \/
              \E p \in Planes : /\ c = Reservation(op, p)
                                /\ Fresh(m, op, p, "reserve") /\ Acquirable(m, op, p)
    BY <1>5, <1>6, <1>7, <1>10
  <1> QED
    BY <1>1, <1>2, <1>3, <1>7, <1>9, <1>10, <1>12, <1>13 DEF Taken, m, IsLeader

(* Pruning forgets whole operations, and not the one of the journal.       *)
LEMMA PrunedSteps ==
  ASSUME NEW s \in AgentStates, NEW u \in Pruned(s)
  PROVE  \E d : /\ u.completed = {c \in s.completed : Who(c.op) \notin d}
                /\ s.journal # None => Who(s.journal.op) \notin d
  <1> DEFINE gone(k) == TerminalPrunable(s, k[1], k[2], s.terminalAt[k])
             terminal == [k \in DOMAIN s.terminal |-> IF gone(k) THEN None ELSE s.terminal[k]]
             terminalAt == [k \in DOMAIN s.terminalAt |->
                              IF gone(k) THEN None ELSE s.terminalAt[k]]
             r == PruneTerminal(s)
  <1>1. PICK d, e : u = Trimmed(r, d, e) /\ d \in Droppable(r)
    BY DEF Pruned
  <1>2. r = [s EXCEPT !.terminal = terminal, !.terminalAt = terminalAt]
    BY DEF PruneTerminal
  <1>3. r \in AgentStates
    BY PruneTerminalType
  <1> HIDE DEF terminal, terminalAt, gone, r
  <1>4. r.completed = s.completed /\ r.journal = s.journal
    BY <1>2, <1>3 DEF AgentStates
  <1>5. u.completed = {c \in r.completed : Who(c.op) \notin d}
    BY <1>1, <1>3 DEF AgentStates, Trimmed
  <1>6. r.journal # None => Who(r.journal.op) \notin d
    <2>1. r.journal # None => r.journal.op # None
      BY <1>3, NoneAssumption DEF AgentStates, Journals, AllOps
    <2> QED
      BY <1>1, <2>1 DEF Droppable
  <1> QED
    BY <1>4, <1>5, <1>6

-----------------------------------------------------------------------------
(* What is on record of reservations, commits and the journal together:    *)
(* all of one operation, they are of one tuple; a commit on record reached *)
(* its plane, and one that stands there is on record; the journal's        *)
(* operation is reserved everywhere, no plane and no verdict is ahead of   *)
(* it, and what it says of the planes is true.                             *)
OneTuple(s) ==
  \A c, d \in s.completed :
    c.step \in {"reserve", "commit"} /\ SameKey(c, d.op, d.plane, d.step) => c.op = d.op
Committed(op, p) == [op |-> op, plane |-> p, step |-> "commit"]
CommitsAreRecorded(s) ==
  \A c \in s.completed :
    /\ c.step = "commit" => ReachedIn(s, c.op, c.plane)
    /\ c.step = "reserve" /\ MovedByMe(s, c.op, c.plane) =>
         Committed(c.op, c.plane) \in s.completed
JournalIsReserved(s) ==
  s.journal # None => \A p \in Planes : Reservation(s.journal.op, p) \in s.completed
NoPlaneIsAhead(s) ==
  \A p \in Planes : s.planes[p].epoch # 0 =>
    s.journal # None /\ s.planes[p].epoch <= s.journal.op.epoch
NoVerdictIsAhead(s) ==
  \A op \in Ops, p \in Planes : s.terminal[<<Who(op), p>>] = "activated" =>
    /\ op.epoch <= s.planes[p].epoch
    /\ s.journal # None /\ op.token <= s.journal.op.token
TaleOk(s) ==
  /\ OneTuple(s) /\ CommitsAreRecorded(s) /\ JournalIsReserved(s)
  /\ NoPlaneIsAhead(s) /\ NoVerdictIsAhead(s) /\ JournalTells(s)

(* Nothing can move the operation on the plane any more, as far as the     *)
(* agent knows; nothing can open it again, among what was started.         *)
Sealed(s, op, p) == op.token < s.max \/ Decided(s, <<Who(op), p>>)
SealedOff(s, op) == \A p \in Planes : Sealed(s, op, p)
Outranked(st, op) ==
  \E o \in st : \/ o.epoch > op.epoch
                \/ o.epoch = op.epoch /\ o.name # op.name /\ o.token >= op.token
Unopenable(s, st, op) ==
  /\ s.journal # None => Who(s.journal.op) # Who(op)
  /\ \/ op.token < s.max
     \/ \E p \in Planes : StaysClosed(s, <<Who(op), p>>)
     \/ Outranked(st, op)

(* What a call never does: a plane does not go back, one that is sealed    *)
(* does not move, the journal changes to a later entry, and not to an      *)
(* operation that cannot be opened.                                        *)
Onward(s, t, st) ==
  /\ \A op \in Ops, p \in Planes : ReachedIn(s, op, p) => ReachedIn(t, op, p)
  /\ \A op \in Ops, p \in Planes : Sealed(s, op, p) /\ MovedByMe(t, op, p) => MovedByMe(s, op, p)
  /\ \/ t.journal = s.journal
     \/ s.journal # None => t.journal # None /\ t.journal.seq > s.journal.seq
  /\ \A op \in Ops : Unopenable(s, st, op) /\ SealedOff(s, op) /\ t.journal # None =>
       Who(t.journal.op) # Who(op)

(* What somebody else's call leaves of a journal that was at work.         *)
Aside(s, t) ==
  /\ SamePlaces(s, t)
  /\ Unfinished(s.journal) /\ t.journal # s.journal => SealedOff(t, s.journal.op)

(* What stands where it stood tells the same.                              *)
LEMMA SamePlacesTellTheSame ==
  ASSUME NEW s, NEW t, SamePlaces(s, t)
  PROVE  /\ \A op, p : p \in Planes => (MovedByMe(t, op, p) <=> MovedByMe(s, op, p))
         /\ \A op, p : p \in Planes => (ReachedIn(t, op, p) <=> ReachedIn(s, op, p))
         /\ \A notes, op : NotesTell(t, notes, op) <=> NotesTell(s, notes, op)
         /\ \A phase, op : PhaseTells(t, phase, op) <=> PhaseTells(s, phase, op)
         /\ \A e : EntryTells(t, e) <=> EntryTells(s, e)
  <1>1. \A op, p : p \in Planes => (MovedByMe(t, op, p) <=> MovedByMe(s, op, p))
    BY DEF SamePlaces, MovedByMe
  <1>2. \A op, p : p \in Planes => (ReachedIn(t, op, p) <=> ReachedIn(s, op, p))
    BY <1>1 DEF SamePlaces, ReachedIn
  <1>3. /\ \A notes, op : NotesTell(t, notes, op) <=> NotesTell(s, notes, op)
        /\ \A phase, op : PhaseTells(t, phase, op) <=> PhaseTells(s, phase, op)
    BY <1>1, <1>2 DEF NotesTell, PhaseTells
  <1> QED
    BY <1>1, <1>2, <1>3 DEF EntryTells

(* A call that has no news leaves the tale as true as it was.              *)
LEMMA TaleByTells ==
  ASSUME NEW s \in AgentStates, TaleOk(s), NEW t, Tells(s, t), NEW st
  PROVE  TaleOk(t) /\ Onward(s, t, st)
  <1>1. /\ SamePlaces(s, t) /\ SameSteps(s, t) /\ NobodyActivated(s, t) /\ JournalGoesOn(s, t)
        /\ OneTuple(s) /\ CommitsAreRecorded(s) /\ JournalIsReserved(s)
        /\ NoPlaneIsAhead(s) /\ NoVerdictIsAhead(s) /\ JournalTells(s)
    BY DEF Tells, NoNews, TaleOk
  <1>2. \A c \in s.completed : c.plane \in Planes
    BY DEF AgentStates, Ledgers
  <1>3. \A op, p : p \in Planes => /\ MovedByMe(t, op, p) <=> MovedByMe(s, op, p)
                                   /\ ReachedIn(t, op, p) <=> ReachedIn(s, op, p)
    BY <1>1, SamePlacesTellTheSame
  <1>4. OneTuple(t)
    BY <1>1 DEF OneTuple, SameSteps, SameKey
  <1>5. CommitsAreRecorded(t)
    BY <1>1, <1>2, <1>3 DEF CommitsAreRecorded, SameSteps
  <1>6. /\ t.journal # None => s.journal # None /\ t.journal.op = s.journal.op
        /\ s.journal # None => t.journal # None
    BY <1>1 DEF JournalGoesOn
  <1>7. JournalIsReserved(t)
    BY <1>1, <1>6 DEF JournalIsReserved, SameSteps
  <1>8. NoPlaneIsAhead(t)
    BY <1>1, <1>6 DEF NoPlaneIsAhead, SamePlaces
  <1>9. NoVerdictIsAhead(t)
    <2>1. \A op \in Ops : Who(op) \in Whos
      BY WhoTypes DEF AllOps
    <2> QED
      BY <1>1, <1>6, <2>1 DEF NoVerdictIsAhead, NobodyActivated, SamePlaces
  <1>10. JournalTells(t)
    <2>1. t.journal # None => EntryTells(s, t.journal)
      BY <1>1 DEF JournalTells, JournalGoesOn
    <2> QED
      BY <1>1, <2>1, SamePlacesTellTheSame DEF JournalTells
  <1>11. Onward(s, t, st)
    BY <1>1, <1>3, <1>6 DEF Onward, JournalGoesOn, Unopenable
  <1> QED
    BY <1>4, <1>5, <1>7, <1>8, <1>9, <1>10, <1>11 DEF TaleOk

(* A plane that is sealed is not moved.                                    *)
LEMMA MovedIsNotSealed ==
  ASSUME NEW s \in AgentStates, NEW t, NEW op \in Ops, NEW p \in Planes, MovesPlane(s, t, op, p)
  PROVE  ~Sealed(s, op, p)
  <1>1. /\ op.token >= s.max /\ op.epoch > s.planes[p].epoch
        /\ s.terminal[<<Who(op), p>>] = None
    BY DEF MovesPlane
  <1>2. op.token \in Nat /\ s.max \in Nat /\ op.epoch \in Nat /\ s.planes[p].epoch \in Nat
    BY EnvelopeTypes DEF AllOps, AgentStates, Positions, PlaneStates
  <1> QED
    BY <1>1, <1>2 DEF Sealed, Decided, IsPast

(* What moving a plane leaves of the others, and of what was reached.      *)
MovesOnly(s, t, op, p) ==
  /\ MovedByMe(t, op, p) /\ t.planes[p].epoch = op.epoch
  /\ \A q \in Planes : t.planes[q].epoch >= s.planes[q].epoch
  /\ \A o \in Ops, q \in Planes : ReachedIn(s, o, q) => ReachedIn(t, o, q)
  /\ \A o \in Ops, q \in Planes :
       MovedByMe(t, o, q) => MovedByMe(s, o, q) \/ (q = p /\ Who(o) = Who(op))
  /\ \A o \in Ops, q \in Planes : q # p => (MovedByMe(t, o, q) <=> MovedByMe(s, o, q))
  /\ \A q \in Planes : q # p => t.planes[q] = s.planes[q]
(* A commit leaves that of the planes.                                     *)
LEMMA MovedPlanes ==
  ASSUME NEW s \in AgentStates, NEW t, NEW op \in Ops, NEW p \in Planes, MovesPlane(s, t, op, p)
  PROVE  MovesOnly(s, t, op, p)
  <1>1. /\ t.planes = [s.planes EXCEPT ![p] = [epoch |-> op.epoch, rev |-> op.rev, by |-> Who(op)]]
        /\ op.epoch > s.planes[p].epoch /\ DOMAIN s.planes = Planes
    BY DEF MovesPlane, AgentStates, Positions
  <1>2. /\ t.planes[p].epoch = op.epoch /\ t.planes[p].by = Who(op)
        /\ \A q \in Planes : q # p => t.planes[q] = s.planes[q]
    BY <1>1
  <1>3. /\ \A q \in Planes : s.planes[q].epoch \in Nat
        /\ \A o \in Ops : o.epoch \in Nat
    BY EnvelopeTypes DEF AllOps, AgentStates, Positions, PlaneStates
  <1>4. \A o \in Ops, q \in Planes : q # p => (MovedByMe(t, o, q) <=> MovedByMe(s, o, q))
    BY <1>2 DEF MovedByMe
  <1>5. \A o \in Ops, q \in Planes : ReachedIn(s, o, q) => ReachedIn(t, o, q)
    <2> SUFFICES ASSUME NEW o \in Ops, NEW q \in Planes, ReachedIn(s, o, q)
                 PROVE  ReachedIn(t, o, q)
      OBVIOUS
    <2>1. CASE q = p
      <3>1. o.epoch <= s.planes[p].epoch
        BY <1>3, <2>1 DEF ReachedIn, MovedByMe
      <3> QED
        BY <1>1, <1>2, <1>3, <2>1, <3>1 DEF ReachedIn
    <2>2. CASE q # p
      BY <1>2, <1>4, <2>2 DEF ReachedIn
    <2> QED
      BY <2>1, <2>2
  <1>6. \A q \in Planes : t.planes[q].epoch >= s.planes[q].epoch
    BY <1>1, <1>2, <1>3
  <1>7. \A o \in Ops, q \in Planes :
          MovedByMe(t, o, q) => MovedByMe(s, o, q) \/ (q = p /\ Who(o) = Who(op))
    BY <1>2, <1>4 DEF MovedByMe
  <1> QED
    BY <1>2, <1>4, <1>5, <1>6, <1>7 DEF MovedByMe, MovesOnly

(* A commit that moves a plane, for the operation of the journal.          *)
LEMMA TaleByMoving ==
  ASSUME NEW s \in AgentStates, TaleOk(s), NEW op \in Ops, NEW p \in Planes, NEW t,
         MovesPlane(s, t, op, p), Fresh(s, op, p, "commit"),
         t.completed = s.completed \cup {Committed(op, p)}, t.journal = s.journal,
         s.journal # None, s.journal.op = op, s.journal.phase = "reload_observed"
  PROVE  TaleOk(t)
  <1>2. /\ MovedByMe(t, op, p) /\ t.planes[p].epoch = op.epoch
        /\ \A q \in Planes : t.planes[q].epoch >= s.planes[q].epoch
        /\ \A o \in Ops, q \in Planes : ReachedIn(s, o, q) => ReachedIn(t, o, q)
        /\ \A q \in Planes : q # p => t.planes[q] = s.planes[q]
    <2>1. MovesOnly(s, t, op, p)
      BY MovedPlanes
    <2> QED
      BY <2>1 DEF MovesOnly
  <1> DEFINE new == Committed(op, p)
  <1>0. /\ new.op = op /\ new.plane = p /\ new.step = "commit"
        /\ \A c \in t.completed : c \in s.completed \/ c = new
        /\ \A c \in s.completed : c.plane \in Planes /\ c.op \in AllOps
    BY DEF Committed, AgentStates, Ledgers
  <1>1. /\ OneTuple(s) /\ CommitsAreRecorded(s) /\ JournalIsReserved(s)
        /\ NoPlaneIsAhead(s) /\ NoVerdictIsAhead(s) /\ JournalTells(s)
    BY DEF TaleOk
  <1>3. /\ \A q \in Planes : s.planes[q].epoch \in Nat /\ t.planes[q].epoch \in Nat
        /\ \A o \in AllOps : o.epoch \in Nat
        /\ op \in AllOps /\ op.epoch > s.planes[p].epoch
    <2>1. \A q \in Planes : s.planes[q].epoch \in Nat
      BY DEF AgentStates, Positions, PlaneStates
    <2>2. \A o \in AllOps : o.epoch \in Nat
      BY EnvelopeTypes
    <2>3. op \in AllOps /\ op.epoch > s.planes[p].epoch
      BY DEF AllOps, MovesPlane
    <2>4. \A q \in Planes : t.planes[q].epoch \in Nat
      BY <1>2, <2>1, <2>2, <2>3
    <2> QED
      BY <2>1, <2>2, <2>3, <2>4
  <1> HIDE DEF new
  <1>4. OneTuple(t)
    <2>1. \A c \in s.completed : ~SameKey(c, op, p, "commit")
      BY DEF Fresh, Seen
    <2>2. \A c \in s.completed : ~SameKey(c, new.op, new.plane, new.step) /\ ~SameKey(new, c.op, c.plane, c.step)
      BY <1>0, <2>1 DEF SameKey
    <2>3. \A c, d : SameKey(c, d.op, d.plane, d.step) => SameKey(c, d.op, d.plane, c.step)
      BY DEF SameKey
    <2> SUFFICES ASSUME NEW c \in t.completed, NEW d \in t.completed,
                        c.step \in {"reserve", "commit"}, SameKey(c, d.op, d.plane, d.step)
                 PROVE  c.op = d.op
      BY DEF OneTuple
    <2> QED
      BY <1>0, <1>1, <2>2 DEF OneTuple
  <1>5. CommitsAreRecorded(t)
    <2> SUFFICES ASSUME NEW c \in t.completed
                 PROVE  /\ c.step = "commit" => ReachedIn(t, c.op, c.plane)
                        /\ c.step = "reserve" /\ MovedByMe(t, c.op, c.plane) =>
                             Committed(c.op, c.plane) \in t.completed
      BY DEF CommitsAreRecorded
    <2>1. CASE c = new
      BY <1>0, <1>2, <2>1 DEF ReachedIn
    <2>2. CASE c \in s.completed /\ c.plane # p
      <3>1. t.planes[c.plane] = s.planes[c.plane]
        BY <1>0, <1>2, <2>2
      <3>2. /\ MovedByMe(t, c.op, c.plane) <=> MovedByMe(s, c.op, c.plane)
            /\ ReachedIn(t, c.op, c.plane) <=> ReachedIn(s, c.op, c.plane)
        BY <3>1 DEF MovedByMe, ReachedIn
      <3> QED
        BY <1>1, <2>2, <3>2 DEF CommitsAreRecorded
    <2>3. CASE c \in s.completed /\ c.plane = p
      <3>1. c.step = "commit" => ReachedIn(t, c.op, c.plane)
        <4>1. SUFFICES ASSUME c.step = "commit" PROVE ReachedIn(t, c.op, p)
          BY <2>3
        <4>2. ReachedIn(s, c.op, p)
          BY <1>1, <2>3, <4>1 DEF CommitsAreRecorded
        <4>3. c.op.epoch <= s.planes[p].epoch /\ c.op.epoch \in Nat
          BY <1>0, <1>3, <2>3, <4>2 DEF ReachedIn, MovedByMe
        <4> QED
          BY <1>2, <1>3, <4>3 DEF ReachedIn
      <3>2. c.step = "reserve" /\ MovedByMe(t, c.op, c.plane) => c.op = op
        <4>1. SUFFICES ASSUME c.step = "reserve", MovedByMe(t, c.op, p) PROVE c.op = op
          BY <2>3
        <4>2. Who(c.op) = Who(op)
          BY <1>2, <4>1 DEF MovedByMe
        <4> DEFINE r == Reservation(op, p)
        <4>3. r \in s.completed /\ r.op = op /\ r.plane = p /\ r.step = "reserve"
          BY <1>1 DEF JournalIsReserved, Reservation
        <4> HIDE DEF r
        <4>4. SameKey(c, r.op, r.plane, r.step)
          BY <2>3, <4>1, <4>2, <4>3 DEF SameKey
        <4> QED
          BY <1>1, <2>3, <4>1, <4>3, <4>4 DEF OneTuple
      <3> QED
        BY <2>3, <3>1, <3>2
    <2> QED
      BY <1>0, <2>1, <2>2, <2>3
  <1>6. JournalIsReserved(t)
    BY <1>1 DEF JournalIsReserved
  <1>7. NoPlaneIsAhead(t)
    BY <1>1, <1>2, <1>3 DEF NoPlaneIsAhead
  <1>8. NoVerdictIsAhead(t)
    <2> SUFFICES ASSUME NEW o \in Ops, NEW q \in Planes, t.terminal[<<Who(o), q>>] = "activated"
                 PROVE  o.epoch <= t.planes[q].epoch /\ o.token <= s.journal.op.token
      BY DEF NoVerdictIsAhead
    <2>1. <<Who(o), q>> \in Whos \X Planes /\ o.epoch \in Nat /\ o.token \in Nat
      BY WhoTypes, EnvelopeTypes DEF AllOps
    <2>2. CASE <<Who(o), q>> = <<Who(op), p>>
      <3>1. o.epoch = op.epoch /\ o.token = op.token /\ q = p
        BY <2>2, TwinsAlike
      <3> QED
        BY <1>2, <2>1, <3>1
    <2>3. CASE <<Who(o), q>> # <<Who(op), p>>
      <3>1. s.terminal[<<Who(o), q>>] = "activated"
        BY <2>1, <2>3 DEF MovesPlane
      <3>2. o.epoch <= s.planes[q].epoch /\ o.token <= s.journal.op.token
        BY <1>1, <3>1 DEF NoVerdictIsAhead
      <3> QED
        BY <1>2, <1>3, <2>1, <3>2
    <2> QED
      BY <2>2, <2>3
  <1>9. JournalTells(t)
    <2>1. NotesTell(s, s.journal.progress, op)
      BY <1>1 DEF JournalTells, EntryTells
    <2>2. NotesTell(t, s.journal.progress, op)
      BY <1>2, <2>1 DEF NotesTell
    <2>3. PhaseTells(t, "reload_observed", op)
      BY DEF PhaseTells
    <2> QED
      BY <2>2, <2>3 DEF JournalTells, EntryTells
  <1> QED
    BY <1>4, <1>5, <1>6, <1>7, <1>8, <1>9 DEF TaleOk

(* Moving a plane is onward.                                               *)
LEMMA MovingIsOnward ==
  ASSUME NEW s \in AgentStates, NEW op \in Ops, NEW p \in Planes, NEW t, NEW st,
         MovesPlane(s, t, op, p), t.journal = s.journal
  PROVE  Onward(s, t, st)
  <1>1. MovesOnly(s, t, op, p) /\ ~Sealed(s, op, p)
    BY MovedPlanes, MovedIsNotSealed
  <1>2. ASSUME NEW o \in Ops, NEW q \in Planes, Sealed(s, o, q), MovedByMe(t, o, q)
        PROVE  MovedByMe(s, o, q)
    <2>1. SUFFICES ASSUME q = p, Who(o) = Who(op) PROVE FALSE
      BY <1>1, <1>2 DEF MovesOnly
    <2>2. o.token = op.token
      BY <2>1, TwinsAlike
    <2> QED
      BY <1>1, <1>2, <2>1, <2>2 DEF Sealed
  <1> QED
    BY <1>1, <1>2 DEF Onward, MovesOnly, Unopenable

(* commit, for the operation of the journal, or one that is sealed off.    *)
LEMMA TaleByCommit ==
  ASSUME NEW s \in AgentStates, TaleOk(s), LedgerAt(s), SlotsAreAbove(s),
         NEW op \in Ops, NEW p \in Planes, NEW proof, NEW t \in Commit(s, op, p, proof), NEW st,
         \/ s.journal # None /\ s.journal.op = op /\ s.journal.phase = "reload_observed"
         \/ SealedOff(s, op)
  PROVE  /\ TaleOk(t) /\ Onward(s, t, st) /\ t.journal = s.journal
         /\ ReachedIn(t, op, p)
         /\ \A q \in Planes : q # p => (MovedByMe(t, op, q) <=> MovedByMe(s, op, q))
  <1>1. /\ t.journal = s.journal
        /\ \/ NoNews(s, t) /\ Replayed(s, op, p, "commit")
           \/ /\ MovesPlane(s, t, op, p) /\ Fresh(s, op, p, "commit")
              /\ t.completed = s.completed \cup {Committed(op, p)}
    BY CommitTells DEF LedgerAt, Committed
  <1>2. CASE NoNews(s, t) /\ Replayed(s, op, p, "commit")
    <2>1. Tells(s, t) /\ SamePlaces(s, t)
      BY <1>1, <1>2 DEF Tells, JournalGoesOn, NoNews
    <2>2. TaleOk(t) /\ Onward(s, t, st)
      BY <2>1, TaleByTells
    <2>3. PICK c \in s.completed : SameKey(c, op, p, "commit") /\ c.op = op
      BY <1>2 DEF Replayed, Seen
    <2>4. ReachedIn(s, op, p)
      BY <2>3 DEF TaleOk, CommitsAreRecorded, SameKey
    <2> QED
      BY <1>1, <2>1, <2>2, <2>4, SamePlacesTellTheSame
  <1>3. CASE /\ MovesPlane(s, t, op, p) /\ Fresh(s, op, p, "commit")
             /\ t.completed = s.completed \cup {Committed(op, p)}
    <2>1. ~SealedOff(s, op)
      BY <1>3, MovedIsNotSealed DEF SealedOff
    <2>2. TaleOk(t)
      BY <1>1, <1>3, <2>1, TaleByMoving
    <2>3. Onward(s, t, st)
      BY <1>1, <1>3, MovingIsOnward
    <2>4. MovesOnly(s, t, op, p)
      BY <1>3, MovedPlanes
    <2> QED
      BY <1>1, <2>2, <2>3, <2>4 DEF MovesOnly, ReachedIn
  <1> QED
    BY <1>1, <1>2, <1>3

(* commit is not refused the operation of the journal where it stands, but *)
(* for its token: it is on record there.                                   *)
LEMMA StandingIsReplayed ==
  ASSUME NEW s \in AgentStates, TaleOk(s), Justified(s), NEW op \in Ops, NEW p \in Planes,
         NEW proof, s.journal # None, s.journal.op = op, MovedByMe(s, op, p),
         Commit(s, op, p, proof) = {}
  PROVE  op.token < s.max
  <1> SUFFICES ASSUME ~(op.token < s.max) PROVE FALSE
    OBVIOUS
  <1>0. op.token \in Nat /\ s.max \in Nat /\ Who(op) # None
    BY EnvelopeTypes, WhoTypes DEF AllOps, AgentStates
  <1>1. ~Replayed(s, op, p, "commit")
    BY DEF Commit
  <1>2. s.terminal[<<Who(op), p>>] = "activated"
    BY <1>0 DEF Justified, PlaneIsJustified, MovedByMe
  <1>3. Admitted(s, op, p)
    BY <1>0, <1>2 DEF Admitted, IsLeader, TerminalOf
  <1> DEFINE r == Reservation(op, p)
             c == Committed(op, p)
  <1>4. r \in s.completed /\ r.op = op /\ r.plane = p /\ r.step = "reserve"
    BY DEF TaleOk, JournalIsReserved, Reservation
  <1>5. c.op = op /\ c.plane = p /\ c.step = "commit"
    BY DEF Committed
  <1>6. Committed(r.op, r.plane) \in s.completed
    <2> HIDE DEF r
    <2> QED
      BY <1>4 DEF TaleOk, CommitsAreRecorded
  <1>7. c \in s.completed
    BY <1>4, <1>6
  <1> HIDE DEF r, c
  <1>8. SameKey(c, op, p, "commit")
    BY <1>5 DEF SameKey
  <1>9. \A d \in Seen(s, op, p, "commit") : d.op = op
    <2> SUFFICES ASSUME NEW d \in s.completed, SameKey(d, op, p, "commit") PROVE d.op = op
      BY DEF Seen
    <2>1. SameKey(d, c.op, c.plane, c.step) /\ d.step \in {"reserve", "commit"}
      BY <1>5 DEF SameKey
    <2> QED
      BY <1>5, <1>7, <2>1 DEF TaleOk, OneTuple
  <1>10. Replayed(s, op, p, "commit")
    BY <1>3, <1>7, <1>8, <1>9 DEF Replayed, Seen
  <1> QED
    BY <1>1, <1>10

(* Pruning leaves the tale true.                                           *)
LEMMA TaleByPruning ==
  ASSUME NEW s \in AgentStates, TaleOk(s), NEW u \in Pruned(s)
  PROVE  TaleOk(u) /\ u.journal = s.journal /\ u.planes = s.planes /\ u.max = s.max
  <1>1. PICK d : /\ u.completed = {c \in s.completed : Who(c.op) \notin d}
                 /\ s.journal # None => Who(s.journal.op) \notin d
    BY PrunedSteps
  <1>2. /\ u.planes = s.planes /\ u.max = s.max /\ u.journal = s.journal
        /\ \A k \in Whos \X Planes : u.terminal[k] \in {s.terminal[k], None}
    BY PrunedFields
  <1>3. /\ OneTuple(s) /\ CommitsAreRecorded(s) /\ JournalIsReserved(s)
        /\ NoPlaneIsAhead(s) /\ NoVerdictIsAhead(s) /\ JournalTells(s)
    BY DEF TaleOk
  <1>4. SamePlaces(s, u) /\ "activated" # None
    BY <1>2, NoneAssumption DEF SamePlaces, Verdicts
  <1>5. OneTuple(u)
    BY <1>1, <1>3 DEF OneTuple
  <1>6. CommitsAreRecorded(u)
    <2>1. \A op, p : Committed(op, p).op = op
      BY DEF Committed
    <2>2. /\ \A op, p : MovedByMe(u, op, p) <=> MovedByMe(s, op, p)
          /\ \A op, p : ReachedIn(u, op, p) <=> ReachedIn(s, op, p)
      BY <1>2 DEF MovedByMe, ReachedIn
    <2> QED
      BY <1>1, <1>3, <2>1, <2>2 DEF CommitsAreRecorded
  <1>7. JournalIsReserved(u)
    <2>1. \A op, p : Reservation(op, p).op = op
      BY DEF Reservation
    <2> QED
      BY <1>1, <1>2, <1>3, <2>1 DEF JournalIsReserved
  <1>8. NoPlaneIsAhead(u)
    BY <1>2, <1>3 DEF NoPlaneIsAhead
  <1>9. NoVerdictIsAhead(u)
    <2>1. \A op \in Ops : Who(op) \in Whos
      BY WhoTypes DEF AllOps
    <2> QED
      BY <1>2, <1>3, <1>4, <2>1 DEF NoVerdictIsAhead
  <1>10. JournalTells(u)
    BY <1>2, <1>3, <1>4, SamePlacesTellTheSame DEF JournalTells
  <1> QED
    BY <1>2, <1>5, <1>6, <1>7, <1>8, <1>9, <1>10 DEF TaleOk

(* What is journaled and reserved was issued; an operation that is issued  *)
(* again is the newest of them: by epoch, and by token within an epoch.    *)
IssuedBy(s, st) ==
  /\ s.journal # None => s.journal.op \in st
  /\ \A c \in s.completed : c.step = "reserve" => c.op \in st
  /\ \A p \in Planes, e \in Epochs : s.reservations[p][e] # None => s.reservations[p][e].op \in st
NewestOf(st, op) ==
  op \in st => \A o \in st :
    \/ o.epoch < op.epoch
    \/ o.epoch = op.epoch /\ (o.name = op.name \/ o.token < op.token)
Issuing(s, st, op) ==
  /\ s \in AgentStates /\ TaleOk(s) /\ LedgerAt(s) /\ st \subseteq Ops /\ IssuedBy(s, st)
  /\ s.journal # None => s.journal.op.token <= s.max
  /\ op \in Ops /\ NewestOf(st, op)

(* What is issued for the first time finds nothing of its own.             *)
LEMMA FirstIsFresh ==
  ASSUME NEW m, NEW st, NEW op, Issuing(m, st, op), NEW t, Taken(m, t, op), op \notin st,
         NEW p \in Planes
  PROVE  ~Decided(m, <<Who(op), p>>) /\ op.epoch > m.planes[p].epoch
  <1>0. op \in Ops /\ op.epoch \in Nat /\ op.epoch \in Epochs /\ m.planes[p].epoch \in Nat
    BY EnvelopeTypes DEF Issuing, AllOps, AgentStates, Positions, PlaneStates
  <1>1. ~Replayed(m, op, p, "reserve")
    <2>1. SUFFICES ASSUME NEW c \in m.completed, c.op = op, SameKey(c, op, p, "reserve")
                   PROVE  FALSE
      BY DEF Replayed, Seen
    <2> QED
      BY <2>1 DEF Issuing, IssuedBy, SameKey
  <1>2. Fresh(m, op, p, "reserve") /\ Acquirable(m, op, p)
    BY <1>1 DEF Taken, Reservable
  <1>3. ~HasSlot(m, op, p)
    BY <1>0 DEF HasSlot, Issuing, IssuedBy
  <1>4. op.epoch > m.planes[p].epoch /\ m.terminal[<<Who(op), p>>] = None
    BY <1>2, <1>3 DEF Acquirable, Fresh, TerminalOf
  <1> QED
    BY <1>0, <1>4 DEF Decided, IsPast

(* The reservation, after the clean-up.                                    *)
LEMMA TaleByTaking ==
  ASSUME NEW m, NEW st, NEW op, Issuing(m, st, op), NEW t, Taken(m, t, op)
  PROVE  TaleOk(t)
  <1> DEFINE old == OwnsJournal(m.journal, op)
             r(p) == Reservation(op, p)
  <1>0. /\ m \in AgentStates /\ op \in Ops /\ op \in AllOps /\ st \subseteq Ops
        /\ \A p : r(p).op = op /\ r(p).plane = p /\ r(p).step = "reserve"
    BY DEF Issuing, Reservation, AllOps
  <1>1. /\ OneTuple(m) /\ CommitsAreRecorded(m) /\ JournalIsReserved(m)
        /\ NoPlaneIsAhead(m) /\ NoVerdictIsAhead(m) /\ JournalTells(m)
    BY DEF TaleOk, Issuing
  <1>2. /\ t.planes = m.planes /\ t.terminal = m.terminal /\ op.token >= m.max
        /\ m.completed \subseteq t.completed
        /\ \A p \in Planes : r(p) \in t.completed /\ Reservable(m, op, p)
        /\ \A c \in t.completed : c \in m.completed \/
             \E p \in Planes : c = r(p) /\ Fresh(m, op, p, "reserve") /\ Acquirable(m, op, p)
        /\ t.journal = IF old THEN m.journal ELSE Opening(op, NextSeq(m))
    BY DEF Taken
  <1>3. /\ t.journal # None
        /\ ~old => t.journal.op = op /\ t.journal.phase = "preflight"
                   /\ t.journal.progress = [p \in Planes |-> "reserved"]
        /\ old => t.journal = m.journal /\ m.journal # None /\ Who(m.journal.op) = Who(op)
    <2>1. Opening(op, NextSeq(m)) # None
      BY <1>0, OpeningType, NoneAssumption
    <2> QED
      BY <1>2, <2>1 DEF OwnsJournal, Opening
  <1>4. SamePlaces(m, t)
    BY <1>2 DEF SamePlaces
  <1>5. /\ \A o, p : MovedByMe(t, o, p) <=> MovedByMe(m, o, p)
        /\ \A o, p : ReachedIn(t, o, p) <=> ReachedIn(m, o, p)
    BY <1>2 DEF MovedByMe, ReachedIn
  <1> HIDE DEF r, old
  <1>6. OneTuple(t)
    <2> SUFFICES ASSUME NEW c \in t.completed, NEW d \in t.completed,
                        c.step \in {"reserve", "commit"}, SameKey(c, d.op, d.plane, d.step)
                 PROVE  c.op = d.op
      BY DEF OneTuple
    <2>1. ASSUME NEW p, NEW e \in m.completed, Fresh(m, op, p, "reserve")
          PROVE  ~SameKey(e, op, p, "reserve")
      BY <2>1 DEF Fresh, Seen
    <2>2. CASE c \in m.completed /\ d \in m.completed
      BY <1>1, <2>2 DEF OneTuple
    <2>3. CASE c \notin m.completed
      <3>1. PICK p \in Planes : c = r(p) /\ Fresh(m, op, p, "reserve")
        BY <1>2, <2>3
      <3>2. SameKey(d, op, p, "reserve")
        BY <1>0, <3>1 DEF SameKey
      <3>3. d \notin m.completed
        BY <2>1, <3>1, <3>2
      <3> QED
        BY <1>0, <1>2, <3>1, <3>3
    <2>4. CASE d \notin m.completed
      <3>1. PICK p \in Planes : d = r(p) /\ Fresh(m, op, p, "reserve")
        BY <1>2, <2>4
      <3>2. SameKey(c, op, p, "reserve")
        BY <1>0, <3>1 DEF SameKey
      <3>3. c \notin m.completed
        BY <2>1, <3>1, <3>2
      <3> QED
        BY <1>0, <1>2, <3>1, <3>3
    <2> QED
      BY <2>2, <2>3, <2>4
  <1>7. CommitsAreRecorded(t)
    <2> SUFFICES ASSUME NEW c \in t.completed
                 PROVE  /\ c.step = "commit" => ReachedIn(t, c.op, c.plane)
                        /\ c.step = "reserve" /\ MovedByMe(t, c.op, c.plane) =>
                             Committed(c.op, c.plane) \in t.completed
      BY DEF CommitsAreRecorded
    <2>1. CASE c \in m.completed
      BY <1>1, <1>2, <1>5, <2>1 DEF CommitsAreRecorded
    <2>2. CASE c \notin m.completed
      <3>1. PICK p \in Planes : c = r(p) /\ Fresh(m, op, p, "reserve")
        BY <1>2, <2>2
      <3>2. ~MovedByMe(m, op, p)
        <4>1. SUFFICES ASSUME m.planes[p].by = Who(op) PROVE FALSE
          BY DEF MovedByMe
        <4>2. Who(op) # None /\ PlaneIsJustified(m, p)
          BY <1>0, WhoTypes DEF Issuing, LedgerAt, Justified
        <4>3. m.terminal[<<Who(op), p>>] = "activated" /\ "activated" # None
          BY <4>1, <4>2, NoneAssumption DEF PlaneIsJustified, Verdicts
        <4> QED
          BY <3>1, <4>3 DEF Fresh, TerminalOf
      <3> QED
        BY <1>0, <1>5, <3>1, <3>2
    <2> QED
      BY <2>1, <2>2
  <1>8. JournalIsReserved(t)
    BY <1>1, <1>2, <1>3 DEF JournalIsReserved, r
  <1>9. \A o \in Ops : o.epoch \in Nat /\ o.token \in Nat
    BY EnvelopeTypes DEF AllOps
  <1>10. m.max \in Nat /\ (m.journal # None => m.journal.op \in st /\ m.journal.op \in Ops)
         /\ \A p \in Planes : m.planes[p].epoch \in Nat
    BY <1>0 DEF Issuing, IssuedBy, AgentStates, Positions, PlaneStates
  <1>11. NoPlaneIsAhead(t)
    <2> SUFFICES ASSUME NEW p \in Planes, m.planes[p].epoch # 0
                 PROVE  m.planes[p].epoch <= t.journal.op.epoch
      BY <1>2, <1>3 DEF NoPlaneIsAhead
    <2>1. m.journal # None /\ m.planes[p].epoch <= m.journal.op.epoch
      BY <1>1 DEF NoPlaneIsAhead
    <2>2. CASE old
      BY <1>3, <2>1, <2>2
    <2>3. CASE ~old /\ op \in st
      <3>1. m.journal.op.epoch <= op.epoch
        BY <1>0, <1>9, <1>10, <2>1, <2>3 DEF Issuing, NewestOf
      <3> QED
        BY <1>0, <1>3, <1>9, <1>10, <2>1, <2>3, <3>1
    <2>4. CASE ~old /\ op \notin st
      <3>1. op.epoch > m.planes[p].epoch
        BY <2>4, FirstIsFresh
      <3> QED
        BY <1>0, <1>3, <1>9, <1>10, <2>4, <3>1
    <2> QED
      BY <2>2, <2>3, <2>4
  <1>12. NoVerdictIsAhead(t)
    <2> SUFFICES ASSUME NEW o \in Ops, NEW p \in Planes, m.terminal[<<Who(o), p>>] = "activated"
                 PROVE  o.epoch <= m.planes[p].epoch /\ o.token <= t.journal.op.token
      BY <1>2, <1>3 DEF NoVerdictIsAhead
    <2>1. /\ o.epoch <= m.planes[p].epoch
          /\ m.journal # None /\ o.token <= m.journal.op.token
      BY <1>1 DEF NoVerdictIsAhead
    <2>2. m.journal.op.token <= m.max
      BY <2>1 DEF Issuing
    <2>3. o.token <= op.token
      BY <1>0, <1>2, <1>9, <1>10, <2>1, <2>2
    <2> QED
      BY <1>3, <2>1, <2>3
  <1>13. JournalTells(t)
    <2>1. CASE old
      BY <1>1, <1>3, <1>4, <2>1, SamePlacesTellTheSame DEF JournalTells
    <2>2. CASE ~old
      BY <1>3, <2>2 DEF JournalTells, EntryTells, NotesTell, PhaseTells
    <2> QED
      BY <2>1, <2>2
  <1> QED
    BY <1>6, <1>7, <1>8, <1>11, <1>12, <1>13 DEF TaleOk

(* The clean-up leaves an issue what it was.                               *)
LEMMA StaleClosedIssues ==
  ASSUME NEW s, NEW st, NEW op, Issuing(s, st, op), NEW m, m = StaleClosed(s, op)
  PROVE  Issuing(m, st, op) /\ Tells(s, m) /\ Keeps(s, m)
  <1>1. s \in AgentStates /\ op \in Ops /\ LedgerAt(s) /\ TaleOk(s)
    BY DEF Issuing
  <1>2. m \in AgentStates /\ Administers(s, m) /\ m.max = s.max /\ AddsNothing(s, m)
    BY <1>1, StaleClosedType, StaleClosedEffect, StaleClosedDrops
  <1>3. Tells(s, m)
    BY <1>1, StaleClosedTells DEF TaleOk
  <1>4. LedgerAt(m) /\ Keeps(s, m)
    BY <1>1, <1>2, EffectKeepsLedger DEF Effect
  <1>5. TaleOk(m)
    BY <1>1, <1>3, TaleByTells
  <1>6. IssuedBy(m, st)
    BY <1>2 DEF IssuedBy, Issuing, AddsNothing, SlotsOnlyFreed
  <1>7. m.journal # None => m.journal.op.token <= m.max
    BY <1>2 DEF Issuing, AddsNothing
  <1> QED
    BY <1>2, <1>3, <1>4, <1>5, <1>6, <1>7 DEF Issuing

(* A reservation opens no journal for what cannot be opened.               *)
LEMMA UnopenableIsNotOpened ==
  ASSUME NEW s, NEW st, NEW op, Issuing(s, st, op), NEW t \in ReserveAll(s, op),
         NEW o \in Ops, Unopenable(s, st, o), SealedOff(s, o), Who(o) = Who(op)
  PROVE  FALSE
  <1> DEFINE m == StaleClosed(s, op)
  <1>1. Issuing(m, st, op) /\ Tells(s, m) /\ Keeps(s, m)
    BY StaleClosedIssues
  <1>2. Taken(m, t, op)
    BY ReserveAllTells DEF Issuing
  <1>3. m.max = s.max /\ m.planes = s.planes
    BY StaleClosedEffect DEF Administers, Issuing
  <1> HIDE DEF m
  <1>4. /\ op \in Ops /\ op.token \in Nat /\ s.max \in Nat /\ op.epoch \in Nat
        /\ \A p \in Planes : s.planes[p].epoch \in Nat /\ <<Who(op), p>> \in Whos \X Planes
    BY EnvelopeTypes, WhoTypes DEF Issuing, AllOps, AgentStates, Positions, PlaneStates
  <1>5. o.epoch = op.epoch /\ o.token = op.token /\ o.name = op.name
    BY <1>4, TwinsAlike
  <1>6. ~(o.token < s.max)
    BY <1>2, <1>3, <1>4, <1>5 DEF Taken
  <1>7. \A p \in Planes : s.terminal[<<Who(op), p>>] # None =>
          m.terminal[<<Who(op), p>>] = s.terminal[<<Who(op), p>>]
    BY <1>1, <1>4 DEF Keeps, VerdictsKept
  <1>8. op \in st
    <2> SUFFICES ASSUME op \notin st PROVE FALSE
      OBVIOUS
    <2>1. PICK p : p \in Planes
      BY PlanesAssumption
    <2>2. Decided(s, <<Who(op), p>>)
      BY <1>6, <2>1 DEF SealedOff, Sealed
    <2>3. Decided(m, <<Who(op), p>>)
      BY <1>3, <1>7, <2>1, <2>2 DEF Decided, IsPast
    <2> QED
      BY <1>1, <1>2, <2>1, <2>3, FirstIsFresh
  <1>9. \A x \in st : x.epoch <= op.epoch
                       /\ ~(x.epoch = op.epoch /\ x.name # op.name /\ x.token >= op.token)
    <2>1. \A x \in st : x.epoch \in Nat /\ x.token \in Nat
      BY EnvelopeTypes DEF Issuing, AllOps
    <2> QED
      BY <1>4, <1>8, <2>1 DEF Issuing, NewestOf
  <1>10. \A x \in st : x.epoch \in Nat
    BY EnvelopeTypes DEF Issuing, AllOps
  <1>11. ~Outranked(st, o)
    BY <1>4, <1>5, <1>9, <1>10 DEF Outranked
  <1>12. PICK p \in Planes : StaysClosed(s, <<Who(op), p>>)
    BY <1>6, <1>11 DEF Unopenable
  <1>13. CASE s.terminal[<<Who(op), p>>] \in {"failed", "aborted"}
    <2>1. m.terminal[<<Who(op), p>>] \in {"failed", "aborted"}
      BY <1>7, <1>13, NoneAssumption DEF Verdicts
    <2> QED
      BY <1>2, <2>1 DEF Taken, Reservable, Replayed, Fresh, Admitted, TerminalOf
  <1>14. CASE IsPast(s, <<Who(op), p>>)
    <2>1. s.planes[p].epoch > op.epoch
      BY <1>4, <1>14 DEF IsPast
    <2>2. s.planes[p].epoch # 0
      BY <1>4, <2>1
    <2>3. s.journal # None /\ s.planes[p].epoch <= s.journal.op.epoch /\ s.journal.op \in st
      BY <2>2 DEF Issuing, TaleOk, NoPlaneIsAhead, IssuedBy
    <2>4. s.journal.op.epoch <= op.epoch /\ s.journal.op.epoch \in Nat
      BY <1>9, <1>10, <2>3
    <2>5. s.planes[p].epoch \in Nat /\ op.epoch \in Nat
      BY <1>4
    <2> QED
      BY <2>1, <2>3, <2>4, <2>5
  <1> QED
    BY <1>12, <1>13, <1>14 DEF StaysClosed

(* reserveAll leaves the tale true, goes onward, and stands aside.         *)
LEMMA TaleByReserve ==
  ASSUME NEW s, NEW st, NEW op, Issuing(s, st, op), NEW t \in ReserveAll(s, op)
  PROVE  TaleOk(t) /\ Onward(s, t, st) /\ Aside(s, t)
  <1> DEFINE m == StaleClosed(s, op)
             old == OwnsJournal(m.journal, op)
  <1>1. Issuing(m, st, op) /\ Tells(s, m)
    BY StaleClosedIssues
  <1>2. Taken(m, t, op)
    BY ReserveAllTells DEF Issuing
  <1>3. TaleOk(t)
    BY <1>1, <1>2, TaleByTaking
  <1>4. Onward(s, m, st)
    BY <1>1, TaleByTells DEF Issuing
  <1>5. /\ m.planes = s.planes /\ m.max = s.max
        /\ OwnsJournal(s.journal, op) => m.journal = s.journal
        /\ old => OwnsJournal(s.journal, op)
        /\ Unfinished(s.journal) /\ ~OwnsJournal(s.journal, op) =>
             \A p \in Planes : m.terminal[<<Who(s.journal.op), p>>] # None
    BY StaleClosedTells, StaleClosedEffect DEF Issuing, TaleOk
  <1> HIDE DEF m
  <1>6. /\ t.planes = m.planes /\ t.terminal = m.terminal
        /\ t.journal = IF old THEN m.journal ELSE Opening(op, NextSeq(m))
    BY <1>2 DEF Taken
  <1> HIDE DEF old
  <1>7. /\ \A o, p : MovedByMe(t, o, p) <=> MovedByMe(s, o, p)
        /\ \A o, p : ReachedIn(t, o, p) <=> ReachedIn(s, o, p)
    BY <1>5, <1>6 DEF MovedByMe, ReachedIn
  <1>8. t.journal = s.journal \/ (s.journal # None => t.journal # None /\ t.journal.seq > s.journal.seq)
    <2>1. CASE old
      BY <1>5, <1>6, <2>1
    <2>2. CASE ~old
      <3>1. Opening(op, NextSeq(m)) # None /\ Opening(op, NextSeq(m)).seq = NextSeq(m)
        BY <1>1, OpeningType, NoneAssumption DEF Issuing, Opening
      <3>2. SUFFICES ASSUME s.journal # None PROVE NextSeq(m) > s.journal.seq
        BY <1>6, <2>2, <3>1
      <3>3. m.journal # None /\ s.journal.seq \in Nat /\ m.journal.seq \in Nat
            /\ m.journal.seq >= s.journal.seq
        BY <1>1, <3>2 DEF Tells, JournalGoesOn, Issuing, AgentStates, Journals
      <3> QED
        BY <3>3 DEF NextSeq
    <2> QED
      BY <2>1, <2>2
  <1>9. ASSUME NEW o \in Ops, Unopenable(s, st, o), SealedOff(s, o), t.journal # None
        PROVE  Who(t.journal.op) # Who(o)
    <2>1. CASE old
      BY <1>4, <1>6, <1>9, <2>1 DEF Onward
    <2>2. CASE ~old
      <3>1. t.journal.op = op
        BY <1>6, <2>2 DEF Opening
      <3> QED
        BY <1>9, <3>1, UnopenableIsNotOpened
    <2> QED
      BY <2>1, <2>2
  <1>10. Onward(s, t, st)
    BY <1>7, <1>8, <1>9 DEF Onward
  <1>11. Aside(s, t)
    <2>1. SamePlaces(s, t)
      BY <1>5, <1>6 DEF SamePlaces
    <2>2. ASSUME Unfinished(s.journal), t.journal # s.journal
          PROVE  SealedOff(t, s.journal.op)
      <3>1. ~OwnsJournal(s.journal, op)
        <4>1. OwnsJournal(s.journal, op) => old /\ t.journal = s.journal
          BY <1>5, <1>6 DEF old
        <4> QED
          BY <2>2, <4>1
      <3> QED
        BY <1>5, <1>6, <2>2, <3>1 DEF SealedOff, Sealed, Decided
    <2> QED
      BY <2>1, <2>2 DEF Aside
  <1> QED
    BY <1>3, <1>10, <1>11
=============================================================================
