--------------------------- MODULE DpApplyProofs ---------------------------
(***************************************************************************)
(* What the apply path (DpApply) keeps, for any operations, membership     *)
(* deltas, retention, number of calls in flight and faults: its types, a   *)
(* baseline that is whole, calls that assertInvariants never throws out    *)
(* when leaders fence first, operations that move no plane once they are   *)
(* cancelled, a link that is turned for the holder alone, and a journal    *)
(* that tells the truth about the planes.                                  *)
(*                                                                         *)
(* A step either leaves the agent alone or is one call of it, made for the *)
(* operation of the frame it works in (AgentMoves); what that call may     *)
(* have done is in DpAgentLemmas.  The invariant (ApplyInv) says which     *)
(* operation a frame may work for.  That the journal is true rests on a    *)
(* second one (JournalInv): what each call in flight knows of the entry it *)
(* read, and that whoever stands beside the drive leaves it that.          *)
(***************************************************************************)
EXTENDS DpApply, DpAgentLemmas

-----------------------------------------------------------------------------
(* The agent between two steps.                                            *)

(* The holder has the newest token, no record has a newer one, and the     *)
(* candidate is an operation.                                              *)
RecordsAreSound(s) ==
  /\ s.holder # None => s.holder.token = s.max
  /\ \A r \in {s.lastPublishIntent, s.lastActivated, s.pendingActivation} \ {None} :
       r.token <= s.max
  /\ s.pendingActivation # None => \E op \in Ops : s.pendingActivation = RecordOf(op)
AgentOk(s) ==
  /\ s \in AgentStates /\ SlotsAreAbove(s) /\ LedgerAt(s) /\ RecordsAreSound(s)

(* What never goes back.                                                   *)
Forward(s, w) ==
  /\ w.max >= s.max
  /\ s.journal # None => w.journal # None
  /\ \A k \in Whos \X Planes : /\ StaysClosed(s, k) => StaysClosed(w, k)
                               /\ Decided(s, k) => Decided(w, k)

(* The candidate is the one there was, or an operation.                    *)
CandidateBy(s, t) ==
  t.pendingActivation \in {s.pendingActivation, None} \cup {RecordOf(op) : op \in Ops}

(* What is decided stays decided, through the call and its pruning.        *)
LEMMA DecidedStaysDecided ==
  ASSUME NEW s \in AgentStates, NEW t \in AgentStates, Keeps(s, t), EpochsUp(s, t), Placed(t),
         NEW u, u \in Pruned(t), NEW k \in Whos \X Planes, Decided(s, k)
  PROVE  Decided(u, k)
  <1>0. /\ k[2] \in Planes
        /\ s.planes[k[2]].epoch \in Nat /\ t.planes[k[2]].epoch \in Nat
        /\ \A op \in Ops : op.epoch \in Nat
    BY EnvelopeTypes DEF AgentStates, Positions, PlaneStates, AllOps
  <1>1. Decided(t, k)
    <2>1. CASE s.terminal[k] # None
      BY <2>1 DEF Keeps, VerdictsKept, Decided
    <2>2. CASE IsPast(s, k)
      BY <1>0, <2>2 DEF IsPast, Decided, EpochsUp
    <2> QED
      BY <2>1, <2>2 DEF Decided
  <1>2. /\ u.planes = t.planes
        /\ \/ u.terminal[k] = t.terminal[k]
           \/ TerminalPrunable(t, k[1], k[2], t.terminalAt[k])
    BY PrunedFields
  <1>3. CASE TerminalPrunable(t, k[1], k[2], t.terminalAt[k])
    <2>1. t.terminalAt[k] # None /\ t.terminalAt[k] < t.planes[k[2]].epoch
      BY <1>3 DEF TerminalPrunable
    <2>2. EpochIs(k[1], t.terminalAt[k])
      BY <2>1 DEF Placed
    <2>3. IsPast(u, k)
      BY <1>2, <2>1, <2>2 DEF IsPast, EpochIs
    <2> QED
      BY <2>3 DEF Decided
  <1>4. CASE u.terminal[k] = t.terminal[k]
    BY <1>1, <1>2, <1>4 DEF Decided, IsPast
  <1> QED
    BY <1>2, <1>3, <1>4

(* Whatever a call left, and whether assertInvariants let it through: the  *)
(* agent is in order, and nothing has gone back.                           *)
LEMMA SavedIsOk ==
  ASSUME NEW s, AgentOk(s), NEW t \in AgentStates, Effect(s, t), SlotsAreAbove(t),
         CandidateBy(s, t), NEW u \in Pruned(t), NEW w, w = Guarded(s, u)
  PROVE  AgentOk(w) /\ Forward(s, w)
  <1>0. /\ s \in AgentStates /\ SlotsAreAbove(s) /\ LedgerAt(s) /\ RecordsAreSound(s)
        /\ s.max \in Nat
    BY DEF AgentOk, AgentStates
  <1>1. LedgerAt(t) /\ Keeps(s, t) /\ EpochsUp(s, t) /\ Placed(t)
    BY <1>0, EffectKeepsLedger DEF LedgerAt
  <1>2. /\ u \in AgentStates /\ LedgerAt(u) /\ u.max = t.max /\ u.journal = t.journal
        /\ u.reservations = t.reservations /\ u.pendingActivation = t.pendingActivation
    BY <1>1, PrunedFields, PrunedKeepsLedger
  <1>3. SlotsAreAbove(u)
    BY <1>2 DEF SlotsAreAbove
  <1>4. Forward(s, u)
    <2>1. \A k \in Whos \X Planes : StaysClosed(s, k) => StaysClosed(u, k)
      BY <1>0, <1>1, ClosedStaysClosed
    <2>2. \A k \in Whos \X Planes : Decided(s, k) => Decided(u, k)
      BY <1>0, <1>1, DecidedStaysDecided
    <2> QED
      BY <1>1, <1>2, <2>1, <2>2 DEF Forward, Keeps, JournalKept
  <1>5. CASE w = s
    BY <1>0, <1>5 DEF AgentOk, Forward
  <1>6. CASE w = u /\ BrokenClauses(s, u) = {}
    <2>1. I1HolderIsNewest(u) /\ I5IntentFenced(s, u)
      <3>1. /\ Breaks("I1 holder", I1HolderIsNewest(u)) = {}
            /\ Breaks("I5", I5IntentFenced(s, u)) = {}
        BY <1>6, Zenon DEF BrokenClauses
      <3>2. ASSUME ~I1HolderIsNewest(u) PROVE FALSE
        BY <3>1, <3>2, Zenon DEF Breaks
      <3>3. ASSUME ~I5IntentFenced(s, u) PROVE FALSE
        BY <3>1, <3>3, Zenon DEF Breaks
      <3> QED
        BY <3>2, <3>3
    <2>2. u.pendingActivation # None => \E op \in Ops : u.pendingActivation = RecordOf(op)
      BY <1>0, <1>2 DEF CandidateBy, RecordsAreSound
    <2>3. RecordsAreSound(u)
      BY <2>1, <2>2 DEF RecordsAreSound, I1HolderIsNewest, I5IntentFenced
    <2> QED
      BY <1>2, <1>3, <1>4, <1>6, <2>3 DEF AgentOk
  <1> QED
    BY <1>5, <1>6 DEF Guarded

-----------------------------------------------------------------------------
(* The frames: what a call in flight carries, by where it is.              *)

(* Where a call may be, by what it carries.                                *)
IdlePcs == {"idle", "recover_idle"}
AbortPcs == {"abort", "abort_release", "abort_finish", "abort_read", "abort_close"}
ActivePcs == CallStates \ (IdlePcs \cup AbortPcs)   \* at work for its operation
EntryPcs ==                                          \* with the entry it read
  {"preflight", "publish_intent", "record_intent", "publish", "stage",
   "stage_membership", "reload_intent", "reload_observed", "await_commit",
   "commit", "fail", "fail_read"}
ProgressPcs == {"stage", "stage_membership", "commit", "fail", "fail_read"}
PlainPcs ==
  {"queue", "loop", "finish", "signal", "await", "recover_close", "recover_free", "reclaim"}

(* What a call notes of the planes, and what it carries.                   *)
Notes == [Planes -> Progress]

Frames ==
  [pc : CallStates, op : Ops \cup {None}, j : Journals \cup {None}, todo : SUBSET Planes,
   progress : Notes \cup {None}, entry : Journals \cup Phases \cup {None},
   next : CallStates \cup Phases \cup {"refused"}, after : {"idle", "loop"}]

(* What a frame must carry where it is.                                    *)
FrameOk(c) ==
  /\ c \in Frames
  /\ c.pc \notin IdlePcs => c.op \in Ops
  /\ c.pc \in EntryPcs => c.j \in Journals /\ c.j.op = c.op
  /\ c.pc \in ProgressPcs => c.progress \in Notes
  /\ c.pc = "write" => /\ c.entry \in Journals /\ c.entry.op = c.op
                       /\ c.next \in {"loop", "finish", "signal"}
  /\ c.pc = "close" => c.next \in Phases
  /\ c.pc = "abort_close" => c.entry \in Phases \cup {None}
  /\ c.pc \in AbortPcs \ {"abort"} => c.todo = {}

(* A frame that has no operation, or is at work for op.                    *)
WorksFor(d, op) ==
  FrameOk(d) /\ (d.pc \in IdlePcs \/ (d.pc \in ActivePcs /\ d.op = op))

(* The frames the actions build.                                           *)
LEMMA PcsAreStates ==
  /\ IdlePcs \subseteq CallStates /\ AbortPcs \subseteq CallStates
  /\ EntryPcs \subseteq ActivePcs /\ ProgressPcs \subseteq EntryPcs
  /\ PlainPcs \subseteq ActivePcs \ EntryPcs
  /\ "write" \in ActivePcs \ EntryPcs /\ "close" \in ActivePcs \ EntryPcs
  /\ "write" \notin PlainPcs /\ "close" \notin PlainPcs
  /\ ActivePcs \subseteq CallStates
  /\ "idle" \in CallStates
  BY DEF IdlePcs, AbortPcs, ActivePcs, EntryPcs, ProgressPcs, PlainPcs, CallStates

(* A slot without a call.                                                  *)
LEMMA IdleFrame == FrameOk(Idle) /\ Idle.pc = "idle"
  BY DEF Idle, FrameOk, Frames, CallStates, IdlePcs, EntryPcs, ProgressPcs, AbortPcs

(* A frame that has just been entered.                                     *)
LEMMA InCallFields ==
  ASSUME NEW pc \in CallStates, NEW op \in Ops \cup {None}
  PROVE  LET d == InCall(pc, op) IN
         /\ d \in Frames
         /\ d.pc = pc /\ d.op = op /\ d.todo = {} /\ d.next = "idle" /\ d.after = "idle"
  <1>1. Idle \in Frames /\ Idle.todo = {} /\ Idle.next = "idle" /\ Idle.after = "idle"
    BY IdleFrame DEF FrameOk, Idle
  <1> HIDE DEF Idle
  <1> QED
    BY <1>1 DEF InCall, Frames

(* The frames that carry their operation and nothing else.                 *)
LEMMA PlainFrame ==
  ASSUME NEW pc \in PlainPcs, NEW op \in Ops
  PROVE  WorksFor(InCall(pc, op), op)
  <1> DEFINE d == InCall(pc, op)
  <1>1. pc \in ActivePcs /\ pc \notin EntryPcs /\ pc \notin {"write", "close"} /\ pc \in CallStates
    BY PcsAreStates
  <1>2. d \in Frames /\ d.pc = pc /\ d.op = op
    BY <1>1, InCallFields
  <1> HIDE DEF d
  <1>3. FrameOk(d)
    BY <1>1, <1>2, PcsAreStates DEF FrameOk, ActivePcs, AbortPcs
  <1> QED
    BY <1>1, <1>2, <1>3 DEF WorksFor, d

(* finishOperation, on its way.                                            *)
LEMMA FinishesFrame ==
  ASSUME NEW op \in Ops, NEW stuck \in SUBSET Planes, NEW after \in {"idle", "loop"}
  PROVE  WorksFor(Finishes(op, stuck, after), op)
  <1> DEFINE b == InCall("finish", op)
             d == Finishes(op, stuck, after)
  <1>1. "finish" \in ActivePcs \ EntryPcs /\ "finish" \in CallStates
    BY PcsAreStates DEF PlainPcs
  <1>2. b \in Frames /\ b.pc = "finish" /\ b.op = op
    BY <1>1, InCallFields
  <1>3. d = [b EXCEPT !.todo = stuck, !.after = after]
    BY DEF Finishes
  <1> HIDE DEF b, d
  <1>4. d \in Frames /\ d.pc = "finish" /\ d.op = op
    BY <1>2, <1>3 DEF Frames
  <1>5. FrameOk(d)
    BY <1>1, <1>4, PcsAreStates DEF FrameOk, AbortPcs
  <1> QED
    BY <1>1, <1>4, <1>5 DEF WorksFor, d

(* An entry on its way to the journal, and where it leads.                 *)
LEMMA WritesFields ==
  ASSUME NEW entry \in Journals, NEW how \in {"loop", "finish", "signal"}
  PROVE  LET d == Writes(entry, how) IN
         /\ d \in Frames /\ d.pc = "write" /\ d.op = entry.op /\ d.next = how
         /\ d.entry \in Journals /\ d.entry.op = entry.op
  <1> DEFINE next == [entry EXCEPT !.seq = @ + 1]
             b == InCall("write", entry.op)
             d == Writes(entry, how)
  <1>1. next \in Journals /\ next.op = entry.op /\ entry.op \in Ops
    BY DEF Journals
  <1>2. b \in Frames /\ b.pc = "write" /\ b.op = entry.op
    BY <1>1, InCallFields, PcsAreStates
  <1>3. how \in CallStates
    BY DEF CallStates
  <1>4. d = [b EXCEPT !.entry = next, !.next = how]
    BY DEF Writes
  <1> HIDE DEF b, next, d
  <1>5. d \in Frames /\ d.pc = b.pc /\ d.op = b.op /\ d.entry = next /\ d.next = how
    BY <1>1, <1>2, <1>3, <1>4 DEF Frames
  <1> QED
    BY <1>1, <1>2, <1>5 DEF d

(* An entry is written for the operation it is about (next).               *)
LEMMA WritesFrame ==
  ASSUME NEW entry \in Journals, NEW how \in {"loop", "signal"}
  PROVE  WorksFor(Writes(entry, how), entry.op)
  <1> DEFINE d == Writes(entry, how)
  <1>1. /\ d \in Frames /\ d.pc = "write" /\ d.op = entry.op /\ d.next = how
        /\ d.entry \in Journals /\ d.entry.op = entry.op
    BY WritesFields
  <1> HIDE DEF d
  <1>2. entry.op \in Ops
    BY DEF Journals
  <1>3. FrameOk(d)
    BY <1>1, <1>2, PcsAreStates DEF FrameOk, AbortPcs
  <1> QED
    BY <1>1, <1>3, PcsAreStates DEF WorksFor, d

(* So is the last entry, which the finish follows (next with over).        *)
LEMMA WritesAndFinishesFrame ==
  ASSUME NEW entry \in Journals, NEW stuck \in SUBSET Planes, NEW after \in {"idle", "loop"}
  PROVE  WorksFor(WritesAndFinishes(entry, stuck, after), entry.op)
  <1> DEFINE b == Writes(entry, "finish")
             d == WritesAndFinishes(entry, stuck, after)
  <1>1. /\ b \in Frames /\ b.pc = "write" /\ b.op = entry.op /\ b.next = "finish"
        /\ b.entry \in Journals /\ b.entry.op = entry.op
    BY WritesFields
  <1>2. d = [b EXCEPT !.todo = stuck, !.after = after]
    BY DEF WritesAndFinishes
  <1> HIDE DEF b, d
  <1>3. d \in Frames /\ d.pc = b.pc /\ d.op = b.op /\ d.next = b.next /\ d.entry = b.entry
    BY <1>1, <1>2 DEF Frames
  <1>4. entry.op \in Ops
    BY DEF Journals
  <1>5. FrameOk(d)
    BY <1>1, <1>3, <1>4, PcsAreStates DEF FrameOk, AbortPcs
  <1> QED
    BY <1>1, <1>3, <1>5, PcsAreStates DEF WorksFor, d

(* A frame with an entry, at one of the places that only need it.          *)
LEMMA EntryFrame ==
  ASSUME NEW c \in Frames, c.pc \in EntryPcs, c.j \in Journals, c.j.op = c.op,
         c.pc \in ProgressPcs => c.progress \in Notes
  PROVE  WorksFor(c, c.j.op)
  <1>1. c.op \in Ops
    BY DEF Journals
  <1>2. c.pc \in ActivePcs /\ c.pc \notin {"write", "close"} /\ c.pc \notin AbortPcs
    BY PcsAreStates DEF ActivePcs
  <1>3. FrameOk(c)
    BY <1>1, <1>2, PcsAreStates DEF FrameOk, AbortPcs
  <1> QED
    BY <1>2, <1>3 DEF WorksFor

(* failAll works for the operation of the entry it was called with.        *)
LEMMA FailsAllFrame ==
  ASSUME NEW j \in Journals, NEW after \in {"idle", "loop"}
  PROVE  WorksFor(FailsAll(j, after), j.op)
  <1> DEFINE b == InCall("fail", j.op)
             e == [b EXCEPT !.j = j, !.todo = Planes]
             d == FailsAll(j, after)
  <1>1. j.op \in Ops /\ j.progress \in Notes
    BY DEF Journals, Notes
  <1>2. "fail" \in EntryPcs /\ "fail" \in CallStates
    BY PcsAreStates DEF ProgressPcs, CallStates
  <1>3. b \in Frames /\ b.pc = "fail" /\ b.op = j.op
    BY <1>1, <1>2, InCallFields
  <1>4. d = [e EXCEPT !.progress = j.progress, !.after = after]
    BY DEF FailsAll
  <1> HIDE DEF b
  <1>5. e \in Frames /\ e.pc = b.pc /\ e.op = b.op /\ e.j = j
    BY <1>3 DEF Frames
  <1> HIDE DEF e, d
  <1>6. d \in Frames /\ d.pc = e.pc /\ d.op = e.op /\ d.j = j /\ d.progress = j.progress
    BY <1>1, <1>4, <1>5 DEF Frames
  <1> QED
    BY <1>1, <1>2, <1>3, <1>5, <1>6, EntryFrame DEF d

(* The entries the actions write.                                          *)
Phased(j, phase) == [j EXCEPT !.phase = phase]
Counted(j) == [j EXCEPT !.attempts = @ + 1]
PhasedAndCounted(j, phase) == [j EXCEPT !.phase = phase, !.attempts = @ + 1]
Noted(j, phase, notes) == [j EXCEPT !.phase = phase, !.progress = notes]
EntryOf(j, entry) == entry \in Journals /\ entry.op = j.op

(* The entries the phases write are entries of the same operation.         *)
LEMMA EntryTypes ==
  ASSUME NEW j \in Journals, NEW phase \in Phases, NEW notes \in Notes
  PROVE  /\ EntryOf(j, Phased(j, phase)) /\ EntryOf(j, Counted(j))
         /\ EntryOf(j, PhasedAndCounted(j, phase)) /\ EntryOf(j, Noted(j, phase, notes))
  <1>1. EntryOf(j, Phased(j, phase))
    BY DEF Phased, EntryOf, Journals
  <1>2. EntryOf(j, Counted(j))
    BY DEF Counted, EntryOf, Journals
  <1>3. EntryOf(j, PhasedAndCounted(j, phase))
    <2> DEFINE r == [j EXCEPT !.phase = phase]
    <2>1. r \in Journals /\ r.op = j.op
      BY DEF Journals
    <2>2. PhasedAndCounted(j, phase) = [r EXCEPT !.attempts = r.attempts + 1]
      BY DEF PhasedAndCounted, Journals
    <2> HIDE DEF r
    <2> QED
      BY <2>1, <2>2 DEF EntryOf, Journals
  <1>4. EntryOf(j, Noted(j, phase, notes))
    BY DEF Noted, EntryOf, Journals, Notes
  <1> QED
    BY <1>1, <1>2, <1>3, <1>4

(* A plane is next while there are planes to visit.                        *)
LEMMA PlanesAre == Planes = {"http", "stream"} /\ \A todo : NextPlane(todo) \in Planes
  BY ApplyAssumption DEF NextPlane

(* What follows the stage of a plane.                                      *)
LEMMA StagedToFrame ==
  ASSUME NEW c, FrameOk(c), c.pc \in {"stage", "stage_membership"},
         NEW plane \in Planes, NEW noted \in Progress
  PROVE  WorksFor(StagedTo(c, plane, noted), c.op)
  <1> DEFINE notes == [c.progress EXCEPT ![plane] = noted]
             d == [c EXCEPT !.pc = "stage", !.todo = @ \ {plane}, !.progress = notes]
             entry == Noted(c.j, "membership_staged", notes)
  <1>1. c.pc \in EntryPcs /\ c.pc \in ProgressPcs
    BY DEF EntryPcs, ProgressPcs
  <1>2. c \in Frames /\ c.j \in Journals /\ c.j.op = c.op /\ c.progress \in Notes
    BY <1>1 DEF FrameOk
  <1>3. notes \in Notes
    BY <1>2 DEF Notes
  <1>4. StagedTo(c, plane, noted) \in {d, Writes(entry, "loop"), FailsAll(c.j, "loop")}
    BY DEF StagedTo, Noted
  <1> HIDE DEF notes
  <1>5. "stage" \in CallStates /\ "stage" \in EntryPcs /\ "membership_staged" \in Phases
    BY DEF CallStates, EntryPcs, Phases
  <1>6. /\ d \in Frames /\ d.pc = "stage" /\ d.op = c.op /\ d.j = c.j /\ d.progress = notes
    BY <1>2, <1>3, <1>5 DEF Frames
  <1>7. entry \in Journals /\ entry.op = c.op
    BY <1>2, <1>3, <1>5, EntryTypes DEF EntryOf
  <1> HIDE DEF d, entry
  <1>8. WorksFor(d, c.op)
    BY <1>2, <1>3, <1>5, <1>6, EntryFrame
  <1>9. WorksFor(Writes(entry, "loop"), c.op) /\ WorksFor(FailsAll(c.j, "loop"), c.op)
    BY <1>2, <1>7, WritesFrame, FailsAllFrame
  <1> QED
    BY <1>4, <1>8, <1>9

(* What follows the commit of a plane.                                     *)
LEMMA CommittedToFrame ==
  ASSUME NEW c, FrameOk(c), c.pc = "commit", NEW plane \in Planes, NEW noted \in Progress
  PROVE  WorksFor(CommittedTo(c, plane, noted), c.op)
  <1> DEFINE notes == [c.progress EXCEPT ![plane] = noted]
             stuck == {p \in Planes : notes[p] # "committed"}
             phase == IF stuck = {} THEN "activated"
                      ELSE IF stuck = Planes THEN "failed" ELSE "partially_activated"
             d == [c EXCEPT !.todo = @ \ {plane}, !.progress = notes]
             entry == Noted(c.j, phase, notes)
  <1>1. c.pc \in EntryPcs /\ c.pc \in ProgressPcs
    BY DEF EntryPcs, ProgressPcs
  <1>2. c \in Frames /\ c.j \in Journals /\ c.j.op = c.op /\ c.progress \in Notes
    BY <1>1 DEF FrameOk
  <1>3. notes \in Notes /\ phase \in Phases /\ stuck \in SUBSET Planes
    BY <1>2 DEF Notes, Phases, TerminalPhases
  <1>4. CommittedTo(c, plane, noted)
          \in {d, Writes(entry, "loop"), WritesAndFinishes(entry, stuck, "loop")}
    BY DEF CommittedTo, Noted
  <1> HIDE DEF notes, stuck, phase
  <1>5. /\ d \in Frames /\ d.pc = c.pc /\ d.op = c.op /\ d.j = c.j /\ d.progress = notes
    BY <1>2, <1>3 DEF Frames
  <1>6. entry \in Journals /\ entry.op = c.op
    BY <1>2, <1>3, EntryTypes DEF EntryOf
  <1> HIDE DEF d, entry
  <1>7. WorksFor(d, c.op)
    BY <1>1, <1>2, <1>3, <1>5, EntryFrame
  <1>8. /\ WorksFor(Writes(entry, "loop"), c.op)
        /\ WorksFor(WritesAndFinishes(entry, stuck, "loop"), c.op)
    BY <1>3, <1>6, WritesFrame, WritesAndFinishesFrame
  <1> QED
    BY <1>4, <1>7, <1>8

-----------------------------------------------------------------------------
(* The turns of a drive: steps that read the agent and call nothing.       *)

FramesOk == call \in [Calls -> Frames] /\ \A q \in Calls : FrameOk(call[q])

(* The frame d that follows call[p] works for the operation of call[p], or *)
(* for the one whose journal is there.                                     *)
Serves(p, d) ==
  /\ FrameOk(d)
  /\ \/ d.pc \in IdlePcs
     \/ d.pc \in ActivePcs /\ call[p].pc \in ActivePcs /\ d.op = call[p].op
     \/ d.pc \in ActivePcs /\ agent.journal # None /\ d.op = agent.journal.op

(* Both operations a frame may work for.                                   *)
LEMMA ServesWhen ==
  ASSUME NEW p \in Calls, NEW d
  PROVE  /\ call[p].pc \in ActivePcs /\ WorksFor(d, call[p].op) => Serves(p, d)
         /\ agent.journal # None /\ WorksFor(d, agent.journal.op) => Serves(p, d)
  BY DEF WorksFor, Serves

(* A call that ends works for nobody.                                      *)
LEMMA IdleServes == \A p : Serves(p, Idle)
  BY IdleFrame DEF Serves, IdlePcs

(* driveLoop's head, which reads the journal as it is now.                 *)
LEMMA LoopHeadServes ==
  ASSUME FramesOk, agent \in AgentStates, NEW p \in Calls, LoopHead(p)
  PROVE  \E d : Turn(p, d) /\ Serves(p, d)
  <1> DEFINE j == agent.journal
             bound == call[p].op
             close == [InCall("close", j.op) EXCEPT !.next = ReachedPhase(agent)]
             stage == [InCall("stage", j.op) EXCEPT !.j = j, !.todo = Planes,
                                                    !.progress = j.progress]
             work == [InCall(j.phase, j.op) EXCEPT !.j = j]
  <1>1. /\ call[p].pc = "loop" /\ call[p].pc \in ActivePcs /\ call[p].op \in Ops
    BY PcsAreStates DEF LoopHead, At0, FramesOk, FrameOk, PlainPcs, ActivePcs
  <1>2. PICK d :
          /\ Turn(p, d)
          /\ \/ d \in {Idle, Finishes(bound, {}, "idle")}
             \/ /\ j # None
                /\ \/ d \in {Finishes(j.op, NotCommitted(j), "idle"), close}
                   \/ d = MembershipStaged(j) \/ d = PartiallyActivated(j)
                   \/ d = stage
                   \/ /\ d = work /\ Unfinished(j)
                      /\ j.phase \notin {"membership_staged", "partially_activated", "published"}
    BY DEF LoopHead, OwnsJournal
  <1>3. CASE d \in {Idle, Finishes(bound, {}, "idle")}
    <2>1. WorksFor(Finishes(bound, {}, "idle"), bound)
      BY <1>1, FinishesFrame
    <2> QED
      BY <1>1, <1>2, <1>3, <2>1, IdleServes, ServesWhen
  <1>4. CASE j # None /\ WorksFor(d, j.op)
    BY <1>2, <1>4, ServesWhen
  <1>5. ASSUME j # None PROVE j \in Journals /\ j.op \in Ops /\ j.progress \in Notes
    BY <1>5 DEF AgentStates, Journals, Notes
  <1>6. NotCommitted(j) \in SUBSET Planes
    BY DEF NotCommitted
  <1>7. CASE j # None /\ d = Finishes(j.op, NotCommitted(j), "idle")
    BY <1>4, <1>5, <1>6, <1>7, FinishesFrame
  <1>8. CASE j # None /\ d = close
    <2> DEFINE b == InCall("close", j.op)
    <2>1. b \in Frames /\ b.pc = "close" /\ b.op = j.op /\ j.op \in Ops
      BY <1>5, <1>8, InCallFields, PcsAreStates
    <2>2. ReachedPhase(agent) \in Phases
      BY DEF ReachedPhase, Phases, TerminalPhases
    <2> HIDE DEF b
    <2>3. d \in Frames /\ d.pc = b.pc /\ d.op = b.op /\ d.next = ReachedPhase(agent)
      BY <1>8, <2>1, <2>2 DEF Frames, b
    <2>4. FrameOk(d)
      BY <2>1, <2>2, <2>3, PcsAreStates DEF FrameOk, AbortPcs
    <2> QED
      BY <1>4, <1>8, <2>1, <2>3, <2>4, PcsAreStates DEF WorksFor
  <1>9. CASE j # None /\ d = MembershipStaged(j)
    <2>1. EntryOf(j, Phased(j, "reload_intent"))
      BY <1>5, <1>9, EntryTypes DEF Phases, Notes
    <2> QED
      BY <1>4, <1>9, <2>1, WritesFrame DEF MembershipStaged, EntryOf, Phased
  <1>10. CASE j # None /\ d = PartiallyActivated(j)
    <2>1. /\ EntryOf(j, Phased(j, "partial_exhausted")) /\ EntryOf(j, Phased(j, "activated"))
          /\ EntryOf(j, PhasedAndCounted(j, "reload_observed"))
      BY <1>5, <1>10, EntryTypes DEF Phases, TerminalPhases, Notes
    <2>2. d \in {WritesAndFinishes(Phased(j, "partial_exhausted"), NotCommitted(j), "idle"),
                 Writes(Phased(j, "activated"), "loop"),
                 Writes(PhasedAndCounted(j, "reload_observed"), "loop")}
      BY <1>10 DEF PartiallyActivated, Phased, PhasedAndCounted
    <2> QED
      BY <1>4, <1>6, <1>10, <2>1, <2>2, WritesFrame, WritesAndFinishesFrame DEF EntryOf
  <1>11. CASE j # None /\ d = stage
    <2> DEFINE b == InCall("stage", j.op)
    <2>1. "stage" \in EntryPcs /\ "stage" \in CallStates
      BY DEF EntryPcs, CallStates
    <2>2. b \in Frames /\ b.pc = "stage" /\ b.op = j.op
      BY <1>5, <1>11, <2>1, InCallFields
    <2>3. d = [b EXCEPT !.j = j, !.todo = Planes, !.progress = j.progress]
      BY <1>11
    <2> HIDE DEF b
    <2>4. d \in Frames /\ d.pc = b.pc /\ d.op = b.op /\ d.j = j /\ d.progress = j.progress
      BY <1>5, <1>11, <2>2, <2>3 DEF Frames
    <2> QED
      BY <1>4, <1>5, <1>11, <2>1, <2>2, <2>4, EntryFrame
  <1>12. CASE /\ j # None /\ d = work /\ Unfinished(j)
              /\ j.phase \notin {"membership_staged", "partially_activated", "published"}
    <2> DEFINE b == InCall(j.phase, j.op)
    <2>1. /\ j.phase \in {"preflight", "publish_intent", "reload_intent", "reload_observed"}
      BY <1>5, <1>12 DEF Journals, Unfinished, Phases
    <2>2. j.phase \in EntryPcs /\ j.phase \in CallStates /\ j.phase \notin ProgressPcs
      BY <2>1 DEF EntryPcs, CallStates, ProgressPcs
    <2>3. b \in Frames /\ b.pc = j.phase /\ b.op = j.op
      BY <1>5, <1>12, <2>2, InCallFields
    <2>4. d = [b EXCEPT !.j = j]
      BY <1>12
    <2> HIDE DEF b
    <2>5. d \in Frames /\ d.pc = b.pc /\ d.op = b.op /\ d.j = j
      BY <1>5, <1>12, <2>3, <2>4 DEF Frames
    <2> QED
      BY <1>4, <1>5, <1>12, <2>2, <2>3, <2>5, EntryFrame
  <1> QED
    BY <1>2, <1>3, <1>7, <1>8, <1>9, <1>10, <1>11, <1>12

(* A frame at a phase keeps its operation, its entry and, where it has     *)
(* any, its notes.                                                         *)
LEMMA AtAPhase ==
  ASSUME FramesOk, NEW p \in Calls, call[p].pc \in EntryPcs
  PROVE  /\ call[p] \in Frames /\ call[p].pc \in ActivePcs
         /\ call[p].j \in Journals /\ call[p].j.op = call[p].op
  BY PcsAreStates DEF FramesOk, FrameOk

(* A call that goes on with the entry it read.                             *)
LEMMA MovesOn ==
  ASSUME FramesOk, NEW p \in Calls, call[p].pc \in EntryPcs,
         NEW pc \in EntryPcs \ ProgressPcs
  PROVE  Serves(p, [call[p] EXCEPT !.pc = pc])
  <1> DEFINE c == call[p]
             d == [c EXCEPT !.pc = pc]
  <1>1. c \in Frames /\ c.pc \in ActivePcs /\ c.j \in Journals /\ c.j.op = c.op
    BY AtAPhase
  <1>2. pc \in CallStates
    BY PcsAreStates
  <1> HIDE DEF c
  <1>3. d \in Frames /\ d.pc = pc /\ d.op = c.op /\ d.j = c.j
    BY <1>1, <1>2 DEF Frames
  <1> HIDE DEF d
  <1>4. WorksFor(d, c.op)
    BY <1>1, <1>3, EntryFrame
  <1>5. Serves(p, d)
    BY <1>1, <1>4, ServesWhen DEF c
  <1> QED
    BY <1>5 DEF d, c

(* A call that writes the next phase of the entry it read.                 *)
LEMMA WritesPhase ==
  ASSUME FramesOk, NEW p \in Calls, call[p].pc \in EntryPcs
  PROVE  /\ \A phase \in Phases :
              Serves(p, Writes([call[p].j EXCEPT !.phase = phase], "loop"))
         /\ Serves(p, Writes([call[p].j EXCEPT !.attempts = @ + 1], "signal"))
         /\ Serves(p, FailsAll(call[p].j, "loop"))
  <1> DEFINE c == call[p]
  <1>1. c \in Frames /\ c.pc \in ActivePcs /\ c.j \in Journals /\ c.j.op = c.op
    BY AtAPhase
  <1> HIDE DEF c
  <1>2. \A d : WorksFor(d, c.op) => Serves(p, d)
    BY <1>1, ServesWhen DEF c
  <1>3. ASSUME NEW phase \in Phases
        PROVE  Serves(p, Writes([c.j EXCEPT !.phase = phase], "loop"))
    <2>1. EntryOf(c.j, Phased(c.j, phase))
      BY <1>1, EntryTypes DEF Journals, Notes
    <2>2. WorksFor(Writes(Phased(c.j, phase), "loop"), c.op)
      BY <1>1, <2>1, WritesFrame DEF EntryOf
    <2> QED
      BY <1>2, <2>2 DEF Phased
  <1>4. Serves(p, Writes([c.j EXCEPT !.attempts = @ + 1], "signal"))
    <2>1. EntryOf(c.j, Counted(c.j))
      BY <1>1, EntryTypes DEF Journals, Notes
    <2>2. WorksFor(Writes(Counted(c.j), "signal"), c.op)
      BY <1>1, <2>1, WritesFrame DEF EntryOf
    <2> QED
      BY <1>2, <2>2 DEF Counted
  <1>5. Serves(p, FailsAll(c.j, "loop"))
    BY <1>1, <1>2, FailsAllFrame
  <1> QED
    BY <1>3, <1>4, <1>5 DEF c

(* The phases of the journal that only read.                               *)
LEMMA PhaseServes ==
  ASSUME FramesOk, agent \in AgentStates, NEW p \in Calls, NEW blind \in BOOLEAN,
         \/ Preflight(p) \/ PreflightRefuses(p) \/ PublishIntent(p) \/ Publish(p)
         \/ ReloadIntent(p, blind) \/ ReloadObserved(p) \/ AwaitCommit(p, blind)
  PROVE  \E d : Turn(p, d) /\ Serves(p, d)
  <1>1. /\ "publish_intent" \in Phases /\ "published" \in Phases
        /\ "reload_observed" \in Phases /\ "reload_intent" \in Phases
    BY DEF Phases
  <1>2. /\ {"record_intent", "await_commit"} \subseteq EntryPcs \ ProgressPcs
        /\ {"preflight", "publish_intent", "publish", "reload_intent", "reload_observed",
            "await_commit"} \subseteq EntryPcs
    BY DEF EntryPcs, ProgressPcs
  <1>3. CASE Preflight(p) \/ PreflightRefuses(p)
    BY <1>1, <1>2, <1>3, WritesPhase, IdleServes DEF Preflight, PreflightRefuses, At0
  <1>4. CASE PublishIntent(p)
    BY <1>1, <1>2, <1>4, WritesPhase, MovesOn DEF PublishIntent, At0
  <1>5. CASE Publish(p)
    BY <1>1, <1>2, <1>5, WritesPhase, IdleServes DEF Publish, At0
  <1>6. CASE ReloadIntent(p, blind)
    BY <1>1, <1>2, <1>6, WritesPhase DEF ReloadIntent, At0
  <1>7. CASE ReloadObserved(p)
    BY <1>1, <1>2, <1>7, WritesPhase, MovesOn DEF ReloadObserved, At0
  <1>8. CASE AwaitCommit(p, blind)
    <2> DEFINE c == call[p]
               d == [c EXCEPT !.pc = "commit", !.todo = Planes, !.progress = c.j.progress]
    <2>1. Turn(p, d) \/ Turn(p, Writes([c.j EXCEPT !.phase = "reload_intent"], "loop"))
      BY <1>8 DEF AwaitCommit
    <2>2. c.pc \in EntryPcs
      BY <1>2, <1>8 DEF AwaitCommit, At0
    <2>3. c \in Frames /\ c.pc \in ActivePcs /\ c.j \in Journals /\ c.j.op = c.op
      BY <2>2, AtAPhase
    <2>4. c.j.progress \in Notes /\ "commit" \in CallStates /\ "commit" \in EntryPcs
      BY <2>3 DEF Journals, Notes, CallStates, EntryPcs
    <2> HIDE DEF c
    <2>5. d \in Frames /\ d.pc = "commit" /\ d.op = c.op /\ d.j = c.j /\ d.progress = c.j.progress
      BY <2>3, <2>4 DEF Frames
    <2> HIDE DEF d
    <2>6. WorksFor(d, c.op)
      BY <2>3, <2>4, <2>5, EntryFrame
    <2>7. Serves(p, d)
      BY <2>3, <2>6, ServesWhen DEF c
    <2> QED
      BY <1>1, <2>1, <2>2, <2>7, WritesPhase DEF c
  <1> QED
    BY <1>3, <1>4, <1>5, <1>6, <1>7, <1>8

(* The other turns.                                                        *)
LEMMA TurnServes ==
  ASSUME FramesOk, agent \in AgentStates, NEW p \in Calls, NEW blind \in BOOLEAN,
         \/ FailRead(p) \/ StageMembership(p) \/ SignalReload(p) \/ AwaitReload(p, blind)
         \/ EffectTimesOut(p) \/ EffectThrows(p) \/ StartRecover(p)
  PROVE  \E d : Turn(p, d) /\ Serves(p, d)
  <1> DEFINE c == call[p]
             j == agent.journal
  <1>0. /\ FrameOk(c)
        /\ j # None => j \in Journals /\ j.op \in Ops /\ j.progress \in Notes
    BY DEF FramesOk, AgentStates, Journals, Notes
  <1>1. \A d : c.pc \in ActivePcs /\ WorksFor(d, c.op) => Serves(p, d)
    BY ServesWhen
  <1>2. \A d : j # None /\ WorksFor(d, j.op) => Serves(p, d)
    BY ServesWhen
  <1>3. /\ {"fail_read", "stage_membership", "preflight", "publish"} \subseteq EntryPcs
        /\ {"fail_read", "stage_membership"} \subseteq ProgressPcs
        /\ {"signal", "await", "loop", "reclaim", "recover_close"} \subseteq PlainPcs
    BY DEF EntryPcs, ProgressPcs, PlainPcs
  <1>4. CASE FailRead(p)
    <2> DEFINE entry == Noted(c.j, ReachedPhase(agent), c.progress)
    <2>1. c.pc = "fail_read" /\ Turn(p, WritesAndFinishes(entry, {}, c.after))
      BY <1>4 DEF FailRead, At0, Noted
    <2>2. /\ c.pc \in ActivePcs /\ c.j \in Journals /\ c.j.op = c.op /\ c.progress \in Notes
          /\ c.after \in {"idle", "loop"}
      BY <1>0, <1>3, <2>1, PcsAreStates DEF FrameOk, Frames
    <2>3. ReachedPhase(agent) \in Phases
      BY DEF ReachedPhase, Phases, TerminalPhases
    <2>4. entry \in Journals /\ entry.op = c.op
      BY <2>2, <2>3, EntryTypes DEF EntryOf
    <2> QED
      BY <1>1, <2>1, <2>2, <2>4, WritesAndFinishesFrame
  <1>5. CASE StageMembership(p)
    <2>1. PICK noted \in {"staged", "failed"} : Turn(p, StagedTo(c, NextPlane(c.todo), noted))
      BY <1>5 DEF StageMembership
    <2>2. c.pc = "stage_membership" /\ c.pc \in ActivePcs
      BY <1>3, <1>5, PcsAreStates DEF StageMembership, At0
    <2>3. noted \in Progress
      BY <2>1 DEF Progress
    <2> QED
      BY <1>0, <1>1, <2>1, <2>2, <2>3, StagedToFrame, PlanesAre
  <1>6. CASE SignalReload(p)
    <2>1. Turn(p, Idle) \/ Turn(p, InCall("await", c.op))
      BY <1>6 DEF SignalReload
    <2>2. c.pc \in ActivePcs /\ c.op \in Ops
      BY <1>0, <1>3, <1>6, PcsAreStates DEF SignalReload, At0, FrameOk, ActivePcs
    <2> QED
      BY <1>1, <1>3, <2>1, <2>2, PlainFrame, IdleServes
  <1>7. CASE AwaitReload(p, blind)
    <2>1. \/ Turn(p, Loop(c.op))
          \/ j # None /\ Turn(p, Writes([j EXCEPT !.phase = "reload_observed"], "loop"))
          \/ j # None /\ Turn(p, Writes(j, "loop"))
      BY <1>7 DEF AwaitReload, OwnsJournal
    <2>2. c.pc \in ActivePcs /\ c.op \in Ops
      BY <1>0, <1>3, <1>7, PcsAreStates DEF AwaitReload, At0, FrameOk, ActivePcs
    <2>3. WorksFor(Loop(c.op), c.op)
      BY <1>3, <2>2, PlainFrame DEF Loop
    <2>4. j # None => EntryOf(j, Phased(j, "reload_observed"))
      BY <1>0, EntryTypes DEF Phases
    <2>5. j # None => /\ WorksFor(Writes([j EXCEPT !.phase = "reload_observed"], "loop"), j.op)
                      /\ WorksFor(Writes(j, "loop"), j.op)
      BY <1>0, <2>4, WritesFrame DEF EntryOf, Phased
    <2> QED
      BY <1>1, <1>2, <2>1, <2>2, <2>3, <2>5
  <1>8. CASE EffectTimesOut(p)
    <2>1. Turn(p, Idle) \/ (j # None /\ Turn(p, FailsAll(j, "idle")))
      BY <1>8 DEF EffectTimesOut, OwnsJournal
    <2> QED
      BY <1>0, <1>2, <2>1, FailsAllFrame, IdleServes
  <1>9. CASE EffectThrows(p)
    BY <1>9, IdleServes DEF EffectThrows
  <1>10. CASE StartRecover(p)
    <2>1. \/ Turn(p, InCall("recover_idle", None))
          \/ j # None /\ Turn(p, Finishes(j.op, NotCommitted(j), "idle"))
          \/ j # None /\ Turn(p, InCall("recover_close", j.op))
          \/ j # None /\ Turn(p, InCall("reclaim", j.op))
      BY <1>10 DEF StartRecover
    <2>2. Serves(p, InCall("recover_idle", None))
      <3> DEFINE d == InCall("recover_idle", None)
      <3>1. "recover_idle" \in CallStates
        BY DEF CallStates
      <3>2. d \in Frames /\ d.pc = "recover_idle"
        BY <3>1, InCallFields
      <3> HIDE DEF d
      <3>3. Serves(p, d)
        BY <3>2 DEF Serves, FrameOk, IdlePcs, EntryPcs, ProgressPcs, AbortPcs
      <3> QED
        BY <3>3 DEF d
    <2>3. j # None => /\ WorksFor(Finishes(j.op, NotCommitted(j), "idle"), j.op)
                      /\ WorksFor(InCall("recover_close", j.op), j.op)
                      /\ WorksFor(InCall("reclaim", j.op), j.op)
      BY <1>0, <1>3, FinishesFrame, PlainFrame DEF NotCommitted
    <2> QED
      BY <1>2, <2>1, <2>2, <2>3
  <1> QED
    BY <1>4, <1>5, <1>6, <1>7, <1>8, <1>9, <1>10
-----------------------------------------------------------------------------
(* The calls of the agent, whoever makes them.                             *)

(* A token in use is ahead of the fence: its leader did not wait.          *)
Unfenced(s) == ~FenceFirst /\ \E op \in started' \cup HealthOps : op.token > s.max

(* What a call leaves in order, and what assertInvariants asks of it when  *)
(* the tokens in use are fenced.                                           *)
Fits(s, t) == I1HolderIsNewest(t) /\ I5IntentFenced(s, t)
Move(s, t) ==
  /\ t \in AgentStates /\ Effect(s, t) /\ SlotsAreAbove(t) /\ CandidateBy(s, t)
  /\ Fits(s, t) \/ Unfenced(s)

(* Under the newest token a call writes records that are in order.         *)
LEMMA FencedRecordsFit ==
  ASSUME NEW s, RecordsAreSound(s), s.max \in Nat, NEW op \in AllOps, op.token <= s.max,
         NEW t, RecordsBy(s, t, op)
  PROVE  Fits(s, t)
  <1>1. op.token \in Nat
    BY EnvelopeTypes
  <1>2. t.max = s.max /\ (IsLeader(s, op.token) => op.token = s.max)
    BY <1>1 DEF RecordsBy, IsLeader
  <1>3. RecordOf(op).token = op.token
    BY DEF RecordOf
  <1>4. I1HolderIsNewest(t)
    BY <1>2, <1>3 DEF I1HolderIsNewest, RecordsBy, RecordsAreSound
  <1>5. \A r \in {t.lastPublishIntent, t.lastActivated, t.pendingActivation} \ {None} :
          r.token <= t.max
    BY <1>2, <1>3 DEF RecordsBy, RecordsAreSound
  <1>6. t.lastPublishIntent = s.lastPublishIntent \/ t.lastPublishIntent.token = t.max
    BY <1>2, <1>3 DEF RecordsBy
  <1> QED
    BY <1>4, <1>5, <1>6 DEF Fits, I5IntentFenced

(* A call on a plane or on the hold, for an operation.                     *)
OpCall(s, t, op) ==
  \/ \E p \in Planes :
       \/ t \in Stage(s, op, p) \/ t \in Commit(s, op, p, TRUE)
       \/ t \in Abort(s, op, p) \/ t \in Fail(s, op, p)
  \/ t \in ReserveAll(s, op)
  \/ \E entry \in Journals : entry.op = op /\ t \in WriteJournal(s, entry)
  \/ \E how \in Phases : t \in CloseJournal(s, op, how)
  \/ t \in RecordPublishIntent(s, op) \/ t \in ReleaseHolderSlots(s, op)
  \/ t \in ReleaseStaleSlots(s, op) \/ t \in ReclaimOperation(s, op)
  \/ \E ps : t \in FinishOperation(s, op, ps)

(* Each of them is one of the agent's effects, keeps its types and the     *)
(* slots above the positions they start from, and writes nothing but for   *)
(* its operation.                                                          *)
LEMMA OpCallMoves ==
  ASSUME NEW s, AgentOk(s), NEW op \in Ops, op.token <= s.max \/ Unfenced(s),
         NEW t, OpCall(s, t, op)
  PROVE  Move(s, t) /\ AddsFor(s, t, op)
  <1> DEFINE Good == /\ t \in AgentStates /\ Effect(s, t) /\ SlotsAreAbove(t)
                     /\ RecordsBy(s, t, op) /\ AddsFor(s, t, op)
  <1>0. /\ s \in AgentStates /\ SlotsAreAbove(s) /\ SlotsFenced(s) /\ RecordsAreSound(s)
        /\ s.max \in Nat /\ op \in AllOps
        /\ {"aborted", "failed"} \subseteq Verdicts
    BY DEF AgentOk, LedgerAt, AgentStates, AllOps, Verdicts
  <1>a. ASSUME t \in AgentStates, Administers(s, t), OnlyFrees(s, t),
               RecordsBy(s, t, op), AddsNothing(s, t)
        PROVE  Good
    BY <1>0, <1>a, OnlyFreesIsSafe, RecordsFollow DEF Effect
  <1>1. ASSUME NEW p \in Planes, t \in Stage(s, op, p) PROVE Good
    BY <1>0, <1>1, StageType, StageEffect, StageMovesUp, StageRecords DEF Effect
  <1>2. ASSUME NEW p \in Planes, t \in Commit(s, op, p, TRUE) PROVE Good
    <2>1. t \in AgentStates /\ SlotsAreAbove(t)
      BY <1>0, <1>2, CommitType, CommitMovesUp
    <2>2. Administers(s, t) \/ MovesPlane(s, t, op, p)
      BY <1>0, <1>2, CommitEffect
    <2>3. RecordsBy(s, t, op) /\ AddsFor(s, t, op)
      BY <1>0, <1>2, CommitRecords, RecordsFollow
    <2> QED
      BY <2>1, <2>2, <2>3 DEF Effect
  <1>3. ASSUME NEW p \in Planes, NEW verdict \in {"aborted", "failed"},
               t \in Finalize(s, op, p, verdict)
        PROVE  Good
    BY <1>0, <1>3, <1>a, FinalizeType, FinalizeEffect, FinalizeOnlyFrees, FinalizeRecords
  <1>4. ASSUME t \in ReserveAll(s, op) PROVE Good
    BY <1>0, <1>4, ReserveAllType, ReserveAllEffect, ReserveAllMovesUp, ReserveAllRecords
       DEF Effect
  <1>5. ASSUME NEW entry \in Journals, entry.op = op, t \in WriteJournal(s, entry) PROVE Good
    <2>1. t \in AgentStates
      BY <1>0, <1>5, WriteJournalType
    <2>2. Administers(s, t)
      BY <1>0, <1>5, AdministrationEffect
    <2>3. OnlyFrees(s, t)
      BY <1>0, <1>5, AdministrationOnlyFrees
    <2>4. SameRecords(s, t) /\ AddsFor(s, t, op)
      BY <1>0, <1>5, WriteJournalRecords
    <2> QED
      BY <1>0, <2>1, <2>2, <2>3, <2>4, OnlyFreesIsSafe DEF Effect, SameRecords, RecordsBy
  <1>6. ASSUME NEW how \in Phases, t \in CloseJournal(s, op, how) PROVE Good
    BY <1>0, <1>6, <1>a, CloseJournalType, AdministrationEffect, AdministrationOnlyFrees,
       AdministrationRecords
  <1>7. ASSUME \/ t \in RecordPublishIntent(s, op) \/ t \in ReleaseHolderSlots(s, op)
               \/ t \in ReleaseStaleSlots(s, op) \/ t \in ReclaimOperation(s, op)
        PROVE  Good
    <2>1. t \in AgentStates
      BY <1>0, <1>7, RecordPublishIntentType, ReleaseHolderSlotsType, ReleaseStaleSlotsType,
         ReclaimOperationType
    <2>2. Administers(s, t)
      BY <1>0, <1>7, AdministrationEffect
    <2>3. OnlyFrees(s, t)
      BY <1>0, <1>7, AdministrationOnlyFrees
    <2>4. RecordsBy(s, t, op) /\ AddsNothing(s, t)
      BY <1>0, <1>7, AdministrationRecords
    <2> QED
      BY <1>a, <2>1, <2>2, <2>3, <2>4
  <1>8. ASSUME NEW ps, t \in FinishOperation(s, op, ps) PROVE Good
    BY <1>0, <1>8, <1>a, FinishOperationType, FinishOperationEffect, FinishOperationOnlyFrees,
       FinishOperationRecords, DroppedIsBy
  <1>9. Good
    BY <1>1, <1>2, <1>3, <1>4, <1>5, <1>6, <1>7, <1>8 DEF OpCall, Abort, Fail
  <1>10. CandidateBy(s, t)
    BY <1>9 DEF CandidateBy, RecordsBy
  <1>11. Fits(s, t) \/ Unfenced(s)
    BY <1>0, <1>9, FencedRecordsFit
  <1> QED
    BY <1>9, <1>10, <1>11 DEF Move

(* A call that only drops records, or raises the fence above the hold it   *)
(* ends, is in order too.                                                  *)
LEMMA DroppedRecordsFit ==
  ASSUME NEW s, s \in AgentStates, RecordsAreSound(s), NEW token \in Nat, token >= s.max, NEW t,
         RecordsDropped([s EXCEPT !.max = token], t),
         s.holder # None /\ s.holder.token < token => t.holder = None
  PROVE  Fits(s, t) /\ CandidateBy(s, t)
  <1> DEFINE r == [s EXCEPT !.max = token]
  <1>1. /\ r.max = token /\ r.holder = s.holder /\ r.lastPublishIntent = s.lastPublishIntent
        /\ r.lastActivated = s.lastActivated /\ r.pendingActivation = s.pendingActivation
    BY DEF AgentStates
  <1>2. /\ s.max \in Nat
        /\ \A x \in {s.holder, s.lastPublishIntent, s.lastActivated, s.pendingActivation} \ {None} :
             x.token \in Nat
    <2>1. Tokens \subseteq Nat
      BY EnvelopeTypes DEF Tokens
    <2> QED
      BY <2>1 DEF AgentStates, MaybeRecord, Records
  <1> HIDE DEF r
  <1>3. t.max = token /\ t.lastPublishIntent = s.lastPublishIntent
    BY <1>1 DEF RecordsDropped, r
  <1>4. t.holder # None => t.holder = s.holder /\ s.holder.token = token
    BY <1>1, <1>2 DEF RecordsDropped, RecordsAreSound, r
  <1>5. \A x \in {t.lastActivated, t.pendingActivation} \ {None} :
          x \in {s.lastActivated, s.pendingActivation} \ {None}
    BY <1>1 DEF RecordsDropped, r
  <1>6. \A x \in {t.lastPublishIntent, t.lastActivated, t.pendingActivation} \ {None} :
          x.token <= t.max
    BY <1>2, <1>3, <1>5 DEF RecordsAreSound
  <1>7. I1HolderIsNewest(t)
    BY <1>3, <1>4 DEF I1HolderIsNewest
  <1>8. CandidateBy(s, t)
    BY <1>1 DEF RecordsDropped, CandidateBy, r
  <1> QED
    BY <1>3, <1>6, <1>7, <1>8 DEF Fits, I5IntentFenced

(* The calls that no operation makes: the idle holder is released, a delta *)
(* refreshes a plane, a fence is raised.                                   *)
LEMMA OtherCallsMove ==
  ASSUME NEW s, AgentOk(s), NEW t
  PROVE  /\ t \in ReleaseIdleHolder(s) => Move(s, t) /\ AddsNothing(s, t)
         /\ \A op \in HealthOps, p \in Planes :
              /\ t \in ApplyHealth(s, op, p) /\ (op.token <= s.max \/ Unfenced(s))
              => Move(s, t) /\ AddsNothing(s, t)
         /\ \A token \in Tokens :
              token >= s.max /\ t \in Fence(s, token) => Move(s, t) /\ AddsNothing(s, t)
  <1>0. /\ s \in AgentStates /\ SlotsAreAbove(s) /\ SlotsFenced(s) /\ RecordsAreSound(s)
        /\ s.max \in Nat /\ Tokens \subseteq Nat
    BY EnvelopeTypes DEF AgentOk, LedgerAt, AgentStates, Tokens
  <1>1. ASSUME t \in ReleaseIdleHolder(s) PROVE Move(s, t) /\ AddsNothing(s, t)
    <2>1. t \in AgentStates /\ Administers(s, t) /\ OnlyFrees(s, t)
      BY <1>0, <1>1, ReleaseIdleHolderType, ReleaseIdleHolderEffect, ReleaseIdleHolderOnlyFrees
    <2>2. RecordsDropped(s, t) /\ AddsNothing(s, t)
      BY <1>0, <1>1, ReleaseIdleHolderRecords
    <2>3. RecordsDropped([s EXCEPT !.max = s.max], t)
      BY <1>0, <2>2 DEF RecordsDropped, AgentStates
    <2>4. s.holder # None => ~(s.holder.token < s.max)
      BY <1>0 DEF RecordsAreSound
    <2>5. Fits(s, t) /\ CandidateBy(s, t)
      BY <1>0, <2>3, <2>4, DroppedRecordsFit
    <2> QED
      BY <1>0, <2>1, <2>2, <2>5, OnlyFreesIsSafe DEF Move, Effect
  <1>2. ASSUME NEW op \in HealthOps, NEW p \in Planes, t \in ApplyHealth(s, op, p),
               op.token <= s.max \/ Unfenced(s)
        PROVE  Move(s, t) /\ AddsNothing(s, t)
    <2>0. op \in AllOps
      BY DEF AllOps
    <2>1. t \in AgentStates /\ SlotsAreAbove(t)
      BY <1>0, <1>2, <2>0, ApplyHealthType, ApplyHealthMovesUp
    <2>2. Effect(s, t)
      BY <1>0, <1>2, <2>0, ApplyHealthEffect DEF Effect
    <2>3. /\ RecordsBy(s, t, op) /\ AddsNothing(s, t)
          /\ t.pendingActivation = s.pendingActivation
      BY <1>0, <1>2, <2>0, ApplyHealthRecords
    <2>4. Fits(s, t) \/ Unfenced(s)
      BY <1>0, <1>2, <2>0, <2>3, FencedRecordsFit
    <2> QED
      BY <2>1, <2>2, <2>3, <2>4 DEF Move, CandidateBy
  <1>3. ASSUME NEW token \in Tokens, token >= s.max, t \in Fence(s, token)
        PROVE  Move(s, t) /\ AddsNothing(s, t)
    <2>0. token \in Nat
      BY <1>0
    <2>1. t \in AgentStates /\ Administers(s, t) /\ OnlyFrees(s, t)
      BY <1>0, <1>3, <2>0, FenceType, FenceEffect, FenceOnlyFrees
    <2>2. /\ RecordsDropped([s EXCEPT !.max = token], t) /\ AddsNothing(s, t)
          /\ s.holder # None /\ s.holder.token < token => t.holder = None
      BY <1>0, <1>3, <2>0, FenceRecords
    <2>3. Fits(s, t) /\ CandidateBy(s, t)
      BY <1>0, <1>3, <2>0, <2>2, DroppedRecordsFit
    <2> QED
      BY <1>0, <2>1, <2>2, <2>3, OnlyFreesIsSafe DEF Move, Effect
  <1> QED
    BY <1>1, <1>2, <1>3

-----------------------------------------------------------------------------
(* The invariant.                                                          *)

(* Tokens and histories: the journal and the calls at work are under the   *)
(* newest token, and what is aborted was started.                          *)
ToldApart ==
  /\ agent.journal # None => agent.journal.op.token <= agent.max
  /\ \A q \in Calls : /\ call[q].pc \in ActivePcs => call[q].op.token <= agent.max
                      /\ call[q].pc \in AbortPcs => call[q].op \in started
  /\ FenceFirst => \A op \in started : op.token <= agent.max

(* Everything that is journaled, reserved or at work was started.          *)
Issued ==
  /\ agent.journal # None => agent.journal.op \in started
  /\ \A c \in agent.completed : c.step = "reserve" => c.op \in started
  /\ \A p \in Planes, e \in Epochs :
       agent.reservations[p][e] # None => agent.reservations[p][e].op \in started
  /\ \A q \in Calls : call[q].pc \in ActivePcs => call[q].op \in started

(* What was cancelled stays closed on every plane, and so does what an     *)
(* abort under way has been answered for.                                  *)
Closes(q, p) == p \notin call[q].todo /\ call[q].next # "refused"
CancelsHold ==
  /\ \A who \in cancelled, p \in Planes : StaysClosed(agent, <<who, p>>)
  /\ \A q \in Calls, p \in Planes : call[q].pc \in AbortPcs /\ Closes(q, p) =>
        StaysClosed(agent, <<Who(call[q].op), p>>)

(* reserveAll will refuse who, now and later.                              *)
Barred(s, who) ==
  \/ who.token < s.max
  \/ \A p \in Planes :
       /\ Decided(s, <<who, p>>)
       /\ \A e \in Epochs : ~OwnedSlot(s, p, e, who)
       /\ \A c \in s.completed : ~(Who(c.op) = who /\ c.plane = p /\ c.step = "reserve")

(* Before the first journal nothing was reserved and nobody is at work; an *)
(* abort that got past a plane barred its operation there.                 *)
Pristine ==
  agent.journal = None =>
    /\ \A p \in Planes, e \in Epochs : agent.reservations[p][e] = None
    /\ \A c \in agent.completed : c.step # "reserve"
    /\ \A q \in Calls : call[q].pc \notin ActivePcs
    /\ \A q \in Calls, p \in Planes : call[q].pc \in AbortPcs /\ p \notin call[q].todo =>
         \/ call[q].op.token < agent.max
         \/ Decided(agent, <<Who(call[q].op), p>>)

(* An abort that found no journal finds none of its operation's later: it  *)
(* closes nothing, and needs no phase to close it with.                    *)
Unjournaled(who) ==
  /\ agent.journal # None => Who(agent.journal.op) # who
  /\ \A q \in Calls : call[q].pc \in ActivePcs => Who(call[q].op) # who
  /\ Barred(agent, who)
BlindAborts ==
  \A q \in Calls :
    call[q].pc = "abort_close" /\ call[q].entry = None => Unjournaled(Who(call[q].op))

(* The world outside the agent, and the histories.                         *)
WorldOk ==
  /\ owner \in Records \cup {None}
  /\ {link, running} \subseteq Epochs \cup {None}
  /\ hup \in BOOLEAN /\ late \subseteq Ops
  /\ applying \in Calls \cup {None}
  /\ started \subseteq Ops /\ cancelled \subseteq Whos /\ faults \in 0..MaxFaults

(* The invariant: see its parts.                                           *)
ApplyInv ==
  /\ WorldOk /\ AgentOk(agent) /\ FramesOk
  /\ ToldApart /\ Issued /\ CancelsHold /\ Pristine /\ BlindAborts

-----------------------------------------------------------------------------
(* What a step does to the agent, to what is reserved and journaled there, *)
(* to the calls and to the histories.                                      *)

(* A call of the agent whose outcome is t.                                 *)
Makes(t) ==
  \E u \in Pruned(t) : agent' = Guarded(agent, u) /\ thrown' = BrokenClauses(agent, u)
AgentMoves == UNCHANGED <<agent, thrown>> \/ \E t : Move(agent, t) /\ Makes(t)

(* What a call reserves and journals, it does for the operation of a frame *)
(* at work, or of a reserveAll that was not barred.                        *)
AtWork(op) == \E q \in Calls : call[q].pc \in ActivePcs /\ call[q].op = op
AgentAdds ==
  \/ AddsNothing(agent, agent')
  \/ \E op \in Ops :
       /\ AddsFor(agent, agent', op) /\ agent'.journal # None /\ op.token <= agent'.max
       /\ AtWork(op) \/ (~Barred(agent, Who(op)) /\ op \in started')

(* An abort goes on from call[q] to d: a plane it is past was answered for *)
(* before, is closed now, or had refused to be.                            *)
AbortsOn(q, d) ==
  /\ call[q].pc \in AbortPcs /\ d.op = call[q].op
  /\ \A p \in Planes : p \notin d.todo =>
       \/ p \notin call[q].todo /\ (d.next # "refused" => call[q].next # "refused")
       \/ StaysClosed(agent', <<Who(d.op), p>>)
       \/ /\ d.next = "refused"
          /\ d.op.token < agent.max \/ Decided(agent, <<Who(d.op), p>>)
  /\ d.pc = "abort_close" /\ d.entry = None => agent.journal = None /\ call[q].todo = {}

(* A frame that reserveAll opens.                                          *)
Opens(d) ==
  /\ agent'.journal # None /\ d.op.token <= agent'.max
  /\ d.op \in started' /\ ~Barred(agent, Who(d.op))

(* The frame d that call[q] becomes.                                       *)
Follows(q, d) ==
  /\ FrameOk(d)
  /\ \/ d = call[q]
     \/ d.pc \in IdlePcs
     \/ d.pc \in ActivePcs /\ call[q].pc \in ActivePcs /\ d.op = call[q].op
     \/ d.pc \in ActivePcs /\ agent.journal # None /\ d.op = agent.journal.op
     \/ d.pc \in ActivePcs /\ Opens(d)
     \/ d.pc = "abort" /\ d.todo = Planes /\ d.op \in started
     \/ d.pc \in AbortPcs /\ AbortsOn(q, d)
CallMoves == call' \in [Calls -> Frames] /\ \A q \in Calls : Follows(q, call'[q])

(* What is started is fenced, and what is cancelled is closed.             *)
HistoryMoves ==
  /\ started \subseteq started'
  /\ FenceFirst => \A op \in started' \ started : op.token <= agent.max
  /\ \A who \in cancelled' \ cancelled : \A p \in Planes : StaysClosed(agent, <<who, p>>)

-----------------------------------------------------------------------------
(* The invariant is kept by whatever moves so.                             *)

(* Nothing goes back, whatever a step does to the agent.                   *)
LEMMA MovesForward ==
  ASSUME AgentOk(agent), AgentMoves
  PROVE  AgentOk(agent') /\ Forward(agent, agent')
  <1>1. CASE UNCHANGED <<agent, thrown>>
    <2>1. agent.max \in Nat
      BY DEF AgentOk, AgentStates
    <2> QED
      BY <1>1, <2>1 DEF Forward
  <1>2. CASE \E t : Move(agent, t) /\ Makes(t)
    <2>1. PICK t : Move(agent, t) /\ Makes(t)
      BY <1>2
    <2>2. PICK u \in Pruned(t) : agent' = Guarded(agent, u)
      BY <2>1 DEF Makes
    <2> QED
      BY <2>1, <2>2, SavedIsOk DEF Move
  <1> QED
    BY <1>1, <1>2 DEF AgentMoves

(* No call is ever at work under a token the agent has not seen.           *)
LEMMA ToldApartKept ==
  ASSUME AgentOk(agent), FramesOk, ToldApart, AgentOk(agent'), Forward(agent, agent'), WorldOk,
         AgentAdds, CallMoves, HistoryMoves, WorldOk'
  PROVE  ToldApart'
  <1>0. /\ agent.max \in Nat /\ agent'.max \in Nat /\ agent'.max >= agent.max
        /\ \A op \in Ops : op.token \in Nat
        /\ agent.journal # None => agent.journal.op \in Ops
        /\ \A q \in Calls : call[q].pc \notin IdlePcs => call[q].op \in Ops
        /\ started \subseteq Ops /\ started' \subseteq Ops
    BY EnvelopeTypes DEF AgentOk, AgentStates, Forward, AllOps, Journals, FramesOk, FrameOk, WorldOk
  <1>1. agent'.journal # None => agent'.journal.op.token <= agent'.max
    <2>1. CASE AddsNothing(agent, agent')
      BY <1>0, <2>1 DEF AddsNothing, ToldApart
    <2>2. ASSUME NEW op \in Ops, AddsFor(agent, agent', op), op.token <= agent'.max
          PROVE  agent'.journal # None => agent'.journal.op.token <= agent'.max
      BY <1>0, <2>2 DEF AddsFor, ToldApart
    <2> QED
      BY <2>1, <2>2 DEF AgentAdds
  <1>2. ASSUME NEW q \in Calls
        PROVE  /\ call'[q].pc \in ActivePcs => call'[q].op.token <= agent'.max
               /\ call'[q].pc \in AbortPcs => call'[q].op \in started'
    <2> DEFINE d == call'[q]
    <2>1. Follows(q, d)
      BY DEF CallMoves
    <2>2. /\ ActivePcs \cap IdlePcs = {} /\ ActivePcs \cap AbortPcs = {}
          /\ AbortPcs \cap IdlePcs = {} /\ "abort" \in AbortPcs
      BY DEF ActivePcs, IdlePcs, AbortPcs
    <2>3. started \subseteq started'
      BY DEF HistoryMoves
    <2> HIDE DEF d
    <2>4. d.pc \in ActivePcs => d.op.token <= agent'.max
      BY <1>0, <2>1, <2>2 DEF Follows, ToldApart, Opens
    <2>5. d.pc \in AbortPcs => d.op \in started'
      BY <2>1, <2>2, <2>3 DEF Follows, ToldApart, AbortsOn
    <2> QED
      BY <2>4, <2>5 DEF d
  <1>3. FenceFirst => \A op \in started' : op.token <= agent'.max
    BY <1>0 DEF ToldApart, HistoryMoves
  <1> QED
    BY <1>1, <1>2, <1>3 DEF ToldApart

(* A call rests, works or aborts.                                          *)
LEMMA PcsAreApart ==
  /\ ActivePcs \cap IdlePcs = {} /\ ActivePcs \cap AbortPcs = {} /\ AbortPcs \cap IdlePcs = {}
  /\ "abort" \in AbortPcs /\ "abort_close" \in AbortPcs
  BY DEF ActivePcs, IdlePcs, AbortPcs

(* Nothing is journaled or reserved, and nobody works, for an operation    *)
(* that was not started.                                                   *)
LEMMA IssuedKept ==
  ASSUME AgentOk(agent), FramesOk, Issued, AgentAdds, CallMoves, HistoryMoves
  PROVE  Issued'
  <1>0. started \subseteq started' /\ \A op : AtWork(op) => op \in started
    BY DEF HistoryMoves, AtWork, Issued
  <1>1. PICK x : \/ AddsNothing(agent, agent')
                 \/ AddsFor(agent, agent', x) /\ x \in started'
    BY <1>0 DEF AgentAdds
  <1>2. agent'.journal # None => agent'.journal.op \in started'
    BY <1>0, <1>1 DEF AddsNothing, AddsFor, Issued
  <1>3. \A c \in agent'.completed : c.step = "reserve" => c.op \in started'
    BY <1>0, <1>1 DEF AddsNothing, AddsFor, Issued
  <1>4. ASSUME NEW p \in Planes, NEW e \in Epochs
        PROVE  agent'.reservations[p][e] # None => agent'.reservations[p][e].op \in started'
    BY <1>0, <1>1 DEF AddsNothing, SlotsOnlyFreed, AddsFor, Issued
  <1>5. ASSUME NEW q \in Calls PROVE call'[q].pc \in ActivePcs => call'[q].op \in started'
    <2> DEFINE d == call'[q]
    <2>1. Follows(q, d)
      BY DEF CallMoves
    <2> HIDE DEF d
    <2>2. d.pc \in ActivePcs => d.op \in started'
      BY <1>0, <2>1, PcsAreApart DEF Follows, Issued, Opens
    <2> QED
      BY <2>2 DEF d
  <1> QED
    BY <1>2, <1>3, <1>4, <1>5 DEF Issued

(* What follows an abort, or is one: it started with both planes to visit, *)
(* or goes on from one.                                                    *)
LEMMA AbortFollows ==
  ASSUME NEW q \in Calls, NEW d, Follows(q, d), d.pc \in AbortPcs
  PROVE  \/ d = call[q]
         \/ d.pc = "abort" /\ d.todo = Planes
         \/ AbortsOn(q, d)
  BY PcsAreApart DEF Follows

(* What is closed is decided.                                              *)
LEMMA ClosedIsDecided ==
  ASSUME NEW s, NEW k, StaysClosed(s, k)
  PROVE  Decided(s, k)
  BY NoneAssumption DEF StaysClosed, Decided, Verdicts

(* A cancelled operation stays closed, and an abort that returns has       *)
(* closed its own (driver.ts abortConfig).                                 *)
LEMMA CancelsHoldKept ==
  ASSUME FramesOk, CancelsHold, Forward(agent, agent'), WorldOk, CallMoves, HistoryMoves, WorldOk'
  PROVE  CancelsHold'
  <1>0. \A k \in Whos \X Planes : StaysClosed(agent, k) => StaysClosed(agent', k)
    BY DEF Forward
  <1>1. ASSUME NEW who \in cancelled', NEW p \in Planes
        PROVE  StaysClosed(agent', <<who, p>>)
    <2>1. who \in Whos /\ <<who, p>> \in Whos \X Planes
      BY DEF WorldOk
    <2>2. StaysClosed(agent, <<who, p>>)
      BY DEF CancelsHold, HistoryMoves
    <2> QED
      BY <1>0, <2>1, <2>2
  <1>2. ASSUME NEW q \in Calls, NEW p \in Planes, call'[q].pc \in AbortPcs,
               p \notin call'[q].todo, call'[q].next # "refused"
        PROVE  StaysClosed(agent', <<Who(call'[q].op), p>>)
    <2> DEFINE d == call'[q]
               c == call[q]
    <2>1. Follows(q, d)
      BY DEF CallMoves
    <2>2. d.op \in Ops
      BY <1>2, <2>1, PcsAreApart DEF Follows, FrameOk
    <2>3. <<Who(d.op), p>> \in Whos \X Planes
      BY <2>2, WhoTypes DEF AllOps
    <2>4. \/ d = c
          \/ d.pc = "abort" /\ d.todo = Planes
          \/ AbortsOn(q, d)
      BY <1>2, <2>1, AbortFollows
    <2>5. c.pc \in AbortPcs /\ p \notin c.todo /\ c.next # "refused"
            => StaysClosed(agent, <<Who(c.op), p>>)
      BY DEF CancelsHold, Closes
    <2>6. d.pc \in AbortPcs /\ p \notin d.todo /\ d.next # "refused"
      BY <1>2
    <2> HIDE DEF c, d
    <2>7. d = c => StaysClosed(agent', <<Who(d.op), p>>)
      BY <1>0, <2>3, <2>5, <2>6
    <2>8. AbortsOn(q, d) => StaysClosed(agent', <<Who(d.op), p>>)
      BY <1>0, <2>3, <2>5, <2>6 DEF AbortsOn, c
    <2>9. StaysClosed(agent', <<Who(d.op), p>>)
      BY <2>4, <2>6, <2>7, <2>8
    <2> QED
      BY <2>9 DEF d
  <1> QED
    BY <1>1, <1>2 DEF CancelsHold, Closes

(* What is barred stays barred, and what is added is not for it.           *)
LEMMA BarredStays ==
  ASSUME NEW s \in AgentStates, NEW w \in AgentStates, Forward(s, w), NEW op \in Ops,
         Barred(s, Who(op)),
         \/ AddsNothing(s, w)
         \/ \E o \in Ops : AddsFor(s, w, o) /\ Who(o) # Who(op)
  PROVE  Barred(w, Who(op))
  <1> DEFINE who == Who(op)
  <1>0. /\ s.max \in Nat /\ w.max \in Nat /\ w.max >= s.max
        /\ who \in Whos /\ who.token = op.token /\ op.token \in Nat
    BY EnvelopeTypes DEF AgentStates, Forward, AllOps, Who
  <1>1. CASE who.token < s.max
    BY <1>0, <1>1 DEF Barred
  <1>2. CASE ~(who.token < s.max)
    <2>1. \A p \in Planes :
            /\ Decided(s, <<who, p>>)
            /\ \A e \in Epochs : ~OwnedSlot(s, p, e, who)
            /\ \A c \in s.completed : ~(Who(c.op) = who /\ c.plane = p /\ c.step = "reserve")
      BY <1>2 DEF Barred
    <2> HIDE DEF who
    <2>2. \A p \in Planes : Decided(w, <<who, p>>)
      BY <1>0, <2>1 DEF Forward
    <2>3. ASSUME NEW p \in Planes, NEW e \in Epochs
          PROVE  ~OwnedSlot(w, p, e, who)
      <3>1. \/ w.reservations[p][e] \in {None, s.reservations[p][e]}
            \/ Who(w.reservations[p][e].op) # who
        BY DEF AddsNothing, SlotsOnlyFreed, AddsFor, who
      <3> QED
        BY <2>1, <3>1 DEF OwnedSlot
    <2>4. ASSUME NEW c \in w.completed
          PROVE  c \in s.completed \/ Who(c.op) # who \/ c.step # "reserve"
      BY DEF AddsNothing, AddsFor, who
    <2> QED
      BY <2>1, <2>2, <2>3, <2>4 DEF Barred, who
  <1> QED
    BY <1>1, <1>2

(* The first reservation comes with the first journal (reserveAll).        *)
LEMMA PristineKept ==
  ASSUME AgentOk(agent), FramesOk, Pristine, AgentOk(agent'), Forward(agent, agent'),
         AgentAdds, CallMoves
  PROVE  Pristine'
  <1> SUFFICES ASSUME agent'.journal = None
               PROVE  /\ \A p \in Planes, e \in Epochs : agent'.reservations[p][e] = None
                      /\ \A c \in agent'.completed : c.step # "reserve"
                      /\ \A q \in Calls : call'[q].pc \notin ActivePcs
                      /\ \A q \in Calls, p \in Planes :
                           call'[q].pc \in AbortPcs /\ p \notin call'[q].todo =>
                             \/ call'[q].op.token < agent'.max
                             \/ Decided(agent', <<Who(call'[q].op), p>>)
    BY DEF Pristine
  <1>1. agent.journal = None
    BY DEF Forward
  <1>2. AddsNothing(agent, agent')
    BY DEF AgentAdds
  <1>3. /\ agent.max \in Nat /\ agent'.max \in Nat /\ agent'.max >= agent.max
        /\ \A k \in Whos \X Planes : Decided(agent, k) => Decided(agent', k)
    BY DEF AgentOk, AgentStates, Forward
  <1>4. \A p \in Planes, e \in Epochs : agent'.reservations[p][e] = None
    BY <1>1, <1>2 DEF Pristine, AddsNothing, SlotsOnlyFreed
  <1>5. \A c \in agent'.completed : c.step # "reserve"
    BY <1>1, <1>2 DEF Pristine, AddsNothing
  <1>6. ASSUME NEW q \in Calls PROVE call'[q].pc \notin ActivePcs
    <2>1. Follows(q, call'[q])
      BY DEF CallMoves
    <2> QED
      BY <1>1, <2>1, PcsAreApart DEF Follows, Opens, Pristine
  <1>7. ASSUME NEW q \in Calls, NEW p \in Planes, call'[q].pc \in AbortPcs, p \notin call'[q].todo
        PROVE  \/ call'[q].op.token < agent'.max
               \/ Decided(agent', <<Who(call'[q].op), p>>)
    <2> DEFINE d == call'[q]
               c == call[q]
    <2>1. Follows(q, d)
      BY DEF CallMoves
    <2>2. d.op \in Ops
      BY <1>7, <2>1, PcsAreApart DEF Follows, FrameOk
    <2>3. <<Who(d.op), p>> \in Whos \X Planes /\ d.op.token \in Nat
      BY <2>2, WhoTypes, EnvelopeTypes DEF AllOps
    <2>4. d = c \/ (d.pc = "abort" /\ d.todo = Planes) \/ AbortsOn(q, d)
      BY <1>7, <2>1, AbortFollows
    <2>5. c.pc \in AbortPcs /\ p \notin c.todo
            => c.op.token < agent.max \/ Decided(agent, <<Who(c.op), p>>)
      BY <1>1 DEF Pristine
    <2>6. d.pc \in AbortPcs /\ p \notin d.todo
      BY <1>7
    <2>7. \/ d.op.token < agent.max \/ Decided(agent, <<Who(d.op), p>>)
          \/ Decided(agent', <<Who(d.op), p>>)
      <3> HIDE DEF c, d
      <3>1. d = c => d.op.token < agent.max \/ Decided(agent, <<Who(d.op), p>>)
        BY <2>5, <2>6
      <3>2. AbortsOn(q, d) => \/ c.pc \in AbortPcs /\ p \notin c.todo /\ d.op = c.op
                              \/ StaysClosed(agent', <<Who(d.op), p>>)
                              \/ d.op.token < agent.max \/ Decided(agent, <<Who(d.op), p>>)
        BY <2>6 DEF AbortsOn, c
      <3>3. StaysClosed(agent', <<Who(d.op), p>>) => Decided(agent', <<Who(d.op), p>>)
        BY ClosedIsDecided
      <3> QED
        BY <2>4, <2>5, <2>6, <3>1, <3>2, <3>3
    <2> HIDE DEF d
    <2>8. d.op.token < agent'.max \/ Decided(agent', <<Who(d.op), p>>)
      BY <1>3, <2>3, <2>7
    <2> QED
      BY <2>8 DEF d
  <1> QED
    BY <1>4, <1>5, <1>6, <1>7

(* An abort that found no journal: its operation is barred for good.       *)
LEMMA BlindAbortsKept ==
  ASSUME AgentOk(agent), FramesOk, Pristine, BlindAborts, AgentOk(agent'),
         Forward(agent, agent'), AgentAdds, CallMoves
  PROVE  BlindAborts'
  <1> SUFFICES ASSUME NEW q \in Calls, call'[q].pc = "abort_close", call'[q].entry = None
               PROVE  /\ agent'.journal # None => Who(agent'.journal.op) # Who(call'[q].op)
                      /\ \A r \in Calls : call'[r].pc \in ActivePcs =>
                           Who(call'[r].op) # Who(call'[q].op)
                      /\ Barred(agent', Who(call'[q].op))
    BY DEF BlindAborts, Unjournaled
  <1> DEFINE d == call'[q]
             who == Who(d.op)
  <1>1. Follows(q, d) /\ d.pc = "abort_close" /\ d.entry = None
    BY DEF CallMoves
  <1>2. d.op \in Ops /\ d.pc \in AbortPcs /\ d.todo = {}
    BY <1>1, PcsAreApart DEF Follows, FrameOk
  <1>3. agent \in AgentStates /\ agent' \in AgentStates
    BY DEF AgentOk
  <1> HIDE DEF d
  <1>4. (\A p \in Planes : d.op.token < agent.max \/ Decided(agent, <<who, p>>))
          /\ agent.journal = None => Barred(agent, who)
    <2>1. who.token = d.op.token
      BY DEF Who
    <2> QED
      BY <2>1 DEF Barred, Pristine, OwnedSlot
  <1>5. Unjournaled(who)
    <2>1. CASE d = call[q]
      BY <1>1, <2>1 DEF BlindAborts
    <2>2. CASE AbortsOn(q, d)
      <3>1. agent.journal = None /\ call[q].todo = {} /\ call[q].pc \in AbortPcs /\ d.op = call[q].op
        BY <1>1, <2>2 DEF AbortsOn
      <3>2. \A p \in Planes : d.op.token < agent.max \/ Decided(agent, <<who, p>>)
        BY <3>1 DEF Pristine
      <3> QED
        BY <1>4, <3>1, <3>2 DEF Unjournaled, Pristine
    <2> QED
      BY <1>1, <1>2, <2>1, <2>2, AbortFollows, PcsAreApart
  <1> DEFINE another == \E o \in Ops : /\ AddsFor(agent, agent', o) /\ Who(o) # who
  <1>6. AddsNothing(agent, agent') \/ another
    <2>1. ASSUME NEW o \in Ops, AtWork(o) \/ ~Barred(agent, Who(o)) PROVE Who(o) # who
      BY <1>5, <2>1 DEF AtWork, Unjournaled
    <2> QED
      BY <2>1 DEF AgentAdds
  <1>7. Barred(agent', who)
    BY <1>2, <1>3, <1>5, <1>6, BarredStays DEF Unjournaled
  <1>8. agent'.journal # None => Who(agent'.journal.op) # who
    BY <1>5, <1>6 DEF Unjournaled, AddsNothing, AddsFor
  <1>9. ASSUME NEW r \in Calls, call'[r].pc \in ActivePcs PROVE Who(call'[r].op) # who
    <2>1. Follows(r, call'[r])
      BY DEF CallMoves
    <2> QED
      BY <1>5, <1>9, <2>1, PcsAreApart DEF Follows, Opens, Unjournaled
  <1> QED
    BY <1>7, <1>8, <1>9 DEF d

(* A step that moves as the five relations say keeps the invariant.        *)
LEMMA InvariantKept ==
  ASSUME ApplyInv, AgentMoves, AgentAdds, CallMoves, HistoryMoves, WorldOk'
  PROVE  ApplyInv'
  <1>1. AgentOk(agent') /\ Forward(agent, agent')
    BY MovesForward DEF ApplyInv
  <1>2. FramesOk'
    BY DEF CallMoves, Follows, FramesOk
  <1>3. ToldApart' /\ Issued' /\ CancelsHold' /\ Pristine' /\ BlindAborts'
    BY <1>1, ToldApartKept, IssuedKept, CancelsHoldKept, PristineKept, BlindAbortsKept DEF ApplyInv
  <1> QED
    BY <1>1, <1>2, <1>3 DEF ApplyInv

-----------------------------------------------------------------------------
(* Every step moves so.                                                    *)

(* A step of one call leaves the others where they are.                    *)
LEMMA OneFollows ==
  ASSUME FramesOk, NEW p \in Calls, NEW d, Follows(p, d), call' = [call EXCEPT ![p] = d]
  PROVE  CallMoves
  <1>1. d \in Frames
    BY DEF Follows, FrameOk
  <1>2. call' \in [Calls -> Frames] /\ call'[p] = d
    BY <1>1 DEF FramesOk
  <1>3. ASSUME NEW q \in Calls PROVE Follows(q, call'[q])
    <2>1. CASE q = p
      BY <1>2, <2>1
    <2>2. CASE q # p
      <3>1. call'[q] = call[q]
        BY <2>2 DEF FramesOk
      <3> QED
        BY <3>1 DEF Follows, FramesOk
    <2> QED
      BY <2>1, <2>2
  <1> QED
    BY <1>2, <1>3 DEF CallMoves

(* A step that touches no call moves none.                                 *)
LEMMA NobodyMoves ==
  ASSUME FramesOk, UNCHANGED call
  PROVE  CallMoves
  BY DEF FramesOk, CallMoves, Follows

(* A step that leaves the agent alone adds nothing to it.                  *)
LEMMA NothingAdds ==
  ASSUME AgentOk(agent), UNCHANGED agent
  PROVE  AgentAdds
  <1>1. AddsNothing(agent, agent)
    BY DEF AddsNothing, SlotsOnlyFreed
  <1> QED
    BY <1>1 DEF AgentAdds

(* Who works on for the operation of the frame follows it.                 *)
LEMMA ServesFollows ==
  ASSUME NEW p \in Calls, NEW d, Serves(p, d)
  PROVE  Follows(p, d)
  BY DEF Serves, Follows

(* A turn calls nothing.                                                   *)
LEMMA TurnMoves ==
  ASSUME ApplyInv, NEW p \in Calls, NEW d, Turn(p, d), Follows(p, d)
  PROVE  AgentMoves /\ AgentAdds /\ CallMoves /\ applying' \in Calls \cup {None}
  <1>1. UNCHANGED <<agent, thrown>> /\ call' = [call EXCEPT ![p] = d]
        /\ applying' \in {applying, None}
    BY DEF Turn, Goto
  <1>2. AgentMoves /\ AgentAdds
    BY <1>1, NothingAdds DEF AgentMoves, ApplyInv
  <1>3. CallMoves
    BY <1>1, OneFollows DEF ApplyInv
  <1> QED
    BY <1>1, <1>2, <1>3 DEF ApplyInv, WorldOk

(* What a call of the agent adds, once it is pruned and was let through.   *)
Adds(t) ==
  \/ AddsNothing(agent, t)
  \/ \E op \in Ops :
       /\ AddsFor(agent, t, op) /\ t.journal # None /\ op.token <= t.max
       /\ AtWork(op) \/ (~Barred(agent, Who(op)) /\ op \in started')

(* What a call adds, the saved state adds, and no more.                    *)
LEMMA MadeAdds ==
  ASSUME AgentOk(agent), NEW t, Move(agent, t), Adds(t), NEW u \in Pruned(t),
         agent' = Guarded(agent, u)
  PROVE  AgentAdds
  <1>1. t \in AgentStates
    BY DEF Move
  <1>2. u.journal = t.journal /\ u.max = t.max /\ AddsNothing(t, u)
    BY <1>1, PrunedFields, PrunedRecords
  <1>3. CASE agent' = agent
    BY <1>3, NothingAdds
  <1>4. CASE agent' = u
    <2>1. AddsNothing(agent, t) => AddsNothing(agent, u)
      BY <1>2, RecordsFollow
    <2>2. \A op \in Ops : AddsFor(agent, t, op) => AddsFor(agent, u, op)
      BY <1>2, RecordsFollow
    <2> QED
      BY <1>2, <1>4, <2>1, <2>2 DEF Adds, AgentAdds
  <1> QED
    BY <1>3, <1>4 DEF Guarded

(* A call of the agent by p: it is refused, thrown out, or made.           *)
LEMMA CallMade ==
  ASSUME ApplyInv, NEW p \in Calls, NEW calls, NEW accepted, NEW rejected,
         AgentCall(p, calls, accepted, rejected),
         \A t \in calls : Move(agent, t) /\ Adds(t),
         calls = {} => Follows(p, rejected),
         \A t \in calls : \A u \in Pruned(t) :
           agent' = u /\ BrokenClauses(agent, u) = {} => Follows(p, accepted)
  PROVE  AgentMoves /\ AgentAdds /\ CallMoves /\ applying' \in Calls \cup {None}
  <1>1. CASE calls = {} /\ Turn(p, rejected)
    BY <1>1, TurnMoves
  <1>2. CASE \E t \in Outcomes(calls) :
               /\ agent' = Guarded(agent, t) /\ thrown' = BrokenClauses(agent, t)
               /\ Goto(p, IF thrown' = {} THEN accepted ELSE Idle)
    <2>1. PICK u \in Outcomes(calls) :
            /\ agent' = Guarded(agent, u) /\ thrown' = BrokenClauses(agent, u)
            /\ Goto(p, IF thrown' = {} THEN accepted ELSE Idle)
      BY <1>2
    <2>2. PICK t \in calls : u \in Pruned(t)
      BY <2>1 DEF Outcomes
    <2>3. Move(agent, t) /\ Makes(t) /\ Adds(t)
      BY <2>1, <2>2 DEF Makes
    <2>4. AgentMoves /\ AgentAdds
      BY <2>1, <2>2, <2>3, MadeAdds DEF AgentMoves, ApplyInv
    <2>5. PICK d : /\ call' = [call EXCEPT ![p] = d] /\ applying' \in {applying, None}
                   /\ Follows(p, d)
      <3>1. Follows(p, Idle)
        BY IdleServes, ServesFollows
      <3>2. CASE thrown' = {}
        <4>1. agent' = u /\ BrokenClauses(agent, u) = {}
          BY <2>1, <3>2 DEF Guarded
        <4>2. Follows(p, accepted)
          BY <2>2, <4>1
        <4> QED
          BY <2>1, <3>2, <4>2 DEF Goto
      <3>3. CASE thrown' # {}
        BY <2>1, <3>1, <3>3 DEF Goto
      <3> QED
        BY <3>2, <3>3
    <2>6. CallMoves
      BY <2>5, OneFollows DEF ApplyInv
    <2> QED
      BY <2>4, <2>5, <2>6 DEF ApplyInv, WorldOk
  <1> QED
    BY <1>1, <1>2 DEF AgentCall

(* A call at work calls the agent for its operation.                       *)
LEMMA ServingCall ==
  ASSUME ApplyInv, NEW p \in Calls, call[p].pc \in ActivePcs,
         NEW calls, NEW accepted, NEW rejected, AgentCall(p, calls, accepted, rejected),
         \A t \in calls : OpCall(agent, t, call[p].op),
         Serves(p, accepted), Serves(p, rejected)
  PROVE  AgentMoves /\ AgentAdds /\ CallMoves /\ applying' \in Calls \cup {None}
  <1> DEFINE op == call[p].op
  <1>1. op \in Ops /\ op.token <= agent.max /\ op.token \in Nat /\ agent.max \in Nat
    BY PcsAreApart, EnvelopeTypes
       DEF ApplyInv, FramesOk, FrameOk, ToldApart, AgentOk, AgentStates, AllOps
  <1>2. agent.journal # None
    BY DEF ApplyInv, Pristine
  <1>3. AtWork(op)
    BY DEF AtWork
  <1> HIDE DEF op
  <1>4. ASSUME NEW t \in calls PROVE Move(agent, t) /\ Adds(t)
    <2>1. OpCall(agent, t, op)
      BY <1>4 DEF op
    <2>2. Move(agent, t) /\ AddsFor(agent, t, op)
      BY <1>1, <2>1, OpCallMoves DEF ApplyInv
    <2>3. Keeps(agent, t)
      BY <2>2, EffectKeepsLedger DEF Move, ApplyInv, AgentOk
    <2>4. t.journal # None /\ t.max >= agent.max /\ t.max \in Nat
      BY <1>2, <2>2, <2>3 DEF Keeps, JournalKept, Move, AgentStates
    <2> QED
      BY <1>1, <1>3, <2>2, <2>4 DEF Adds
  <1>5. Follows(p, accepted) /\ Follows(p, rejected)
    BY ServesFollows
  <1> QED
    BY <1>4, <1>5, CallMade

(* A call that rests works for nobody.                                     *)
LEMMA RestingServes ==
  ASSUME NEW p, NEW pc \in IdlePcs
  PROVE  Serves(p, InCall(pc, None))
  <1> DEFINE d == InCall(pc, None)
  <1>1. d \in Frames /\ d.pc = pc
    BY InCallFields, PcsAreStates
  <1> HIDE DEF d
  <1>2. Serves(p, d)
    BY <1>1, PcsAreStates, PcsAreApart DEF Serves, FrameOk, IdlePcs, EntryPcs, ProgressPcs
  <1> QED
    BY <1>2 DEF d

(* A step, but for the world and the histories.                            *)
Calm == AgentMoves /\ AgentAdds /\ CallMoves /\ applying' \in Calls \cup {None}

(* recoverConfig, the hold and the journal.                                *)
LEMMA HoldStepMoves ==
  ASSUME ApplyInv, NEW p \in Calls,
         \/ RecoverIdle(p) \/ RecoverClose(p) \/ RecoverFree(p) \/ Reclaim(p)
         \/ CloseAndFinish(p) \/ WriteEntry(p) \/ Finish(p) \/ RecordIntent(p)
  PROVE  Calm
  <1> DEFINE c == call[p]
  <1>0. FramesOk /\ FrameOk(c)
    BY DEF ApplyInv, FramesOk
  <1>1. \A d : c.pc \in ActivePcs /\ WorksFor(d, c.op) => Serves(p, d)
    BY ServesWhen
  <1>2. Serves(p, Idle)
    BY IdleServes
  <1>3. /\ {"recover_close", "recover_free", "reclaim", "queue", "loop", "signal", "finish"}
             \subseteq PlainPcs
        /\ PlainPcs \cup {"write", "close"} \subseteq ActivePcs
    BY PcsAreStates DEF PlainPcs
  <1>4. c.pc \in ActivePcs => c.op \in Ops
    BY <1>0, PcsAreApart DEF FrameOk
  <1>5. "superseded" \in Phases
    BY DEF Phases, TerminalPhases
  <1>6. CASE RecoverIdle(p)
    <2>1. AgentCall(p, ReleaseIdleHolder(agent), Idle, Idle)
      BY <1>6 DEF RecoverIdle
    <2>2. \A t \in ReleaseIdleHolder(agent) : Move(agent, t) /\ Adds(t)
      BY OtherCallsMove DEF ApplyInv, Adds
    <2>3. Follows(p, Idle)
      BY <1>2, ServesFollows
    <2> QED
      BY <2>1, <2>2, <2>3, CallMade DEF Calm
  <1>7. CASE RecoverClose(p)
    <2>1. /\ c.pc = "recover_close"
          /\ AgentCall(p, CloseJournal(agent, c.op, "superseded"), InCall("recover_free", c.op), Idle)
      BY <1>7 DEF RecoverClose, At0
    <2>2. Serves(p, InCall("recover_free", c.op))
      BY <1>1, <1>3, <1>4, <2>1, PlainFrame
    <2>3. \A t \in CloseJournal(agent, c.op, "superseded") : OpCall(agent, t, c.op)
      BY <1>5 DEF OpCall
    <2> QED
      BY <1>2, <1>3, <2>1, <2>2, <2>3, ServingCall DEF Calm
  <1>8. CASE RecoverFree(p)
    <2>1. c.pc = "recover_free" /\ AgentCall(p, ReleaseStaleSlots(agent, c.op), Idle, Idle)
      BY <1>8 DEF RecoverFree, At0
    <2>2. \A t \in ReleaseStaleSlots(agent, c.op) : OpCall(agent, t, c.op)
      BY DEF OpCall
    <2> QED
      BY <1>2, <1>3, <2>1, <2>2, ServingCall DEF Calm
  <1>9. CASE Reclaim(p)
    <2>1. /\ c.pc = "reclaim"
          /\ AgentCall(p, ReclaimOperation(agent, c.op), InCall("queue", c.op), Idle)
      BY <1>9 DEF Reclaim, At0
    <2>2. Serves(p, InCall("queue", c.op))
      BY <1>1, <1>3, <1>4, <2>1, PlainFrame
    <2>3. \A t \in ReclaimOperation(agent, c.op) : OpCall(agent, t, c.op)
      BY DEF OpCall
    <2> QED
      BY <1>2, <1>3, <2>1, <2>2, <2>3, ServingCall DEF Calm
  <1>10. CASE CloseAndFinish(p)
    <2>1. /\ c.pc = "close"
          /\ AgentCall(p, CloseJournal(agent, c.op, c.next), Finishes(c.op, Planes, "idle"), Idle)
      BY <1>10 DEF CloseAndFinish, At0
    <2>2. c.next \in Phases
      BY <1>0, <2>1 DEF FrameOk
    <2>3. Serves(p, Finishes(c.op, Planes, "idle"))
      BY <1>1, <1>3, <1>4, <2>1, FinishesFrame
    <2>4. \A t \in CloseJournal(agent, c.op, c.next) : OpCall(agent, t, c.op)
      BY <2>2 DEF OpCall
    <2> QED
      BY <1>2, <1>3, <2>1, <2>3, <2>4, ServingCall DEF Calm
  <1>11. CASE WriteEntry(p)
    <2> DEFINE written == IF c.next = "finish" THEN Finishes(c.op, c.todo, c.after)
                          ELSE InCall(c.next, c.op)
               rejected == IF Writable(agent, c.entry.op)
                           THEN IF c.next = "signal" THEN Loop(c.op) ELSE written ELSE Idle
    <2>1. c.pc = "write" /\ AgentCall(p, WriteJournal(agent, c.entry), written, rejected)
      BY <1>11 DEF WriteEntry, At0
    <2>2. /\ c.entry \in Journals /\ c.entry.op = c.op /\ c.next \in {"loop", "finish", "signal"}
          /\ c.todo \in SUBSET Planes /\ c.after \in {"idle", "loop"}
          /\ c.pc \in ActivePcs /\ c.op \in Ops
      BY <1>0, <1>3, <1>4, <2>1 DEF FrameOk, Frames
    <2>3. Serves(p, Finishes(c.op, c.todo, c.after))
      BY <1>1, <2>2, FinishesFrame
    <2>4. Serves(p, InCall("loop", c.op)) /\ Serves(p, InCall("signal", c.op))
      BY <1>1, <1>3, <2>2, PlainFrame
    <2>5. Serves(p, written) /\ Serves(p, rejected)
      BY <1>2, <2>2, <2>3, <2>4 DEF Loop
    <2>6. \A t \in WriteJournal(agent, c.entry) : OpCall(agent, t, c.op)
      BY <2>2 DEF OpCall
    <2> QED
      BY <2>1, <2>2, <2>5, <2>6, ServingCall DEF Calm
  <1>12. CASE Finish(p)
    <2> DEFINE after == InCall(c.after, IF c.after = "idle" THEN None ELSE c.op)
    <2>1. c.pc = "finish" /\ AgentCall(p, FinishOperation(agent, c.op, c.todo), after, Idle)
      BY <1>12 DEF Finish, At0
    <2>2. c.after \in {"idle", "loop"}
      BY <1>0 DEF FrameOk, Frames
    <2>3. Serves(p, InCall("idle", None))
      BY RestingServes DEF IdlePcs
    <2>4. Serves(p, InCall("loop", c.op))
      BY <1>1, <1>3, <1>4, <2>1, PlainFrame
    <2>5. Serves(p, after)
      BY <2>2, <2>3, <2>4
    <2>6. \A t \in FinishOperation(agent, c.op, c.todo) : OpCall(agent, t, c.op)
      BY DEF OpCall
    <2> QED
      BY <1>2, <1>3, <2>1, <2>5, <2>6, ServingCall DEF Calm
  <1>13. CASE RecordIntent(p)
    <2>1. /\ c.pc = "record_intent"
          /\ AgentCall(p, RecordPublishIntent(agent, c.op), [call[p] EXCEPT !.pc = "publish"], Idle)
      BY <1>13 DEF RecordIntent, At0
    <2>2. c.pc \in EntryPcs /\ "publish" \in EntryPcs \ ProgressPcs
      BY <2>1 DEF EntryPcs, ProgressPcs
    <2>3. Serves(p, [call[p] EXCEPT !.pc = "publish"]) /\ c.pc \in ActivePcs
      BY <1>0, <2>2, MovesOn, PcsAreStates
    <2>4. \A t \in RecordPublishIntent(agent, c.op) : OpCall(agent, t, c.op)
      BY DEF OpCall
    <2> QED
      BY <1>2, <2>1, <2>3, <2>4, ServingCall DEF Calm
  <1> QED
    BY <1>6, <1>7, <1>8, <1>9, <1>10, <1>11, <1>12, <1>13

(* failAll notes what it was told of a plane.                              *)
FailNoted(c, plane, d) ==
  [c EXCEPT !.todo = @ \ {plane}, !.progress[plane] = d,
            !.pc = IF c.todo = {plane} THEN "fail_read" ELSE "fail"]

(* Noting a plane keeps the operation.                                     *)
LEMMA FailNotedFrame ==
  ASSUME NEW c, c \in Frames, c.op \in Ops, c.j \in Journals, c.j.op = c.op, c.progress \in Notes,
         NEW plane \in Planes, NEW d \in Progress
  PROVE  WorksFor(FailNoted(c, plane, d), c.op)
  <1> DEFINE notes == [c.progress EXCEPT ![plane] = d]
             pc == IF c.todo = {plane} THEN "fail_read" ELSE "fail"
             b == [c EXCEPT !.todo = c.todo \ {plane}, !.progress = notes]
             e == FailNoted(c, plane, d)
  <1>1. notes \in Notes
    BY DEF Notes
  <1>2. pc \in CallStates /\ pc \in EntryPcs
    BY DEF CallStates, EntryPcs
  <1>3. e = [b EXCEPT !.pc = pc]
    BY DEF Frames, FailNoted
  <1> HIDE DEF notes, pc
  <1>4. b \in Frames /\ b.op = c.op /\ b.j = c.j /\ b.progress = notes
    BY <1>1 DEF Frames
  <1> HIDE DEF b, e
  <1>5. e \in Frames /\ e.pc = pc /\ e.op = c.op /\ e.j = c.j /\ e.progress = notes
    BY <1>2, <1>3, <1>4 DEF Frames
  <1>6. WorksFor(e, c.op)
    BY <1>1, <1>2, <1>5, EntryFrame
  <1> QED
    BY <1>6 DEF e

(* The planes: staged, failed, committed, one after the other.             *)
LEMMA PlaneStepMoves ==
  ASSUME ApplyInv, NEW p \in Calls, FailPlane(p) \/ StagePlane(p) \/ CommitPlane(p)
  PROVE  Calm
  <1> DEFINE c == call[p]
             plane == NextPlane(c.todo)
  <1>0. FramesOk /\ FrameOk(c)
    BY DEF ApplyInv, FramesOk
  <1>1. c.pc \in {"fail", "stage", "commit"}
    BY DEF FailPlane, StagePlane, CommitPlane, At0
  <1>2. c.pc \in EntryPcs /\ c.pc \in ProgressPcs
    BY <1>1 DEF EntryPcs, ProgressPcs
  <1>3. /\ c \in Frames /\ c.pc \in ActivePcs /\ c.op \in Ops
        /\ c.j \in Journals /\ c.j.op = c.op /\ c.progress \in Notes
    BY <1>0, <1>2, PcsAreStates DEF FrameOk, Journals
  <1>4. plane \in Planes /\ {"failed", "committed"} \subseteq Progress
    BY PlanesAre DEF Progress
  <1>5. \A d : WorksFor(d, c.op) => Serves(p, d)
    BY <1>3, ServesWhen
  <1>6. \A t : /\ t \in Fail(agent, c.op, plane) => OpCall(agent, t, c.op)
               /\ t \in Stage(agent, c.op, plane) => OpCall(agent, t, c.op)
               /\ t \in Commit(agent, c.op, plane, TRUE) => OpCall(agent, t, c.op)
    BY <1>4 DEF OpCall
  <1>7. CASE FailPlane(p)
    <2> DEFINE noted(d) == FailNoted(c, plane, d)
    <2>2. Serves(p, noted("failed")) /\ Serves(p, noted("committed"))
      BY <1>3, <1>4, <1>5, <1>7, FailNotedFrame DEF FailPlane, At0
    <2>3. \/ Turn(p, noted("committed"))
          \/ AgentCall(p, Fail(agent, c.op, plane), noted("failed"), noted("failed"))
      BY <1>7 DEF FailPlane, FailNoted
    <2> HIDE DEF noted
    <2> QED
      BY <1>3, <1>6, <2>2, <2>3, TurnMoves, ServingCall, ServesFollows DEF Calm
  <1>8. CASE StagePlane(p)
    <2> DEFINE d == [c EXCEPT !.pc = "stage_membership"]
    <2>1. c.pc = "stage" /\ AgentCall(p, Stage(agent, c.op, plane), d, StagedTo(c, plane, "failed"))
      BY <1>8 DEF StagePlane, At0
    <2>2. "stage_membership" \in CallStates /\ "stage_membership" \in EntryPcs
      BY DEF CallStates, EntryPcs
    <2>3. /\ d \in Frames /\ d.pc = "stage_membership" /\ d.op = c.op /\ d.j = c.j
          /\ d.progress = c.progress
      BY <1>3, <2>2 DEF Frames
    <2> HIDE DEF d
    <2>4. WorksFor(d, c.op)
      BY <1>3, <2>2, <2>3, EntryFrame
    <2>5. WorksFor(StagedTo(c, plane, "failed"), c.op)
      BY <1>0, <1>4, <2>1, StagedToFrame
    <2> QED
      BY <1>3, <1>5, <1>6, <2>1, <2>4, <2>5, ServingCall DEF Calm
  <1>9. CASE CommitPlane(p)
    <2>1. c.pc = "commit"
          /\ AgentCall(p, Commit(agent, c.op, plane, TRUE), CommittedTo(c, plane, "committed"),
                       CommittedTo(c, plane, "failed"))
      BY <1>9 DEF CommitPlane, At0
    <2>2. /\ WorksFor(CommittedTo(c, plane, "committed"), c.op)
          /\ WorksFor(CommittedTo(c, plane, "failed"), c.op)
      BY <1>0, <1>4, <2>1, CommittedToFrame
    <2> QED
      BY <1>3, <1>5, <1>6, <2>1, <2>2, ServingCall DEF Calm
  <1> QED
    BY <1>7, <1>8, <1>9

(* An abort that was answered closed the plane for its operation, and one  *)
(* that was refused came late or found it decided.                         *)
LEMMA AbortedIsClosed ==
  ASSUME NEW s, AgentOk(s), NEW op \in Ops, NEW p \in Planes
  PROVE  /\ \A t \in Abort(s, op, p) : \A u \in Pruned(t) :
              Move(s, t) => StaysClosed(u, <<Who(op), p>>)
         /\ Abort(s, op, p) = {} => op.token < s.max \/ Decided(s, <<Who(op), p>>)
  <1>0. /\ s \in AgentStates /\ s.max \in Nat /\ op \in AllOps /\ op.token \in Nat
        /\ <<Who(op), p>> \in Whos \X Planes /\ "aborted" \in Verdicts
    BY EnvelopeTypes, WhoTypes DEF AgentOk, AgentStates, AllOps, Verdicts
  <1>1. ASSUME NEW t \in Abort(s, op, p), NEW u \in Pruned(t), Move(s, t)
        PROVE  StaysClosed(u, <<Who(op), p>>)
    <2>1. t \in AgentStates /\ LedgerAt(t)
      BY <1>0, <1>1, EffectKeepsLedger DEF Move, AgentOk
    <2>2. t.terminal[<<Who(op), p>>] = "aborted"
      <3> DEFINE r == Raised(s, op)
      <3>1. r \in AgentStates /\ r.terminal = s.terminal
        BY <1>0, RaisedType DEF Raised, AgentStates
      <3>2. \/ t = Closed(r, op, p, "aborted")
            \/ t = r /\ TerminalOf(s, op, p) = "aborted"
        BY DEF Abort, Finalize
      <3> HIDE DEF r
      <3>3. CASE t = Closed(r, op, p, "aborted")
        BY <1>0, <3>1, <3>3, ClosedFields
      <3> QED
        BY <3>1, <3>2, <3>3 DEF TerminalOf
    <2>3. StaysClosed(t, <<Who(op), p>>) /\ Keeps(t, t) /\ EpochsUp(t, t)
      <3>1. \A q \in Planes : t.planes[q].epoch \in Nat
        BY <2>1 DEF AgentStates, Positions, PlaneStates
      <3>2. EpochsUp(t, t)
        BY <3>1 DEF EpochsUp
      <3> QED
        BY <2>1, <2>2, <3>2, NothingKeeps DEF StaysClosed, Administers
    <2> QED
      BY <1>0, <1>1, <2>1, <2>3, ClosedStaysClosed DEF LedgerAt
  <1>2. ASSUME Abort(s, op, p) = {}
        PROVE  op.token < s.max \/ Decided(s, <<Who(op), p>>)
    <2>1. ~IsLeader(s, op.token) \/ TerminalOf(s, op, p) # None
      BY <1>2 DEF Abort, Finalize
    <2> QED
      BY <1>0, <2>1 DEF IsLeader, TerminalOf, Decided
  <1> QED
    BY <1>1, <1>2

(* abortConfig calls the agent: it adds nothing.                           *)
LEMMA AbortCall ==
  ASSUME ApplyInv, NEW p \in Calls, call[p].pc \in AbortPcs, started \subseteq started',
         NEW calls, NEW accepted, NEW rejected, AgentCall(p, calls, accepted, rejected),
         \A t \in calls : OpCall(agent, t, call[p].op) /\ AddsNothing(agent, t),
         calls = {} => Follows(p, rejected),
         \A t \in calls : \A u \in Pruned(t) :
           /\ agent' = u /\ BrokenClauses(agent, u) = {} /\ Move(agent, t)
           => Follows(p, accepted)
  PROVE  Calm
  <1> DEFINE op == call[p].op
  <1>1. /\ op \in Ops /\ op \in started' /\ op.token \in Nat /\ agent.max \in Nat
        /\ FenceFirst => op.token <= agent.max
    BY PcsAreApart, EnvelopeTypes
       DEF ApplyInv, FramesOk, FrameOk, ToldApart, AgentOk, AgentStates, AllOps
  <1>0. op.token <= agent.max \/ Unfenced(agent)
    BY <1>1 DEF Unfenced
  <1> HIDE DEF op
  <1>2. ASSUME NEW t \in calls PROVE Move(agent, t) /\ Adds(t)
    <2>1. OpCall(agent, t, op) /\ AddsNothing(agent, t)
      BY <1>2 DEF op
    <2> QED
      BY <1>0, <1>1, <2>1, OpCallMoves DEF ApplyInv, Adds
  <1> QED
    BY <1>2, CallMade DEF Calm

(* The frames of an abort.                                                 *)
AbortedPlane(c, plane, next) ==
  [c EXCEPT !.todo = @ \ {plane}, !.next = next,
            !.pc = IF c.todo = {plane} THEN "abort_release" ELSE "abort"]

(* An abort that goes on to the next plane.                                *)
LEMMA AbortedPlaneFrame ==
  ASSUME NEW c, FrameOk(c), c.pc = "abort", NEW plane \in Planes, NEW next \in {c.next, "refused"}
  PROVE  LET d == AbortedPlane(c, plane, next) IN
         /\ FrameOk(d) /\ d.pc \in {"abort", "abort_release"} /\ d.op = c.op
         /\ d.todo = c.todo \ {plane} /\ d.next = next
  <1> DEFINE pc == IF c.todo = {plane} THEN "abort_release" ELSE "abort"
             b == [c EXCEPT !.todo = c.todo \ {plane}, !.next = next]
             d == AbortedPlane(c, plane, next)
  <1>1. c \in Frames /\ c.op \in Ops
    BY DEF FrameOk, IdlePcs
  <1>2. pc \in {"abort", "abort_release"} /\ pc \in CallStates /\ (pc # "abort" => c.todo = {plane})
    BY DEF CallStates
  <1>3. d = [b EXCEPT !.pc = pc]
    BY <1>1 DEF Frames, AbortedPlane
  <1> HIDE DEF pc
  <1>4. b \in Frames /\ b.op = c.op /\ b.todo = c.todo \ {plane} /\ b.next = next
    BY <1>1 DEF Frames
  <1> HIDE DEF b, d
  <1>5. d \in Frames /\ d.pc = pc /\ d.op = c.op /\ d.todo = c.todo \ {plane} /\ d.next = next
    BY <1>2, <1>3, <1>4 DEF Frames
  <1>6. FrameOk(d)
    BY <1>1, <1>2, <1>5 DEF FrameOk, EntryPcs, ProgressPcs, AbortPcs
  <1> QED
    BY <1>2, <1>5, <1>6 DEF d

AbortWith(c, pc, entry) == [c EXCEPT !.pc = pc, !.entry = entry]

(* An abort that is past both planes.                                      *)
LEMMA AbortFrame ==
  ASSUME NEW c, FrameOk(c), c.pc \in AbortPcs \ {"abort"}
  PROVE  /\ \A pc \in {"abort_finish", "abort_read"} :
              LET d == [c EXCEPT !.pc = pc] IN
              FrameOk(d) /\ d.pc = pc /\ d.op = c.op /\ d.todo = c.todo /\ d.next = c.next
         /\ \A entry \in Phases \cup {None} :
              LET d == AbortWith(c, "abort_close", entry) IN
              /\ FrameOk(d) /\ d.pc = "abort_close" /\ d.op = c.op /\ d.todo = c.todo
              /\ d.next = c.next /\ d.entry = entry
  <1>1. c \in Frames /\ c.op \in Ops /\ c.todo = {}
    BY PcsAreApart DEF FrameOk
  <1>2. ASSUME NEW pc \in {"abort_finish", "abort_read"}
        PROVE  LET d == [c EXCEPT !.pc = pc] IN
               FrameOk(d) /\ d.pc = pc /\ d.op = c.op /\ d.todo = c.todo /\ d.next = c.next
    <2> DEFINE d == [c EXCEPT !.pc = pc]
    <2>1. d \in Frames /\ d.pc = pc /\ d.op = c.op /\ d.todo = c.todo /\ d.next = c.next
      BY <1>1 DEF Frames, CallStates
    <2> HIDE DEF d
    <2>2. FrameOk(d)
      BY <1>1, <2>1 DEF FrameOk, EntryPcs, ProgressPcs, AbortPcs
    <2> QED
      BY <2>1, <2>2 DEF d
  <1>3. ASSUME NEW entry \in Phases \cup {None}
        PROVE  LET d == AbortWith(c, "abort_close", entry) IN
               /\ FrameOk(d) /\ d.pc = "abort_close" /\ d.op = c.op /\ d.todo = c.todo
               /\ d.next = c.next /\ d.entry = entry
    <2> DEFINE d == AbortWith(c, "abort_close", entry)
    <2>1. /\ d \in Frames /\ d.pc = "abort_close" /\ d.op = c.op /\ d.todo = c.todo
          /\ d.next = c.next /\ d.entry = entry
      <3> DEFINE b == [c EXCEPT !.pc = "abort_close"]
      <3>1. "abort_close" \in CallStates
        BY DEF CallStates
      <3>2. /\ b \in Frames /\ b.pc = "abort_close" /\ b.op = c.op /\ b.todo = c.todo
            /\ b.next = c.next
        BY <1>1, <3>1 DEF Frames
      <3>3. d = [b EXCEPT !.entry = entry]
        BY DEF AbortWith
      <3> HIDE DEF b, d
      <3> QED
        BY <3>2, <3>3 DEF Frames
    <2> HIDE DEF d
    <2>2. FrameOk(d)
      BY <1>1, <2>1 DEF FrameOk, EntryPcs, ProgressPcs, AbortPcs
    <2> QED
      BY <2>1, <2>2 DEF d
  <1> QED
    BY <1>2, <1>3

(* The steps of abortConfig.                                               *)
LEMMA AbortStepMoves ==
  ASSUME ApplyInv, NEW p \in Calls,
         AbortPlane(p) \/ AbortRelease(p) \/ AbortFinish(p) \/ AbortRead(p) \/ AbortClose(p)
  PROVE  Calm
  <1> DEFINE c == call[p]
             op == c.op
  <1>0. FrameOk(c) /\ AgentOk(agent) /\ agent \in AgentStates
    BY DEF ApplyInv, FramesOk, AgentOk
  <1>1. Follows(p, Idle)
    BY IdleServes, ServesFollows
  <1>2. /\ c.pc \in AbortPcs
        /\ op \in Ops /\ op \in AllOps
        /\ c.pc # "abort" => c.todo = {}
    BY <1>0, PcsAreApart
       DEF AbortPlane, AbortRelease, AbortFinish, AbortRead, AbortClose, At0, AbortPcs, FrameOk, AllOps
  <1>9. started \subseteq started'
    BY DEF AbortPlane, AbortRelease, AbortFinish, AbortRead, AbortClose, aux
  <1>3. ASSUME NEW pc \in {"abort_finish", "abort_read"}, c.pc # "abort"
        PROVE  Follows(p, [call[p] EXCEPT !.pc = pc])
    <2> DEFINE d == [c EXCEPT !.pc = pc]
    <2>1. FrameOk(d) /\ d.pc = pc /\ d.op = op /\ d.todo = c.todo /\ d.next = c.next
      BY <1>0, <1>2, <1>3, AbortFrame
    <2> HIDE DEF d
    <2>2. AbortsOn(p, d)
      BY <1>2, <2>1 DEF AbortsOn
    <2>3. d.pc \in AbortPcs
      BY <2>1 DEF AbortPcs
    <2>4. Follows(p, d)
      BY <2>1, <2>2, <2>3 DEF Follows
    <2> QED
      BY <2>4 DEF d
  <1>4. CASE AbortPlane(p)
    <2> DEFINE plane == NextPlane(c.todo)
               yes == AbortedPlane(c, plane, c.next)
               no == AbortedPlane(c, plane, "refused")
    <2>0. plane \in Planes /\ c.pc = "abort"
      BY <1>4, PlanesAre DEF AbortPlane, At0
    <2>1. AgentCall(p, Abort(agent, op, plane), yes, no)
      <3>1. c \in Frames
        BY <1>0 DEF FrameOk
      <3>2. yes = [c EXCEPT !.todo = @ \ {plane},
                            !.pc = IF c.todo = {plane} THEN "abort_release" ELSE "abort"]
        BY <3>1 DEF AbortedPlane, Frames
      <3>3. no = [[c EXCEPT !.next = "refused"] EXCEPT !.todo = @ \ {plane},
                            !.pc = IF c.todo = {plane} THEN "abort_release" ELSE "abort"]
        BY <3>1 DEF AbortedPlane, Frames
      <3> QED
        BY <1>4, <3>2, <3>3 DEF AbortPlane
    <2> HIDE DEF plane
    <2>2. /\ FrameOk(yes) /\ yes.pc \in {"abort", "abort_release"} /\ yes.op = op
          /\ yes.todo = c.todo \ {plane} /\ yes.next = c.next
      BY <1>0, <2>0, AbortedPlaneFrame
    <2>3. /\ FrameOk(no) /\ no.pc \in {"abort", "abort_release"} /\ no.op = op
          /\ no.todo = c.todo \ {plane} /\ no.next = "refused"
      BY <1>0, <2>0, AbortedPlaneFrame
    <2>4. \A t \in Abort(agent, op, plane) : OpCall(agent, t, op) /\ AddsNothing(agent, t)
      BY <1>0, <1>2, <2>0, FinalizeRecords DEF OpCall, Abort
    <2> HIDE DEF yes, no
    <2>5. Abort(agent, op, plane) = {} => Follows(p, no)
      <3>1. SUFFICES ASSUME Abort(agent, op, plane) = {} PROVE Follows(p, no)
        OBVIOUS
      <3>2. op.token < agent.max \/ Decided(agent, <<Who(op), plane>>)
        BY <1>0, <1>2, <2>0, <3>1, AbortedIsClosed
      <3>3. AbortsOn(p, no)
        BY <1>2, <2>3, <3>2 DEF AbortsOn
      <3> QED
        BY <2>3, <3>3 DEF Follows, AbortPcs
    <2>6. ASSUME NEW t \in Abort(agent, op, plane), NEW u \in Pruned(t), agent' = u, Move(agent, t)
          PROVE  Follows(p, yes)
      <3>1. StaysClosed(agent', <<Who(op), plane>>)
        BY <1>0, <1>2, <2>0, <2>6, AbortedIsClosed
      <3>2. AbortsOn(p, yes)
        BY <1>2, <2>2, <3>1 DEF AbortsOn
      <3> QED
        BY <2>2, <3>2 DEF Follows, AbortPcs
    <2> QED
      BY <1>2, <2>1, <2>4, <2>5, <2>6, <1>9, AbortCall
  <1>5. CASE AbortRelease(p)
    <2>1. /\ c.pc = "abort_release"
          /\ AgentCall(p, ReleaseHolderSlots(agent, op), [call[p] EXCEPT !.pc = "abort_finish"], Idle)
      BY <1>5 DEF AbortRelease, At0
    <2>2. \A t \in ReleaseHolderSlots(agent, op) : OpCall(agent, t, op) /\ AddsNothing(agent, t)
      BY <1>0, <1>2, AdministrationRecords DEF OpCall
    <2>3. Follows(p, [call[p] EXCEPT !.pc = "abort_finish"])
      BY <1>3, <2>1
    <2> QED
      BY <1>1, <1>2, <2>1, <2>2, <2>3, <1>9, AbortCall
  <1>6. CASE AbortFinish(p)
    <2>1. /\ c.pc = "abort_finish"
          /\ AgentCall(p, FinishOperation(agent, op, Planes), [call[p] EXCEPT !.pc = "abort_read"], Idle)
      BY <1>6 DEF AbortFinish, At0
    <2>2. \A t \in FinishOperation(agent, op, Planes) : OpCall(agent, t, op) /\ AddsNothing(agent, t)
      BY <1>0, FinishOperationRecords DEF OpCall
    <2>3. Follows(p, [call[p] EXCEPT !.pc = "abort_read"])
      BY <1>3, <2>1
    <2> QED
      BY <1>1, <1>2, <2>1, <2>2, <2>3, <1>9, AbortCall
  <1>7. CASE AbortRead(p)
    <2> DEFINE entry == IF agent.journal = None THEN None ELSE ReachedPhase(agent)
               d == AbortWith(c, "abort_close", entry)
    <2>1. c.pc = "abort_read" /\ Turn(p, d)
      BY <1>7 DEF AbortRead, At0, AbortWith
    <2>2. entry \in Phases \cup {None} /\ (entry = None => agent.journal = None)
      <3>1. ReachedPhase(agent) \in Phases /\ ReachedPhase(agent) # None
        BY NoneAssumption DEF ReachedPhase, Phases, TerminalPhases
      <3> QED
        BY <3>1
    <2> HIDE DEF entry
    <2>3. /\ FrameOk(d) /\ d.pc = "abort_close" /\ d.op = op /\ d.todo = c.todo
          /\ d.next = c.next /\ d.entry = entry
      BY <1>0, <1>2, <2>1, <2>2, AbortFrame
    <2> HIDE DEF d
    <2>4. AbortsOn(p, d) /\ d.pc \in AbortPcs
      BY <1>2, <2>1, <2>2, <2>3 DEF AbortsOn, AbortPcs
    <2>5. Follows(p, d)
      BY <2>3, <2>4 DEF Follows
    <2> QED
      BY <2>1, <2>5, TurnMoves DEF Calm
  <1>8. CASE AbortClose(p)
    <2>1. c.pc = "abort_close" /\ AgentCall(p, CloseJournal(agent, op, c.entry), Idle, Idle)
      BY <1>8 DEF AbortClose, At0
    <2>2. c.entry \in Phases \cup {None}
      BY <1>0, <2>1 DEF FrameOk
    <2>3. PICK how \in Phases : CloseJournal(agent, op, c.entry) = CloseJournal(agent, op, how)
      <3>1. CASE c.entry \in Phases
        BY <3>1
      <3>2. CASE c.entry = None
        <4>1. Unjournaled(Who(op))
          BY <2>1, <3>2 DEF ApplyInv, BlindAborts
        <4>2. ~OwnsJournal(agent.journal, op)
          BY <4>1 DEF Unjournaled, OwnsJournal
        <4>3. "failed" \in Phases
          BY DEF Phases, TerminalPhases
        <4> QED
          BY <4>2, <4>3 DEF CloseJournal
      <3> QED
        BY <2>2, <3>1, <3>2
    <2>4. \A t \in CloseJournal(agent, op, how) : OpCall(agent, t, op) /\ AddsNothing(agent, t)
      BY <1>0, <1>2, AdministrationRecords DEF OpCall
    <2> QED
      BY <1>1, <1>2, <2>1, <2>3, <2>4, <1>9, AbortCall
  <1> QED
    BY <1>4, <1>5, <1>6, <1>7, <1>8

(* reserveAll refuses what is barred.                                      *)
LEMMA BarredIsRefused ==
  ASSUME NEW s, s \in AgentStates, NEW op \in Ops, Barred(s, Who(op))
  PROVE  ReserveAll(s, op) = {}
  <1> DEFINE who == Who(op)
             t == StaleClosed(s, op)
  <1>0. /\ s.max \in Nat /\ op.token \in Nat /\ op.epoch \in Nat /\ op.epoch \in Epochs
        /\ who \in Whos /\ who.token = op.token /\ op \in AllOps
    BY EnvelopeTypes DEF AgentStates, AllOps, Who
  <1>1. CASE who.token < s.max
    BY <1>0, <1>1 DEF ReserveAll, IsLeader
  <1>2. CASE ~(who.token < s.max)
    <2>1. PICK p \in Planes : TRUE
      BY PlanesAssumption
    <2>2. /\ Decided(s, <<who, p>>)
          /\ \A e \in Epochs : ~OwnedSlot(s, p, e, who)
          /\ \A c \in s.completed : ~(Who(c.op) = who /\ c.plane = p /\ c.step = "reserve")
      BY <1>2, <2>1 DEF Barred
    <2>3. AddsNothing(s, t) /\ Administers(s, t) /\ t \in AgentStates
      BY StaleClosedDrops, StaleClosedEffect, StaleClosedType
    <2> HIDE DEF t
    <2>4. Seen(t, op, p, "reserve") = {}
      BY <2>2, <2>3 DEF AddsNothing, Seen, SameKey
    <2>5. ~HasSlot(t, op, p)
      <3>1. t.reservations[p][op.epoch] \in {None, s.reservations[p][op.epoch]}
        BY <1>0, <2>1, <2>3 DEF AddsNothing, SlotsOnlyFreed
      <3> QED
        BY <1>0, <2>2, <3>1 DEF HasSlot, OwnedSlot
    <2>6. TerminalOf(t, op, p) # None \/ ~(op.epoch > t.planes[p].epoch)
      <3>1. CASE s.terminal[<<who, p>>] # None
        BY <1>0, <2>1, <2>3, <3>1 DEF Administers, Keeps, VerdictsKept, TerminalOf
      <3>2. CASE IsPast(s, <<who, p>>)
        <4>1. op.epoch < s.planes[p].epoch /\ t.planes = s.planes
          BY <2>3, <3>2 DEF IsPast, Administers
        <4>2. s.planes[p].epoch \in Nat
          BY <2>1 DEF AgentStates, Positions, PlaneStates
        <4> QED
          BY <1>0, <4>1, <4>2
      <3> QED
        BY <2>2, <3>1, <3>2 DEF Decided
    <2>7. ~Reservable(t, op, p)
      BY <2>4, <2>5, <2>6 DEF Reservable, Replayed, Fresh, Acquirable
    <2> QED
      BY <2>1, <2>7 DEF ReserveAll, t
  <1> QED
    BY <1>1, <1>2

(* applyConfig takes the hold, or is refused.                              *)
LEMMA StartRunMoves ==
  ASSUME ApplyInv, NEW p \in Calls, StartRun(p)
  PROVE  Calm /\ HistoryMoves
  <1>1. PICK op \in Ops :
          /\ call[p].pc = "idle" /\ Fenced(op.token)
          /\ AgentCall(p, ReserveAll(agent, op), InCall("queue", op), Idle)
          /\ started' = started \cup {op} /\ cancelled' = cancelled
    BY DEF StartRun, At0
  <1>2. /\ op.token <= agent.max \/ Unfenced(agent)
        /\ FenceFirst => op.token <= agent.max
        /\ agent \in AgentStates /\ agent.max \in Nat /\ op.token \in Nat /\ op \in AllOps
    BY <1>1, EnvelopeTypes DEF Fenced, ApplyInv, AgentOk, AgentStates, AllOps, Unfenced
  <1>3. ASSUME NEW t \in ReserveAll(agent, op)
        PROVE  /\ Move(agent, t) /\ AddsFor(agent, t, op)
               /\ t \in AgentStates /\ t.max = op.token /\ t.journal # None
               /\ ~Barred(agent, Who(op))
    <2>1. OpCall(agent, t, op)
      BY <1>3 DEF OpCall
    <2>2. Move(agent, t) /\ AddsFor(agent, t, op)
      BY <1>2, <2>1, OpCallMoves DEF ApplyInv
    <2>3. t.max = op.token /\ t.journal # None
      BY <1>2, <1>3, ReserveAllRecords
    <2>4. ~Barred(agent, Who(op))
      BY <1>2, <1>3, BarredIsRefused
    <2> QED
      BY <2>2, <2>3, <2>4 DEF Move
  <1>4. \A t \in ReserveAll(agent, op) : Move(agent, t) /\ Adds(t)
    <2>1. op.token <= op.token /\ op \in started'
      BY <1>1, <1>2
    <2> QED
      BY <1>3, <2>1 DEF Adds
  <1>5. Follows(p, Idle)
    BY IdleServes, ServesFollows
  <1>6. ASSUME NEW t \in ReserveAll(agent, op), NEW u \in Pruned(t), agent' = u
        PROVE  Follows(p, InCall("queue", op))
    <2> DEFINE d == InCall("queue", op)
    <2>1. WorksFor(d, op) /\ "queue" \in ActivePcs
      BY PlainFrame, PcsAreStates DEF PlainPcs
    <2>2. d.pc = "queue" /\ d.op = op
      BY InCallFields DEF CallStates
    <2>3. u.max = t.max /\ u.journal = t.journal
      BY <1>3, PrunedFields
    <2> HIDE DEF d
    <2>4. Opens(d)
      BY <1>1, <1>2, <1>3, <1>6, <2>2, <2>3 DEF Opens
    <2>5. Follows(p, d)
      BY <2>1, <2>2, <2>4 DEF Follows, WorksFor
    <2> QED
      BY <2>5 DEF d
  <1>7. Calm
    BY <1>1, <1>4, <1>5, <1>6, CallMade DEF Calm
  <1>8. HistoryMoves
    BY <1>1, <1>2 DEF HistoryMoves
  <1> QED
    BY <1>7, <1>8

(* The turns.                                                              *)
LEMMA TurnStepMoves ==
  ASSUME ApplyInv, NEW p \in Calls, NEW blind \in BOOLEAN,
         \/ LoopHead(p)
         \/ Preflight(p) \/ PreflightRefuses(p) \/ PublishIntent(p) \/ Publish(p)
         \/ ReloadIntent(p, blind) \/ ReloadObserved(p) \/ AwaitCommit(p, blind)
         \/ FailRead(p) \/ StageMembership(p) \/ SignalReload(p) \/ AwaitReload(p, blind)
         \/ EffectTimesOut(p) \/ EffectThrows(p) \/ StartRecover(p)
  PROVE  Calm
  <1>1. FramesOk /\ agent \in AgentStates
    BY DEF ApplyInv, AgentOk
  <1>2. \E d : Turn(p, d) /\ Serves(p, d)
    BY <1>1, LoopHeadServes, PhaseServes, TurnServes
  <1> QED
    BY <1>2, TurnMoves, ServesFollows DEF Calm

(* What the world and the histories keep when a step leaves them alone, or *)
(* is a fault.                                                             *)
LEMMA WorldKept ==
  ASSUME WorldOk, applying' \in Calls \cup {None}, UNCHANGED world, UNCHANGED aux \/ Fault
  PROVE  WorldOk' /\ HistoryMoves
  <1>1. faults' \in 0..MaxFaults
    BY ApplyAssumption DEF WorldOk, Fault, aux
  <1>2. started' = started /\ cancelled' = cancelled
    BY DEF Fault, aux
  <1> QED
    BY <1>1, <1>2 DEF WorldOk, HistoryMoves, world

(* The same, for a step that does touch the world.                         *)
LEMMA HistoryKept ==
  ASSUME WorldOk, UNCHANGED aux \/ Fault
  PROVE  /\ HistoryMoves /\ started' \subseteq Ops /\ cancelled' \subseteq Whos
         /\ faults' \in 0..MaxFaults
  <1>1. faults' \in 0..MaxFaults
    BY ApplyAssumption DEF WorldOk, Fault, aux
  <1>2. started' = started /\ cancelled' = cancelled
    BY DEF Fault, aux
  <1> QED
    BY <1>1, <1>2 DEF WorldOk, HistoryMoves

(* A step, all in all.                                                     *)
Moves == Calm /\ HistoryMoves /\ WorldOk'

(* The steps that leave the world alone.                                   *)
LEMMA QuietStepMoves ==
  ASSUME ApplyInv, NEW p \in Calls, NEW blind \in BOOLEAN,
         \/ RecoverIdle(p) \/ RecoverClose(p) \/ RecoverFree(p) \/ Reclaim(p)
         \/ CloseAndFinish(p) \/ WriteEntry(p) \/ Finish(p) \/ RecordIntent(p)
         \/ FailPlane(p) \/ StagePlane(p) \/ CommitPlane(p)
         \/ AbortPlane(p) \/ AbortRelease(p) \/ AbortFinish(p) \/ AbortRead(p)
         \/ LoopHead(p) \/ Preflight(p) \/ PreflightRefuses(p) \/ PublishIntent(p)
         \/ ReloadIntent(p, blind) \/ ReloadObserved(p) \/ AwaitCommit(p, blind)
         \/ FailRead(p) \/ StageMembership(p) \/ AwaitReload(p, blind)
         \/ EffectThrows(p) \/ StartRecover(p)
  PROVE  Moves
  <1>1. Calm
    BY HoldStepMoves, PlaneStepMoves, AbortStepMoves, TurnStepMoves
  <1>2. UNCHANGED world /\ (UNCHANGED aux \/ Fault)
    <2>1. CASE \/ RecoverIdle(p) \/ RecoverClose(p) \/ RecoverFree(p) \/ Reclaim(p)
               \/ CloseAndFinish(p) \/ WriteEntry(p) \/ Finish(p) \/ RecordIntent(p)
               \/ FailPlane(p) \/ StagePlane(p) \/ CommitPlane(p)
               \/ AbortPlane(p) \/ AbortRelease(p) \/ AbortFinish(p) \/ AbortRead(p)
      BY <2>1 DEF RecoverIdle, RecoverClose, RecoverFree, Reclaim, CloseAndFinish, WriteEntry,
         Finish, RecordIntent, FailPlane, StagePlane, CommitPlane, AbortPlane, AbortRelease,
         AbortFinish, AbortRead
    <2>2. CASE \/ LoopHead(p) \/ Preflight(p) \/ PreflightRefuses(p) \/ PublishIntent(p)
               \/ ReloadIntent(p, blind) \/ ReloadObserved(p) \/ AwaitCommit(p, blind)
               \/ FailRead(p) \/ StageMembership(p) \/ AwaitReload(p, blind)
               \/ EffectThrows(p) \/ StartRecover(p)
      BY <2>2 DEF LoopHead, Preflight, PreflightRefuses, PublishIntent, ReloadIntent,
         ReloadObserved, AwaitCommit, FailRead, StageMembership, AwaitReload, EffectThrows,
         StartRecover
    <2> QED
      BY <2>1, <2>2
  <1> QED
    BY <1>1, <1>2, WorldKept DEF Moves, Calm, ApplyInv

(* The other steps of a call.                                              *)
LEMMA BusyStepMoves ==
  ASSUME ApplyInv, NEW p \in Calls,
         \/ StartRun(p) \/ StartAbort(p) \/ AbortClose(p) \/ EnterApply(p)
         \/ Publish(p) \/ SignalReload(p) \/ EffectTimesOut(p)
  PROVE  Moves
  <1> DEFINE c == call[p]
  <1>0. FramesOk /\ FrameOk(c) /\ WorldOk /\ AgentOk(agent)
    BY DEF ApplyInv, FramesOk
  <1>1. CASE StartRun(p)
    <2>1. Calm /\ HistoryMoves
      BY <1>1, StartRunMoves
    <2>2. started' \subseteq Ops /\ UNCHANGED <<world, cancelled, faults>>
      BY <1>0, <1>1 DEF StartRun, WorldOk
    <2> QED
      BY <1>0, <2>1, <2>2 DEF Moves, Calm, WorldOk, world
  <1>2. CASE StartAbort(p)
    <2>1. PICK op \in started : Turn(p, [InCall("abort", op) EXCEPT !.todo = Planes])
                                /\ UNCHANGED <<world, aux>>
      BY <1>2 DEF StartAbort
    <2> DEFINE b == InCall("abort", op)
               d == [b EXCEPT !.todo = Planes]
    <2>2. b \in Frames /\ b.pc = "abort" /\ b.op = op /\ op \in Ops
      BY <1>0, <2>1, InCallFields DEF WorldOk, CallStates
    <2> HIDE DEF b
    <2>3. d \in Frames /\ d.pc = "abort" /\ d.op = op /\ d.todo = Planes
      BY <2>2 DEF Frames
    <2>4. Turn(p, d)
      BY <2>1 DEF b
    <2> HIDE DEF d
    <2>5. FrameOk(d)
      BY <2>2, <2>3 DEF FrameOk, EntryPcs, ProgressPcs
    <2>6. Follows(p, d)
      BY <2>1, <2>3, <2>5 DEF Follows
    <2> QED
      BY <1>0, <2>1, <2>4, <2>6, TurnMoves, WorldKept DEF Moves, Calm
  <1>3. CASE AbortClose(p)
    <2>1. Calm
      BY <1>3, AbortStepMoves
    <2>2. /\ c.pc = "abort_close" /\ UNCHANGED <<world, started, faults>>
          /\ cancelled' = IF c.next = "refused" THEN cancelled ELSE cancelled \cup {Who(c.op)}
      BY <1>3 DEF AbortClose, At0
    <2>3. c.op \in Ops /\ c.todo = {} /\ c.pc \in AbortPcs
      BY <1>0, <2>2, PcsAreApart DEF FrameOk
    <2>4. Who(c.op) \in Whos
      BY <2>3, WhoTypes DEF AllOps
    <2>5. c.next # "refused" => \A q \in Planes : StaysClosed(agent, <<Who(c.op), q>>)
      BY <2>3 DEF ApplyInv, CancelsHold, Closes
    <2> HIDE DEF c
    <2>6. HistoryMoves
      BY <2>2, <2>5 DEF HistoryMoves
    <2> QED
      BY <1>0, <2>1, <2>2, <2>4, <2>6 DEF Moves, Calm, WorldOk, world
  <1>4. CASE EnterApply(p)
    <2>1. /\ c.pc = "queue" /\ call' = [call EXCEPT ![p] = Loop(c.op)] /\ applying' = p
          /\ UNCHANGED <<agent, thrown, world, aux>>
      BY <1>4 DEF EnterApply, At0
    <2>2. {"queue", "loop"} \subseteq PlainPcs /\ c.pc \in ActivePcs
      BY <2>1, PcsAreStates DEF PlainPcs
    <2>3. c.op \in Ops
      BY <1>0, <2>2, PcsAreApart DEF FrameOk
    <2>4. Follows(p, Loop(c.op))
      BY <2>2, <2>3, PlainFrame, ServesWhen, ServesFollows DEF Loop
    <2>5. CallMoves
      BY <1>0, <2>1, <2>4, OneFollows
    <2>6. AgentMoves /\ AgentAdds
      BY <1>0, <2>1, NothingAdds DEF AgentMoves
    <2> QED
      BY <1>0, <2>1, <2>5, <2>6, WorldKept DEF Moves, Calm
  <1>5. CASE Publish(p)
    <2>1. Calm
      BY <1>5, TurnStepMoves
    <2>2. /\ c.pc = "publish" /\ owner' = RecordOf(c.j.op) /\ link' \in {link, c.j.op.epoch}
          /\ UNCHANGED <<running, hup, late, aux>>
      BY <1>5 DEF Publish, At0
    <2>3. c.j \in Journals
      BY <1>0, <2>2 DEF FrameOk, EntryPcs
    <2>4. RecordOf(c.j.op) \in Records /\ c.j.op.epoch \in Epochs
      BY <2>3, EnvelopeTypes DEF Journals, AllOps
    <2> HIDE DEF c
    <2> QED
      BY <1>0, <2>1, <2>2, <2>4, HistoryKept DEF Moves, Calm, WorldOk
  <1>6. CASE SignalReload(p)
    <2>1. Calm
      BY <1>6, TurnStepMoves
    <2>2. hup' \in {TRUE, hup} /\ UNCHANGED <<owner, link, running, late, aux>>
      BY <1>6 DEF SignalReload
    <2> QED
      BY <1>0, <2>1, <2>2, HistoryKept DEF Moves, Calm, WorldOk
  <1>7. CASE EffectTimesOut(p)
    <2>1. Calm
      BY <1>7, TurnStepMoves
    <2>2. /\ Fault /\ UNCHANGED <<owner, link, running>>
          /\ c.pc \in {"preflight", "stage_membership", "signal"}
          /\ \/ late' = late \cup {c.op} /\ hup' = hup
             \/ hup' = TRUE /\ late' = late
             \/ UNCHANGED <<hup, late>>
      BY <1>7 DEF EffectTimesOut
    <2>3. c.op \in Ops
      BY <1>0, <2>2 DEF FrameOk, IdlePcs
    <2> HIDE DEF c
    <2> QED
      BY <1>0, <2>1, <2>2, <2>3, HistoryKept DEF Moves, Calm, WorldOk
  <1> QED
    BY <1>1, <1>2, <1>3, <1>4, <1>5, <1>6, <1>7

(* The steps of nobody's call.                                             *)
LEMMA WorldStepMoves ==
  ASSUME ApplyInv,
         FenceCall \/ HealthCall \/ EngineReloads \/ EngineRefuses \/ LateReload \/ Crash
  PROVE  Moves
  <1>0. FramesOk /\ WorldOk /\ AgentOk(agent) /\ agent \in AgentStates /\ agent.max \in Nat
    BY DEF ApplyInv, AgentOk, AgentStates
  <1>1. ASSUME NEW t, Move(agent, t), AddsNothing(agent, t), NEW u \in Pruned(t),
               agent' = Guarded(agent, u), thrown' = BrokenClauses(agent, u),
               UNCHANGED <<world, call, applying, aux>>
        PROVE  Moves
    <2>1. AgentAdds
      BY <1>0, <1>1, MadeAdds DEF Adds
    <2>2. AgentMoves
      BY <1>1 DEF AgentMoves, Makes
    <2>3. CallMoves
      BY <1>0, <1>1, NobodyMoves
    <2> QED
      BY <1>0, <1>1, <2>1, <2>2, <2>3, WorldKept DEF Moves, Calm, WorldOk
  <1>2. CASE FenceCall
    <2>1. PICK token \in Tokens : \E u \in Outcomes(Fence(agent, token)) :
            /\ token > agent.max
            /\ agent' = Guarded(agent, u) /\ thrown' = BrokenClauses(agent, u)
            /\ UNCHANGED <<world, call, applying, aux>>
      BY <1>2 DEF FenceCall
    <2>2. PICK t \in Fence(agent, token) : \E u \in Pruned(t) :
            /\ token > agent.max
            /\ agent' = Guarded(agent, u) /\ thrown' = BrokenClauses(agent, u)
            /\ UNCHANGED <<world, call, applying, aux>>
      BY <2>1 DEF Outcomes
    <2>3. token \in Nat /\ token >= agent.max
      BY <1>0, <2>2, EnvelopeTypes DEF Tokens
    <2>4. Move(agent, t) /\ AddsNothing(agent, t)
      BY <1>0, <2>2, <2>3, OtherCallsMove
    <2> QED
      BY <1>1, <2>2, <2>4
  <1>3. CASE HealthCall
    <2>1. PICK op \in HealthOps, p \in Planes : \E u \in Outcomes(ApplyHealth(agent, op, p)) :
            /\ Fenced(op.token)
            /\ agent' = Guarded(agent, u) /\ thrown' = BrokenClauses(agent, u)
            /\ UNCHANGED <<world, call, applying, aux>>
      BY <1>3 DEF HealthCall
    <2>2. PICK t \in ApplyHealth(agent, op, p) : \E u \in Pruned(t) :
            /\ Fenced(op.token)
            /\ agent' = Guarded(agent, u) /\ thrown' = BrokenClauses(agent, u)
            /\ UNCHANGED <<world, call, applying, aux>>
      BY <2>1 DEF Outcomes
    <2>3. op.token <= agent.max \/ Unfenced(agent)
      BY <1>0, <2>2, EnvelopeTypes DEF Fenced, AllOps, Unfenced
    <2>4. Move(agent, t) /\ AddsNothing(agent, t)
      BY <1>0, <2>2, <2>3, OtherCallsMove
    <2> QED
      BY <1>1, <2>2, <2>4
  <1>4. CASE EngineReloads \/ EngineRefuses \/ LateReload
    <2>1. /\ UNCHANGED <<agent, thrown, owner, link, call, applying>>
          /\ UNCHANGED aux \/ Fault
          /\ running' \in {running, link} /\ late' \subseteq late
          /\ hup' = FALSE \/ \E op \in late : hup' = (hup \/ LeaseValid(agent, op))
      BY <1>4 DEF EngineReloads, EngineRefuses, LateReload
    <2>2. hup' \in BOOLEAN
      BY <1>0, <2>1 DEF WorldOk, LeaseValid
    <2>3. AgentMoves /\ AgentAdds /\ CallMoves
      BY <1>0, <2>1, NothingAdds, NobodyMoves DEF AgentMoves
    <2> QED
      BY <1>0, <2>1, <2>2, <2>3, HistoryKept DEF Moves, Calm, WorldOk
  <1>5. CASE Crash
    <2>1. /\ UNCHANGED <<agent, thrown, link, running, hup>> /\ Fault
          /\ call' = [p \in Calls |-> Idle] /\ applying' = None /\ late' = {}
          /\ owner' = owner \/ \E p \in Calls : call[p].pc = "publish" /\ owner' = RecordOf(call[p].op)
      BY <1>5 DEF Crash, At0
    <2>2. owner' \in Records \cup {None}
      <3>1. ASSUME NEW p \in Calls, call[p].pc = "publish" PROVE RecordOf(call[p].op) \in Records
        <4>1. call[p].op \in Ops
          BY <1>0, <3>1 DEF FramesOk, FrameOk, IdlePcs
        <4> QED
          BY <4>1, EnvelopeTypes DEF AllOps
      <3> QED
        BY <1>0, <2>1, <3>1 DEF WorldOk
    <2>3. AgentMoves /\ AgentAdds
      BY <1>0, <2>1, NothingAdds DEF AgentMoves
    <2>4. CallMoves
      <3>1. FrameOk(Idle) /\ Idle \in Frames /\ Idle.pc \in IdlePcs
        BY IdleFrame DEF FrameOk, IdlePcs
      <3> HIDE DEF Idle
      <3> QED
        BY <2>1, <3>1 DEF CallMoves, Follows
    <2> QED
      BY <1>0, <2>1, <2>2, <2>3, <2>4, HistoryKept DEF Moves, Calm, WorldOk
  <1> QED
    BY <1>2, <1>3, <1>4, <1>5

(* Every step moves as the relations say.                                  *)
LEMMA NextMoves ==
  ASSUME ApplyInv, Next
  PROVE  Moves
  <1>1. CASE \E p \in Calls : StartRun(p) \/ StartRecover(p) \/ StartAbort(p)
    BY <1>1, BusyStepMoves, QuietStepMoves
  <1>2. ASSUME NEW p \in Calls, Step(p) PROVE Moves
    BY <1>2, BusyStepMoves, QuietStepMoves DEF Step
  <1>3. ASSUME NEW p \in Calls, FaultyStep(p) PROVE Moves
    BY <1>3, BusyStepMoves, QuietStepMoves DEF FaultyStep
  <1>4. CASE FenceCall \/ HealthCall \/ EngineReloads \/ EngineRefuses \/ LateReload \/ Crash
    BY <1>4, WorldStepMoves
  <1> QED
    BY <1>1, <1>2, <1>3, <1>4 DEF Next

-----------------------------------------------------------------------------
(* The theorems.                                                           *)

(* The invariant holds of an agent that was never called.                  *)
LEMMA ApplyInvInitially == Init => ApplyInv
  <1> SUFFICES ASSUME Init PROVE ApplyInv
    OBVIOUS
  <1>1. /\ agent = InitialAgent /\ agent \in AgentStates
        /\ call = [p \in Calls |-> Idle] /\ started = {} /\ cancelled = {}
    BY InitialAgentType DEF Init
  <1>2. /\ agent.max = 0 /\ agent.journal = None /\ agent.holder = None /\ agent.completed = {}
        /\ agent.lastActivated = None /\ agent.lastPublishIntent = None
        /\ agent.pendingActivation = None
        /\ \A p \in Planes : agent.planes[p].by = None /\ agent.planes[p].epoch = 0
        /\ \A p \in Planes, e \in Epochs : agent.reservations[p][e] = None
        /\ \A k \in Whos \X Planes : agent.terminalAt[k] = None
    BY <1>1 DEF InitialAgent
  <1>3. FrameOk(Idle) /\ Idle \in Frames /\ Idle.pc = "idle"
    BY IdleFrame DEF FrameOk
  <1> HIDE DEF Idle
  <1>4. FramesOk /\ \A q \in Calls : call[q].pc = "idle"
    BY <1>1, <1>3 DEF FramesOk
  <1>5. "idle" \notin ActivePcs /\ "idle" \notin AbortPcs
    BY DEF ActivePcs, AbortPcs, IdlePcs
  <1>6. AgentOk(agent)
    BY <1>1, <1>2 DEF AgentOk, SlotsAreAbove, SlotIsAbove, LedgerAt, Justified, PlaneIsJustified,
       SlotsFenced, Placed, RecordsAreSound
  <1>7. WorldOk
    <2>1. faults \in 0..MaxFaults
      BY ApplyAssumption DEF Init
    <2>2. hup \in BOOLEAN /\ late = {} /\ {link, running} \subseteq {None}
      BY DEF Init
    <2> QED
      BY <1>1, <2>1, <2>2 DEF Init, WorldOk
  <1>8. ToldApart /\ Issued /\ CancelsHold
    BY <1>1, <1>2, <1>4, <1>5 DEF ToldApart, Issued, CancelsHold
  <1>9. Pristine /\ BlindAborts
    BY <1>2, <1>4, <1>5 DEF Pristine, BlindAborts
  <1> QED
    BY <1>4, <1>6, <1>7, <1>8, <1>9 DEF ApplyInv

(* Every step keeps it.                                                    *)
LEMMA ApplyInvStep == ApplyInv /\ [Next]_vars => ApplyInv'
  <1>1. CASE ApplyInv /\ Next
    BY <1>1, NextMoves, InvariantKept DEF Moves, Calm
  <1>2. CASE ApplyInv /\ UNCHANGED vars
    BY <1>2 DEF vars, ApplyInv, WorldOk, FramesOk, ToldApart, Issued, CancelsHold, Closes, Pristine,
       BlindAborts, Unjournaled
  <1> QED
    BY <1>1, <1>2

(* The apply path keeps its invariant: see ApplyInv and its parts.         *)
THEOREM ApplyPathInOrder == Spec => []ApplyInv
  <1>1. Init => ApplyInv
    BY ApplyInvInitially
  <1>2. ApplyInv /\ [Next]_vars => ApplyInv'
    BY ApplyInvStep
  <1> QED
    BY <1>1, <1>2, PTL DEF Spec

(* Every variable keeps its type, whatever interleaves, crashes or times   *)
(* out.                                                                    *)
THEOREM ApplyTypes == Spec => []TypeOK
  <1>1. ApplyInv => TypeOK
    BY DEF ApplyInv, WorldOk, AgentOk, FramesOk, FrameOk, Frames, TypeOK
  <1> QED
    BY <1>1, ApplyPathInOrder, PTL

(* What was made, as far as it was let through.                            *)
LEMMA MovesMade ==
  ASSUME AgentMoves
  PROVE  \/ UNCHANGED <<agent, thrown>>
         \/ \E t : \E u \in Pruned(t) :
              /\ Move(agent, t) /\ agent' \in {agent, u} /\ thrown' = BrokenClauses(agent, u)
  BY DEF AgentMoves, Makes, Guarded

(* The two clauses of assertInvariants that compare tokens are the only    *)
(* ones a call may break, and it breaks none when leaders fence first.     *)
TokenClauses == {"I1 holder", "I5"}

(* What assertInvariants can find against a call of the apply path.        *)
LEMMA OnlyTokenClausesBreak ==
  ASSUME NEW s, AgentOk(s), NEW t, Move(s, t), NEW u \in Pruned(t)
  PROVE  /\ BrokenClauses(s, u) \subseteq TokenClauses
         /\ BrokenClauses(s, u) = {} \/ Unfenced(s)
  <1>1. /\ s \in AgentStates /\ LedgerAt(s) /\ t \in AgentStates /\ Effect(s, t)
        /\ Fits(s, t) \/ Unfenced(s)
    BY Zenon DEF AgentOk, Move
  <1>2. BrokenClauses(s, u) \subseteq TokenClauses
    BY <1>1, OutcomesKeepTheClauses, Zenon DEF TokenClauses
  <1>3. SameRecords(t, u)
    BY <1>1, PrunedRecords
  <1>4. (I1HolderIsNewest(u) /\ I5IntentFenced(s, u)) \/ Unfenced(s)
    BY <1>1, <1>3 DEF Fits, I1HolderIsNewest, I5IntentFenced, SameRecords
  <1>5. I1HolderIsNewest(u) => "I1 holder" \notin BrokenClauses(s, u)
    BY Zenon DEF BrokenClauses, Breaks
  <1>6. I5IntentFenced(s, u) => "I5" \notin BrokenClauses(s, u)
    BY Zenon DEF BrokenClauses, Breaks
  <1>7. BrokenClauses(s, u) = {} \/ Unfenced(s)
    BY <1>2, <1>4, <1>5, <1>6, Zenon DEF TokenClauses
  <1> QED
    BY <1>2, <1>7

(* A baseline that is new is the candidate of the call, which has arrived: *)
(* the planes stand at its epoch, and by it.                               *)
LEMMA PromotedIsWhole ==
  ASSUME NEW s, AgentOk(s), NEW t, Move(s, t), NEW u \in Pruned(t),
         u.lastActivated # s.lastActivated, u.lastActivated # None, NEW p \in Planes
  PROVE  u.planes[p].epoch = u.lastActivated.epoch /\ u.planes[p].by = Who(u.lastActivated)
  <1>0. /\ s \in AgentStates /\ Justified(s) /\ Placed(s) /\ RecordsAreSound(s)
        /\ t \in AgentStates /\ Effect(s, t)
    BY DEF AgentOk, LedgerAt, Move
  <1>1. u.planes = t.planes /\ u.lastActivated = t.lastActivated
    BY <1>0, PrunedFields
  <1>2. t.planes = s.planes /\ SettledNow(s, t)
    BY <1>0, <1>1 DEF Effect, Administers, Settled, Unsettled, MovesPlane, RefreshesPlane
  <1>3. HasArrived(s) /\ t.lastActivated = s.pendingActivation /\ s.pendingActivation # None
    BY <1>1, <1>2 DEF SettledNow
  <1>4. PICK op \in Ops : s.pendingActivation = RecordOf(op)
    BY <1>0, <1>3 DEF RecordsAreSound
  <1>5. PICK epoch \in Epochs \cup {None} :
          CandidateArrived(s, s.pendingActivation, epoch) /\ epoch # None
    BY <1>0, <1>3, CandidateEpochsType DEF HasArrived, CandidateArrived, PositionsReached
  <1>6. s.planes[p].epoch = epoch /\ s.planes[p].by = Who(s.pendingActivation)
    BY <1>0, <1>5, ArrivedIsStanding
  <1>7. Who(s.pendingActivation) = Who(op) /\ s.pendingActivation.epoch = op.epoch
    BY <1>4 DEF Who, RecordOf
  <1>8. /\ <<Who(op), p>> \in Whos \X Planes /\ Who(op) # None
    BY WhoTypes DEF AllOps
  <1>9. s.terminalAt[<<Who(op), p>>] = epoch
    BY <1>0, <1>6, <1>7, <1>8 DEF Justified, PlaneIsJustified
  <1>10. op.epoch = epoch
    BY <1>0, <1>5, <1>8, <1>9 DEF Placed, EpochIs
  <1> QED
    BY <1>1, <1>2, <1>3, <1>6, <1>7, <1>10

(* assertInvariants throws out no call of the runner or the driver (agent. *)
(* ts assertInvariants, control/plane.ts), but by the two clauses that     *)
(* compare tokens, and only of a leader that did not wait for its fence,   *)
(* while its token is ahead of the fence.                                  *)
THEOREM CallsAreNotThrownOut == Spec => []NothingThrows
  <1> DEFINE Early == ~FenceFirst /\ \E op \in started \cup HealthOps : op.token > agent.max
  <1>0. NothingThrows <=> thrown \subseteq TokenClauses /\ (thrown # {} => Early)
    BY Zenon DEF NothingThrows, TokenClauses
  <1>1. Init => NothingThrows
    BY <1>0 DEF Init
  <1>2. ApplyInv /\ NothingThrows /\ [Next]_vars => NothingThrows'
    <2> SUFFICES ASSUME ApplyInv, NothingThrows, [Next]_vars PROVE NothingThrows'
      OBVIOUS
    <2>0. NothingThrows' <=> thrown' \subseteq TokenClauses /\ (thrown' # {} => Early')
      BY Zenon DEF NothingThrows, TokenClauses
    <2>1. CASE UNCHANGED <<agent, thrown>> /\ started \subseteq started'
      BY <1>0, <2>0, <2>1
    <2>2. CASE Next
      <3>1. Moves
        BY <2>2, NextMoves
      <3>2. started \subseteq started'
        BY <3>1 DEF Moves, HistoryMoves
      <3>3. CASE UNCHANGED <<agent, thrown>>
        BY <2>1, <3>2, <3>3
      <3>4. ASSUME NEW t, NEW u \in Pruned(t), Move(agent, t), agent' = Guarded(agent, u),
                   thrown' = BrokenClauses(agent, u)
            PROVE  NothingThrows'
        <4>1. AgentOk(agent)
          BY DEF ApplyInv
        <4>2. thrown' \subseteq TokenClauses /\ (thrown' = {} \/ Unfenced(agent))
          BY <3>4, <4>1, OnlyTokenClausesBreak
        <4>3. thrown' # {} => agent' = agent
          BY <3>4 DEF Guarded
        <4>4. Unfenced(agent) /\ agent' = agent => Early'
          BY DEF Unfenced
        <4> QED
          BY <2>0, <4>2, <4>3, <4>4
      <3> QED
        BY <3>1, <3>3, <3>4 DEF Moves, Calm, AgentMoves, Makes
    <2> QED
      BY <2>1, <2>2 DEF vars
  <1> QED
    BY <1>1, <1>2, ApplyInvInitially, ApplyInvStep, PTL DEF Spec

(* The baseline is whole: finalizeCandidate promotes a candidate only when *)
(* every plane stands where its operation put it, and was put there by it. *)
THEOREM BaselinesAreWhole == Spec => BaselineIsWhole
  <1>1. ApplyInv /\ [Next]_vars =>
          [agent'.lastActivated # agent.lastActivated /\ agent'.lastActivated # None =>
             \A p \in Planes : /\ agent'.planes[p].epoch = agent'.lastActivated.epoch
                               /\ agent'.planes[p].by = Who(agent'.lastActivated)]_vars
    <2> SUFFICES ASSUME ApplyInv, Next, agent'.lastActivated # agent.lastActivated,
                        agent'.lastActivated # None, NEW p \in Planes
                 PROVE  /\ agent'.planes[p].epoch = agent'.lastActivated.epoch
                        /\ agent'.planes[p].by = Who(agent'.lastActivated)
      OBVIOUS
    <2>1. PICK t : \E u \in Pruned(t) : Move(agent, t) /\ agent' \in {agent, u}
      BY NextMoves, MovesMade DEF Moves, Calm
    <2>2. PICK u \in Pruned(t) : Move(agent, t) /\ agent' = u
      BY <2>1
    <2>3. AgentOk(agent)
      BY DEF ApplyInv
    <2>4. /\ u.lastActivated # agent.lastActivated /\ u.lastActivated # None
      BY <2>2
    <2>5. /\ u.planes[p].epoch = u.lastActivated.epoch
          /\ u.planes[p].by = Who(u.lastActivated)
      BY <2>2, <2>3, <2>4, PromotedIsWhole
    <2> QED
      BY <2>2, <2>5
  <1> QED
    BY <1>1, ApplyInvInitially, ApplyInvStep, PTL DEF Spec, BaselineIsWhole

-----------------------------------------------------------------------------
(* What is left to an operation that was cancelled.                        *)

(* The link is turned by publish alone, under the lease it has just read:  *)
(* the operation is the one that holds the apply path.                     *)
LEMMA HolderPublishes ==
  ASSUME ApplyInv, NEW p \in Calls, Publish(p), link' # link
  PROVE  agent.holder # None /\ Who(agent.holder) = Who(owner')
  <1>1. /\ call[p].pc = "publish" /\ owner' = RecordOf(call[p].j.op)
        /\ LeaseValid(agent, call[p].j.op)
    BY DEF Publish, At0
  <1>2. call[p].pc \in EntryPcs /\ call[p].pc \in ActivePcs /\ call[p].pc \notin IdlePcs
    BY <1>1 DEF EntryPcs, ActivePcs, CallStates, IdlePcs, AbortPcs
  <1>3. call[p].j.op = call[p].op /\ call[p].op \in Ops /\ call[p].op.token <= agent.max
    BY <1>2 DEF ApplyInv, FramesOk, FrameOk, ToldApart
  <1>4. /\ agent.holder # None /\ agent.holder.name = call[p].op.name
        /\ agent.holder.token = agent.max /\ call[p].op.token >= agent.max
    BY <1>1, <1>3 DEF LeaseValid, ApplyInv, AgentOk, RecordsAreSound
  <1>5. call[p].op.token = agent.max
    <2>1. call[p].op.token \in Nat /\ agent.max \in Nat
      BY <1>3, EnvelopeTypes DEF AllOps, ApplyInv, AgentOk, AgentStates
    <2> QED
      BY <1>3, <1>4, <2>1
  <1> QED
    BY <1>1, <1>3, <1>4, <1>5 DEF Who, RecordOf

(* Nothing but publish touches the link.                                   *)
LEMMA OnlyPublishTurnsTheLink ==
  ASSUME Next, link' # link
  PROVE  \E p \in Calls : Publish(p)
  <1>1. ASSUME NEW p \in Calls, StartRun(p) \/ StartRecover(p) \/ StartAbort(p) PROVE FALSE
    BY <1>1 DEF StartRun, StartRecover, StartAbort, world
  <1>2. ASSUME NEW p \in Calls, Step(p) PROVE Publish(p)
    <2>1. CASE \/ RecoverIdle(p) \/ RecoverClose(p) \/ RecoverFree(p) \/ Reclaim(p)
               \/ AbortPlane(p) \/ AbortRelease(p) \/ AbortFinish(p) \/ AbortRead(p)
               \/ AbortClose(p)
      BY <1>2, <2>1 DEF RecoverIdle, RecoverClose, RecoverFree, Reclaim, AbortPlane,
         AbortRelease, AbortFinish, AbortRead, AbortClose, world
    <2>2. CASE \/ EnterApply(p) \/ LoopHead(p) \/ CloseAndFinish(p) \/ WriteEntry(p)
               \/ Finish(p) \/ FailPlane(p) \/ FailRead(p)
      BY <1>2, <2>2 DEF EnterApply, LoopHead, CloseAndFinish, WriteEntry, Finish, FailPlane,
         FailRead, world
    <2>3. CASE \/ Preflight(p) \/ PublishIntent(p) \/ RecordIntent(p) \/ StagePlane(p)
               \/ StageMembership(p) \/ ReloadIntent(p, FALSE)
      BY <1>2, <2>3 DEF Preflight, PublishIntent, RecordIntent, StagePlane, StageMembership,
         ReloadIntent, world
    <2>4. CASE \/ SignalReload(p) \/ AwaitReload(p, FALSE) \/ ReloadObserved(p)
               \/ AwaitCommit(p, FALSE) \/ CommitPlane(p)
      BY <1>2, <2>4 DEF SignalReload, AwaitReload, ReloadObserved, AwaitCommit, CommitPlane,
         world
    <2> QED
      BY <1>2, <2>1, <2>2, <2>3, <2>4 DEF Step
  <1>3. ASSUME NEW p \in Calls, FaultyStep(p) PROVE FALSE
    BY <1>3 DEF FaultyStep, PreflightRefuses, ReloadIntent, AwaitReload, AwaitCommit,
       EffectTimesOut, EffectThrows, world
  <1>4. ASSUME FenceCall \/ HealthCall \/ EngineReloads \/ EngineRefuses \/ LateReload \/ Crash
        PROVE  FALSE
    BY <1>4 DEF FenceCall, HealthCall, EngineReloads, EngineRefuses, LateReload, Crash, world
  <1> QED
    BY <1>1, <1>2, <1>3, <1>4 DEF Next

(* A plane changes its author by a commit alone, and the operation that    *)
(* moves it there was not closed before.                                   *)
LEMMA MoverIsNotClosed ==
  ASSUME NEW s, AgentOk(s), NEW t, Move(s, t), NEW u \in Pruned(t), NEW p \in Planes,
         u.planes[p].by # s.planes[p].by
  PROVE  ~StaysClosed(s, <<u.planes[p].by, p>>)
  <1>0. s \in AgentStates /\ t \in AgentStates /\ Effect(s, t)
    BY DEF AgentOk, Move
  <1>1. u.planes = t.planes
    BY <1>0, PrunedFields
  <1>2. ~Administers(s, t)
    BY <1>1 DEF Administers
  <1>3. ASSUME NEW op \in HealthOps, NEW q \in Planes, RefreshesPlane(s, t, op, q)
        PROVE  FALSE
    BY <1>0, <1>1, <1>3 DEF RefreshesPlane, AgentStates, Positions, PlaneStates
  <1>4. PICK op \in Ops, q \in Planes : MovesPlane(s, t, op, q)
    BY <1>0, <1>2, <1>3 DEF Effect
  <1>5. /\ q = p /\ t.planes[p].by = Who(op)
        /\ op.epoch > s.planes[p].epoch /\ s.terminal[<<Who(op), p>>] = None
    BY <1>0, <1>1, <1>4 DEF MovesPlane, AgentStates, Positions
  <1>6. op.epoch \in Nat /\ s.planes[p].epoch \in Nat
    BY <1>0, EnvelopeTypes DEF AllOps, AgentStates, Positions, PlaneStates
  <1> QED
    BY <1>1, <1>5, <1>6, NoneAssumption DEF StaysClosed, IsPast, Verdicts

(* Once abortConfig has returned, its operation moves no plane any more    *)
(* (the second half of CancelledHasNoEffect; the link it may still turn).  *)
THEOREM CancelledMovesNoPlane ==
  Spec => [][\A p \in Planes : agent'.planes[p].by # agent.planes[p].by =>
               agent'.planes[p].by \notin cancelled]_vars
  <1>1. ApplyInv /\ [Next]_vars =>
          [\A p \in Planes : agent'.planes[p].by # agent.planes[p].by =>
             agent'.planes[p].by \notin cancelled]_vars
    <2> SUFFICES ASSUME ApplyInv, Next, NEW p \in Planes,
                        agent'.planes[p].by # agent.planes[p].by
                 PROVE  agent'.planes[p].by \notin cancelled
      OBVIOUS
    <2>1. AgentOk(agent) /\ \A who \in cancelled : StaysClosed(agent, <<who, p>>)
      BY DEF ApplyInv, CancelsHold
    <2>2. PICK t : \E u \in Pruned(t) : Move(agent, t) /\ agent' \in {agent, u}
      BY NextMoves, MovesMade DEF Moves, Calm
    <2>3. PICK u \in Pruned(t) : Move(agent, t) /\ agent' = u
      BY <2>2
    <2>4. ~StaysClosed(agent, <<agent'.planes[p].by, p>>)
      BY <2>1, <2>3, MoverIsNotClosed
    <2> QED
      BY <2>1, <2>4
  <1> QED
    BY <1>1, ApplyInvInitially, ApplyInvStep, PTL DEF Spec

(* The link is turned for the operation that holds the apply path, and for *)
(* no other: publish replaces the owner's record before it reads its lease *)
(* but turns the link after.                                               *)
THEOREM LinkTurnsForTheHolder ==
  Spec => [][link' # link => agent.holder # None /\ Who(agent.holder) = Who(owner')]_vars
  <1>1. ApplyInv /\ [Next]_vars =>
          [link' # link => agent.holder # None /\ Who(agent.holder) = Who(owner')]_vars
    BY OnlyPublishTurnsTheLink, HolderPublishes
  <1> QED
    BY <1>1, ApplyInvInitially, ApplyInvStep, PTL DEF Spec

-----------------------------------------------------------------------------
(* What the calls know of the journal, and that it tells the truth.        *)

(* Inside exclusiveApply; a call from there drives, one at a time.         *)
CommitPcs == {"reload_observed", "await_commit", "commit"}
Driving(c) ==
  \/ c.pc \in EntryPcs \cup {"loop", "write", "close", "signal", "await"}
  \/ c.pc = "finish" /\ c.after = "loop"
OneDrive == \A q \in Calls : Driving(call[q]) => applying = q

(* An entry that was read is the journal's, or an older one; an operation  *)
(* that is worked for is unfinished there, or sealed off.                  *)
ReadAt(s, j) == s.journal # None /\ (s.journal = j \/ s.journal.seq > j.seq)
OpenAt(s, j, op) == (s.journal = j /\ Unfinished(j)) \/ SealedOff(s, op)
ReadsHold(s, c) ==
  c.pc \in EntryPcs =>
    /\ ReadAt(s, c.j) /\ OpenAt(s, c.j, c.op)
    /\ c.pc \in CommitPcs => c.j.phase = "reload_observed"

(* What was noted of the planes is true; a plane that was visited and not  *)
(* committed was not moved, unless the entry can no longer be written.     *)
Spared(s, c, p) ==
  \/ c.progress[p] = "committed" \/ ~MovedByMe(s, c.op, p)
  \/ c.op.token < s.max \/ s.journal.seq > c.j.seq
NotesHold(s, c) ==
  /\ c.pc \in EntryPcs => NotesTell(s, c.j.progress, c.op)
  /\ c.pc \in ProgressPcs => NotesTell(s, c.progress, c.op)
  /\ c.pc = "commit" => \A p \in Planes \ c.todo : Spared(s, c, p)

(* An entry to write is true, or will be refused.                          *)
Refusable(s, e) == e.op.token < s.max \/ e.seq <= s.journal.seq
WriteHolds(s, c) ==
  c.pc = "write" =>
    /\ s.journal # None
    /\ \/ Refusable(s, c.entry)
       \/ c.entry.seq = s.journal.seq + 1 /\ s.journal.op = c.entry.op /\ EntryTells(s, c.entry)
    /\ c.next = "signal" => Unfinished(c.entry) \/ SealedOff(s, c.op)
CloseHolds(s, c) == c.pc = "close" => PhaseTells(s, c.next, c.op)
SignalHolds(s, c) ==
  c.pc = "signal" =>
    (OwnsJournal(s.journal, c.op) /\ Unfinished(s.journal)) \/ SealedOff(s, c.op)

(* What a drive knows, and what a call beside it knows: an abort closes    *)
(* the journal with a phase that is true, or it does not own one.          *)
DriveTells(s, c) ==
  ReadsHold(s, c) /\ NotesHold(s, c) /\ WriteHolds(s, c) /\ CloseHolds(s, c) /\ SignalHolds(s, c)
AsideHolds(s, st, c) ==
  /\ c.pc = "recover_close" => c.op.token < s.max
  /\ c.pc \in AbortPcs => \A p \in Planes \ c.todo : Sealed(s, c.op, p)
  /\ c.pc = "abort_close" /\ c.entry \in Phases =>
       PhaseTells(s, c.entry, c.op) \/ Unopenable(s, st, c.op)
FrameTells(s, st, c) == DriveTells(s, c) /\ AsideHolds(s, st, c)

JournalInv ==
  /\ TaleOk(agent) /\ OneDrive
  /\ \A q \in Calls : FrameTells(agent, started, call[q])

(* The record goes on.                                                     *)
GoesOn(s, w, st) ==
  /\ s \in AgentStates /\ w \in AgentStates
  /\ Forward(s, w) /\ Onward(s, w, st)

(* A frame that knows nothing.                                             *)
LEMMA SilentFrame ==
  ASSUME NEW s, NEW st, NEW c
  PROVE  /\ c.pc \notin EntryPcs \cup {"write", "close", "signal"} => DriveTells(s, c)
         /\ c.pc \notin AbortPcs \cup {"recover_close"} => AsideHolds(s, st, c)
  <1>1. ProgressPcs \subseteq EntryPcs /\ "commit" \in EntryPcs /\ "abort_close" \in AbortPcs
    BY DEF ProgressPcs, EntryPcs, AbortPcs
  <1>2. c.pc \notin EntryPcs \cup {"write", "close", "signal"} => DriveTells(s, c)
    BY <1>1 DEF DriveTells, ReadsHold, NotesHold, WriteHolds, CloseHolds, SignalHolds
  <1>3. c.pc \notin AbortPcs \cup {"recover_close"} => AsideHolds(s, st, c)
    BY <1>1 DEF AsideHolds
  <1> QED
    BY <1>2, <1>3

(* What is sealed stays sealed.                                            *)
LEMMA SealedStays ==
  ASSUME NEW s, NEW w, NEW st, GoesOn(s, w, st), NEW op \in Ops
  PROVE  /\ \A p \in Planes : Sealed(s, op, p) => Sealed(w, op, p)
         /\ SealedOff(s, op) => SealedOff(w, op)
         /\ op.token < s.max => op.token < w.max
  <1>1. /\ op.token \in Nat /\ s.max \in Nat /\ w.max \in Nat /\ w.max >= s.max
        /\ \A p \in Planes : <<Who(op), p>> \in Whos \X Planes
    BY EnvelopeTypes, WhoTypes DEF AllOps, GoesOn, AgentStates, Forward
  <1>2. op.token < s.max => op.token < w.max
    BY <1>1
  <1>3. \A p \in Planes : Sealed(s, op, p) => Sealed(w, op, p)
    BY <1>1, <1>2 DEF Sealed, GoesOn, Forward
  <1> QED
    BY <1>2, <1>3 DEF SealedOff

(* Two envelopes of one operation are sealed alike.                        *)
LEMMA TwinsSealedAlike ==
  ASSUME NEW s, NEW a \in Ops, NEW b \in Ops, Who(a) = Who(b), SealedOff(s, a)
  PROVE  SealedOff(s, b)
  BY TwinsAlike DEF SealedOff, Sealed

(* A later entry stays later.                                              *)
LEMMA SeqRises ==
  ASSUME NEW s, NEW w, NEW st, GoesOn(s, w, st), s.journal # None
  PROVE  /\ w.journal # None /\ w.journal.seq >= s.journal.seq
         /\ s.journal.seq \in Nat /\ w.journal.seq \in Nat
         /\ w.journal = s.journal \/ w.journal.seq > s.journal.seq
  <1>1. w.journal # None
    BY DEF GoesOn, Forward
  <1>2. s.journal.seq \in Nat /\ w.journal.seq \in Nat
    BY <1>1 DEF GoesOn, AgentStates, Journals
  <1>3. w.journal = s.journal \/ w.journal.seq > s.journal.seq
    BY DEF GoesOn, Onward
  <1> QED
    BY <1>1, <1>2, <1>3

(* Somebody else's call leaves a drive what it knows.                      *)
LEMMA DriveKept ==
  ASSUME NEW s, NEW w, NEW st, GoesOn(s, w, st), Aside(s, w), NEW c, FrameOk(c),
         DriveTells(s, c)
  PROVE  DriveTells(w, c)
  <1>1. /\ ReadsHold(s, c) /\ NotesHold(s, c) /\ WriteHolds(s, c) /\ CloseHolds(s, c)
        /\ SignalHolds(s, c)
    BY DEF DriveTells
  <1>2. /\ \A op, p : p \in Planes => (MovedByMe(w, op, p) <=> MovedByMe(s, op, p))
        /\ \A notes, op : NotesTell(w, notes, op) <=> NotesTell(s, notes, op)
        /\ \A phase, op : PhaseTells(w, phase, op) <=> PhaseTells(s, phase, op)
        /\ \A e : EntryTells(w, e) <=> EntryTells(s, e)
    BY SamePlacesTellTheSame DEF Aside
  <1>3. Unfinished(s.journal) /\ w.journal # s.journal => SealedOff(w, s.journal.op)
    BY DEF Aside
  <1>4. ASSUME c.pc \in EntryPcs
        PROVE  /\ c.j \in Journals /\ c.j.op = c.op /\ c.op \in Ops /\ c.j.seq \in Nat
               /\ ReadAt(s, c.j) /\ OpenAt(s, c.j, c.op)
    BY <1>1, <1>4 DEF FrameOk, ReadsHold, Journals
  <1>5. ReadsHold(w, c)
    <2> SUFFICES ASSUME c.pc \in EntryPcs
                 PROVE  ReadAt(w, c.j) /\ OpenAt(w, c.j, c.op)
      BY <1>1 DEF ReadsHold
    <2>1. /\ s.journal # None /\ s.journal.seq \in Nat /\ w.journal # None
          /\ w.journal.seq \in Nat /\ (w.journal = s.journal \/ w.journal.seq > s.journal.seq)
      BY <1>4, SeqRises DEF ReadAt
    <2>2. ReadAt(w, c.j)
      BY <1>4, <2>1 DEF ReadAt
    <2>3. CASE SealedOff(s, c.op)
      BY <1>4, <2>2, <2>3, SealedStays DEF OpenAt
    <2>4. CASE s.journal = c.j /\ Unfinished(c.j)
      BY <1>3, <1>4, <2>2, <2>4 DEF OpenAt
    <2> QED
      BY <1>4, <2>2, <2>3, <2>4 DEF OpenAt
  <1>6. NotesHold(w, c)
    <2>1. ASSUME c.pc = "commit", NEW p \in Planes, Spared(s, c, p)
          PROVE  Spared(w, c, p)
      <3>1. c.pc \in EntryPcs
        BY <2>1 DEF EntryPcs
      <3>2. c.op.token < s.max => c.op.token < w.max
        BY <1>4, <3>1, SealedStays
      <3>3. s.journal.seq > c.j.seq => w.journal.seq > c.j.seq
        <4>1. s.journal # None /\ c.j.seq \in Nat
          BY <1>4, <3>1 DEF ReadAt
        <4>2. w.journal.seq >= s.journal.seq /\ s.journal.seq \in Nat /\ w.journal.seq \in Nat
          BY <4>1, SeqRises
        <4> QED
          BY <4>1, <4>2
      <3> QED
        BY <1>2, <2>1, <3>2, <3>3 DEF Spared
    <2> QED
      BY <1>1, <1>2, <2>1 DEF NotesHold
  <1>7. WriteHolds(w, c)
    <2> SUFFICES ASSUME c.pc = "write"
                 PROVE  /\ w.journal # None
                        /\ \/ Refusable(w, c.entry)
                           \/ /\ c.entry.seq = w.journal.seq + 1 /\ w.journal.op = c.entry.op
                              /\ EntryTells(w, c.entry)
                        /\ c.next = "signal" => Unfinished(c.entry) \/ SealedOff(w, c.op)
      BY DEF WriteHolds
    <2>1. c.entry \in Journals /\ c.entry.seq \in Nat /\ c.entry.op = c.op /\ c.op \in Ops
      BY DEF FrameOk, Journals
    <2>2. /\ s.journal # None /\ s.journal.seq \in Nat /\ w.journal # None
          /\ w.journal.seq \in Nat /\ (w.journal = s.journal \/ w.journal.seq > s.journal.seq)
      BY <1>1, SeqRises DEF WriteHolds
    <2>3. c.next = "signal" => Unfinished(c.entry) \/ SealedOff(w, c.op)
      BY <1>1, <2>1, SealedStays DEF WriteHolds
    <2>4. CASE Refusable(s, c.entry)
      <3>1. c.entry.op.token < s.max => c.entry.op.token < w.max
        BY <2>1, SealedStays
      <3>2. c.entry.seq <= s.journal.seq => c.entry.seq <= w.journal.seq
        BY <2>1, <2>2
      <3> QED
        BY <2>2, <2>3, <2>4, <3>1, <3>2 DEF Refusable
    <2>5. CASE /\ c.entry.seq = s.journal.seq + 1 /\ s.journal.op = c.entry.op
               /\ EntryTells(s, c.entry)
      <3>1. w.journal # s.journal => c.entry.seq <= w.journal.seq
        BY <2>1, <2>2, <2>5
      <3> QED
        BY <1>2, <2>2, <2>3, <2>5, <3>1 DEF Refusable
    <2> QED
      BY <1>1, <2>4, <2>5 DEF WriteHolds
  <1>8. CloseHolds(w, c)
    BY <1>1, <1>2 DEF CloseHolds
  <1>9. SignalHolds(w, c)
    <2> SUFFICES ASSUME c.pc = "signal"
                 PROVE  \/ OwnsJournal(w.journal, c.op) /\ Unfinished(w.journal)
                        \/ SealedOff(w, c.op)
      BY DEF SignalHolds
    <2>1. c.op \in Ops
      BY DEF FrameOk, IdlePcs
    <2>2. CASE SealedOff(s, c.op)
      BY <2>1, <2>2, SealedStays
    <2>3. CASE OwnsJournal(s.journal, c.op) /\ Unfinished(s.journal)
      <3>1. s.journal.op \in Ops /\ Who(s.journal.op) = Who(c.op)
        BY <2>3 DEF OwnsJournal, GoesOn, AgentStates, Journals
      <3>2. w.journal # s.journal => SealedOff(w, c.op)
        BY <1>3, <2>1, <2>3, <3>1, TwinsSealedAlike
      <3> QED
        BY <2>3, <3>2
    <2> QED
      BY <1>1, <2>2, <2>3 DEF SignalHolds
  <1> QED
    BY <1>5, <1>6, <1>7, <1>8, <1>9 DEF DriveTells

(* A phase that is true of an operation that is sealed off stays true.     *)
LEMMA SealedPhaseStays ==
  ASSUME NEW s, NEW w, NEW st, GoesOn(s, w, st), NEW op \in Ops, SealedOff(s, op),
         NEW phase, PhaseTells(s, phase, op)
  PROVE  PhaseTells(w, phase, op)
  <1>1. \A p \in Planes : ReachedIn(s, op, p) => ReachedIn(w, op, p)
    BY DEF GoesOn, Onward
  <1>2. \A p \in Planes : MovedByMe(w, op, p) => MovedByMe(s, op, p)
    BY DEF GoesOn, Onward, SealedOff
  <1> QED
    BY <1>1, <1>2 DEF PhaseTells

(* What cannot be opened is not opened.                                    *)
LEMMA UnopenableStays ==
  ASSUME NEW s, NEW w, NEW st, NEW sw, GoesOn(s, w, st), st \subseteq sw, NEW op \in Ops,
         SealedOff(s, op), Unopenable(s, st, op)
  PROVE  Unopenable(w, sw, op)
  <1>1. w.journal # None => Who(w.journal.op) # Who(op)
    BY DEF GoesOn, Onward
  <1>2. op.token < s.max => op.token < w.max
    BY SealedStays
  <1>3. \A p \in Planes : StaysClosed(s, <<Who(op), p>>) => StaysClosed(w, <<Who(op), p>>)
    BY WhoTypes DEF AllOps, GoesOn, Forward
  <1>4. Outranked(st, op) => Outranked(sw, op)
    BY DEF Outranked
  <1> QED
    BY <1>1, <1>2, <1>3, <1>4 DEF Unopenable

(* A call beside the drive keeps what it knows, whoever moves.             *)
LEMMA AsideKept ==
  ASSUME NEW s, NEW w, NEW st, NEW sw, GoesOn(s, w, st), st \subseteq sw, NEW c, FrameOk(c),
         AsideHolds(s, st, c)
  PROVE  AsideHolds(w, sw, c)
  <1>1. c.pc \notin IdlePcs => c.op \in Ops
    BY DEF FrameOk
  <1>2. c.pc = "recover_close" => c.op.token < w.max
    BY <1>1, SealedStays DEF AsideHolds, IdlePcs
  <1>3. c.pc \in AbortPcs => \A p \in Planes \ c.todo : Sealed(w, c.op, p)
    BY <1>1, PcsAreApart, SealedStays DEF AsideHolds
  <1>4. ASSUME c.pc = "abort_close", c.entry \in Phases
        PROVE  PhaseTells(w, c.entry, c.op) \/ Unopenable(w, sw, c.op)
    <2>1. c.op \in Ops /\ c.todo = {}
      BY <1>4 DEF FrameOk, IdlePcs, AbortPcs
    <2>2. SealedOff(s, c.op)
      BY <1>4, <2>1 DEF AsideHolds, SealedOff, AbortPcs
    <2> QED
      BY <1>4, <2>1, <2>2, SealedPhaseStays, UnopenableStays DEF AsideHolds
  <1> QED
    BY <1>2, <1>3, <1>4 DEF AsideHolds

(* A record that stands still goes on.                                     *)
LEMMA StandingGoesOn ==
  ASSUME NEW s \in AgentStates, NEW st
  PROVE  GoesOn(s, s, st) /\ Aside(s, s)
  <1>1. s.max \in Nat
    BY DEF AgentStates
  <1>2. Forward(s, s)
    BY <1>1 DEF Forward
  <1>3. Onward(s, s, st)
    BY DEF Onward, Unopenable
  <1>4. Aside(s, s)
    BY DEF Aside, SamePlaces
  <1> QED
    BY <1>2, <1>3, <1>4 DEF GoesOn

(* What a call may save of the tale, and what it saves when it lands.      *)
Truly(t) == Move(agent, t) /\ TaleOk(t) /\ Onward(agent, t, started)
Lands(t, u) ==
  /\ u \in Pruned(t) /\ AgentOk(u) /\ TaleOk(u) /\ GoesOn(agent, u, started)
  /\ u.planes = t.planes /\ u.max = t.max /\ u.journal = t.journal
  /\ Aside(agent, t) => Aside(agent, u)
(* A call that tells the truth still does when it has landed.              *)
LEMMA Landing ==
  ASSUME ApplyInv, NEW t, Truly(t), NEW u \in Pruned(t), BrokenClauses(agent, u) = {}
  PROVE  Lands(t, u)
  <1>1. /\ agent \in AgentStates /\ AgentOk(agent) /\ t \in AgentStates /\ Effect(agent, t)
        /\ SlotsAreAbove(t) /\ CandidateBy(agent, t) /\ TaleOk(t) /\ Onward(agent, t, started)
        /\ LedgerAt(agent)
    BY DEF ApplyInv, AgentOk, Truly, Move
  <1>2. u = Guarded(agent, u)
    BY DEF Guarded
  <1>3. AgentOk(u) /\ Forward(agent, u)
    BY <1>1, <1>2, SavedIsOk
  <1>4. /\ TaleOk(u) /\ u.journal = t.journal /\ u.planes = t.planes /\ u.max = t.max
    BY <1>1, TaleByPruning
  <1>5. /\ \A op, p : MovedByMe(u, op, p) <=> MovedByMe(t, op, p)
        /\ \A op, p : ReachedIn(u, op, p) <=> ReachedIn(t, op, p)
    BY <1>4 DEF MovedByMe, ReachedIn
  <1>6. Onward(agent, u, started)
    BY <1>1, <1>4, <1>5 DEF Onward
  <1>7. GoesOn(agent, u, started)
    BY <1>1, <1>3, <1>6 DEF GoesOn, AgentOk
  <1>8. ASSUME Aside(agent, t) PROVE Aside(agent, u)
    <2>1. SamePlaces(agent, u)
      BY <1>4, <1>8 DEF Aside, SamePlaces
    <2>2. ASSUME Unfinished(agent.journal), u.journal # agent.journal
          PROVE  SealedOff(u, agent.journal.op)
      <3>1. SealedOff(t, agent.journal.op)
        BY <1>4, <1>8, <2>2 DEF Aside
      <3>2. agent.journal.op \in Ops
        BY <1>1, <2>2 DEF Unfinished, AgentStates, Journals
      <3>3. LedgerAt(t) /\ Keeps(t, t) /\ EpochsUp(t, t)
        <4>1. LedgerAt(t)
          BY <1>1, EffectKeepsLedger
        <4>2. Administers(t, t)
          BY <1>1, NothingKeeps
        <4> QED
          BY <1>1, <4>1, <4>2, EffectKeepsLedger DEF Effect
      <3>4. ASSUME NEW p \in Planes, Decided(t, <<Who(agent.journal.op), p>>)
            PROVE  Decided(u, <<Who(agent.journal.op), p>>)
        <4> DEFINE k == <<Who(agent.journal.op), p>>
        <4>1. k \in Whos \X Planes
          BY <3>2, WhoTypes DEF AllOps
        <4> HIDE DEF k
        <4>2. Decided(u, k)
          BY <1>1, <3>3, <3>4, <4>1, DecidedStaysDecided DEF LedgerAt, k
        <4> QED
          BY <4>2 DEF k
      <3> QED
        BY <1>4, <3>1, <3>4 DEF SealedOff, Sealed
    <2> QED
      BY <2>1, <2>2 DEF Aside
  <1> QED
    BY <1>3, <1>4, <1>7, <1>8 DEF Lands

(* A step of one call keeps the invariant when it tells the truth itself   *)
(* and is a drive's or stands aside.                                       *)
LEMMA OneStep ==
  ASSUME ApplyInv, JournalInv, NEW p \in Calls, NEW d,
         TaleOk(agent'), GoesOn(agent, agent', started), started \subseteq started',
         Driving(call[p]) \/ Aside(agent, agent'),
         call' = [call EXCEPT ![p] = d], Driving(d) => Driving(call[p]),
         applying' = IF applying = p /\ d.pc = "idle" THEN None ELSE applying,
         FrameTells(agent', started', d)
  PROVE  JournalInv'
  <1>1. /\ DOMAIN call = Calls /\ \A q \in Calls : FrameOk(call[q])
        /\ OneDrive /\ \A q \in Calls : FrameTells(agent, started, call[q])
    BY DEF ApplyInv, FramesOk, JournalInv
  <1>2. call'[p] = d /\ \A q \in Calls : q # p => call'[q] = call[q]
    BY <1>1
  <1>3. ASSUME NEW q \in Calls, q # p PROVE FrameTells(agent', started', call[q])
    <2>1. AsideHolds(agent', started', call[q])
      BY <1>1, AsideKept DEF FrameTells
    <2>2. CASE Driving(call[q])
      <3>1. ~Driving(call[p])
        BY <1>1, <1>3, <2>2 DEF OneDrive
      <3>2. DriveTells(agent', call[q])
        BY <1>1, <3>1, DriveKept DEF FrameTells
      <3> QED
        BY <2>1, <3>2 DEF FrameTells
    <2>3. CASE ~Driving(call[q])
      <3>1. call[q].pc \notin EntryPcs \cup {"write", "close", "signal"}
        BY <2>3 DEF Driving
      <3>2. DriveTells(agent', call[q])
        BY <3>1, SilentFrame
      <3> QED
        BY <2>1, <3>2 DEF FrameTells
    <2> QED
      BY <2>2, <2>3
  <1>4. \A q \in Calls : FrameTells(agent', started', call'[q])
    BY <1>2, <1>3
  <1>5. ASSUME NEW q \in Calls, Driving(call'[q]) PROVE applying' = q
    <2>1. CASE q = p
      <3>1. applying = p
        BY <1>1, <1>2, <1>5, <2>1 DEF OneDrive
      <3>2. d.pc # "idle"
        BY <1>2, <1>5, <2>1 DEF Driving, EntryPcs
      <3> QED
        BY <2>1, <3>1, <3>2
    <2>2. CASE q # p
      BY <1>1, <1>2, <1>5, <2>2 DEF OneDrive
    <2> QED
      BY <2>1, <2>2
  <1> QED
    BY <1>4, <1>5 DEF JournalInv, OneDrive

(* A turn that only reads.                                                 *)
LEMMA TurnTells ==
  ASSUME ApplyInv, JournalInv, NEW p \in Calls, NEW d, Turn(p, d), started \subseteq started',
         Driving(d) => Driving(call[p]), FrameTells(agent, started', d)
  PROVE  JournalInv'
  <1>1. agent \in AgentStates /\ TaleOk(agent)
    BY DEF ApplyInv, AgentOk, JournalInv
  <1>2. GoesOn(agent, agent, started) /\ Aside(agent, agent)
    BY <1>1, StandingGoesOn
  <1>3. /\ agent' = agent /\ call' = [call EXCEPT ![p] = d]
        /\ applying' = IF applying = p /\ d.pc = "idle" THEN None ELSE applying
    BY DEF Turn, Goto
  <1> QED
    BY <1>1, <1>2, <1>3, OneStep

(* A call of the agent, let through or thrown out.                         *)
LEMMA CallTells ==
  ASSUME ApplyInv, JournalInv, NEW p \in Calls, NEW calls, NEW accepted, NEW rejected,
         AgentCall(p, calls, accepted, rejected), started \subseteq started',
         \A t \in calls : Truly(t) /\ (Driving(call[p]) \/ Aside(agent, t)),
         Driving(accepted) => Driving(call[p]), Driving(rejected) => Driving(call[p]),
         \A t \in calls : \A u : Lands(t, u) => FrameTells(u, started', accepted),
         calls = {} => FrameTells(agent, started', rejected)
  PROVE  JournalInv'
  <1>1. CASE calls = {} /\ Turn(p, rejected)
    BY <1>1, TurnTells
  <1>2. CASE \E u \in Outcomes(calls) :
               /\ agent' = Guarded(agent, u) /\ thrown' = BrokenClauses(agent, u)
               /\ Goto(p, IF thrown' = {} THEN accepted ELSE Idle)
    <2>1. PICK u \in Outcomes(calls) :
            /\ agent' = Guarded(agent, u) /\ thrown' = BrokenClauses(agent, u)
            /\ Goto(p, IF thrown' = {} THEN accepted ELSE Idle)
      BY <1>2
    <2>2. PICK t \in calls : u \in Pruned(t)
      BY <2>1 DEF Outcomes
    <2>3. CASE thrown' = {}
      <3>1. agent' = u /\ BrokenClauses(agent, u) = {}
        BY <2>1, <2>3 DEF Guarded
      <3>2. Truly(t) /\ (Driving(call[p]) \/ Aside(agent, t))
        BY <2>2
      <3>3. Lands(t, u)
        BY <2>2, <3>1, <3>2, Landing
      <3>4. /\ TaleOk(agent') /\ GoesOn(agent, agent', started)
            /\ Driving(call[p]) \/ Aside(agent, agent')
        BY <3>1, <3>2, <3>3 DEF Lands
      <3>5. FrameTells(agent', started', accepted)
        BY <2>2, <3>1, <3>3
      <3>6. /\ call' = [call EXCEPT ![p] = accepted]
            /\ applying' = IF applying = p /\ accepted.pc = "idle" THEN None ELSE applying
        BY <2>1, <2>3 DEF Goto
      <3> QED
        BY <3>4, <3>5, <3>6, OneStep
    <2>4. CASE thrown' # {}
      <3>1. agent' = agent
        BY <2>1, <2>4 DEF Guarded
      <3>2. /\ call' = [call EXCEPT ![p] = Idle]
            /\ applying' = IF applying = p /\ Idle.pc = "idle" THEN None ELSE applying
        BY <2>1, <2>4 DEF Goto
      <3>3. agent \in AgentStates /\ TaleOk(agent)
        BY DEF ApplyInv, AgentOk, JournalInv
      <3>4. GoesOn(agent, agent, started) /\ Aside(agent, agent)
        BY <3>3, StandingGoesOn
      <3>5. ~Driving(Idle) /\ FrameTells(agent, started', Idle)
        <4>1. Idle.pc \notin EntryPcs \cup {"loop", "write", "close", "signal", "await", "finish"}
              /\ Idle.pc \notin AbortPcs \cup {"recover_close"}
          BY IdleFrame DEF EntryPcs, AbortPcs
        <4> HIDE DEF Idle
        <4> QED
          BY <4>1, SilentFrame DEF Driving, FrameTells
      <3> HIDE DEF Idle
      <3> QED
        BY <3>1, <3>2, <3>3, <3>4, <3>5, OneStep
    <2> QED
      BY <2>3, <2>4
  <1> QED
    BY <1>1, <1>2 DEF AgentCall

-----------------------------------------------------------------------------
(* The frames the actions build, and what they know.                       *)

(* Where a call carries its operation at most, and has read nothing.       *)
SilentPcs == {"idle", "queue", "loop", "recover_idle", "recover_free", "reclaim", "await"}
(* A frame that carries its operation and nothing else knows nothing.      *)
LEMMA SilentCall ==
  ASSUME NEW s, NEW st, NEW pc \in SilentPcs, NEW op \in Ops \cup {None}
  PROVE  /\ FrameTells(s, st, InCall(pc, op))
         /\ Driving(InCall(pc, op)) => pc \in {"loop", "await"}
  <1> DEFINE d == InCall(pc, op)
  <1>1. pc \in CallStates
    BY DEF SilentPcs, CallStates
  <1>2. d.pc = pc
    BY <1>1, InCallFields
  <1> HIDE DEF d
  <1>3. d.pc \notin EntryPcs \cup {"write", "close", "signal", "finish"} \cup AbortPcs \cup {"recover_close"}
    BY <1>2 DEF SilentPcs, EntryPcs, AbortPcs
  <1>4. FrameTells(s, st, d)
    BY <1>3, SilentFrame DEF FrameTells
  <1>5. Driving(d) => pc \in {"loop", "await"}
    BY <1>2, <1>3 DEF Driving
  <1> QED
    BY <1>4, <1>5 DEF d

(* No call.                                                                *)
LEMMA SilentIdle ==
  ASSUME NEW s, NEW st
  PROVE  FrameTells(s, st, Idle) /\ ~Driving(Idle)
  <1>1. Idle.pc \notin EntryPcs \cup {"loop", "write", "close", "signal", "await", "finish"}
        /\ Idle.pc \notin AbortPcs \cup {"recover_close"}
    BY IdleFrame DEF EntryPcs, AbortPcs
  <1> HIDE DEF Idle
  <1> QED
    BY <1>1, SilentFrame DEF Driving, FrameTells

(* Neither does a finish, on its way.                                      *)
LEMMA SilentFinish ==
  ASSUME NEW s, NEW st, NEW op \in Ops, NEW stuck \in SUBSET Planes, NEW after \in {"idle", "loop"}
  PROVE  LET d == Finishes(op, stuck, after) IN
         FrameTells(s, st, d) /\ (Driving(d) => after = "loop")
  <1> DEFINE b == InCall("finish", op)
             d == Finishes(op, stuck, after)
  <1>1. "finish" \in CallStates
    BY DEF CallStates
  <1>2. b \in Frames /\ b.pc = "finish"
    BY <1>1, InCallFields
  <1>3. d = [b EXCEPT !.todo = stuck, !.after = after]
    BY DEF Finishes
  <1> HIDE DEF b, d
  <1>4. d.pc = "finish" /\ d.after = after
    BY <1>2, <1>3 DEF Frames
  <1>5. "finish" \notin EntryPcs \cup {"loop", "write", "close", "signal", "await"} \cup AbortPcs \cup {"recover_close"}
    BY DEF EntryPcs, AbortPcs
  <1>6. FrameTells(s, st, d) /\ (Driving(d) => after = "loop")
    BY <1>4, <1>5, SilentFrame DEF Driving, FrameTells
  <1> QED
    BY <1>6 DEF d

(* What may be written on the entry that was read.                         *)
Says(s, j, e) ==
  /\ j \in Journals /\ e \in Journals /\ e.op = j.op /\ e.seq = j.seq
  /\ s.journal = j => j.op.token < s.max \/ EntryTells(s, e)

(* A frame that writes it.                                                 *)
WritesAt(d, e, how) ==
  /\ d.pc = "write" /\ d.op = e.op /\ d.next = how
  /\ d.entry.op = e.op /\ d.entry.seq = e.seq + 1
  /\ d.entry.phase = e.phase /\ d.entry.progress = e.progress /\ d.entry # None
(* The frames that the actions build to write an entry.                    *)
LEMMA WritesAreAt ==
  ASSUME NEW e \in Journals, NEW how \in {"loop", "finish", "signal"},
         NEW stuck \in SUBSET Planes, NEW after \in {"idle", "loop"}
  PROVE  WritesAt(Writes(e, how), e, how) /\ WritesAt(WritesAndFinishes(e, stuck, after), e, "finish")
  <1> DEFINE next == [e EXCEPT !.seq = @ + 1]
             b(h) == InCall("write", e.op)
             w(h) == Writes(e, h)
             d == WritesAndFinishes(e, stuck, after)
  <1>1. /\ next \in Journals /\ next.op = e.op /\ next.seq = e.seq + 1 /\ next.phase = e.phase
        /\ next.progress = e.progress /\ e.op \in Ops
    BY DEF Journals
  <1>2. next # None
    BY <1>1, NoneAssumption
  <1>3. ASSUME NEW h \in {"loop", "finish", "signal"}
        PROVE  /\ w(h) \in Frames /\ w(h).pc = "write" /\ w(h).op = e.op /\ w(h).next = h
               /\ w(h).entry = next
    <2>1. /\ b(h) \in Frames /\ b(h).pc = "write" /\ b(h).op = e.op
      BY <1>1, InCallFields, PcsAreStates
    <2>2. w(h) = [b(h) EXCEPT !.entry = next, !.next = h]
      BY DEF Writes
    <2>3. h \in CallStates
      BY DEF CallStates
    <2> HIDE DEF b, next, w
    <2> QED
      BY <1>1, <2>1, <2>2, <2>3 DEF Frames
  <1>4. d = [w("finish") EXCEPT !.todo = stuck, !.after = after]
    BY DEF WritesAndFinishes
  <1> HIDE DEF next, w, d
  <1>5. WritesAt(w(how), e, how)
    BY <1>1, <1>2, <1>3 DEF WritesAt
  <1>6. /\ w("finish") \in Frames /\ w("finish").pc = "write" /\ w("finish").op = e.op
        /\ w("finish").next = "finish" /\ w("finish").entry = next
    BY <1>3
  <1>7. /\ d.pc = "write" /\ d.op = e.op /\ d.next = "finish" /\ d.entry = next
    BY <1>4, <1>6 DEF Frames
  <1>8. WritesAt(d, e, "finish")
    BY <1>1, <1>2, <1>7 DEF WritesAt
  <1> QED
    BY <1>5, <1>8 DEF w, d

(* A true entry, or one that is refused.                                   *)
LEMMA WriteTells ==
  ASSUME NEW s \in AgentStates, NEW st, NEW j, ReadAt(s, j), NEW e, Says(s, j, e),
         NEW d, NEW how, WritesAt(d, e, how),
         how = "signal" => Unfinished(e) \/ SealedOff(s, e.op)
  PROVE  FrameTells(s, st, d)
  <1>1. /\ d.pc = "write" /\ d.op = e.op /\ d.next = how
        /\ d.entry.op = e.op /\ d.entry.seq = e.seq + 1
        /\ d.entry.phase = e.phase /\ d.entry.progress = e.progress /\ d.entry # None
    BY DEF WritesAt
  <1>2. /\ s.journal # None /\ s.journal.seq \in Nat /\ e.seq \in Nat /\ e.seq = j.seq /\ e.op = j.op
    BY DEF ReadAt, Says, AgentStates, Journals
  <1>3. ASSUME s.journal = j, EntryTells(s, e)
        PROVE  d.entry.seq = s.journal.seq + 1 /\ s.journal.op = d.entry.op /\ EntryTells(s, d.entry)
    BY <1>1, <1>2, <1>3 DEF EntryTells
  <1>4. \/ Refusable(s, d.entry)
        \/ d.entry.seq = s.journal.seq + 1 /\ s.journal.op = d.entry.op /\ EntryTells(s, d.entry)
    <2>1. CASE s.journal = j
      <3>1. j.op.token < s.max => Refusable(s, d.entry)
        BY <1>1, <1>2 DEF Refusable
      <3> QED
        BY <1>3, <2>1, <3>1 DEF Says
    <2>2. CASE s.journal.seq > j.seq
      <3>1. d.entry.seq <= s.journal.seq
        BY <1>1, <1>2, <2>2
      <3> QED
        BY <3>1 DEF Refusable
    <2> QED
      BY <2>1, <2>2 DEF ReadAt
  <1>5. d.next = "signal" => Unfinished(d.entry) \/ SealedOff(s, d.op)
    <2>1. Unfinished(e) => Unfinished(d.entry)
      BY <1>1 DEF Unfinished
    <2> QED
      BY <1>1, <2>1
  <1>6. WriteHolds(s, d)
    BY <1>2, <1>4, <1>5 DEF WriteHolds
  <1>7. d.pc \notin EntryPcs \cup {"close", "signal"} \cup AbortPcs \cup {"recover_close"}
    BY <1>1 DEF EntryPcs, AbortPcs
  <1>8. ProgressPcs \subseteq EntryPcs /\ "commit" \in EntryPcs
    BY DEF ProgressPcs, EntryPcs
  <1>9. DriveTells(s, d)
    BY <1>6, <1>7, <1>8 DEF DriveTells, ReadsHold, NotesHold, CloseHolds, SignalHolds
  <1>10. AsideHolds(s, st, d)
    BY <1>7, SilentFrame
  <1> QED
    BY <1>9, <1>10 DEF FrameTells

(* What the entries say that the actions write.                            *)
LEMMA EntriesSay ==
  ASSUME NEW s, NEW j \in Journals, NEW phase \in Phases, NEW notes \in Notes
  PROVE  /\ NotesTell(s, j.progress, j.op) /\ PhaseTells(s, phase, j.op) =>
              Says(s, j, Phased(j, phase)) /\ Says(s, j, PhasedAndCounted(j, phase))
         /\ (s.journal = j => EntryTells(s, j)) => Says(s, j, Counted(j)) /\ Says(s, j, j)
         /\ (s.journal = j => \/ j.op.token < s.max
                              \/ NotesTell(s, notes, j.op) /\ PhaseTells(s, phase, j.op)) =>
              Says(s, j, Noted(j, phase, notes))
  <1> DEFINE a == Phased(j, phase)
             b == PhasedAndCounted(j, phase)
             c == Counted(j)
             n == Noted(j, phase, notes)
  <1>1. /\ EntryOf(j, a) /\ EntryOf(j, b) /\ EntryOf(j, c) /\ EntryOf(j, n)
    BY EntryTypes
  <1>2. a.seq = j.seq /\ a.phase = phase /\ a.progress = j.progress
    BY DEF Phased, Journals
  <1>3. b.seq = j.seq /\ b.phase = phase /\ b.progress = j.progress
    BY DEF PhasedAndCounted, Journals
  <1>4. c.seq = j.seq /\ c.phase = j.phase /\ c.progress = j.progress
    BY DEF Counted, Journals
  <1>5. n.seq = j.seq /\ n.phase = phase /\ n.progress = notes
    BY DEF Noted, Journals
  <1> HIDE DEF a, b, c, n
  <1>6. NotesTell(s, j.progress, j.op) /\ PhaseTells(s, phase, j.op) =>
          Says(s, j, a) /\ Says(s, j, b)
    BY <1>1, <1>2, <1>3 DEF EntryOf, Says, EntryTells
  <1>7. (s.journal = j => EntryTells(s, j)) => Says(s, j, c) /\ Says(s, j, j)
    BY <1>1, <1>4 DEF EntryOf, Says, EntryTells
  <1>8. (s.journal = j => \/ j.op.token < s.max
                          \/ NotesTell(s, notes, j.op) /\ PhaseTells(s, phase, j.op)) =>
          Says(s, j, n)
    BY <1>1, <1>5 DEF EntryOf, Says, EntryTells
  <1> QED
    BY <1>6, <1>7, <1>8 DEF a, b, c, n

(* The phases on the way.                                                  *)
OpenPhases == {"publish_intent", "published", "membership_staged", "reload_intent", "reload_observed"}
(* They say nothing of the planes.                                         *)
LEMMA OpenPhasesTell ==
  ASSUME NEW s, NEW op, NEW phase \in OpenPhases
  PROVE  PhaseTells(s, phase, op) /\ phase \in Phases
  BY DEF OpenPhases, PhaseTells, Phases, TerminalPhases

(* What the planes say of the journal's operation is true.                 *)
LEMMA ReachedPhaseTells ==
  ASSUME NEW s
  PROVE  /\ PhaseTells(s, ReachedPhase(s), s.journal.op) /\ ReachedPhase(s) \in Phases
         /\ ReachedPhase(s) # None
  <1>1. /\ ReachedPhase(s) = "activated" => \A p \in Planes : MovedByMe(s, s.journal.op, p)
        /\ ReachedPhase(s) = "failed" => \A p \in Planes : ~MovedByMe(s, s.journal.op, p)
        /\ ReachedPhase(s) = "partial_exhausted" => \E p \in Planes : MovedByMe(s, s.journal.op, p)
        /\ ReachedPhase(s) \in {"activated", "failed", "partial_exhausted"}
    BY PlanesAssumption DEF ReachedPhase
  <1>2. ReachedPhase(s) \in Phases
    BY <1>1 DEF Phases, TerminalPhases
  <1> QED
    BY <1>1, <1>2, NoneAssumption DEF PhaseTells, ReachedIn

(* A frame that works on an entry it has read.                             *)
EntryKnown(s, c) ==
  /\ c \in Frames /\ c.j \in Journals /\ c.j.op = c.op
  /\ ReadAt(s, c.j) /\ OpenAt(s, c.j, c.op) /\ NotesTell(s, c.j.progress, c.op)
(* Such a frame, as the invariant knows it.                                *)
LEMMA AtAnEntry ==
  ASSUME NEW s, NEW c, FrameOk(c), c.pc \in EntryPcs, DriveTells(s, c)
  PROVE  /\ EntryKnown(s, c) /\ Driving(c)
         /\ c.pc \in CommitPcs => c.j.phase = "reload_observed"
         /\ c.pc \in ProgressPcs => c.progress \in Notes /\ NotesTell(s, c.progress, c.op)
         /\ c.pc = "commit" => \A p \in Planes \ c.todo : Spared(s, c, p)
  <1>1. ReadsHold(s, c) /\ NotesHold(s, c)
    BY DEF DriveTells
  <1> QED
    BY <1>1 DEF ReadsHold, NotesHold, FrameOk, EntryKnown, Driving
(* What a frame has to know of its entry.                                  *)
LEMMA EntryFrameTells ==
  ASSUME NEW s, NEW st, NEW d, EntryKnown(s, d), d.pc \in EntryPcs,
         d.pc \in CommitPcs => d.j.phase = "reload_observed",
         d.pc \in ProgressPcs => NotesTell(s, d.progress, d.op),
         d.pc = "commit" => \A p \in Planes \ d.todo : Spared(s, d, p)
  PROVE  FrameTells(s, st, d) /\ Driving(d)
  <1>1. d.pc \notin {"write", "close", "signal"} \cup AbortPcs \cup {"recover_close"}
    BY DEF EntryPcs, AbortPcs
  <1>2. DriveTells(s, d)
    BY <1>1 DEF EntryKnown, DriveTells, ReadsHold, NotesHold, WriteHolds, CloseHolds, SignalHolds
  <1>3. AsideHolds(s, st, d)
    BY <1>1, SilentFrame
  <1> QED
    BY <1>2, <1>3 DEF FrameTells, Driving

(* The entry is read again further on.                                     *)
LEMMA MovesOnTells ==
  ASSUME NEW s, NEW st, NEW c, EntryKnown(s, c), NEW pc \in EntryPcs \ ProgressPcs,
         pc \in CommitPcs => c.j.phase = "reload_observed"
  PROVE  FrameTells(s, st, [c EXCEPT !.pc = pc]) /\ Driving([c EXCEPT !.pc = pc])
  <1> DEFINE d == [c EXCEPT !.pc = pc]
  <1>1. c \in Frames /\ pc \in CallStates /\ pc # "commit"
    BY PcsAreStates DEF EntryKnown, ProgressPcs
  <1>2. d \in Frames /\ d.pc = pc /\ d.op = c.op /\ d.j = c.j
    BY <1>1 DEF Frames
  <1> HIDE DEF d
  <1>3. EntryKnown(s, d)
    BY <1>2 DEF EntryKnown
  <1>4. FrameTells(s, st, d) /\ Driving(d)
    BY <1>1, <1>2, <1>3, EntryFrameTells
  <1> QED
    BY <1>4 DEF d

(* What an entry says that is written, or failed with.                     *)
LEMMA WrittenTells ==
  ASSUME NEW s \in AgentStates, NEW st, NEW j, ReadAt(s, j), NEW e, Says(s, j, e)
  PROVE  /\ FrameTells(s, st, Writes(e, "loop"))
         /\ Unfinished(e) \/ SealedOff(s, e.op) => FrameTells(s, st, Writes(e, "signal"))
         /\ \A stuck \in SUBSET Planes, after \in {"idle", "loop"} :
              FrameTells(s, st, WritesAndFinishes(e, stuck, after))
  <1>1. e \in Journals
    BY DEF Says
  <1>2. /\ WritesAt(Writes(e, "loop"), e, "loop") /\ WritesAt(Writes(e, "signal"), e, "signal")
        /\ \A stuck \in SUBSET Planes, after \in {"idle", "loop"} :
             WritesAt(WritesAndFinishes(e, stuck, after), e, "finish")
    BY <1>1, WritesAreAt
  <1>3. FrameTells(s, st, Writes(e, "loop"))
    BY <1>2, WriteTells
  <1>4. Unfinished(e) \/ SealedOff(s, e.op) => FrameTells(s, st, Writes(e, "signal"))
    BY <1>2, WriteTells
  <1>5. ASSUME NEW stuck \in SUBSET Planes, NEW after \in {"idle", "loop"}
        PROVE  FrameTells(s, st, WritesAndFinishes(e, stuck, after))
    BY <1>2, WriteTells
  <1> QED
    BY <1>3, <1>4, <1>5
(* failAll, called with an entry.                                          *)
LEMMA FailsAllTells ==
  ASSUME NEW s, NEW st, NEW j \in Journals, ReadAt(s, j), OpenAt(s, j, j.op),
         NotesTell(s, j.progress, j.op), NEW after \in {"idle", "loop"}
  PROVE  FrameTells(s, st, FailsAll(j, after)) /\ Driving(FailsAll(j, after))
  <1> DEFINE b == InCall("fail", j.op)
             e == [b EXCEPT !.j = j, !.todo = Planes]
             d == FailsAll(j, after)
  <1>1. j.op \in Ops /\ j.progress \in Notes
    BY DEF Journals, Notes
  <1>2. "fail" \in EntryPcs /\ "fail" \in CallStates /\ "fail" \notin CommitPcs
    BY PcsAreStates DEF ProgressPcs, CallStates, CommitPcs
  <1>3. b \in Frames /\ b.pc = "fail" /\ b.op = j.op
    BY <1>1, <1>2, InCallFields
  <1>4. d = [e EXCEPT !.progress = j.progress, !.after = after]
    BY DEF FailsAll
  <1> HIDE DEF b
  <1>5. e \in Frames /\ e.pc = b.pc /\ e.op = b.op /\ e.j = j
    BY <1>3 DEF Frames
  <1> HIDE DEF e, d
  <1>6. d \in Frames /\ d.pc = e.pc /\ d.op = e.op /\ d.j = j /\ d.progress = j.progress
    BY <1>1, <1>4, <1>5 DEF Frames
  <1>7. EntryKnown(s, d)
    BY <1>3, <1>5, <1>6 DEF EntryKnown
  <1>8. FrameTells(s, st, d) /\ Driving(d)
    BY <1>2, <1>3, <1>5, <1>6, <1>7, EntryFrameTells
  <1> QED
    BY <1>8 DEF d

(* A plane is noted as failed, or as committed where it was.               *)
LEMMA FailNotedTells ==
  ASSUME NEW s, NEW st, NEW c, EntryKnown(s, c), c.progress \in Notes,
         NotesTell(s, c.progress, c.op), NEW plane \in Planes, NEW d \in {"failed", "committed"},
         d = "committed" => ReachedIn(s, c.op, plane)
  PROVE  FrameTells(s, st, FailNoted(c, plane, d))
  <1> DEFINE notes == [c.progress EXCEPT ![plane] = d]
             pc == IF c.todo = {plane} THEN "fail_read" ELSE "fail"
             b == [c EXCEPT !.todo = c.todo \ {plane}, !.progress = notes]
             e == FailNoted(c, plane, d)
  <1>0. c \in Frames
    BY DEF EntryKnown
  <1>1. notes \in Notes
    BY DEF Notes, Progress
  <1>2. NotesTell(s, notes, c.op)
    BY DEF Notes, NotesTell
  <1>3. pc \in CallStates /\ pc \in EntryPcs /\ pc \notin CommitPcs
    BY DEF CallStates, EntryPcs, CommitPcs
  <1>4. e = [b EXCEPT !.pc = pc]
    BY <1>0 DEF Frames, FailNoted
  <1> HIDE DEF notes, pc
  <1>5. b \in Frames /\ b.op = c.op /\ b.j = c.j /\ b.progress = notes
    BY <1>0, <1>1 DEF Frames
  <1> HIDE DEF b, e
  <1>6. e \in Frames /\ e.pc = pc /\ e.op = c.op /\ e.j = c.j /\ e.progress = notes
    BY <1>3, <1>4, <1>5 DEF Frames
  <1>7. EntryKnown(s, e)
    BY <1>6 DEF EntryKnown
  <1>8. FrameTells(s, st, e)
    BY <1>2, <1>3, <1>6, <1>7, EntryFrameTells DEF CommitPcs
  <1> QED
    BY <1>8 DEF e

(* A plane is staged, or is not.                                           *)
LEMMA StagedToTells ==
  ASSUME NEW s \in AgentStates, NEW st, NEW c, EntryKnown(s, c), c.progress \in Notes,
         NotesTell(s, c.progress, c.op), NEW plane \in Planes, NEW noted \in {"staged", "failed"}
  PROVE  FrameTells(s, st, StagedTo(c, plane, noted))
  <1> DEFINE notes == [c.progress EXCEPT ![plane] = noted]
             d == [c EXCEPT !.pc = "stage", !.todo = @ \ {plane}, !.progress = notes]
             entry == Noted(c.j, "membership_staged", notes)
  <1>1. /\ c \in Frames /\ c.j \in Journals /\ c.j.op = c.op /\ ReadAt(s, c.j)
        /\ OpenAt(s, c.j, c.op) /\ NotesTell(s, c.j.progress, c.op)
    BY DEF EntryKnown
  <1>2. notes \in Notes
    BY DEF Notes, Progress
  <1>3. NotesTell(s, notes, c.op)
    BY DEF Notes, NotesTell
  <1>4. StagedTo(c, plane, noted) \in {d, Writes(entry, "loop"), FailsAll(c.j, "loop")}
    BY DEF StagedTo, Noted
  <1> HIDE DEF notes
  <1>5. /\ "stage" \in CallStates /\ "stage" \in EntryPcs /\ "stage" \notin CommitPcs
        /\ "membership_staged" \in OpenPhases
    BY DEF CallStates, EntryPcs, CommitPcs, OpenPhases
  <1>6. /\ d \in Frames /\ d.pc = "stage" /\ d.op = c.op /\ d.j = c.j /\ d.progress = notes
    BY <1>1, <1>2, <1>5 DEF Frames
  <1>7. Says(s, c.j, entry)
    BY <1>1, <1>2, <1>3, <1>5, OpenPhasesTell, EntriesSay
  <1> HIDE DEF d, entry
  <1>8. EntryKnown(s, d)
    BY <1>6 DEF EntryKnown
  <1>9. FrameTells(s, st, d)
    BY <1>3, <1>5, <1>6, <1>8, EntryFrameTells DEF CommitPcs
  <1>10. FrameTells(s, st, Writes(entry, "loop")) /\ FrameTells(s, st, FailsAll(c.j, "loop"))
    BY <1>1, <1>7, WrittenTells, FailsAllTells
  <1> QED
    BY <1>4, <1>9, <1>10

(* What is noted of the planes with one more, and a plane that was not     *)
(* moved, unless the entry can no longer be written.                       *)
NotesOf(c, plane, noted) == [c.progress EXCEPT ![plane] = noted]
Unmoved(s, c, p) == ~MovedByMe(s, c.op, p) \/ c.op.token < s.max \/ s.journal.seq > c.j.seq
(* A plane is committed, or is not; the last one says how many arrived.    *)
LEMMA CommittedToTells ==
  ASSUME NEW s \in AgentStates, NEW st, NEW c, EntryKnown(s, c), c.pc = "commit",
         c.j.phase = "reload_observed", c.progress \in Notes,
         NEW plane \in Planes, NEW noted \in {"committed", "failed"},
         NotesTell(s, NotesOf(c, plane, noted), c.op),
         \A p \in (Planes \ c.todo) \cup {plane} :
           NotesOf(c, plane, noted)[p] = "committed" \/ Unmoved(s, c, p)
  PROVE  FrameTells(s, st, CommittedTo(c, plane, noted))
  <1> DEFINE notes == [c.progress EXCEPT ![plane] = noted]
             stuck == {p \in Planes : notes[p] # "committed"}
             phase == IF stuck = {} THEN "activated"
                      ELSE IF stuck = Planes THEN "failed" ELSE "partially_activated"
             d == [c EXCEPT !.todo = @ \ {plane}, !.progress = notes]
             entry == Noted(c.j, phase, notes)
  <1>1. /\ c \in Frames /\ c.j \in Journals /\ c.j.op = c.op /\ ReadAt(s, c.j)
        /\ OpenAt(s, c.j, c.op) /\ NotesTell(s, c.j.progress, c.op)
    BY DEF EntryKnown
  <1>2. notes \in Notes /\ phase \in Phases /\ stuck \in SUBSET Planes
    BY DEF Notes, Progress, Phases, TerminalPhases
  <1>3. /\ NotesTell(s, notes, c.op)
        /\ \A p \in (Planes \ c.todo) \cup {plane} : notes[p] = "committed" \/ Unmoved(s, c, p)
    BY DEF NotesOf
  <1>4. \/ CommittedTo(c, plane, noted) = d
        \/ /\ c.todo = {plane}
           /\ CommittedTo(c, plane, noted) \in
                {Writes(entry, "loop"), WritesAndFinishes(entry, stuck, "loop")}
    BY DEF CommittedTo, Noted
  <1>5. /\ phase = "activated" => \A p \in Planes : notes[p] = "committed"
        /\ phase = "failed" => \A p \in Planes : notes[p] # "committed"
        /\ phase \in {"partially_activated", "partial_exhausted"} =>
             \E p \in Planes : notes[p] = "committed"
    OBVIOUS
  <1> HIDE DEF notes, stuck, phase
  <1>6. d \in Frames /\ d.pc = c.pc /\ d.op = c.op /\ d.j = c.j /\ d.progress = notes
        /\ d.todo = c.todo \ {plane}
    BY <1>1, <1>2 DEF Frames
  <1> HIDE DEF d
  <1>7. FrameTells(s, st, d)
    <2>1. EntryKnown(s, d)
      BY <1>6 DEF EntryKnown
    <2>2. \A p \in Planes \ d.todo : Spared(s, d, p)
      BY <1>3, <1>6 DEF Spared, Unmoved
    <2>3. d.pc \in EntryPcs
      BY <1>6 DEF EntryPcs
    <2> QED
      BY <1>3, <1>6, <2>1, <2>2, <2>3, EntryFrameTells
  <1>8. ASSUME c.todo = {plane}
        PROVE  Says(s, c.j, entry)
    <2> SUFFICES ASSUME s.journal = c.j, ~(c.op.token < s.max)
                 PROVE  PhaseTells(s, phase, c.op)
      BY <1>1, <1>2, <1>3, EntriesSay
    <2>1. ~(s.journal.seq > c.j.seq)
      BY <1>1 DEF Journals
    <2>2. \A p \in Planes : notes[p] = "committed" \/ ~MovedByMe(s, c.op, p)
      BY <1>3, <1>8, <2>1 DEF Unmoved
    <2> QED
      BY <1>3, <1>5, <2>2 DEF PhaseTells, NotesTell
  <1> HIDE DEF entry
  <1>9. c.todo = {plane} => /\ FrameTells(s, st, Writes(entry, "loop"))
                            /\ FrameTells(s, st, WritesAndFinishes(entry, stuck, "loop"))
    BY <1>1, <1>2, <1>8, WrittenTells
  <1> QED
    BY <1>4, <1>7, <1>9

-----------------------------------------------------------------------------
(* The turns.                                                              *)

(* The journal, as the invariant knows it.                                 *)
LEMMA JournalKnown ==
  ASSUME ApplyInv, JournalInv, agent.journal # None
  PROVE  LET j == agent.journal IN
         /\ j \in Journals /\ j.op \in Ops /\ j.op \in AllOps /\ j.progress \in Notes
         /\ j.op.token \in Nat /\ j.op.token <= agent.max
         /\ ReadAt(agent, j) /\ EntryTells(agent, j) /\ NotesTell(agent, j.progress, j.op)
         /\ Unfinished(j) => OpenAt(agent, j, j.op)
  <1>1. agent.journal \in Journals /\ agent.journal.op.token <= agent.max
    BY DEF ApplyInv, AgentOk, AgentStates, ToldApart
  <1>2. /\ agent.journal.op \in Ops /\ agent.journal.op \in AllOps
        /\ agent.journal.progress \in Notes
    BY <1>1 DEF Journals, Notes, AllOps
  <1>3. agent.journal.op.token \in Nat
    BY <1>2, EnvelopeTypes
  <1>4. EntryTells(agent, agent.journal)
    BY DEF JournalInv, TaleOk, JournalTells
  <1> QED
    BY <1>1, <1>2, <1>3, <1>4 DEF ReadAt, OpenAt, EntryTells

(* A turn of a drive.                                                      *)
LEMMA DriveTurn ==
  ASSUME ApplyInv, JournalInv, NEW p \in Calls, NEW d, Turn(p, d), started' = started,
         Driving(call[p]) \/ ~Driving(d), FrameTells(agent, started, d)
  PROVE  JournalInv'
  BY TurnTells

(* The close of a journal with what the planes say.                        *)
LEMMA CloseTells ==
  ASSUME NEW s, NEW st, NEW op \in Ops, NEW phase \in Phases, PhaseTells(s, phase, op)
  PROVE  FrameTells(s, st, [InCall("close", op) EXCEPT !.next = phase])
  <1> DEFINE b == InCall("close", op)
             d == [b EXCEPT !.next = phase]
  <1>1. b \in Frames /\ b.pc = "close" /\ b.op = op
    BY InCallFields, PcsAreStates
  <1> HIDE DEF b
  <1>2. d.pc = "close" /\ d.op = op /\ d.next = phase
    BY <1>1 DEF Frames
  <1> HIDE DEF d
  <1>3. d.pc \notin EntryPcs \cup {"write", "signal"} \cup AbortPcs \cup {"recover_close"}
    BY <1>2 DEF EntryPcs, AbortPcs
  <1>4. ProgressPcs \subseteq EntryPcs /\ "commit" \in EntryPcs
    BY DEF ProgressPcs, EntryPcs
  <1>5. DriveTells(s, d)
    BY <1>2, <1>3, <1>4 DEF DriveTells, ReadsHold, NotesHold, WriteHolds, CloseHolds, SignalHolds
  <1>6. AsideHolds(s, st, d)
    BY <1>3, SilentFrame
  <1>7. FrameTells(s, st, d)
    BY <1>5, <1>6 DEF FrameTells
  <1> QED
    BY <1>7 DEF d, b

(* driveLoop's head: whatever it decides, it has just read the journal.    *)
LEMMA LoopHeadTells ==
  ASSUME ApplyInv, JournalInv, NEW p \in Calls, LoopHead(p)
  PROVE  JournalInv'
  <1> DEFINE j == agent.journal
             bound == call[p].op
             close == [InCall("close", j.op) EXCEPT !.next = ReachedPhase(agent)]
             stage == [InCall("stage", j.op) EXCEPT !.j = j, !.todo = Planes,
                                                    !.progress = j.progress]
             work == [InCall(j.phase, j.op) EXCEPT !.j = j]
  <1>1. /\ call[p].pc = "loop" /\ call[p].op \in Ops /\ started' = started
        /\ Driving(call[p]) /\ agent \in AgentStates
    BY PcsAreStates DEF LoopHead, At0, ApplyInv, FramesOk, FrameOk, PlainPcs, IdlePcs, aux, Driving,
       AgentOk
  <1>2. PICK d :
          /\ Turn(p, d)
          /\ \/ d \in {Idle, Finishes(bound, {}, "idle")}
             \/ /\ j # None
                /\ \/ d \in {Finishes(j.op, NotCommitted(j), "idle"), close}
                   \/ d = MembershipStaged(j)
                   \/ d = PartiallyActivated(j) /\ j.phase = "partially_activated"
                   \/ /\ d = stage /\ Unfinished(j)
                   \/ /\ d = work /\ Unfinished(j)
                      /\ j.phase \notin {"membership_staged", "partially_activated", "published"}
    BY DEF LoopHead, OwnsJournal
  <1>3. FrameTells(agent, started, d) => JournalInv'
    BY <1>1, <1>2, DriveTurn
  <1>4. CASE d \in {Idle, Finishes(bound, {}, "idle")}
    <2>1. FrameTells(agent, started, Finishes(bound, {}, "idle")) /\ FrameTells(agent, started, Idle)
      BY <1>1, SilentFinish, SilentIdle
    <2> QED
      BY <1>3, <1>4, <2>1
  <1>5. ASSUME j # None
        PROVE  /\ j \in Journals /\ j.op \in Ops /\ j.progress \in Notes
               /\ ReadAt(agent, j) /\ EntryTells(agent, j) /\ NotesTell(agent, j.progress, j.op)
               /\ Unfinished(j) => OpenAt(agent, j, j.op)
    BY <1>5, JournalKnown
  <1>6. CASE j # None /\ d = Finishes(j.op, NotCommitted(j), "idle")
    <2>1. NotCommitted(j) \in SUBSET Planes
      BY DEF NotCommitted
    <2> QED
      BY <1>3, <1>5, <1>6, <2>1, SilentFinish
  <1>7. CASE j # None /\ d = close
    BY <1>3, <1>5, <1>7, ReachedPhaseTells, CloseTells
  <1>8. CASE j # None /\ d = MembershipStaged(j)
    <2>1. Says(agent, j, Phased(j, "reload_intent"))
      BY <1>5, <1>8, OpenPhasesTell, EntriesSay DEF OpenPhases
    <2>2. FrameTells(agent, started, Writes(Phased(j, "reload_intent"), "loop"))
      BY <1>1, <1>5, <1>8, <2>1, WrittenTells
    <2> QED
      BY <1>3, <1>8, <2>2 DEF MembershipStaged, Phased
  <1>9. CASE j # None /\ d = PartiallyActivated(j) /\ j.phase = "partially_activated"
    <2>1. PhaseTells(agent, "partial_exhausted", j.op)
      BY <1>5, <1>9 DEF EntryTells, PhaseTells
    <2>2. NotCommitted(j) = {} => PhaseTells(agent, "activated", j.op)
      BY <1>5, <1>9 DEF NotCommitted, NotesTell, PhaseTells
    <2>3. /\ Says(agent, j, Phased(j, "partial_exhausted"))
          /\ NotCommitted(j) = {} => Says(agent, j, Phased(j, "activated"))
          /\ Says(agent, j, PhasedAndCounted(j, "reload_observed"))
      BY <1>5, <1>9, <2>1, <2>2, OpenPhasesTell, EntriesSay DEF OpenPhases, Phases, TerminalPhases
    <2>4. NotCommitted(j) \in SUBSET Planes
      BY DEF NotCommitted
    <2>5. /\ FrameTells(agent, started, WritesAndFinishes(Phased(j, "partial_exhausted"), NotCommitted(j), "idle"))
          /\ NotCommitted(j) = {} => FrameTells(agent, started, Writes(Phased(j, "activated"), "loop"))
          /\ FrameTells(agent, started, Writes(PhasedAndCounted(j, "reload_observed"), "loop"))
      BY <1>1, <1>5, <1>9, <2>3, <2>4, WrittenTells
    <2>6. \/ d = WritesAndFinishes(Phased(j, "partial_exhausted"), NotCommitted(j), "idle")
          \/ NotCommitted(j) = {} /\ d = Writes(Phased(j, "activated"), "loop")
          \/ d = Writes(PhasedAndCounted(j, "reload_observed"), "loop")
      BY <1>9 DEF PartiallyActivated, Phased, PhasedAndCounted
    <2> QED
      BY <1>3, <2>5, <2>6
  <1>10. CASE j # None /\ d = stage /\ Unfinished(j)
    <2> DEFINE b == InCall("stage", j.op)
    <2>1. /\ "stage" \in EntryPcs /\ "stage" \in CallStates /\ "stage" \notin CommitPcs
          /\ "stage" # "commit"
      BY DEF EntryPcs, CallStates, CommitPcs
    <2>2. b \in Frames /\ b.pc = "stage" /\ b.op = j.op
      BY <1>5, <1>10, <2>1, InCallFields
    <2>3. d = [b EXCEPT !.j = j, !.todo = Planes, !.progress = j.progress]
      BY <1>10
    <2> HIDE DEF b
    <2>4. d \in Frames /\ d.pc = b.pc /\ d.op = b.op /\ d.j = j /\ d.progress = j.progress
      BY <1>5, <1>10, <2>2, <2>3 DEF Frames
    <2>5. EntryKnown(agent, d)
      BY <1>5, <1>10, <2>2, <2>4 DEF EntryKnown
    <2>6. FrameTells(agent, started, d)
      BY <1>5, <1>10, <2>1, <2>2, <2>4, <2>5, EntryFrameTells
    <2> QED
      BY <1>3, <2>6
  <1>11. CASE /\ j # None /\ d = work /\ Unfinished(j)
              /\ j.phase \notin {"membership_staged", "partially_activated", "published"}
    <2> DEFINE b == InCall(j.phase, j.op)
    <2>1. /\ j.phase \in {"preflight", "publish_intent", "reload_intent", "reload_observed"}
      BY <1>5, <1>11 DEF Journals, Unfinished, Phases
    <2>2. /\ j.phase \in EntryPcs /\ j.phase \in CallStates /\ j.phase \notin ProgressPcs
          /\ j.phase # "commit"
      BY <2>1 DEF EntryPcs, CallStates, ProgressPcs
    <2>3. j.phase \in CommitPcs => j.phase = "reload_observed"
      BY <2>1 DEF CommitPcs
    <2>4. b \in Frames /\ b.pc = j.phase /\ b.op = j.op
      BY <1>5, <1>11, <2>2, InCallFields
    <2>5. d = [b EXCEPT !.j = j]
      BY <1>11
    <2> HIDE DEF b
    <2>6. d \in Frames /\ d.pc = b.pc /\ d.op = b.op /\ d.j = j
      BY <1>5, <1>11, <2>4, <2>5 DEF Frames
    <2>7. EntryKnown(agent, d)
      BY <1>5, <1>11, <2>4, <2>6 DEF EntryKnown
    <2>8. FrameTells(agent, started, d)
      BY <2>2, <2>3, <2>4, <2>6, <2>7, EntryFrameTells
    <2> QED
      BY <1>3, <2>8
  <1> QED
    BY <1>2, <1>4, <1>6, <1>7, <1>8, <1>9, <1>10, <1>11

(* What a frame on its entry may write: a phase on the way, the count of   *)
(* a reload; or it fails the operation.                                    *)
LEMMA EntryWrites ==
  ASSUME NEW s \in AgentStates, NEW st, NEW c, EntryKnown(s, c), JournalTells(s)
  PROVE  /\ \A phase \in OpenPhases :
              FrameTells(s, st, Writes([c.j EXCEPT !.phase = phase], "loop"))
         /\ FrameTells(s, st, Writes([c.j EXCEPT !.attempts = @ + 1], "signal"))
         /\ FrameTells(s, st, FailsAll(c.j, "loop"))
  <1>1. /\ c.j \in Journals /\ c.j.op = c.op /\ ReadAt(s, c.j) /\ OpenAt(s, c.j, c.op)
        /\ NotesTell(s, c.j.progress, c.op)
    BY DEF EntryKnown
  <1>2. ASSUME NEW phase \in OpenPhases
        PROVE  FrameTells(s, st, Writes([c.j EXCEPT !.phase = phase], "loop"))
    <2>1. Says(s, c.j, Phased(c.j, phase))
      BY <1>1, OpenPhasesTell, EntriesSay DEF Journals, Notes
    <2>2. FrameTells(s, st, Writes(Phased(c.j, phase), "loop"))
      BY <1>1, <2>1, WrittenTells
    <2> QED
      BY <2>2 DEF Phased
  <1>3. FrameTells(s, st, Writes([c.j EXCEPT !.attempts = @ + 1], "signal"))
    <2> DEFINE e == Counted(c.j)
    <2>1. s.journal = c.j => EntryTells(s, c.j)
      BY <1>1, NoneAssumption DEF ReadAt, JournalTells
    <2>2. "published" \in Phases /\ c.j.progress \in Notes
      BY <1>1 DEF Phases, Journals, Notes
    <2>3. Says(s, c.j, e)
      BY <1>1, <2>1, <2>2, EntriesSay
    <2>4. e.op = c.j.op /\ e.phase = c.j.phase /\ (Unfinished(c.j) => Unfinished(e))
      <3>1. e \in Journals /\ e.op = c.j.op
        BY <1>1, <2>2, EntryTypes DEF EntryOf
      <3>2. e.phase = c.j.phase /\ e # None
        BY <1>1, <3>1, NoneAssumption DEF Counted, Journals
      <3> QED
        BY <3>1, <3>2 DEF Unfinished
    <2> HIDE DEF e
    <2>5. Unfinished(e) \/ SealedOff(s, e.op)
      BY <1>1, <2>4 DEF OpenAt
    <2>6. FrameTells(s, st, Writes(e, "signal"))
      BY <1>1, <2>3, <2>5, WrittenTells
    <2> QED
      BY <2>6 DEF e, Counted
  <1>4. FrameTells(s, st, FailsAll(c.j, "loop"))
    BY <1>1, FailsAllTells
  <1> QED
    BY <1>2, <1>3, <1>4

(* The phases of the journal that only read.                               *)
LEMMA PhaseTurnTells ==
  ASSUME ApplyInv, JournalInv, NEW p \in Calls, NEW blind \in BOOLEAN,
         \/ Preflight(p) \/ PreflightRefuses(p) \/ PublishIntent(p) \/ Publish(p)
         \/ ReloadIntent(p, blind) \/ ReloadObserved(p) \/ AwaitCommit(p, blind)
  PROVE  JournalInv'
  <1> DEFINE c == call[p]
  <1>1. /\ {"publish_intent", "published", "reload_intent", "reload_observed"} \subseteq OpenPhases
        /\ {"record_intent", "await_commit"} \subseteq EntryPcs \ ProgressPcs
        /\ {"preflight", "publish_intent", "publish", "reload_intent", "reload_observed",
            "await_commit"} \subseteq EntryPcs
        /\ "record_intent" \notin CommitPcs /\ {"reload_observed", "await_commit"} \subseteq CommitPcs
    BY DEF OpenPhases, EntryPcs, ProgressPcs, CommitPcs
  <1>2. started' = started
    BY DEF Preflight, PreflightRefuses, PublishIntent, Publish, ReloadIntent, ReloadObserved,
       AwaitCommit, aux, Fault
  <1>3. c.pc \in EntryPcs
    BY <1>1 DEF Preflight, PreflightRefuses, PublishIntent, Publish, ReloadIntent, ReloadObserved,
       AwaitCommit, At0
  <1>4. /\ agent \in AgentStates /\ JournalTells(agent) /\ FrameOk(c) /\ DriveTells(agent, c)
    BY DEF ApplyInv, AgentOk, FramesOk, JournalInv, TaleOk, FrameTells
  <1>5. /\ EntryKnown(agent, c) /\ Driving(c)
        /\ c.pc \in CommitPcs => c.j.phase = "reload_observed"
    BY <1>3, <1>4, AtAnEntry
  <1>6. \A d : Turn(p, d) /\ FrameTells(agent, started, d) => JournalInv'
    BY <1>2, <1>5, DriveTurn
  <1>7. /\ \A phase \in OpenPhases :
             FrameTells(agent, started, Writes([c.j EXCEPT !.phase = phase], "loop"))
        /\ FrameTells(agent, started, Writes([c.j EXCEPT !.attempts = @ + 1], "signal"))
        /\ FrameTells(agent, started, FailsAll(c.j, "loop"))
    BY <1>4, <1>5, EntryWrites
  <1>8. FrameTells(agent, started, Idle)
    BY SilentIdle
  <1>9. \A pc \in EntryPcs \ ProgressPcs : (pc \in CommitPcs => c.j.phase = "reload_observed") =>
          FrameTells(agent, started, [c EXCEPT !.pc = pc])
    BY <1>5, MovesOnTells
  <1>10. CASE Preflight(p) \/ PreflightRefuses(p)
    BY <1>1, <1>6, <1>7, <1>8, <1>10 DEF Preflight, PreflightRefuses
  <1>11. CASE PublishIntent(p)
    BY <1>1, <1>6, <1>7, <1>9, <1>11 DEF PublishIntent
  <1>12. CASE Publish(p)
    BY <1>1, <1>6, <1>7, <1>8, <1>12 DEF Publish
  <1>13. CASE ReloadIntent(p, blind)
    BY <1>1, <1>6, <1>7, <1>13 DEF ReloadIntent
  <1>14. CASE ReloadObserved(p)
    <2>1. c.j.phase = "reload_observed"
      BY <1>1, <1>5, <1>14 DEF ReloadObserved, At0
    <2> QED
      BY <1>1, <1>6, <1>7, <1>9, <1>14, <2>1 DEF ReloadObserved
  <1>15. CASE AwaitCommit(p, blind)
    <2> DEFINE d == [c EXCEPT !.pc = "commit", !.todo = Planes, !.progress = c.j.progress]
    <2>1. Turn(p, d) \/ Turn(p, Writes([c.j EXCEPT !.phase = "reload_intent"], "loop"))
      BY <1>15 DEF AwaitCommit
    <2>2. c.j.phase = "reload_observed"
      BY <1>1, <1>5, <1>15 DEF AwaitCommit, At0
    <2>3. /\ c \in Frames /\ c.j \in Journals /\ c.j.op = c.op /\ ReadAt(agent, c.j)
          /\ OpenAt(agent, c.j, c.op) /\ NotesTell(agent, c.j.progress, c.op)
      BY <1>5 DEF EntryKnown
    <2>4. c.j.progress \in Notes /\ "commit" \in CallStates /\ "commit" \in EntryPcs
      BY <2>3 DEF Journals, Notes, CallStates, EntryPcs
    <2> HIDE DEF c
    <2>5. /\ d \in Frames /\ d.pc = "commit" /\ d.op = c.op /\ d.j = c.j /\ d.progress = c.j.progress
          /\ d.todo = Planes
      BY <2>3, <2>4 DEF Frames
    <2> HIDE DEF d
    <2>6. EntryKnown(agent, d)
      BY <2>3, <2>5 DEF EntryKnown
    <2>7. FrameTells(agent, started, d)
      BY <2>2, <2>3, <2>4, <2>5, <2>6, EntryFrameTells
    <2> QED
      BY <1>1, <1>6, <1>7, <2>1, <2>7
  <1> QED
    BY <1>10, <1>11, <1>12, <1>13, <1>14, <1>15

(* A drive that runs out of its budget fails the operation of the journal. *)
LEMMA OwnedIsOpen ==
  ASSUME ApplyInv, JournalInv, NEW p \in Calls,
         call[p].pc \in {"preflight", "stage_membership", "signal"},
         OwnsJournal(agent.journal, call[p].op)
  PROVE  OpenAt(agent, agent.journal, agent.journal.op)
  <1> DEFINE c == call[p]
             j == agent.journal
  <1>1. FrameOk(c) /\ DriveTells(agent, c) /\ c.op \in Ops
    BY DEF ApplyInv, FramesOk, JournalInv, FrameTells, FrameOk, IdlePcs
  <1>2. j # None /\ j.op \in Ops /\ Who(c.op) = Who(j.op)
    BY JournalKnown DEF OwnsJournal
  <1>3. SealedOff(agent, c.op) => SealedOff(agent, j.op)
    BY <1>1, <1>2, TwinsSealedAlike
  <1>4. (j # None /\ Unfinished(j)) \/ SealedOff(agent, c.op)
    <2>1. CASE c.pc = "signal"
      BY <1>1, <1>2, <2>1 DEF DriveTells, SignalHolds
    <2>2. CASE c.pc \in EntryPcs
      <3>1. OpenAt(agent, c.j, c.op)
        BY <1>1, <2>2 DEF DriveTells, ReadsHold
      <3> QED
        BY <1>2, <3>1 DEF OpenAt
    <2> QED
      BY <2>1, <2>2 DEF EntryPcs
  <1> QED
    BY <1>2, <1>3, <1>4 DEF OpenAt

(* The other turns.                                                        *)
LEMMA OtherTurnTells ==
  ASSUME ApplyInv, JournalInv, NEW p \in Calls, NEW blind \in BOOLEAN,
         \/ FailRead(p) \/ StageMembership(p) \/ SignalReload(p) \/ AwaitReload(p, blind)
         \/ EffectTimesOut(p) \/ EffectThrows(p) \/ StartRecover(p) \/ StartAbort(p)
  PROVE  JournalInv'
  <1> DEFINE c == call[p]
             j == agent.journal
  <1>1. started' = started
    BY DEF FailRead, StageMembership, SignalReload, AwaitReload, EffectTimesOut, EffectThrows,
       StartRecover, StartAbort, aux, Fault
  <1>2. /\ agent \in AgentStates /\ JournalTells(agent) /\ FrameOk(c) /\ DriveTells(agent, c)
    BY DEF ApplyInv, AgentOk, FramesOk, JournalInv, TaleOk, FrameTells
  <1>3. \A d : Turn(p, d) /\ FrameTells(agent, started, d) /\ (Driving(c) \/ ~Driving(d)) => JournalInv'
    BY <1>1, DriveTurn
  <1>4. FrameTells(agent, started, Idle) /\ ~Driving(Idle)
    BY SilentIdle
  <1>5. j # None => /\ j \in Journals /\ j.op \in Ops /\ j.progress \in Notes
                    /\ j.op.token \in Nat /\ ReadAt(agent, j) /\ EntryTells(agent, j)
                    /\ NotesTell(agent, j.progress, j.op)
    BY JournalKnown
  <1>6. /\ {"fail_read", "stage_membership", "preflight", "publish"} \subseteq EntryPcs
        /\ {"fail_read", "stage_membership"} \subseteq ProgressPcs
    BY DEF EntryPcs, ProgressPcs
  <1>7. c.pc \in EntryPcs \cup {"signal", "await"} => Driving(c)
    BY DEF Driving
  <1> HIDE DEF c, j
  <1>8. CASE FailRead(p)
    <2> DEFINE entry == Noted(c.j, ReachedPhase(agent), c.progress)
    <2>1. c.pc = "fail_read" /\ Turn(p, WritesAndFinishes(entry, {}, c.after))
      BY <1>8 DEF FailRead, At0, Noted, c
    <2>2. EntryKnown(agent, c) /\ c.progress \in Notes /\ NotesTell(agent, c.progress, c.op)
      BY <1>2, <1>6, <2>1, AtAnEntry
    <2>3. c.after \in {"idle", "loop"} /\ {} \in SUBSET Planes
      BY <1>2 DEF FrameOk, Frames
    <2>4. /\ c.j \in Journals /\ c.j.op = c.op /\ ReadAt(agent, c.j)
      BY <2>2 DEF EntryKnown
    <2>5. ReachedPhase(agent) \in Phases
          /\ (j = c.j => PhaseTells(agent, ReachedPhase(agent), c.j.op))
      BY ReachedPhaseTells DEF j
    <2>6. Says(agent, c.j, entry)
      BY <2>2, <2>4, <2>5, EntriesSay DEF j
    <2> HIDE DEF entry
    <2>7. FrameTells(agent, started, WritesAndFinishes(entry, {}, c.after))
      BY <1>2, <2>3, <2>4, <2>6, WrittenTells
    <2> QED
      BY <1>3, <1>6, <1>7, <2>1, <2>7
  <1>9. CASE StageMembership(p)
    <2>1. PICK noted \in {"staged", "failed"} : Turn(p, StagedTo(c, NextPlane(c.todo), noted))
      BY <1>9 DEF StageMembership, c
    <2>2. c.pc = "stage_membership"
      BY <1>9 DEF StageMembership, At0, c
    <2>3. EntryKnown(agent, c) /\ c.progress \in Notes /\ NotesTell(agent, c.progress, c.op)
      BY <1>2, <1>6, <2>2, AtAnEntry
    <2>4. FrameTells(agent, started, StagedTo(c, NextPlane(c.todo), noted))
      BY <1>2, <2>3, PlanesAre, StagedToTells
    <2> QED
      BY <1>3, <1>6, <1>7, <2>1, <2>2, <2>4
  <1>10. CASE SignalReload(p)
    <2>1. (Turn(p, Idle) \/ Turn(p, InCall("await", c.op))) /\ c.pc = "signal"
      BY <1>10 DEF SignalReload, At0, c
    <2>2. c.op \in Ops
      BY <1>2, <2>1 DEF FrameOk, IdlePcs
    <2>3. FrameTells(agent, started, InCall("await", c.op))
      BY <2>2, SilentCall DEF SilentPcs
    <2> QED
      BY <1>3, <1>4, <1>7, <2>1, <2>3
  <1>11. CASE AwaitReload(p, blind)
    <2>1. /\ c.pc = "await"
          /\ \/ Turn(p, Loop(c.op))
             \/ j # None /\ Turn(p, Writes([j EXCEPT !.phase = "reload_observed"], "loop"))
             \/ j # None /\ Turn(p, Writes(j, "loop"))
      BY <1>11 DEF AwaitReload, OwnsJournal, At0, c, j
    <2>2. c.op \in Ops
      BY <1>2, <2>1 DEF FrameOk, IdlePcs
    <2>3. FrameTells(agent, started, Loop(c.op))
      BY <2>2, SilentCall DEF SilentPcs, Loop
    <2>4. ASSUME j # None
          PROVE  /\ FrameTells(agent, started, Writes([j EXCEPT !.phase = "reload_observed"], "loop"))
                 /\ FrameTells(agent, started, Writes(j, "loop"))
      <3>1. Says(agent, j, Phased(j, "reload_observed")) /\ Says(agent, j, j)
        BY <1>5, <2>4, OpenPhasesTell, EntriesSay DEF OpenPhases
      <3>2. /\ FrameTells(agent, started, Writes(Phased(j, "reload_observed"), "loop"))
            /\ FrameTells(agent, started, Writes(j, "loop"))
        BY <1>2, <1>5, <2>4, <3>1, WrittenTells
      <3> QED
        BY <3>2 DEF Phased
    <2> QED
      BY <1>3, <1>7, <2>1, <2>3, <2>4
  <1>12. CASE EffectTimesOut(p)
    <2>1. /\ c.pc \in {"preflight", "stage_membership", "signal"}
          /\ Turn(p, Idle) \/ (OwnsJournal(j, c.op) /\ Turn(p, FailsAll(j, "idle")))
      BY <1>12 DEF EffectTimesOut, c, j
    <2>2. ASSUME OwnsJournal(j, c.op)
          PROVE  FrameTells(agent, started, FailsAll(j, "idle"))
      <3>1. j # None /\ OpenAt(agent, j, j.op)
        BY <2>1, <2>2, OwnedIsOpen DEF OwnsJournal, c, j
      <3> QED
        BY <1>5, <3>1, FailsAllTells
    <2> QED
      BY <1>3, <1>4, <1>6, <1>7, <2>1, <2>2
  <1>13. CASE EffectThrows(p)
    BY <1>3, <1>4, <1>13 DEF EffectThrows
  <1>14. CASE StartRecover(p)
    <2>1. \/ Turn(p, InCall("recover_idle", None))
          \/ j # None /\ Turn(p, Finishes(j.op, NotCommitted(j), "idle"))
          \/ j # None /\ j.op.token < agent.max /\ Turn(p, InCall("recover_close", j.op))
          \/ j # None /\ Turn(p, InCall("reclaim", j.op))
      BY <1>14 DEF StartRecover, j
    <2>2. FrameTells(agent, started, InCall("recover_idle", None)) /\ ~Driving(InCall("recover_idle", None))
      BY SilentCall DEF SilentPcs
    <2>3. j # None => /\ FrameTells(agent, started, Finishes(j.op, NotCommitted(j), "idle"))
                      /\ ~Driving(Finishes(j.op, NotCommitted(j), "idle"))
      <3>1. NotCommitted(j) \in SUBSET Planes
        BY DEF NotCommitted
      <3> QED
        BY <1>5, <3>1, SilentFinish
    <2>4. j # None => /\ FrameTells(agent, started, InCall("reclaim", j.op))
                      /\ ~Driving(InCall("reclaim", j.op))
      BY <1>5, SilentCall DEF SilentPcs
    <2>5. ASSUME j # None, j.op.token < agent.max
          PROVE  FrameTells(agent, started, InCall("recover_close", j.op)) /\ ~Driving(InCall("recover_close", j.op))
      <3> DEFINE d == InCall("recover_close", j.op)
      <3>1. d.pc = "recover_close" /\ d.op = j.op
        BY <1>5, <2>5, InCallFields DEF CallStates
      <3> HIDE DEF d
      <3>2. d.pc \notin EntryPcs \cup {"write", "close", "signal", "loop", "await", "finish"} \cup AbortPcs
        BY <3>1 DEF EntryPcs, AbortPcs
      <3>3. DriveTells(agent, d) /\ ~Driving(d)
        BY <3>2, SilentFrame DEF Driving
      <3>4. AsideHolds(agent, started, d)
        BY <2>5, <3>1 DEF AsideHolds, AbortPcs
      <3>5. FrameTells(agent, started, d) /\ ~Driving(d)
        BY <3>3, <3>4 DEF FrameTells
      <3> QED
        BY <3>5 DEF d
    <2> QED
      BY <1>3, <2>1, <2>2, <2>3, <2>4, <2>5
  <1>15. CASE StartAbort(p)
    <2>1. PICK op \in started : Turn(p, [InCall("abort", op) EXCEPT !.todo = Planes])
      BY <1>15 DEF StartAbort
    <2> DEFINE b == InCall("abort", op)
               d == [b EXCEPT !.todo = Planes]
    <2>2. b \in Frames /\ b.pc = "abort" /\ b.op = op
      BY <2>1, InCallFields DEF ApplyInv, WorldOk, CallStates
    <2> HIDE DEF b
    <2>3. d.pc = "abort" /\ d.todo = Planes
      BY <2>2 DEF Frames
    <2>4. Turn(p, d)
      BY <2>1 DEF b
    <2> HIDE DEF d
    <2>5. d.pc \notin EntryPcs \cup {"write", "close", "signal", "loop", "await", "finish"}
      BY <2>3 DEF EntryPcs
    <2>6. DriveTells(agent, d) /\ ~Driving(d)
      BY <2>5, SilentFrame DEF Driving
    <2>7. AsideHolds(agent, started, d)
      BY <2>3 DEF AsideHolds
    <2> QED
      BY <1>3, <2>4, <2>6, <2>7 DEF FrameTells
  <1> QED
    BY <1>8, <1>9, <1>10, <1>11, <1>12, <1>13, <1>14, <1>15

-----------------------------------------------------------------------------
(* The calls of the agent.                                                 *)

(* A call at work, or an abort, makes a move of the agent.                 *)
LEMMA OwnMoves ==
  ASSUME ApplyInv, started \subseteq started', NEW p \in Calls,
         call[p].pc \in ActivePcs \cup AbortPcs, NEW t, OpCall(agent, t, call[p].op)
  PROVE  Move(agent, t)
  <1> DEFINE op == call[p].op
  <1>1. op \in Ops /\ op.token \in Nat /\ agent.max \in Nat /\ AgentOk(agent)
    BY PcsAreApart, EnvelopeTypes DEF ApplyInv, FramesOk, FrameOk, AgentOk, AgentStates, AllOps
  <1>2. op.token <= agent.max \/ Unfenced(agent)
    <2>1. CASE call[p].pc \in ActivePcs
      BY <2>1 DEF ApplyInv, ToldApart
    <2>2. CASE call[p].pc \in AbortPcs
      <3>1. op \in started' /\ (FenceFirst => op.token <= agent.max)
        BY <2>2 DEF ApplyInv, ToldApart
      <3> QED
        BY <1>1, <3>1 DEF Unfenced
    <2> QED
      BY <2>1, <2>2
  <1> QED
    BY <1>1, <1>2, OpCallMoves

(* A call with no news tells the truth; one that leaves the journal alone  *)
(* stands aside as well.                                                   *)
LEMMA TellingIsTrue ==
  ASSUME ApplyInv, JournalInv, NEW t, Move(agent, t)
  PROVE  /\ Tells(agent, t) => Truly(t)
         /\ Untold(agent, t) => Truly(t) /\ Aside(agent, t)
  <1>1. agent \in AgentStates /\ TaleOk(agent)
    BY DEF ApplyInv, AgentOk, JournalInv
  <1>2. Tells(agent, t) => Truly(t)
    BY <1>1, TaleByTells DEF Truly
  <1>3. Untold(agent, t) => Tells(agent, t) /\ Aside(agent, t)
    BY DEF Untold, Tells, JournalGoesOn, NoNews, Aside
  <1> QED
    BY <1>2, <1>3

(* What a call knew it knows when a call aside has landed.                 *)
LEMMA OwnKept ==
  ASSUME ApplyInv, JournalInv, started \subseteq started', NEW p \in Calls,
         NEW t, Aside(agent, t), NEW u, Lands(t, u)
  PROVE  FrameTells(u, started', call[p])
  <1>1. FrameOk(call[p]) /\ FrameTells(agent, started, call[p])
    BY DEF ApplyInv, FramesOk, JournalInv
  <1>2. GoesOn(agent, u, started) /\ Aside(agent, u)
    BY DEF Lands
  <1> QED
    BY <1>1, <1>2, DriveKept, AsideKept DEF FrameTells

(* A call that has no news, and goes on silently.                          *)
LEMMA UntoldCallTells ==
  ASSUME ApplyInv, JournalInv, started \subseteq started', NEW p \in Calls,
         NEW calls, NEW accepted, NEW rejected, AgentCall(p, calls, accepted, rejected),
         \A t \in calls : Move(agent, t) /\ Untold(agent, t),
         Driving(accepted) => Driving(call[p]), Driving(rejected) => Driving(call[p]),
         \A t \in calls : \A u : Lands(t, u) /\ Aside(agent, t) => FrameTells(u, started', accepted),
         calls = {} => FrameTells(agent, started', rejected)
  PROVE  JournalInv'
  <1>1. \A t \in calls : Truly(t) /\ Aside(agent, t)
    BY TellingIsTrue
  <1>2. \A t \in calls : Truly(t) /\ (Driving(call[p]) \/ Aside(agent, t))
    BY <1>1
  <1>3. \A t \in calls : \A u : Lands(t, u) => FrameTells(u, started', accepted)
    BY <1>1
  <1> QED
    BY <1>2, <1>3, CallTells

(* The calls on the hold have no news.                                     *)
LEMMA HoldStepTells ==
  ASSUME ApplyInv, JournalInv, NEW p \in Calls,
         RecoverIdle(p) \/ RecoverFree(p) \/ Reclaim(p) \/ Finish(p) \/ RecordIntent(p)
  PROVE  JournalInv'
  <1> DEFINE c == call[p]
  <1>1. started \subseteq started' /\ started' = started
    BY DEF RecoverIdle, RecoverFree, Reclaim, Finish, RecordIntent, aux
  <1>2. /\ agent \in AgentStates /\ AgentOk(agent) /\ FrameOk(c) /\ DriveTells(agent, c)
    BY DEF ApplyInv, AgentOk, FramesOk, JournalInv, FrameTells
  <1>3. {"recover_free", "reclaim", "finish", "record_intent"} \subseteq ActivePcs
    BY DEF ActivePcs, CallStates, IdlePcs, AbortPcs
  <1>4. \A t : c.pc \in ActivePcs /\ OpCall(agent, t, c.op) => Move(agent, t)
    BY <1>1, OwnMoves
  <1>5. \A t : \/ t \in RecordPublishIntent(agent, c.op) \/ t \in ReleaseHolderSlots(agent, c.op)
               \/ t \in ReleaseStaleSlots(agent, c.op) \/ t \in ReclaimOperation(agent, c.op)
               \/ t \in ReleaseIdleHolder(agent)
               => Untold(agent, t)
    BY <1>2, HoldCallsAreUntold
  <1>6. \A s : FrameTells(s, started', Idle) /\ ~Driving(Idle)
    BY SilentIdle
  <1>7. c.pc \in ActivePcs => c.op \in Ops
    BY <1>2, PcsAreApart DEF FrameOk
  <1> HIDE DEF c
  <1>8. CASE RecoverIdle(p)
    <2>1. AgentCall(p, ReleaseIdleHolder(agent), Idle, Idle)
      BY <1>8 DEF RecoverIdle
    <2>2. \A t \in ReleaseIdleHolder(agent) : Move(agent, t) /\ Untold(agent, t)
      BY <1>2, <1>5, OtherCallsMove
    <2> QED
      BY <1>1, <1>6, <2>1, <2>2, UntoldCallTells
  <1>9. CASE RecoverFree(p)
    <2>1. c.pc = "recover_free" /\ AgentCall(p, ReleaseStaleSlots(agent, c.op), Idle, Idle)
      BY <1>9 DEF RecoverFree, At0, c
    <2>2. \A t \in ReleaseStaleSlots(agent, c.op) : Move(agent, t) /\ Untold(agent, t)
      BY <1>3, <1>4, <1>5, <2>1 DEF OpCall
    <2> QED
      BY <1>1, <1>6, <2>1, <2>2, UntoldCallTells
  <1>10. CASE Reclaim(p)
    <2>1. /\ c.pc = "reclaim"
          /\ AgentCall(p, ReclaimOperation(agent, c.op), InCall("queue", c.op), Idle)
      BY <1>10 DEF Reclaim, At0, c
    <2>2. \A t \in ReclaimOperation(agent, c.op) : Move(agent, t) /\ Untold(agent, t)
      BY <1>3, <1>4, <1>5, <2>1 DEF OpCall
    <2>3. /\ \A s : FrameTells(s, started', InCall("queue", c.op))
          /\ ~Driving(InCall("queue", c.op))
      BY <1>3, <1>7, <2>1, SilentCall DEF SilentPcs
    <2> QED
      BY <1>1, <1>6, <2>1, <2>2, <2>3, UntoldCallTells
  <1>11. CASE Finish(p)
    <2> DEFINE op == IF c.after = "idle" THEN None ELSE c.op
               after == InCall(c.after, op)
    <2>1. c.pc = "finish" /\ AgentCall(p, FinishOperation(agent, c.op, c.todo), after, Idle)
      BY <1>11 DEF Finish, At0, c
    <2>2. c.after \in {"idle", "loop"} /\ op \in Ops \cup {None}
      BY <1>2, <1>3, <1>7, <2>1 DEF FrameOk, Frames
    <2>3. \A t \in FinishOperation(agent, c.op, c.todo) : Move(agent, t) /\ Untold(agent, t)
      BY <1>2, <1>3, <1>4, <2>1, FinishIsUntold DEF OpCall
    <2>4. /\ \A s : FrameTells(s, started', after)
          /\ Driving(after) => c.after \in {"loop", "await"}
      BY <2>2, SilentCall DEF SilentPcs
    <2>5. Driving(after) => Driving(call[p])
      BY <2>1, <2>2, <2>4 DEF Driving, c
    <2> HIDE DEF after
    <2> QED
      BY <1>1, <1>6, <2>1, <2>3, <2>4, <2>5, UntoldCallTells
  <1>12. CASE RecordIntent(p)
    <2> DEFINE d == [c EXCEPT !.pc = "publish"]
    <2>1. c.pc = "record_intent" /\ AgentCall(p, RecordPublishIntent(agent, c.op), d, Idle)
      BY <1>12 DEF RecordIntent, At0, c
    <2>2. c.pc \in EntryPcs /\ "publish" \in EntryPcs \ ProgressPcs /\ "publish" \notin CommitPcs
      BY <2>1 DEF EntryPcs, ProgressPcs, CommitPcs
    <2>3. \A t \in RecordPublishIntent(agent, c.op) : Move(agent, t) /\ Untold(agent, t)
      BY <1>3, <1>4, <1>5, <2>1 DEF OpCall
    <2>4. ASSUME NEW t, NEW u, Lands(t, u), Aside(agent, t)
          PROVE  FrameTells(u, started', d)
      <3>1. FrameTells(u, started', c)
        BY <1>1, <2>4, OwnKept DEF c
      <3>2. EntryKnown(u, c)
        BY <1>2, <2>2, <3>1, AtAnEntry DEF FrameTells
      <3> QED
        BY <2>2, <3>2, MovesOnTells
    <2>5. Driving(c)
      BY <2>2 DEF Driving
    <2> HIDE DEF d
    <2> QED
      BY <1>1, <1>6, <2>1, <2>3, <2>4, <2>5, UntoldCallTells DEF c
  <1> QED
    BY <1>8, <1>9, <1>10, <1>11, <1>12

(* A journal is closed with a true phase: for a drive, or for an operation *)
(* that is sealed off.                                                     *)
LEMMA ClosingTells ==
  ASSUME NEW s \in AgentStates, JournalTells(s), NEW op \in Ops, NEW how \in Phases,
         OwnsJournal(s.journal, op) => PhaseTells(s, how, op), NEW t \in CloseJournal(s, op, how)
  PROVE  /\ Tells(s, t)
         /\ (OwnsJournal(s.journal, op) => SealedOff(s, op)) => Aside(s, t)
  <1>1. Tells(s, t) /\ (t.journal = s.journal \/ OwnsJournal(s.journal, op))
    BY CloseJournalTells
  <1>2. t.max = s.max /\ t.terminal = s.terminal /\ t.planes = s.planes
    BY DEF CloseJournal, AgentStates
  <1>3. ASSUME OwnsJournal(s.journal, op), SealedOff(s, op)
        PROVE  SealedOff(t, s.journal.op)
    <2>1. s.journal.op \in Ops /\ Who(s.journal.op) = Who(op)
      BY <1>3 DEF OwnsJournal, AgentStates, Journals
    <2>2. SealedOff(s, s.journal.op)
      BY <1>3, <2>1, TwinsSealedAlike
    <2> QED
      BY <1>2, <2>2 DEF SealedOff, Sealed, Decided, IsPast
  <1>4. (OwnsJournal(s.journal, op) => SealedOff(s, op)) => Aside(s, t)
    BY <1>1, <1>3 DEF Aside, Tells, NoNews
  <1> QED
    BY <1>1, <1>4

(* The calls that close the journal, or write it.                          *)
LEMMA JournalStepTells ==
  ASSUME ApplyInv, JournalInv, NEW p \in Calls,
         CloseAndFinish(p) \/ RecoverClose(p) \/ AbortClose(p) \/ WriteEntry(p)
  PROVE  JournalInv'
  <1> DEFINE c == call[p]
             j == agent.journal
  <1>1. started \subseteq started' /\ started' = started
    BY DEF CloseAndFinish, RecoverClose, AbortClose, WriteEntry, aux
  <1>2. /\ agent \in AgentStates /\ AgentOk(agent) /\ FrameOk(c) /\ DriveTells(agent, c)
        /\ AsideHolds(agent, started, c) /\ JournalTells(agent)
    BY DEF ApplyInv, AgentOk, FramesOk, JournalInv, FrameTells, TaleOk
  <1>3. /\ {"close", "recover_close", "write"} \subseteq ActivePcs /\ "abort_close" \in AbortPcs
        /\ {"close", "recover_close", "write", "abort_close"} \cap IdlePcs = {}
    BY DEF ActivePcs, CallStates, IdlePcs, AbortPcs
  <1>4. /\ \A t : c.pc \in ActivePcs \cup AbortPcs /\ OpCall(agent, t, c.op) => Move(agent, t)
        /\ \A t : Move(agent, t) /\ Tells(agent, t) => Truly(t)
    BY <1>1, OwnMoves, TellingIsTrue
  <1>5. \A s : FrameTells(s, started', Idle) /\ ~Driving(Idle)
    BY SilentIdle
  <1>6. \A how \in Phases : \A t \in CloseJournal(agent, c.op, how) : OpCall(agent, t, c.op)
    BY DEF OpCall
  <1> HIDE DEF c, j
  <1>7. CASE CloseAndFinish(p)
    <2> DEFINE d == Finishes(c.op, Planes, "idle")
    <2>1. c.pc = "close" /\ AgentCall(p, CloseJournal(agent, c.op, c.next), d, Idle)
      BY <1>7 DEF CloseAndFinish, At0, c
    <2>2. c.next \in Phases /\ c.op \in Ops /\ PhaseTells(agent, c.next, c.op) /\ Driving(c)
      BY <1>2, <1>3, <2>1 DEF FrameOk, DriveTells, CloseHolds, Driving
    <2>3. \A t \in CloseJournal(agent, c.op, c.next) : Truly(t)
      BY <1>2, <1>3, <1>4, <1>6, <2>1, <2>2, ClosingTells
    <2>4. \A s : FrameTells(s, started', d)
      BY <2>2, SilentFinish
    <2> HIDE DEF d
    <2> QED
      BY <1>1, <1>5, <2>1, <2>2, <2>3, <2>4, CallTells DEF c
  <1>8. CASE RecoverClose(p)
    <2> DEFINE d == InCall("recover_free", c.op)
    <2>1. c.pc = "recover_close" /\ AgentCall(p, CloseJournal(agent, c.op, "superseded"), d, Idle)
      BY <1>8 DEF RecoverClose, At0, c
    <2>2. /\ "superseded" \in Phases /\ c.op \in Ops /\ PhaseTells(agent, "superseded", c.op)
          /\ SealedOff(agent, c.op)
      BY <1>2, <1>3, <2>1
         DEF FrameOk, Phases, TerminalPhases, PhaseTells, AsideHolds, SealedOff, Sealed
    <2>3. \A t \in CloseJournal(agent, c.op, "superseded") : Truly(t) /\ Aside(agent, t)
      BY <1>2, <1>3, <1>4, <1>6, <2>1, <2>2, ClosingTells
    <2>4. (\A s : FrameTells(s, started', d)) /\ ~Driving(d)
      BY <2>2, SilentCall DEF SilentPcs
    <2> HIDE DEF d
    <2> QED
      BY <1>1, <1>5, <2>1, <2>3, <2>4, CallTells
  <1>9. CASE AbortClose(p)
    <2>1. c.pc = "abort_close" /\ AgentCall(p, CloseJournal(agent, c.op, c.entry), Idle, Idle)
      BY <1>9 DEF AbortClose, At0, c
    <2>2. c.op \in Ops /\ c.todo = {} /\ c.entry \in Phases \cup {None}
      BY <1>2, <1>3, <2>1 DEF FrameOk, AbortPcs
    <2>3. SealedOff(agent, c.op)
      BY <1>2, <1>3, <2>1, <2>2 DEF AsideHolds, SealedOff
    <2>4. PICK how \in Phases :
            /\ CloseJournal(agent, c.op, c.entry) = CloseJournal(agent, c.op, how)
            /\ OwnsJournal(j, c.op) => PhaseTells(agent, how, c.op)
      <3>1. CASE c.entry \in Phases
        <4>1. PhaseTells(agent, c.entry, c.op) \/ Unopenable(agent, started, c.op)
          BY <1>2, <2>1, <3>1 DEF AsideHolds
        <4>2. OwnsJournal(j, c.op) => ~Unopenable(agent, started, c.op)
          BY DEF OwnsJournal, Unopenable, j
        <4> QED
          BY <3>1, <4>1, <4>2
      <3>2. CASE c.entry = None
        <4>1. Unjournaled(Who(c.op))
          BY <2>1, <3>2 DEF ApplyInv, BlindAborts, c
        <4>2. ~OwnsJournal(agent.journal, c.op)
          BY <4>1 DEF Unjournaled, OwnsJournal
        <4>3. "failed" \in Phases
          BY DEF Phases, TerminalPhases
        <4> QED
          BY <4>2, <4>3 DEF CloseJournal, j
      <3> QED
        BY <2>2, <3>1, <3>2
    <2>5. \A t \in CloseJournal(agent, c.op, how) : Truly(t) /\ Aside(agent, t)
      BY <1>2, <1>3, <1>4, <1>6, <2>1, <2>2, <2>3, <2>4, ClosingTells DEF j
    <2> QED
      BY <1>1, <1>5, <2>1, <2>4, <2>5, CallTells
  <1>10. CASE WriteEntry(p)
    <2> DEFINE ends == Finishes(c.op, c.todo, c.after)
               goes == InCall("loop", c.op)
               signals == InCall("signal", c.op)
               written == IF c.next = "finish" THEN ends ELSE InCall(c.next, c.op)
               rejected == IF Writable(agent, c.entry.op)
                           THEN IF c.next = "signal" THEN Loop(c.op) ELSE written ELSE Idle
    <2>1. c.pc = "write" /\ AgentCall(p, WriteJournal(agent, c.entry), written, rejected)
      BY <1>10 DEF WriteEntry, At0, c
    <2>2. /\ c.entry \in Journals /\ c.entry.op = c.op /\ c.next \in {"loop", "finish", "signal"}
          /\ c.todo \in SUBSET Planes /\ c.after \in {"idle", "loop"} /\ c.op \in Ops /\ Driving(c)
      BY <1>2, <1>3, <2>1 DEF FrameOk, Frames, Driving
    <2>3. /\ agent.journal # None
          /\ \/ Refusable(agent, c.entry)
             \/ /\ c.entry.seq = agent.journal.seq + 1 /\ agent.journal.op = c.entry.op
                /\ EntryTells(agent, c.entry)
          /\ c.next = "signal" => Unfinished(c.entry) \/ SealedOff(agent, c.op)
      BY <1>2, <2>1 DEF DriveTells, WriteHolds
    <2>4. ASSUME NEW t \in WriteJournal(agent, c.entry)
          PROVE  Truly(t) /\ t.journal = c.entry
      <3>1. /\ c.entry.seq \in Nat /\ agent.journal.seq \in Nat /\ agent.max \in Nat
            /\ c.entry.op.token \in Nat
        BY <1>2, <2>2, <2>3, EnvelopeTypes DEF AgentStates, Journals, AllOps
      <3>2. c.entry.op.token >= agent.max /\ c.entry.seq = 1 + agent.journal.seq
        BY <2>3, <2>4 DEF WriteJournal, IsLeader, NextSeq
      <3>3. ~Refusable(agent, c.entry)
        BY <3>1, <3>2 DEF Refusable
      <3>4. Tells(agent, t) /\ t.journal = c.entry
        BY <1>2, <2>2, <2>3, <2>4, <3>3, WriteJournalTells
      <3>5. OpCall(agent, t, c.op)
        BY <2>2, <2>4 DEF OpCall
      <3> QED
        BY <1>3, <1>4, <2>1, <3>4, <3>5
    <2>5. ASSUME NEW t \in WriteJournal(agent, c.entry), NEW u, Lands(t, u), c.next = "signal"
          PROVE  FrameTells(u, started', signals)
      <3>1. u.journal = c.entry /\ GoesOn(agent, u, started)
        BY <2>4, <2>5 DEF Lands
      <3>2. (OwnsJournal(u.journal, c.op) /\ Unfinished(u.journal)) \/ SealedOff(u, c.op)
        <4>1. u.journal # None /\ Who(u.journal.op) = Who(c.op)
          BY <2>2, <3>1, NoneAssumption
        <4> QED
          BY <2>2, <2>3, <2>5, <3>1, <4>1, SealedStays DEF OwnsJournal
      <3>3. signals.pc = "signal" /\ signals.op = c.op
        BY <2>2, InCallFields DEF CallStates
      <3> HIDE DEF signals
      <3>4. signals.pc \notin EntryPcs \cup {"write", "close"} \cup AbortPcs \cup {"recover_close"}
        BY <3>3 DEF EntryPcs, AbortPcs
      <3>5. ProgressPcs \subseteq EntryPcs /\ "commit" \in EntryPcs
        BY DEF ProgressPcs, EntryPcs
      <3>6. DriveTells(u, signals)
        BY <3>2, <3>3, <3>4, <3>5
           DEF DriveTells, ReadsHold, NotesHold, WriteHolds, CloseHolds, SignalHolds
      <3>7. AsideHolds(u, started', signals)
        BY <3>4, SilentFrame
      <3> QED
        BY <3>6, <3>7 DEF FrameTells
    <2>6. /\ \A s : FrameTells(s, started', goes) /\ FrameTells(s, started', ends)
      BY <2>2, SilentCall, SilentFinish DEF SilentPcs
    <2>7. \A t \in WriteJournal(agent, c.entry) : \A u : Lands(t, u) => FrameTells(u, started', written)
      BY <2>2, <2>5, <2>6
    <2>8. FrameTells(agent, started', rejected)
      BY <1>5, <2>2, <2>6 DEF Loop
    <2> HIDE DEF written, rejected
    <2> QED
      BY <1>1, <2>1, <2>2, <2>4, <2>7, <2>8, CallTells DEF c
  <1> QED
    BY <1>7, <1>8, <1>9, <1>10

(* A commit that was answered: the plane stands at the operation, and what *)
(* is known of the others still holds.                                     *)
LEMMA AnsweredCommitTells ==
  ASSUME ApplyInv, JournalInv, started \subseteq started', NEW p \in Calls,
         call[p].pc = "commit", NEW plane \in Planes,
         NEW t \in Commit(agent, call[p].op, plane, TRUE)
  PROVE  /\ Truly(t)
         /\ \A u : Lands(t, u) => FrameTells(u, started', CommittedTo(call[p], plane, "committed"))
  <1> DEFINE c == call[p]
  <1>1. /\ agent \in AgentStates /\ AgentOk(agent) /\ LedgerAt(agent) /\ SlotsAreAbove(agent)
        /\ TaleOk(agent) /\ FrameOk(c) /\ DriveTells(agent, c)
    BY DEF ApplyInv, AgentOk, FramesOk, JournalInv, FrameTells
  <1>2. /\ "commit" \in EntryPcs /\ "commit" \in CommitPcs /\ "commit" \in ProgressPcs
        /\ "commit" \in ActivePcs
    BY PcsAreStates DEF EntryPcs, CommitPcs, ProgressPcs
  <1>3. /\ EntryKnown(agent, c) /\ c.j.phase = "reload_observed"
        /\ c.progress \in Notes /\ NotesTell(agent, c.progress, c.op)
        /\ \A q \in Planes \ c.todo : Spared(agent, c, q)
    BY <1>1, <1>2, AtAnEntry
  <1>4. /\ c \in Frames /\ c.j \in Journals /\ c.j.op = c.op /\ c.op \in Ops
        /\ ReadAt(agent, c.j) /\ OpenAt(agent, c.j, c.op) /\ NotesTell(agent, c.j.progress, c.op)
    BY <1>3 DEF EntryKnown, Journals
  <1>5. Move(agent, t)
    BY <1>2, OwnMoves DEF OpCall
  <1>6. \/ agent.journal # None /\ agent.journal.op = c.op /\ agent.journal.phase = "reload_observed"
        \/ SealedOff(agent, c.op)
    BY <1>3, <1>4, NoneAssumption DEF OpenAt, ReadAt
  <1> HIDE DEF c
  <1>7. /\ TaleOk(t) /\ Onward(agent, t, started) /\ t.journal = agent.journal
        /\ ReachedIn(t, c.op, plane)
        /\ \A q \in Planes : q # plane => (MovedByMe(t, c.op, q) <=> MovedByMe(agent, c.op, q))
    BY <1>1, <1>4, <1>6, TaleByCommit DEF c
  <1>8. ASSUME NEW u, Lands(t, u)
        PROVE  FrameTells(u, started', CommittedTo(c, plane, "committed"))
    <2>1. /\ u.planes = t.planes /\ u.journal = agent.journal /\ GoesOn(agent, u, started)
          /\ u \in AgentStates
      BY <1>7, <1>8 DEF Lands, GoesOn
    <2>2. /\ \A q \in Planes : ReachedIn(agent, c.op, q) => ReachedIn(u, c.op, q)
          /\ c.op.token < agent.max => c.op.token < u.max
          /\ SealedOff(agent, c.op) => SealedOff(u, c.op)
      BY <1>4, <2>1, SealedStays DEF GoesOn, Onward
    <2>3. ReachedIn(u, c.op, plane)
      BY <1>7, <2>1 DEF ReachedIn, MovedByMe
    <2>4. \A q \in Planes : q # plane => (MovedByMe(u, c.op, q) <=> MovedByMe(agent, c.op, q))
      BY <1>7, <2>1 DEF MovedByMe
    <2>5. EntryKnown(u, c)
      BY <1>4, <2>1, <2>2 DEF EntryKnown, ReadAt, OpenAt, NotesTell
    <2>6. \A q \in Planes : NotesOf(c, plane, "committed")[q]
                              = IF q = plane THEN "committed" ELSE c.progress[q]
      BY <1>3 DEF NotesOf, Notes
    <2>7. NotesTell(u, NotesOf(c, plane, "committed"), c.op)
      BY <1>3, <2>2, <2>3, <2>6 DEF NotesTell
    <2>8. ASSUME NEW q \in (Planes \ c.todo) \cup {plane}
          PROVE  NotesOf(c, plane, "committed")[q] = "committed" \/ Unmoved(u, c, q)
      <3>1. CASE q = plane
        BY <2>6, <3>1
      <3>2. CASE q # plane
        <4>1. Spared(agent, c, q) /\ q \in Planes
          BY <1>3, <2>8, <3>2
        <4> QED
          BY <2>1, <2>2, <2>4, <2>6, <3>2, <4>1 DEF Spared, Unmoved
      <3> QED
        BY <3>1, <3>2
    <2> QED
      BY <1>3, <2>1, <2>5, <2>7, <2>8, CommittedToTells DEF c
  <1>9. Truly(t)
    BY <1>5, <1>7 DEF Truly
  <1>10. \A u : Lands(t, u) => FrameTells(u, started', CommittedTo(c, plane, "committed"))
    BY <1>8
  <1> QED
    BY <1>9, <1>10 DEF c

(* A commit that was refused: the plane did not move, or the entry cannot  *)
(* be written any more.                                                    *)
LEMMA RefusedCommitTells ==
  ASSUME ApplyInv, JournalInv, NEW st, NEW p \in Calls, call[p].pc = "commit", NEW plane \in Planes,
         Commit(agent, call[p].op, plane, TRUE) = {}
  PROVE  FrameTells(agent, st, CommittedTo(call[p], plane, "failed"))
  <1> DEFINE c == call[p]
  <1>1. /\ agent \in AgentStates /\ AgentOk(agent) /\ LedgerAt(agent)
        /\ TaleOk(agent) /\ FrameOk(c) /\ DriveTells(agent, c)
    BY DEF ApplyInv, AgentOk, FramesOk, JournalInv, FrameTells
  <1>2. /\ "commit" \in EntryPcs /\ "commit" \in CommitPcs /\ "commit" \in ProgressPcs
    BY DEF EntryPcs, CommitPcs, ProgressPcs
  <1>3. /\ EntryKnown(agent, c) /\ c.j.phase = "reload_observed"
        /\ c.progress \in Notes /\ NotesTell(agent, c.progress, c.op)
        /\ \A q \in Planes \ c.todo : Spared(agent, c, q)
    BY <1>1, <1>2, AtAnEntry
  <1>4. c.j.op = c.op /\ c.op \in Ops /\ ReadAt(agent, c.j)
    BY <1>3 DEF EntryKnown, Journals
  <1> HIDE DEF c
  <1>5. \A q \in Planes : NotesOf(c, plane, "failed")[q]
                            = IF q = plane THEN "failed" ELSE c.progress[q]
    BY <1>3 DEF NotesOf, Notes
  <1>6. NotesTell(agent, NotesOf(c, plane, "failed"), c.op)
    BY <1>3, <1>5 DEF NotesTell
  <1>7. Unmoved(agent, c, plane)
    <2>1. SUFFICES ASSUME agent.journal = c.j, MovedByMe(agent, c.op, plane)
                   PROVE  c.op.token < agent.max
      BY <1>4 DEF Unmoved, ReadAt
    <2>2. agent.journal # None /\ agent.journal.op = c.op /\ Justified(agent)
      BY <1>1, <1>4, <2>1 DEF ReadAt, LedgerAt
    <2> QED
      BY <1>1, <1>4, <2>1, <2>2, StandingIsReplayed DEF c
  <1>8. \A q \in (Planes \ c.todo) \cup {plane} :
          NotesOf(c, plane, "failed")[q] = "committed" \/ Unmoved(agent, c, q)
    BY <1>3, <1>5, <1>7 DEF Spared, Unmoved
  <1>9. FrameTells(agent, st, CommittedTo(c, plane, "failed"))
    BY <1>1, <1>3, <1>6, <1>8, CommittedToTells DEF c
  <1> QED
    BY <1>9 DEF c

(* The planes: staged, failed, committed, one after the other.             *)
LEMMA PlaneStepTells ==
  ASSUME ApplyInv, JournalInv, NEW p \in Calls, FailPlane(p) \/ StagePlane(p) \/ CommitPlane(p)
  PROVE  JournalInv'
  <1> DEFINE c == call[p]
             plane == NextPlane(c.todo)
  <1>1. started \subseteq started' /\ started' = started
    BY DEF FailPlane, StagePlane, CommitPlane, aux
  <1>2. /\ agent \in AgentStates /\ FrameOk(c) /\ DriveTells(agent, c)
    BY DEF ApplyInv, AgentOk, FramesOk, JournalInv, FrameTells
  <1>3. c.pc \in {"fail", "stage", "commit"} /\ plane \in Planes
    BY PlanesAre DEF FailPlane, StagePlane, CommitPlane, At0
  <1>4. c.pc \in EntryPcs /\ c.pc \in ProgressPcs /\ c.pc \in ActivePcs /\ Driving(c)
    BY <1>3, PcsAreStates DEF EntryPcs, ProgressPcs, Driving
  <1>5. /\ EntryKnown(agent, c) /\ c.progress \in Notes /\ NotesTell(agent, c.progress, c.op)
    BY <1>2, <1>4, AtAnEntry
  <1>6. c.op \in Ops /\ c.op \in AllOps
    BY <1>5 DEF EntryKnown, Journals, AllOps
  <1>7. /\ \A t \in Fail(agent, c.op, plane) : Move(agent, t) /\ Untold(agent, t)
        /\ \A t \in Stage(agent, c.op, plane) : Move(agent, t) /\ Untold(agent, t)
    <2>1. \A t : OpCall(agent, t, c.op) => Move(agent, t)
      BY <1>1, <1>4, OwnMoves
    <2>2. \A t : t \in Fail(agent, c.op, plane) \/ t \in Stage(agent, c.op, plane) =>
            OpCall(agent, t, c.op)
      BY <1>3 DEF OpCall
    <2>3. \A t \in Fail(agent, c.op, plane) : Untold(agent, t)
      BY <1>2, <1>3, <1>6, FinalizeIsNoNews DEF Fail, Untold
    <2>4. \A t \in Stage(agent, c.op, plane) : Untold(agent, t)
      BY <1>2, <1>3, <1>6, StageIsNoNews DEF Untold
    <2> QED
      BY <2>1, <2>2, <2>3, <2>4
  <1>8. ASSUME NEW t, NEW u, Lands(t, u), Aside(agent, t)
        PROVE  EntryKnown(u, c) /\ NotesTell(u, c.progress, c.op)
    <2>1. FrameTells(u, started', c)
      BY <1>1, <1>8, OwnKept
    <2> QED
      BY <1>2, <1>4, <2>1, AtAnEntry DEF FrameTells
  <1> HIDE DEF plane
  <1>9. CASE FailPlane(p)
    <2> DEFINE noted(d) == FailNoted(c, plane, d)
    <2>1. \/ MovedByMe(agent, c.op, plane) /\ Turn(p, noted("committed"))
          \/ AgentCall(p, Fail(agent, c.op, plane), noted("failed"), noted("failed"))
      BY <1>9 DEF FailPlane, FailNoted, plane
    <2>2. MovedByMe(agent, c.op, plane) => FrameTells(agent, started, noted("committed"))
      BY <1>3, <1>5, FailNotedTells DEF ReachedIn
    <2>3. FrameTells(agent, started', noted("failed"))
      BY <1>3, <1>5, FailNotedTells
    <2>4. \A t \in Fail(agent, c.op, plane) : \A u :
            Lands(t, u) /\ Aside(agent, t) => FrameTells(u, started', noted("failed"))
      BY <1>3, <1>5, <1>8, FailNotedTells
    <2> HIDE DEF noted
    <2>5. CASE MovedByMe(agent, c.op, plane) /\ Turn(p, noted("committed"))
      BY <1>1, <1>4, <2>2, <2>5, DriveTurn
    <2>6. CASE AgentCall(p, Fail(agent, c.op, plane), noted("failed"), noted("failed"))
      BY <1>1, <1>4, <1>7, <2>3, <2>4, <2>6, UntoldCallTells
    <2> QED
      BY <2>1, <2>5, <2>6
  <1>10. CASE StagePlane(p)
    <2> DEFINE d == [c EXCEPT !.pc = "stage_membership"]
               no == StagedTo(c, plane, "failed")
    <2>1. c.pc = "stage" /\ AgentCall(p, Stage(agent, c.op, plane), d, no)
      BY <1>10 DEF StagePlane, At0, plane
    <2>2. /\ "stage_membership" \in CallStates /\ "stage_membership" \in EntryPcs
          /\ "stage_membership" \notin CommitPcs
      BY DEF CallStates, EntryPcs, CommitPcs
    <2>3. c \in Frames
      BY <1>5 DEF EntryKnown
    <2>4. FrameTells(agent, started', no)
      BY <1>2, <1>3, <1>5, StagedToTells
    <2> HIDE DEF c
    <2>5. /\ d \in Frames /\ d.pc = "stage_membership" /\ d.op = c.op /\ d.j = c.j
          /\ d.progress = c.progress
      BY <2>2, <2>3 DEF Frames
    <2> HIDE DEF d, no
    <2>6. ASSUME NEW t, NEW u, Lands(t, u), Aside(agent, t)
          PROVE  FrameTells(u, started', d)
      <3>1. EntryKnown(u, c) /\ NotesTell(u, c.progress, c.op)
        BY <1>8, <2>6
      <3>2. EntryKnown(u, d)
        BY <2>5, <3>1 DEF EntryKnown
      <3> QED
        BY <2>2, <2>5, <3>1, <3>2, EntryFrameTells
    <2> QED
      BY <1>1, <1>4, <1>7, <2>1, <2>4, <2>6, UntoldCallTells DEF c
  <1>11. CASE CommitPlane(p)
    <2> DEFINE yes == CommittedTo(c, plane, "committed")
               no == CommittedTo(c, plane, "failed")
    <2>1. c.pc = "commit" /\ AgentCall(p, Commit(agent, c.op, plane, TRUE), yes, no)
      BY <1>11 DEF CommitPlane, At0, plane
    <2>2. \A t \in Commit(agent, c.op, plane, TRUE) :
            Truly(t) /\ \A u : Lands(t, u) => FrameTells(u, started', yes)
      BY <1>1, <1>3, <2>1, AnsweredCommitTells
    <2>3. Commit(agent, c.op, plane, TRUE) = {} => FrameTells(agent, started', no)
      BY <1>3, <2>1, RefusedCommitTells
    <2> HIDE DEF yes, no
    <2> QED
      BY <1>1, <1>4, <2>1, <2>2, <2>3, CallTells
  <1> QED
    BY <1>9, <1>10, <1>11

(* An abort knows of the planes it is past that they are sealed.           *)
LEMMA AbortTells ==
  ASSUME NEW s, NEW st, NEW d, d.pc \in AbortPcs,
         \A q \in Planes \ d.todo : Sealed(s, d.op, q),
         d.pc = "abort_close" /\ d.entry \in Phases =>
           PhaseTells(s, d.entry, d.op) \/ Unopenable(s, st, d.op)
  PROVE  FrameTells(s, st, d) /\ ~Driving(d)
  <1>1. d.pc \notin EntryPcs \cup {"loop", "write", "close", "signal", "await", "finish", "recover_close"}
    BY DEF AbortPcs, EntryPcs
  <1>2. DriveTells(s, d) /\ ~Driving(d)
    BY <1>1, SilentFrame DEF Driving
  <1>3. AsideHolds(s, st, d)
    BY <1>1 DEF AsideHolds
  <1> QED
    BY <1>2, <1>3 DEF FrameTells

(* abortConfig closes the planes.                                          *)
LEMMA AbortPlaneTells ==
  ASSUME ApplyInv, JournalInv, NEW p \in Calls, AbortPlane(p)
  PROVE  JournalInv'
  <1> DEFINE c == call[p]
             plane == NextPlane(c.todo)
             yes == AbortedPlane(c, plane, c.next)
             no == AbortedPlane(c, plane, "refused")
  <1>1. /\ agent \in AgentStates /\ AgentOk(agent) /\ FrameOk(c) /\ AsideHolds(agent, started, c)
        /\ c \in Frames
    BY DEF ApplyInv, AgentOk, FramesOk, JournalInv, FrameTells, FrameOk
  <1>2. /\ started \subseteq started' /\ c.pc = "abort" /\ plane \in Planes
        /\ "abort" \in AbortPcs /\ "abort_release" \in AbortPcs
    BY PlanesAre DEF AbortPlane, At0, aux, AbortPcs
  <1>3. c.op \in Ops /\ c.op \in AllOps
    BY <1>1, <1>2 DEF FrameOk, IdlePcs, AllOps
  <1>4. AgentCall(p, Abort(agent, c.op, plane), yes, no)
    <2>1. yes = [c EXCEPT !.todo = @ \ {plane},
                          !.pc = IF c.todo = {plane} THEN "abort_release" ELSE "abort"]
      BY <1>1 DEF AbortedPlane, Frames
    <2>2. no = [[c EXCEPT !.next = "refused"] EXCEPT !.todo = @ \ {plane},
                          !.pc = IF c.todo = {plane} THEN "abort_release" ELSE "abort"]
      BY <1>1 DEF AbortedPlane, Frames
    <2> QED
      BY <2>1, <2>2 DEF AbortPlane
  <1> HIDE DEF plane
  <1>5. /\ yes.pc \in {"abort", "abort_release"} /\ yes.op = c.op /\ yes.todo = c.todo \ {plane}
        /\ no.pc \in {"abort", "abort_release"} /\ no.op = c.op /\ no.todo = c.todo \ {plane}
    BY <1>1, <1>2, AbortedPlaneFrame
  <1> HIDE DEF c, yes, no
  <1>6. \A t \in Abort(agent, c.op, plane) : Move(agent, t) /\ Untold(agent, t)
    <2>1. \A t \in Abort(agent, c.op, plane) : OpCall(agent, t, c.op)
      BY <1>2 DEF OpCall
    <2>2. \A t : OpCall(agent, t, c.op) => Move(agent, t)
      BY <1>2, OwnMoves DEF c
    <2>3. \A t \in Abort(agent, c.op, plane) : Untold(agent, t)
      BY <1>1, <1>2, <1>3, FinalizeIsNoNews DEF Abort, Untold
    <2> QED
      BY <2>1, <2>2, <2>3
  <1>7. ASSUME NEW s, NEW d, d.pc \in {"abort", "abort_release"}, d.op = c.op,
               d.todo = c.todo \ {plane}, FrameTells(s, started', c), Sealed(s, c.op, plane)
        PROVE  FrameTells(s, started', d) /\ ~Driving(d)
    <2>1. \A q \in Planes \ c.todo : Sealed(s, c.op, q)
      BY <1>2, <1>7 DEF FrameTells, AsideHolds
    <2>2. \A q \in Planes \ d.todo : Sealed(s, d.op, q)
      BY <1>7, <2>1
    <2>3. d.pc \in AbortPcs /\ d.pc # "abort_close"
      BY <1>2, <1>7
    <2> QED
      BY <2>2, <2>3, AbortTells
  <1>8. ASSUME NEW t \in Abort(agent, c.op, plane), NEW u, Lands(t, u), Aside(agent, t)
        PROVE  FrameTells(u, started', yes)
    <2>1. FrameTells(u, started', c)
      BY <1>2, <1>8, OwnKept DEF c
    <2>2. StaysClosed(u, <<Who(c.op), plane>>)
      BY <1>1, <1>2, <1>3, <1>6, <1>8, AbortedIsClosed DEF Lands
    <2>3. Sealed(u, c.op, plane)
      BY <2>2, NoneAssumption DEF Sealed, StaysClosed, Decided, Verdicts
    <2> QED
      BY <1>5, <1>7, <2>1, <2>3
  <1>9. ASSUME Abort(agent, c.op, plane) = {}
        PROVE  FrameTells(agent, started', no)
    <2>1. Sealed(agent, c.op, plane)
      BY <1>1, <1>2, <1>3, <1>9, AbortedIsClosed DEF Sealed
    <2>2. FrameTells(agent, started', c)
      <3>1. started' = started
        BY DEF AbortPlane, aux
      <3> QED
        BY <3>1 DEF JournalInv, c
    <2> QED
      BY <1>5, <1>7, <2>1, <2>2
  <1>10. ~Driving(yes) /\ ~Driving(no)
    BY <1>5 DEF Driving, EntryPcs
  <1> QED
    BY <1>2, <1>4, <1>6, <1>8, <1>9, <1>10, UntoldCallTells

(* abortConfig gives its hold up.                                          *)
LEMMA AbortHoldTells ==
  ASSUME ApplyInv, JournalInv, NEW p \in Calls, AbortRelease(p) \/ AbortFinish(p)
  PROVE  JournalInv'
  <1> DEFINE c == call[p]
  <1>1. /\ agent \in AgentStates /\ FrameOk(c) /\ c.pc \in {"abort_release", "abort_finish"}
    BY DEF ApplyInv, AgentOk, FramesOk, AbortRelease, AbortFinish, At0
  <1>2. /\ started \subseteq started' /\ c.pc \in AbortPcs \ {"abort"}
        /\ {"abort_finish", "abort_read"} \subseteq AbortPcs
    BY <1>1 DEF AbortPcs, AbortRelease, AbortFinish, aux
  <1>3. PICK pc \in {"abort_finish", "abort_read"}, calls \in {ReleaseHolderSlots(agent, c.op),
                                                              FinishOperation(agent, c.op, Planes)} :
          AgentCall(p, calls, [c EXCEPT !.pc = pc], Idle)
    BY DEF AbortRelease, AbortFinish
  <1> DEFINE d == [c EXCEPT !.pc = pc]
  <1>4. d.pc = pc /\ d.op = c.op /\ d.todo = c.todo
    BY <1>1, <1>2, AbortFrame
  <1> HIDE DEF c, d
  <1>5. \A t \in calls : Move(agent, t) /\ Untold(agent, t)
    <2>1. \A t \in calls : OpCall(agent, t, c.op)
      BY <1>3 DEF OpCall
    <2>2. \A t : OpCall(agent, t, c.op) => Move(agent, t)
      BY <1>2, OwnMoves DEF c
    <2>3. \A t \in calls : Untold(agent, t)
      BY <1>1, <1>3, HoldCallsAreUntold, FinishIsUntold
    <2> QED
      BY <2>1, <2>2, <2>3
  <1>6. ASSUME NEW t, NEW u, Lands(t, u), Aside(agent, t)
        PROVE  FrameTells(u, started', d)
    <2>1. FrameTells(u, started', c)
      BY <1>2, <1>6, OwnKept DEF c
    <2>2. \A q \in Planes \ c.todo : Sealed(u, c.op, q)
      BY <1>2, <2>1 DEF FrameTells, AsideHolds
    <2>3. d.pc \in AbortPcs /\ d.pc # "abort_close" /\ \A q \in Planes \ d.todo : Sealed(u, d.op, q)
      BY <1>2, <1>3, <1>4, <2>2
    <2> QED
      BY <2>3, AbortTells
  <1>7. ~Driving(d)
    BY <1>3, <1>4 DEF Driving, EntryPcs
  <1>8. (\A s : FrameTells(s, started', Idle)) /\ ~Driving(Idle)
    BY SilentIdle
  <1>9. AgentCall(p, calls, d, Idle)
    BY <1>3 DEF d
  <1> HIDE DEF Idle
  <1> QED
    BY <1>2, <1>5, <1>6, <1>7, <1>8, <1>9, UntoldCallTells

(* The journal of another operation: what is sealed off by its own moves   *)
(* is overtaken by it, and is not opened again.                            *)
LEMMA OvertakenIsUnopenable ==
  ASSUME ApplyInv, JournalInv, agent.journal # None, NEW op \in Ops,
         Who(agent.journal.op) # Who(op), SealedOff(agent, op)
  PROVE  Unopenable(agent, started, op)
  <1> DEFINE o == agent.journal.op
  <1>1. /\ o \in Ops /\ o \in started /\ o.token \in Nat /\ o.token <= agent.max
        /\ op.token \in Nat /\ o.epoch \in Nat /\ op.epoch \in Nat /\ op.epoch > 0 /\ agent.max \in Nat
    BY JournalKnown, EnvelopeTypes DEF ApplyInv, Issued, AgentOk, AgentStates, AllOps
  <1>2. SUFFICES ASSUME ~(op.token < agent.max),
                        \A p \in Planes : ~StaysClosed(agent, <<Who(op), p>>)
                 PROVE  Outranked(started, op)
    BY DEF Unopenable
  <1>3. PICK p \in Planes : TRUE
    BY PlanesAssumption
  <1>4. agent.terminal[<<Who(op), p>>] = "activated"
    <2> DEFINE k == <<Who(op), p>>
    <2>1. k \in Whos \X Planes
      BY WhoTypes DEF AllOps
    <2>2. Decided(agent, k) /\ ~StaysClosed(agent, k)
      BY <1>2 DEF SealedOff, Sealed
    <2> HIDE DEF k
    <2>3. agent.terminal[k] \in Verdicts \cup {None}
      BY <2>1 DEF ApplyInv, AgentOk, AgentStates, VerdictMaps
    <2>4. agent.terminal[k] = "activated"
      BY <2>2, <2>3 DEF Decided, StaysClosed, Verdicts
    <2> QED
      BY <2>4 DEF k
  <1>5. op.epoch <= agent.planes[p].epoch /\ op.token <= o.token
    BY <1>4 DEF JournalInv, TaleOk, NoVerdictIsAhead
  <1>6. agent.planes[p].epoch \in Nat
    BY DEF ApplyInv, AgentOk, AgentStates, Positions, PlaneStates
  <1>7. agent.planes[p].epoch <= o.epoch
    BY <1>1, <1>5, <1>6 DEF JournalInv, TaleOk, NoPlaneIsAhead
  <1>8. op.epoch <= o.epoch /\ o.token = op.token
    BY <1>1, <1>2, <1>5, <1>6, <1>7
  <1>9. o.name # op.name
    BY <1>8 DEF Who
  <1> QED
    BY <1>1, <1>8, <1>9 DEF Outranked

(* abortConfig reads what the planes say, for the journal as it is now.    *)
LEMMA AbortReadTells ==
  ASSUME ApplyInv, JournalInv, NEW p \in Calls, AbortRead(p)
  PROVE  JournalInv'
  <1> DEFINE c == call[p]
             entry == IF agent.journal = None THEN None ELSE ReachedPhase(agent)
             d == AbortWith(c, "abort_close", entry)
  <1>1. /\ FrameOk(c) /\ AsideHolds(agent, started, c) /\ started' = started
        /\ c.pc = "abort_read" /\ Turn(p, d)
    BY DEF ApplyInv, FramesOk, JournalInv, FrameTells, AbortRead, At0, AbortWith, aux
  <1>2. "abort_read" \in AbortPcs \ {"abort"} /\ "abort_close" \in AbortPcs
    BY DEF AbortPcs
  <1>3. c.op \in Ops /\ c.todo = {}
    BY <1>1, <1>2 DEF FrameOk, IdlePcs
  <1>4. SealedOff(agent, c.op)
    BY <1>1, <1>2, <1>3 DEF AsideHolds, SealedOff
  <1>5. entry \in Phases \cup {None}
    BY ReachedPhaseTells
  <1>6. entry \in Phases => PhaseTells(agent, entry, c.op) \/ Unopenable(agent, started, c.op)
    <2> SUFFICES ASSUME agent.journal # None
                 PROVE  \/ PhaseTells(agent, ReachedPhase(agent), c.op)
                        \/ Unopenable(agent, started, c.op)
      BY NoneAssumption
    <2>1. PhaseTells(agent, ReachedPhase(agent), agent.journal.op) /\ agent.journal.op \in Ops
      BY ReachedPhaseTells, JournalKnown
    <2>2. Who(agent.journal.op) = Who(c.op) => PhaseTells(agent, ReachedPhase(agent), c.op)
      BY <1>3, <2>1, TwinsAlike
    <2>3. Who(agent.journal.op) # Who(c.op) => Unopenable(agent, started, c.op)
      BY <1>3, <1>4, OvertakenIsUnopenable
    <2> QED
      BY <2>2, <2>3
  <1> HIDE DEF entry
  <1>7. d.pc = "abort_close" /\ d.op = c.op /\ d.todo = {} /\ d.entry = entry
    <2>1. FrameOk(c) /\ c.pc \in AbortPcs \ {"abort"}
      BY <1>1, <1>2
    <2> HIDE DEF c
    <2>2. /\ FrameOk(d) /\ d.pc = "abort_close" /\ d.op = c.op /\ d.todo = c.todo
          /\ d.next = c.next /\ d.entry = entry
      BY <1>5, <2>1, AbortFrame
    <2> QED
      BY <1>3, <2>2
  <1> HIDE DEF c, d
  <1>8. FrameTells(agent, started, d) /\ ~Driving(d)
    BY <1>2, <1>4, <1>6, <1>7, AbortTells DEF SealedOff
  <1> QED
    BY <1>1, <1>8, DriveTurn

(* applyConfig takes the hold, or is refused.                              *)
LEMMA StartRunTells ==
  ASSUME ApplyInv, JournalInv, NEW p \in Calls, StartRun(p)
  PROVE  JournalInv'
  <1>1. PICK op \in Ops :
          /\ call[p].pc = "idle" /\ Fenced(op.token) /\ NewestOf(started, op)
          /\ AgentCall(p, ReserveAll(agent, op), InCall("queue", op), Idle)
          /\ started' = started \cup {op}
    BY DEF StartRun, At0, NewestOf
  <1>2. /\ op.token <= agent.max \/ Unfenced(agent)
        /\ agent.max \in Nat /\ op.token \in Nat
    BY <1>1, EnvelopeTypes DEF Fenced, ApplyInv, AgentOk, AgentStates, AllOps, Unfenced
  <1>3. Issuing(agent, started, op)
    BY <1>1 DEF Issuing, IssuedBy, ApplyInv, AgentOk, JournalInv, Issued, ToldApart, WorldOk
  <1>4. ASSUME NEW t \in ReserveAll(agent, op)
        PROVE  Truly(t) /\ Aside(agent, t)
    <2>1. Move(agent, t)
      BY <1>2, <1>4, OpCallMoves DEF OpCall, ApplyInv
    <2>2. TaleOk(t) /\ Onward(agent, t, started) /\ Aside(agent, t)
      BY <1>3, <1>4, TaleByReserve
    <2> QED
      BY <2>1, <2>2 DEF Truly
  <1>5. /\ \A s : FrameTells(s, started', InCall("queue", op))
        /\ ~Driving(InCall("queue", op))
    BY SilentCall DEF SilentPcs
  <1>6. (\A s : FrameTells(s, started', Idle)) /\ ~Driving(Idle)
    BY SilentIdle
  <1> HIDE DEF Idle
  <1> QED
    BY <1>1, <1>4, <1>5, <1>6, CallTells

-----------------------------------------------------------------------------
(* The steps beside the calls.                                             *)

(* A step of nobody's call leaves the calls what they know.                *)
LEMMA BesideTells ==
  ASSUME ApplyInv, JournalInv, TaleOk(agent'), GoesOn(agent, agent', started),
         Aside(agent, agent'), UNCHANGED <<call, applying, started>>
  PROVE  JournalInv'
  <1>1. \A q \in Calls : FrameOk(call[q]) /\ FrameTells(agent, started, call[q])
    BY DEF ApplyInv, FramesOk, JournalInv
  <1>2. \A q \in Calls : FrameTells(agent', started, call[q])
    BY <1>1, DriveKept, AsideKept DEF FrameTells
  <1> QED
    BY <1>2 DEF JournalInv, OneDrive

(* A call of the agent that nobody's call makes.                           *)
LEMMA BesideCallTells ==
  ASSUME ApplyInv, JournalInv, UNCHANGED <<call, applying, started>>,
         NEW t, Truly(t), Aside(agent, t), NEW u \in Pruned(t), agent' = Guarded(agent, u)
  PROVE  JournalInv'
  <1>1. agent \in AgentStates /\ TaleOk(agent)
    BY DEF ApplyInv, AgentOk, JournalInv
  <1>2. CASE BrokenClauses(agent, u) = {}
    <2>1. agent' = u /\ Lands(t, u)
      BY <1>2, Landing DEF Guarded
    <2> QED
      BY <2>1, BesideTells DEF Lands
  <1>3. CASE BrokenClauses(agent, u) # {}
    <2>1. agent' = agent
      BY <1>3 DEF Guarded
    <2> QED
      BY <1>1, <2>1, StandingGoesOn, BesideTells
  <1> QED
    BY <1>2, <1>3

(* The fence overtakes the journal it closes; a delta on a plane's members *)
(* moves no plane.                                                         *)
LEMMA FenceAndHealthTell ==
  ASSUME ApplyInv, JournalInv, FenceCall \/ HealthCall
  PROVE  JournalInv'
  <1>1. /\ agent \in AgentStates /\ AgentOk(agent) /\ JournalTells(agent) /\ agent.max \in Nat
        /\ Tokens \subseteq Nat /\ \A op \in HealthOps : op \in AllOps /\ op.token \in Nat
    BY EnvelopeTypes DEF ApplyInv, AgentOk, JournalInv, TaleOk, AgentStates, Tokens, AllOps
  <1>2. UNCHANGED <<call, applying, started>>
    BY DEF FenceCall, HealthCall, aux
  <1>3. CASE FenceCall
    <2>0. PICK token \in Tokens : \E u \in Outcomes(Fence(agent, token)) :
            token > agent.max /\ agent' = Guarded(agent, u)
      BY <1>3 DEF FenceCall
    <2>1. PICK u \in Outcomes(Fence(agent, token)) :
            token > agent.max /\ agent' = Guarded(agent, u)
      BY <2>0
    <2>2. PICK t \in Fence(agent, token) : u \in Pruned(t)
      BY <2>1 DEF Outcomes
    <2>3. token \in Nat /\ token >= agent.max
      BY <1>1, <2>1
    <2>4. Move(agent, t)
      BY <1>1, <2>3, OtherCallsMove
    <2>5. Tells(agent, t) /\ t.max = token
      BY <1>1, <2>3, FenceTells
    <2>6. ASSUME Unfinished(agent.journal) PROVE SealedOff(t, agent.journal.op)
      <3>1. agent.journal # None
        BY <2>6 DEF Unfinished
      <3>2. agent.journal.op.token < t.max
        BY <1>1, <2>1, <2>3, <2>5, <3>1, JournalKnown
      <3> QED
        BY <3>2 DEF SealedOff, Sealed
    <2>7. Truly(t) /\ Aside(agent, t)
      BY <2>4, <2>5, <2>6, TellingIsTrue DEF Tells, NoNews, Aside
    <2> QED
      BY <1>2, <2>1, <2>2, <2>7, BesideCallTells
  <1>4. CASE HealthCall
    <2>1. PICK op \in HealthOps, q \in Planes : \E u \in Outcomes(ApplyHealth(agent, op, q)) :
            Fenced(op.token) /\ agent' = Guarded(agent, u)
      BY <1>4 DEF HealthCall
    <2>2. PICK u \in Outcomes(ApplyHealth(agent, op, q)) :
            Fenced(op.token) /\ agent' = Guarded(agent, u)
      BY <2>1
    <2>3. PICK t \in ApplyHealth(agent, op, q) : u \in Pruned(t)
      BY <2>2 DEF Outcomes
    <2>4. op.token <= agent.max \/ Unfenced(agent)
      BY <1>1, <2>2 DEF Fenced, Unfenced
    <2>5. Move(agent, t)
      BY <1>1, <2>4, OtherCallsMove
    <2>6. Untold(agent, t)
      BY <1>1, ApplyHealthIsNoNews DEF Untold
    <2>7. Truly(t) /\ Aside(agent, t)
      BY <2>5, <2>6, TellingIsTrue
    <2> QED
      BY <1>2, <2>2, <2>3, <2>7, BesideCallTells
  <1> QED
    BY <1>3, <1>4

(* exclusiveApply lets one in when nobody is inside.                       *)
LEMMA EnterTells ==
  ASSUME ApplyInv, JournalInv, NEW p \in Calls, EnterApply(p)
  PROVE  JournalInv'
  <1> DEFINE d == Loop(call[p].op)
  <1>1. /\ DOMAIN call = Calls /\ \A q \in Calls : FrameTells(agent, started, call[q])
        /\ call[p].op \in Ops \cup {None} /\ OneDrive /\ TaleOk(agent)
    BY DEF ApplyInv, FramesOk, FrameOk, Frames, JournalInv
  <1>2. /\ applying = None /\ applying' = p /\ agent' = agent /\ started' = started
        /\ call' = [call EXCEPT ![p] = d]
    BY DEF EnterApply, aux
  <1>3. FrameTells(agent, started, d)
    BY <1>1, SilentCall DEF SilentPcs, Loop
  <1> HIDE DEF d
  <1>4. \A q \in Calls : call'[q] = IF q = p THEN d ELSE call[q]
    BY <1>1, <1>2
  <1>5. \A q \in Calls : ~Driving(call[q])
    BY <1>1, <1>2, ApplyAssumption DEF OneDrive
  <1> QED
    BY <1>1, <1>2, <1>3, <1>4, <1>5 DEF JournalInv, OneDrive

(* The engine, a late signal, and a crash.                                 *)
LEMMA WorldTells ==
  ASSUME ApplyInv, JournalInv,
         EngineReloads \/ EngineRefuses \/ LateReload \/ Crash \/ UNCHANGED vars
  PROVE  JournalInv'
  <1>1. TaleOk(agent)
    BY DEF JournalInv
  <1>2. CASE UNCHANGED <<agent, call, applying, started>>
    BY <1>2 DEF JournalInv, OneDrive
  <1>3. CASE Crash
    <2>1. /\ agent' = agent /\ \A q \in Calls : call'[q] = Idle
      BY <1>3 DEF Crash
    <2>2. (\A s, st : FrameTells(s, st, Idle)) /\ ~Driving(Idle)
      BY SilentIdle
    <2> HIDE DEF Idle
    <2> QED
      BY <1>1, <2>1, <2>2 DEF JournalInv, OneDrive
  <1>4. EngineReloads \/ EngineRefuses \/ LateReload \/ UNCHANGED vars =>
          UNCHANGED <<agent, call, applying, started>>
    BY DEF EngineReloads, EngineRefuses, LateReload, vars, aux, Fault
  <1> QED
    BY <1>2, <1>3, <1>4

(* Whatever step is taken.                                                 *)
LEMMA JournalInvStep == ApplyInv /\ JournalInv /\ [Next]_vars => JournalInv'
  <1> SUFFICES ASSUME ApplyInv, JournalInv, [Next]_vars PROVE JournalInv'
    OBVIOUS
  <1>1. ASSUME NEW p \in Calls, StartRun(p) \/ StartRecover(p) \/ StartAbort(p)
        PROVE  JournalInv'
    BY <1>1, StartRunTells, OtherTurnTells
  <1>2. ASSUME NEW p \in Calls, Step(p) PROVE JournalInv'
    <2>1. CASE RecoverIdle(p) \/ RecoverFree(p) \/ Reclaim(p) \/ Finish(p) \/ RecordIntent(p)
      BY <2>1, HoldStepTells
    <2>2. CASE CloseAndFinish(p) \/ RecoverClose(p) \/ AbortClose(p) \/ WriteEntry(p)
      BY <2>2, JournalStepTells
    <2>3. CASE AbortPlane(p) \/ AbortRelease(p) \/ AbortFinish(p) \/ AbortRead(p)
      BY <2>3, AbortPlaneTells, AbortHoldTells, AbortReadTells
    <2>4. CASE EnterApply(p) \/ LoopHead(p)
      BY <2>4, EnterTells, LoopHeadTells
    <2>5. CASE FailPlane(p) \/ StagePlane(p) \/ CommitPlane(p)
      BY <2>5, PlaneStepTells
    <2>6. CASE \/ Preflight(p) \/ PublishIntent(p) \/ Publish(p) \/ ReloadIntent(p, FALSE)
               \/ ReloadObserved(p) \/ AwaitCommit(p, FALSE)
      BY <2>6, PhaseTurnTells
    <2>7. CASE FailRead(p) \/ StageMembership(p) \/ SignalReload(p) \/ AwaitReload(p, FALSE)
      BY <2>7, OtherTurnTells
    <2> QED
      BY <1>2, <2>1, <2>2, <2>3, <2>4, <2>5, <2>6, <2>7 DEF Step
  <1>3. ASSUME NEW p \in Calls, FaultyStep(p) PROVE JournalInv'
    BY <1>3, PhaseTurnTells, OtherTurnTells DEF FaultyStep
  <1>4. CASE \/ FenceCall \/ HealthCall \/ EngineReloads \/ EngineRefuses \/ LateReload \/ Crash
             \/ UNCHANGED vars
    BY <1>4, FenceAndHealthTell, WorldTells
  <1> QED
    BY <1>1, <1>2, <1>3, <1>4 DEF Next

(* At the start nothing is told.                                           *)
LEMMA JournalInvInitially == Init => JournalInv
  <1> SUFFICES ASSUME Init PROVE JournalInv
    OBVIOUS
  <1>1. /\ agent.journal = None /\ agent.completed = {}
        /\ \A p \in Planes : agent.planes[p].epoch = 0
        /\ \A k \in Whos \X Planes : agent.terminal[k] = None
    BY DEF Init, InitialAgent
  <1>2. \A op \in Ops, p \in Planes : <<Who(op), p>> \in Whos \X Planes
    BY WhoTypes DEF AllOps
  <1>3. TaleOk(agent)
    BY <1>1, <1>2, NoneAssumption
       DEF TaleOk, OneTuple, CommitsAreRecorded, JournalIsReserved, NoPlaneIsAhead,
           NoVerdictIsAhead, JournalTells, Verdicts
  <1>4. \A q \in Calls : call[q] = Idle
    BY DEF Init
  <1>5. (\A s, st : FrameTells(s, st, Idle)) /\ ~Driving(Idle)
    BY SilentIdle
  <1> HIDE DEF Idle
  <1> QED
    BY <1>3, <1>4, <1>5 DEF JournalInv, OneDrive

(* The journal tells the truth about the planes, whatever interleaves,     *)
(* crashes or times out: what it notes as committed was committed and has  *)
(* not gone back, and it is closed with what the planes say.               *)
THEOREM JournalIsTrue == Spec => []JournalTellsTheTruth
  <1>1. Init => ApplyInv /\ JournalInv
    BY ApplyInvInitially, JournalInvInitially
  <1>2. ApplyInv /\ JournalInv /\ [Next]_vars => ApplyInv' /\ JournalInv'
    BY ApplyInvStep, JournalInvStep
  <1>3. JournalInv => JournalTellsTheTruth
    BY DEF JournalInv, TaleOk, JournalTells, EntryTells, NotesTell, PhaseTells, ReachedIn,
       JournalTellsTheTruth, ReachedBy
  <1> QED
    BY <1>1, <1>2, <1>3, PTL DEF Spec
=============================================================================
