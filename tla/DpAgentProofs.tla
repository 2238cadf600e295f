--------------------------- MODULE DpAgentProofs ---------------------------
(***************************************************************************)
(* Theorems about the agent under any calls (DpAgentSurface): its state    *)
(* keeps its type and a plane only moves up; a plane stands where an       *)
(* operation that is not closed put it, with the verdict and the evidence  *)
(* for it; what was closed stays closed although its verdict was pruned;   *)
(* the clauses of assertInvariants that only a wrong agent could break     *)
(* stay silent; and the agent implements DpActivation.  What each call     *)
(* does is in DpAgentLemmas.                                               *)
(***************************************************************************)
EXTENDS DpAgentSurface, DpAgentLemmas

(* A call whose operator keeps the type keeps TypeOK.                      *)
LEMMA CallType ==
  ASSUME TypeOK, NEW calls \in SUBSET AgentStates, Call(calls)
  PROVE  TypeOK'
  <1>1. PICK t \in Outcomes(calls) : /\ agent' = Guarded(agent, t)
                                    /\ closed' = closed \cup ClosedIn(agent')
    BY DEF Call
  <1>2. agent' \in AgentStates
    BY <1>1, OutcomesType DEF Guarded, TypeOK
  <1>3. ClosedIn(agent') \subseteq Whos \X Planes
    BY <1>2 DEF ClosedIn, AgentStates, VerdictMaps
  <1> QED
    BY <1>1, <1>2, <1>3 DEF TypeOK

(* The first state has its type.                                           *)
LEMMA InitType == Init => TypeOK
  BY InitialAgentType DEF Init, TypeOK

(* Every call, one case each, keeps TypeOK.                                *)
LEMMA NextType == TypeOK /\ [Next]_vars => TypeOK'
  <1> SUFFICES ASSUME TypeOK, [Next]_vars PROVE TypeOK'
    OBVIOUS
  <1>0. agent \in AgentStates
    BY DEF TypeOK
  <1>ops. Ops \subseteq AllOps /\ HealthOps \subseteq AllOps
    BY DEF AllOps
  <1>1. CASE CallFence
    BY <1>0, <1>1, FenceType, CallType, BoundsAssumption DEF CallFence
  <1>2. CASE CallReserveAll
    BY <1>0, <1>2, ReserveAllType, CallType DEF CallReserveAll
  <1>3. CASE CallStage
    BY <1>0, <1>3, <1>ops, StageType, CallType DEF CallStage
  <1>4. CASE CallCommit
    BY <1>0, <1>4, <1>ops, CommitType, CallType DEF CallCommit
  <1>5. CASE CallAbort
    BY <1>0, <1>5, <1>ops, FinalizeType, CallType DEF CallAbort, Abort, Verdicts
  <1>6. CASE CallFail
    BY <1>0, <1>6, <1>ops, FinalizeType, CallType DEF CallFail, Fail, Verdicts
  <1>7. CASE CallApplyHealth
    BY <1>0, <1>7, <1>ops, ApplyHealthType, CallType DEF CallApplyHealth
  <1>8. CASE CallRecordPublishIntent
    BY <1>0, <1>8, <1>ops, RecordPublishIntentType, CallType DEF CallRecordPublishIntent
  <1>9. CASE CallWriteJournal
    <2>1. PICK op \in Ops, phase \in Phases, progress \in ProgressMaps :
            Call(WriteJournal(agent,
              [op |-> op, phase |-> phase, attempts |-> 0, progress |-> progress,
               seq |-> NextSeq(agent)]))
      BY <1>9 DEF CallWriteJournal
    <2> DEFINE entry == [op |-> op, phase |-> phase, attempts |-> 0,
                         progress |-> progress, seq |-> NextSeq(agent)]
    <2>2. NextSeq(agent) \in Nat
      BY <1>0 DEF NextSeq, AgentStates, Journals
    <2>3. entry \in Journals
      BY <2>2, BoundsAssumption DEF Journals
    <2> HIDE DEF entry
    <2>4. WriteJournal(agent, entry) \subseteq AgentStates
      BY <1>0, <2>3, WriteJournalType
    <2> QED
      BY <2>1, <2>4, CallType DEF entry
  <1>10. CASE CallCloseJournal
    BY <1>0, <1>10, CloseJournalType, CallType DEF CallCloseJournal, Phases
  <1>11. CASE CallFinishOperation
    BY <1>0, <1>11, FinishOperationType, CallType DEF CallFinishOperation
  <1>12. CASE CallReleaseHolderSlots
    BY <1>0, <1>12, ReleaseHolderSlotsType, CallType DEF CallReleaseHolderSlots
  <1>13. CASE CallReleaseStaleSlots
    BY <1>0, <1>13, ReleaseStaleSlotsType, CallType DEF CallReleaseStaleSlots
  <1>14. CASE CallReleaseIdleHolder
    BY <1>0, <1>14, ReleaseIdleHolderType, CallType DEF CallReleaseIdleHolder
  <1>15. CASE CallReclaimOperation
    BY <1>0, <1>15, <1>ops, ReclaimOperationType, CallType DEF CallReclaimOperation
  <1>16. CASE UNCHANGED vars
    BY <1>16 DEF vars, TypeOK
  <1> QED
    BY <1>1, <1>2, <1>3, <1>4, <1>5, <1>6, <1>7, <1>8, <1>9, <1>10, <1>11, <1>12,
       <1>13, <1>14, <1>15, <1>16 DEF Next

(* The agent's state keeps its type, for any planes, operations and        *)
(* retention, whatever calls come in whatever order.                       *)
THEOREM TypeCorrect == Spec => []TypeOK
  BY InitType, NextType, PTL DEF Spec

-----------------------------------------------------------------------------
(* Positions move up.  The strengthening: a slot was acquired above the    *)
(* position its operation expects, so a commit, which moves from exactly   *)
(* that position, moves up whenever it comes.                              *)

(* What a call may save, pruned and guarded, does the same.                *)
LEMMA CallMovesUp ==
  ASSUME agent \in AgentStates, SlotsAreAbove(agent), NEW calls \in SUBSET AgentStates,
         \A t \in calls : SlotsAreAbove(t) /\ PlanesUp(agent, t), Call(calls)
  PROVE  SlotsAreAbove(agent)' /\ PlanesUp(agent, agent')
  <1>1. PICK u \in Outcomes(calls) : agent' = Guarded(agent, u)
    BY DEF Call
  <1>2. PICK t \in calls : u \in Pruned(t)
    BY DEF Outcomes
  <1>3. OnlyFrees(t, u)
    BY <1>2, PrunedOnlyFrees
  <1>4. SlotsAreAbove(u) /\ u.planes = t.planes
    BY <1>3, OnlyFreesIsSafe DEF OnlyFrees
  <1>5. PlanesUp(agent, u)
    BY <1>4 DEF PlanesUp
  <1>6. PlanesUp(agent, agent)
    BY OnlyFreesIsSafe DEF OnlyFrees
  <1>7. agent' = u \/ agent' = agent
    BY <1>1 DEF Guarded
  <1>8. CASE agent' = u
    BY <1>4, <1>5, <1>8 DEF SlotsAreAbove
  <1>9. CASE agent' = agent
    BY <1>6, <1>9 DEF SlotsAreAbove
  <1> QED
    BY <1>7, <1>8, <1>9

UpInv == TypeOK /\ SlotsAreAbove(agent)

(* The first state has no slot at all.                                     *)
LEMMA InitUp == Init => UpInv
  BY InitType DEF UpInv, Init, InitialAgent, SlotsAreAbove, SlotIsAbove

(* Every call, one case each, keeps UpInv and moves planes only up.        *)
LEMMA NextUp ==
  ASSUME UpInv, [Next]_vars
  PROVE  SlotsAreAbove(agent)' /\ PlanesUp(agent, agent')
  <1>0. agent \in AgentStates /\ SlotsAreAbove(agent)
    BY DEF UpInv, TypeOK
  <1>ops. Ops \subseteq AllOps /\ HealthOps \subseteq AllOps
    BY DEF AllOps
  <1>frees. ASSUME NEW calls \in SUBSET AgentStates, \A t \in calls : OnlyFrees(agent, t),
                   Call(calls)
            PROVE  SlotsAreAbove(agent)' /\ PlanesUp(agent, agent')
    <2>1. \A t \in calls : SlotsAreAbove(t) /\ PlanesUp(agent, t)
      BY <1>0, <1>frees, OnlyFreesIsSafe
    <2> QED
      BY <1>0, <1>frees, <2>1, CallMovesUp
  <1>1. CASE CallFence
    BY <1>0, <1>1, <1>frees, FenceType, FenceOnlyFrees, BoundsAssumption DEF CallFence
  <1>2. CASE CallReserveAll
    BY <1>0, <1>2, ReserveAllType, ReserveAllMovesUp, CallMovesUp DEF CallReserveAll
  <1>3. CASE CallStage
    BY <1>0, <1>3, <1>ops, StageType, StageMovesUp, CallMovesUp DEF CallStage
  <1>4. CASE CallCommit
    BY <1>0, <1>4, <1>ops, CommitType, CommitMovesUp, CallMovesUp DEF CallCommit
  <1>5. CASE CallAbort
    BY <1>0, <1>5, <1>ops, <1>frees, FinalizeType, FinalizeOnlyFrees
       DEF CallAbort, Abort, Verdicts
  <1>6. CASE CallFail
    BY <1>0, <1>6, <1>ops, <1>frees, FinalizeType, FinalizeOnlyFrees
       DEF CallFail, Fail, Verdicts
  <1>7. CASE CallApplyHealth
    BY <1>0, <1>7, <1>ops, ApplyHealthType, ApplyHealthMovesUp, CallMovesUp
       DEF CallApplyHealth
  <1>8. CASE CallRecordPublishIntent
    BY <1>0, <1>8, <1>ops, <1>frees, RecordPublishIntentType, AdministrationOnlyFrees
       DEF CallRecordPublishIntent
  <1>9. CASE CallWriteJournal
    <2>1. PICK op \in Ops, phase \in Phases, progress \in ProgressMaps :
            Call(WriteJournal(agent,
              [op |-> op, phase |-> phase, attempts |-> 0, progress |-> progress,
               seq |-> NextSeq(agent)]))
      BY <1>9 DEF CallWriteJournal
    <2> DEFINE entry == [op |-> op, phase |-> phase, attempts |-> 0,
                         progress |-> progress, seq |-> NextSeq(agent)]
    <2>2. NextSeq(agent) \in Nat
      BY <1>0 DEF NextSeq, AgentStates, Journals
    <2>3. entry \in Journals
      BY <2>2, BoundsAssumption DEF Journals
    <2> HIDE DEF entry
    <2>4. WriteJournal(agent, entry) \subseteq AgentStates
      BY <1>0, <2>3, WriteJournalType
    <2>5. \A t \in WriteJournal(agent, entry) : OnlyFrees(agent, t)
      BY <1>0, AdministrationOnlyFrees
    <2> QED
      BY <1>frees, <2>1, <2>4, <2>5 DEF entry
  <1>10. CASE CallCloseJournal
    BY <1>0, <1>10, <1>frees, CloseJournalType, AdministrationOnlyFrees
       DEF CallCloseJournal, Phases
  <1>11. CASE CallFinishOperation
    BY <1>0, <1>11, <1>frees, FinishOperationType, FinishOperationOnlyFrees
       DEF CallFinishOperation
  <1>12. CASE CallReleaseHolderSlots
    BY <1>0, <1>12, <1>frees, ReleaseHolderSlotsType, AdministrationOnlyFrees
       DEF CallReleaseHolderSlots
  <1>13. CASE CallReleaseStaleSlots
    BY <1>0, <1>13, <1>frees, ReleaseStaleSlotsType, AdministrationOnlyFrees
       DEF CallReleaseStaleSlots
  <1>14. CASE CallReleaseIdleHolder
    BY <1>0, <1>14, <1>frees, ReleaseIdleHolderType, ReleaseIdleHolderOnlyFrees
       DEF CallReleaseIdleHolder
  <1>15. CASE CallReclaimOperation
    BY <1>0, <1>15, <1>ops, <1>frees, ReclaimOperationType, AdministrationOnlyFrees
       DEF CallReclaimOperation
  <1>16. CASE UNCHANGED vars
    BY <1>0, <1>16, OnlyFreesIsSafe DEF vars, OnlyFrees, SlotsAreAbove
  <1> QED
    BY <1>1, <1>2, <1>3, <1>4, <1>5, <1>6, <1>7, <1>8, <1>9, <1>10, <1>11, <1>12,
       <1>13, <1>14, <1>15, <1>16 DEF Next

(* A plane never goes back, for any planes, operations and retention: a    *)
(* commit delayed behind any number of others finds its expectation stale. *)
THEOREM PositionsOnlyMoveUp == Spec => PositionsMoveUp
  <1>1. UpInv /\ [Next]_vars => UpInv'
    BY NextType, NextUp DEF UpInv
  <1>2. UpInv /\ [Next]_vars =>
          [\A p \in Planes :
             \/ agent'.planes[p].epoch > agent.planes[p].epoch
             \/ /\ agent'.planes[p].epoch = agent.planes[p].epoch
                /\ agent'.planes[p].by = agent.planes[p].by
                /\ agent'.planes[p].rev >= agent.planes[p].rev]_vars
    BY NextUp DEF PlanesUp, PositionUp
  <1> QED
    BY InitUp, <1>1, <1>2, PTL DEF Spec, PositionsMoveUp
LedgerInv ==
  /\ UpInv
  /\ Justified(agent)
  /\ SlotsFenced(agent)
  /\ Placed(agent)
  /\ ClosedIn(agent) \subseteq closed
  /\ \A k \in closed : StaysClosed(agent, k)

-----------------------------------------------------------------------------
(* What is saved: an outcome of the call, pruned, and checked.             *)

Saves(t, u) ==
  /\ u \in Pruned(t) /\ agent' = Guarded(agent, u)
  /\ closed' = closed \cup ClosedIn(agent')
  /\ thrown' = BrokenClauses(agent, u)

(* Whatever call is made, what it saves is the pruned outcome of an Effect.*)
LEMMA NextEffect ==
  ASSUME agent \in AgentStates, SlotsAreAbove(agent), SlotsFenced(agent), Next
  PROVE  \E t \in AgentStates : Effect(agent, t) /\ \E u : Saves(t, u)
  <1>call. ASSUME NEW calls \in SUBSET AgentStates, \A t \in calls : Effect(agent, t),
                  Call(calls)
           PROVE  \E t \in AgentStates : Effect(agent, t) /\ \E u : Saves(t, u)
    BY <1>call DEF Call, Outcomes, Saves
  <1>ops. Ops \subseteq AllOps /\ HealthOps \subseteq AllOps
    BY DEF AllOps
  <1>1. CASE CallFence
    BY <1>1, <1>call, FenceType, FenceEffect, BoundsAssumption DEF CallFence, Effect
  <1>2. CASE CallReserveAll
    BY <1>2, <1>call, ReserveAllType, ReserveAllEffect DEF CallReserveAll, Effect
  <1>3. CASE CallStage
    BY <1>3, <1>ops, <1>call, StageType, StageEffect DEF CallStage, Effect
  <1>4. CASE CallCommit
    BY <1>4, <1>ops, <1>call, CommitType, CommitEffect DEF CallCommit, Effect
  <1>5. CASE CallAbort
    BY <1>5, <1>ops, <1>call, FinalizeType, FinalizeEffect
       DEF CallAbort, Abort, Verdicts, Effect
  <1>6. CASE CallFail
    BY <1>6, <1>ops, <1>call, FinalizeType, FinalizeEffect
       DEF CallFail, Fail, Verdicts, Effect
  <1>7. CASE CallApplyHealth
    BY <1>7, <1>ops, <1>call, ApplyHealthType, ApplyHealthEffect DEF CallApplyHealth, Effect
  <1>8. CASE CallRecordPublishIntent
    BY <1>8, <1>ops, <1>call, RecordPublishIntentType, AdministrationEffect
       DEF CallRecordPublishIntent, Effect
  <1>9. CASE CallWriteJournal
    <2>1. PICK op \in Ops, phase \in Phases, progress \in ProgressMaps :
            Call(WriteJournal(agent,
              [op |-> op, phase |-> phase, attempts |-> 0, progress |-> progress,
               seq |-> NextSeq(agent)]))
      BY <1>9 DEF CallWriteJournal
    <2> DEFINE entry == [op |-> op, phase |-> phase, attempts |-> 0,
                         progress |-> progress, seq |-> NextSeq(agent)]
    <2>2. NextSeq(agent) \in Nat
      BY DEF NextSeq, AgentStates, Journals
    <2>3. entry \in Journals
      BY <2>2, BoundsAssumption DEF Journals
    <2> HIDE DEF entry
    <2>4. WriteJournal(agent, entry) \subseteq AgentStates
      BY <2>3, WriteJournalType
    <2>5. \A t \in WriteJournal(agent, entry) : Effect(agent, t)
      BY <2>3, AdministrationEffect DEF Effect
    <2> QED
      BY <1>call, <2>1, <2>4, <2>5 DEF entry
  <1>10. CASE CallCloseJournal
    BY <1>10, <1>call, CloseJournalType, AdministrationEffect
       DEF CallCloseJournal, Phases, Effect
  <1>11. CASE CallFinishOperation
    BY <1>11, <1>call, FinishOperationType, FinishOperationEffect
       DEF CallFinishOperation, Effect
  <1>12. CASE CallReleaseHolderSlots
    BY <1>12, <1>call, ReleaseHolderSlotsType, AdministrationEffect
       DEF CallReleaseHolderSlots, Effect
  <1>13. CASE CallReleaseStaleSlots
    BY <1>13, <1>call, ReleaseStaleSlotsType, AdministrationEffect
       DEF CallReleaseStaleSlots, Effect
  <1>14. CASE CallReleaseIdleHolder
    BY <1>14, <1>call, ReleaseIdleHolderType, ReleaseIdleHolderEffect
       DEF CallReleaseIdleHolder, Effect
  <1>15. CASE CallReclaimOperation
    BY <1>15, <1>ops, <1>call, ReclaimOperationType, AdministrationEffect
       DEF CallReclaimOperation, Effect
  <1> QED
    BY <1>1, <1>2, <1>3, <1>4, <1>5, <1>6, <1>7, <1>8, <1>9, <1>10, <1>11, <1>12,
       <1>13, <1>14, <1>15 DEF Next

-----------------------------------------------------------------------------
(* The invariant.                                                          *)

(* The first state.                                                        *)
LEMMA InitLedger == Init => LedgerInv
  <1> SUFFICES ASSUME Init PROVE LedgerInv
    OBVIOUS
  <1>1. UpInv
    BY InitUp
  <1>2. agent = InitialAgent /\ closed = {}
    BY DEF Init
  <1>3. Justified(agent)
    BY <1>2 DEF Justified, PlaneIsJustified, InitialAgent
  <1>4. SlotsFenced(agent) /\ Placed(agent)
    BY <1>2 DEF SlotsFenced, Placed, InitialAgent
  <1>5. ClosedIn(agent) = {}
    BY <1>2, NoneAssumption DEF ClosedIn, InitialAgent, Verdicts
  <1> QED
    BY <1>1, <1>2, <1>3, <1>4, <1>5 DEF LedgerInv

(* Every call keeps the invariant.                                         *)
LEMMA NextLedger == LedgerInv /\ [Next]_vars => LedgerInv'
  <1> SUFFICES ASSUME LedgerInv, [Next]_vars PROVE LedgerInv'
    OBVIOUS
  <1>0. /\ UpInv /\ agent \in AgentStates /\ SlotsAreAbove(agent) /\ LedgerAt(agent)
        /\ SlotsFenced(agent) /\ closed \subseteq Whos \X Planes
        /\ ClosedIn(agent) \subseteq closed /\ \A k \in closed : StaysClosed(agent, k)
    BY DEF LedgerInv, UpInv, TypeOK, LedgerAt
  <1>1. UpInv'
    BY <1>0, NextType, NextUp DEF UpInv
  <1>2. CASE UNCHANGED vars
    BY <1>1, <1>2 DEF LedgerInv, vars, Justified, PlaneIsJustified, SlotsFenced, Placed,
       ClosedIn, StaysClosed, IsPast
  <1>3. CASE Next
    <2>1. PICK t \in AgentStates : Effect(agent, t) /\ \E u : Saves(t, u)
      BY <1>0, <1>3, NextEffect
    <2>2. PICK u : Saves(t, u)
      BY <2>1
    <2>3. LedgerAt(t) /\ Keeps(agent, t) /\ EpochsUp(agent, t) /\ Placed(t)
      BY <1>0, <2>1, EffectKeepsLedger DEF LedgerAt
    <2>4. LedgerAt(u) /\ u \in Pruned(t)
      BY <2>2, <2>3, PrunedKeepsLedger DEF Saves
    <2>5. \A k \in closed : StaysClosed(u, k)
      BY <1>0, <2>3, <2>4, ClosedStaysClosed
    <2>6. /\ agent' = u \/ agent' = agent
          /\ closed' = closed \cup ClosedIn(agent')
      BY <2>2 DEF Saves, Guarded
    <2>7. LedgerAt(agent') /\ \A k \in closed : StaysClosed(agent', k)
      BY <1>0, <2>4, <2>5, <2>6
    <2>8. \A k \in ClosedIn(agent') : StaysClosed(agent', k)
      BY DEF ClosedIn, StaysClosed
    <2>9. /\ Justified(agent)' /\ SlotsFenced(agent)' /\ Placed(agent)'
      BY <2>7 DEF LedgerAt, Justified, PlaneIsJustified, SlotsFenced, Placed
    <2>10. ClosedIn(agent)' \subseteq closed'
      BY <2>6 DEF ClosedIn
    <2>11. (\A k \in closed : StaysClosed(agent, k))'
      BY <2>6, <2>7, <2>8 DEF StaysClosed, IsPast
    <2> QED
      BY <1>1, <2>9, <2>10, <2>11 DEF LedgerInv
  <1> QED
    BY <1>2, <1>3

(* Where a plane stands there is the verdict and the evidence for it,      *)
(* whatever was pruned and whatever came late (commit, prune).             *)
THEOREM StandingIsJustifiedAlways == Spec => []StandingIsJustified
  <1>1. LedgerInv => StandingIsJustified
    BY DEF LedgerInv, Justified, PlaneIsJustified, StandingIsJustified
  <1> QED
    BY <1>1, InitLedger, NextLedger, PTL DEF Spec

(* What was ever failed or aborted never moves its plane again, although   *)
(* its verdict was pruned (admit, terminalPrunable).                       *)
THEOREM ClosedNeverMoves == Spec => NoResurrection
  <1>1. LedgerInv /\ [Next]_vars =>
          [\A p \in Planes :
             agent'.planes[p].by # agent.planes[p].by =>
               <<agent'.planes[p].by, p>> \notin closed]_vars
    <2> SUFFICES ASSUME LedgerInv, Next, NEW p \in Planes,
                        agent'.planes[p].by # agent.planes[p].by
                 PROVE  <<agent'.planes[p].by, p>> \notin closed
      OBVIOUS
    <2>0. /\ agent \in AgentStates /\ SlotsAreAbove(agent) /\ LedgerAt(agent)
          /\ SlotsFenced(agent) /\ \A k \in closed : StaysClosed(agent, k)
      BY DEF LedgerInv, UpInv, TypeOK, LedgerAt
    <2>1. PICK t \in AgentStates : Effect(agent, t) /\ \E u : Saves(t, u)
      BY <2>0, NextEffect
    <2>2. PICK u : Saves(t, u)
      BY <2>1
    <2>3. u.planes = t.planes
      BY <2>2, PrunedFields DEF Saves
    <2>4. agent'.planes = t.planes
      BY <2>2, <2>3 DEF Saves, Guarded
    <2>5. ~Administers(agent, t)
      BY <2>4 DEF Administers
    <2>6. ASSUME NEW op \in HealthOps, NEW q \in Planes, RefreshesPlane(agent, t, op, q)
          PROVE  FALSE
      BY <2>0, <2>4, <2>6 DEF RefreshesPlane, AgentStates, Positions, PlaneStates
    <2>7. PICK op \in Ops, q \in Planes : MovesPlane(agent, t, op, q)
      BY <2>1, <2>5, <2>6 DEF Effect
    <2>8. /\ q = p /\ t.planes[p].by = Who(op)
          /\ op.epoch > agent.planes[p].epoch /\ agent.terminal[<<Who(op), p>>] = None
      BY <2>0, <2>4, <2>7 DEF MovesPlane, AgentStates, Positions
    <2>9. op.epoch \in Nat /\ agent.planes[p].epoch \in Nat
      BY <2>0, EnvelopeTypes DEF AllOps, AgentStates, Positions, PlaneStates
    <2>10. ~StaysClosed(agent, <<Who(op), p>>)
      BY <2>8, <2>9, NoneAssumption DEF StaysClosed, IsPast, Verdicts
    <2> QED
      BY <2>0, <2>4, <2>8, <2>10
  <1> QED
    BY <1>1, InitLedger, NextLedger, PTL DEF Spec, NoResurrection

-----------------------------------------------------------------------------
(* The clauses of assertInvariants that stay silent.                       *)

(* The clauses agent.ts:778 calls defensive are: for any calls, operations *)
(* and retention, none of them ever throws.                                *)
THEOREM DefensiveClausesStaySilent == Spec => []OnlyUnfencedTokensThrow
  <1>1. Init => OnlyUnfencedTokensThrow
    BY DEF Init, OnlyUnfencedTokensThrow
  <1>2. LedgerInv /\ OnlyUnfencedTokensThrow /\ [Next]_vars => OnlyUnfencedTokensThrow'
    <2> SUFFICES ASSUME LedgerInv, OnlyUnfencedTokensThrow, [Next]_vars
                 PROVE  OnlyUnfencedTokensThrow'
      OBVIOUS
    <2>1. CASE UNCHANGED vars
      BY <2>1 DEF vars, OnlyUnfencedTokensThrow
    <2>2. CASE Next
      <3>0. /\ agent \in AgentStates /\ SlotsAreAbove(agent) /\ LedgerAt(agent)
            /\ SlotsFenced(agent)
        BY DEF LedgerInv, UpInv, TypeOK, LedgerAt
      <3>1. PICK t \in AgentStates : Effect(agent, t) /\ \E u : Saves(t, u)
        BY <3>0, <2>2, NextEffect
      <3>2. PICK u : Saves(t, u)
        BY <3>1
      <3>3. BrokenClauses(agent, u) \subseteq {"I1 holder", "I5"}
        BY <3>0, <3>1, <3>2, OutcomesKeepTheClauses DEF Saves
      <3> QED
        BY <3>2, <3>3 DEF Saves, OnlyUnfencedTokensThrow
    <2> QED
      BY <2>1, <2>2
  <1> QED
    BY <1>1, <1>2, InitLedger, NextLedger, PTL DEF Spec

-----------------------------------------------------------------------------
(* The agent implements DpActivation, step by step.                        *)

Baseline(s) == IF s.lastActivated = None THEN None ELSE Who(s.lastActivated)

(* The first state of the agent is the first state of an activation.       *)
LEMMA InitRefines == Init => Activation!Init
  BY DEF Init, InitialAgent, Activation!Init

(* A commit that is saved is the move of one plane.                        *)
LEMMA MoveRefines ==
  ASSUME LedgerInv, NEW t \in AgentStates, NEW u, Saves(t, u), agent' = u,
         NEW op \in Ops, NEW p \in Planes, MovesPlane(agent, t, op, p)
  PROVE  Activation!Move(p)
  <1>0. /\ agent \in AgentStates /\ ClosedIn(agent) \subseteq closed
        /\ \A k \in closed : StaysClosed(agent, k)
    BY DEF LedgerInv, UpInv, TypeOK
  <1>1. /\ u \in AgentStates /\ u.planes = t.planes /\ u.max = t.max
        /\ u.lastActivated = t.lastActivated
        /\ \A k \in Whos \X Planes : u.terminal[k] \in {t.terminal[k], None}
    BY PrunedFields DEF Saves
  <1>2. Who(op) \in Whos /\ Who(op).token = op.token /\ op.epoch \in Nat
        /\ agent.planes[p].epoch \in Nat
    BY <1>0, WhoTypes, EnvelopeTypes DEF AllOps, Who, AgentStates, Positions, PlaneStates
  <1>3. agent'.max = op.token /\ op.token >= agent.max
    BY <1>1 DEF MovesPlane
  <1>4. ~StaysClosed(agent, <<Who(op), p>>)
    BY <1>2, NoneAssumption DEF MovesPlane, StaysClosed, IsPast, Verdicts
  <1>5. <<Who(op), p>> \notin closed
    BY <1>0, <1>4
  <1>6. /\ agent'.planes[p].epoch > agent.planes[p].epoch /\ agent'.planes[p].by = Who(op)
        /\ \A q \in Planes \ {p} : agent'.planes[q] = agent.planes[q]
    BY <1>0, <1>1 DEF MovesPlane, AgentStates, Positions
  <1>7. ClosedIn(agent') \subseteq closed
    <2> SUFFICES ASSUME NEW k \in ClosedIn(agent') PROVE k \in ClosedIn(agent)
      BY <1>0
    <2>1. k \in Whos \X Planes /\ u.terminal[k] \in {"failed", "aborted"}
      BY <1>1 DEF ClosedIn, AgentStates, VerdictMaps
    <2>2. u.terminal[k] # None
      BY <2>1, NoneAssumption DEF Verdicts
    <2>3. t.terminal[k] \in {"failed", "aborted"}
      BY <1>1, <2>1, <2>2
    <2>4. agent.terminal[k] = t.terminal[k]
      BY <2>1, <2>3 DEF MovesPlane
    <2> QED
      BY <1>0, <2>1, <2>3, <2>4 DEF ClosedIn, AgentStates, VerdictMaps
  <1>8. closed' = closed
    BY <1>7 DEF Saves
  <1>9. agent'.lastActivated = agent.lastActivated
    BY <1>1 DEF MovesPlane, Unsettled
  <1> QED
    BY <1>2, <1>3, <1>5, <1>6, <1>8, <1>9 DEF Activation!Move, Activation!OnlyMoves

(* A delta that is saved refreshes one plane.                              *)
LEMMA RefreshRefines ==
  ASSUME LedgerInv, NEW t \in AgentStates, NEW u, Saves(t, u), agent' = u,
         NEW op \in HealthOps, NEW p \in Planes, RefreshesPlane(agent, t, op, p)
  PROVE  Activation!Refresh(p)
  <1>0. agent \in AgentStates /\ ClosedIn(agent) \subseteq closed
    BY DEF LedgerInv, UpInv, TypeOK
  <1>1. /\ u \in AgentStates /\ u.planes = t.planes /\ u.max = t.max
        /\ u.lastActivated = t.lastActivated
        /\ \A k \in Whos \X Planes : u.terminal[k] \in {t.terminal[k], None}
    BY PrunedFields DEF Saves
  <1>2. agent'.max >= agent.max
    BY <1>1 DEF RefreshesPlane, Keeps
  <1>3. /\ agent'.planes[p].rev = op.rev /\ op.rev > agent.planes[p].rev
        /\ agent'.planes[p] = [agent.planes[p] EXCEPT !.rev = op.rev]
        /\ \A q \in Planes \ {p} : agent'.planes[q] = agent.planes[q]
    BY <1>0, <1>1 DEF RefreshesPlane, AgentStates, Positions, PlaneStates
  <1>4. ClosedIn(agent') \subseteq closed
    <2> SUFFICES ASSUME NEW k \in ClosedIn(agent') PROVE k \in ClosedIn(agent)
      BY <1>0
    <2>1. k \in Whos \X Planes /\ u.terminal[k] \in {"failed", "aborted"}
      BY <1>1 DEF ClosedIn, AgentStates, VerdictMaps
    <2>2. u.terminal[k] # None
      BY <2>1, NoneAssumption DEF Verdicts
    <2> QED
      BY <1>0, <1>1, <2>1, <2>2 DEF RefreshesPlane, ClosedIn, AgentStates, VerdictMaps
  <1>5. closed' = closed
    BY <1>4 DEF Saves
  <1>6. agent'.lastActivated = agent.lastActivated
    BY <1>1 DEF RefreshesPlane, Unsettled
  <1> QED
    BY <1>2, <1>3, <1>5, <1>6 DEF Activation!Refresh, Activation!OnlyMoves

(* Everything else that is saved administers: what it closes stands        *)
(* nowhere, and a baseline it settles has arrived.                         *)
LEMMA AdministrationRefines ==
  ASSUME LedgerInv, LedgerInv', NEW t \in AgentStates, NEW u, Saves(t, u), agent' = u,
         Administers(agent, t)
  PROVE  Activation!Administer
  <1>0. agent \in AgentStates /\ Justified(agent)
    BY DEF LedgerInv, UpInv, TypeOK
  <1>1. /\ u \in AgentStates /\ u.planes = t.planes /\ u.max = t.max
        /\ u.lastActivated = t.lastActivated
    BY PrunedFields DEF Saves
  <1>2. agent'.max >= agent.max /\ agent'.planes = agent.planes
    BY <1>1 DEF Administers, Keeps
  <1>3. closed \subseteq closed'
    BY DEF Saves
  <1>4. ASSUME NEW k \in closed' \ closed
        PROVE  agent.planes[k[2]].by # k[1]
    <2>1. k \in ClosedIn(u)
      BY <1>4 DEF Saves
    <2>2. /\ k \in Whos \X Planes /\ k = <<k[1], k[2]>> /\ k[1] \in Whos /\ k[2] \in Planes
          /\ u.terminal[k] \in {"failed", "aborted"}
      BY <1>1, <2>1 DEF ClosedIn, AgentStates, VerdictMaps
    <2>3. PlaneIsJustified(u, k[2])
      BY <2>2 DEF LedgerInv, Justified, PlaneIsJustified
    <2>4. u.planes[k[2]].by # k[1]
      BY <2>2, <2>3, NoneAssumption DEF PlaneIsJustified
    <2> QED
      BY <1>2, <2>4
  <1>5. Baseline(u) \in {Baseline(agent), None} \cup {who \in Whos : Activation!Arrived(who)}
    <2>1. CASE t.lastActivated \in {agent.lastActivated, None}
      BY <1>1, <2>1 DEF Baseline
    <2>2. CASE HasArrived(agent) /\ agent.pendingActivation # None
               /\ t.lastActivated = agent.pendingActivation
      <3> DEFINE c == agent.pendingActivation
                 e == CandidateEpochs(agent, c.name)
      <3>1. Baseline(u) = Who(c) /\ Who(c) \in Whos
        BY <1>0, <1>1, <2>2
           DEF Baseline, AgentStates, MaybeRecord, Records, Who, Whos
      <3>2. e \in Epochs \cup {None} /\ CandidateArrived(agent, c, e)
        BY <1>0, <2>2, CandidateEpochsType DEF HasArrived
      <3> HIDE DEF c, e
      <3>3. \A p \in Planes : agent.planes[p].epoch = e /\ agent.planes[p].by = Who(c)
        BY <1>0, <3>2, ArrivedIsStanding
      <3>4. Activation!Arrived(Who(c))
        BY <3>3 DEF Activation!Arrived
      <3> QED
        BY <3>1, <3>4
    <2> QED
      BY <2>1, <2>2 DEF Administers, Settled, Unsettled, SettledNow
  <1> QED
    BY <1>2, <1>3, <1>4, <1>5 DEF Activation!Administer, Baseline

(* Every step of the agent is a step of an activation, or none.            *)
LEMMA NextRefines ==
  LedgerInv /\ LedgerInv' /\ [Next]_vars => [Activation!Next]_(Activation!vars)
  <1> SUFFICES ASSUME LedgerInv, LedgerInv', Next
               PROVE  Activation!Next \/ UNCHANGED Activation!vars
    BY DEF vars, Activation!vars
  <1>0. /\ agent \in AgentStates /\ SlotsAreAbove(agent) /\ SlotsFenced(agent)
        /\ ClosedIn(agent) \subseteq closed
    BY DEF LedgerInv, UpInv, TypeOK
  <1>1. PICK t \in AgentStates : Effect(agent, t) /\ \E u : Saves(t, u)
    BY <1>0, NextEffect
  <1>2. PICK u : Saves(t, u)
    BY <1>1
  <1>3. CASE agent' = agent
    <2>1. closed' = closed
      BY <1>0, <1>2, <1>3 DEF Saves
    <2> QED
      BY <1>3, <2>1 DEF Activation!vars
  <1>4. CASE agent' = u
    BY <1>1, <1>2, <1>4, MoveRefines, RefreshRefines, AdministrationRefines
       DEF Effect, Activation!Next
  <1> QED
    BY <1>2, <1>3, <1>4 DEF Saves, Guarded

(* The agent, with its slots, journal, ledger, pruning and replays, is an  *)
(* implementation of what it promises of activation, for any planes,       *)
(* operations and retention.                                               *)
THEOREM AgentImplementsActivation == Spec => ActivationIsImplemented
  <1> QED
    BY InitLedger, NextLedger, InitRefines, NextRefines, PTL
       DEF Spec, ActivationIsImplemented, Activation!Spec
=============================================================================
