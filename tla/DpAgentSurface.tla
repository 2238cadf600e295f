--------------------------- MODULE DpAgentSurface ---------------------------
(***************************************************************************)
(* The agent under callers that may make any call at any time: calls that  *)
(* were delayed, repeated or reordered on the way, by leaders old and new, *)
(* by an apply that was aborted meanwhile.  Nothing is assumed of the      *)
(* runner, so what holds here holds whatever DpApply's processes do.       *)
(***************************************************************************)
EXTENDS DpAgent

CONSTANTS
  MaxToken,      \* bound: the highest leader token a fence brings
  MaxSeq,        \* bound: the highest journal seq
  ProgressMaps   \* the progress maps callers write into the journal

ASSUME BoundsAssumption ==
  /\ MaxToken \in Nat /\ MaxSeq \in Nat
  /\ ProgressMaps \subseteq [Planes -> Progress]

VARIABLES
  agent,   \* the durable AgentState
  closed,  \* history: the <<who, plane>> that were ever failed or aborted
  thrown   \* the clauses of assertInvariants that made the last call throw

vars == <<agent, closed, thrown>>

ClosedIn(s) == {k \in DOMAIN s.terminal : s.terminal[k] \in {"failed", "aborted"}}

Init == agent = InitialAgent /\ closed = {} /\ thrown = {}

(* One call: an outcome is pruned, checked and saved, or thrown away.      *)
Call(calls) ==
  \E t \in Outcomes(calls) :
    /\ t.journal # None => t.journal.seq <= MaxSeq
    /\ agent' = Guarded(agent, t)
    /\ closed' = closed \cup ClosedIn(agent')
    /\ thrown' = BrokenClauses(agent, t)

CallFence == \E token \in 1..MaxToken : Call(Fence(agent, token))
CallReserveAll == \E op \in Ops : Call(ReserveAll(agent, op))
CallStage == \E op \in Ops, p \in Planes : Call(Stage(agent, op, p))
CallCommit ==
  \E op \in Ops, p \in Planes, proof \in BOOLEAN : Call(Commit(agent, op, p, proof))
CallAbort == \E op \in Ops, p \in Planes : Call(Abort(agent, op, p))
CallFail == \E op \in Ops, p \in Planes : Call(Fail(agent, op, p))
CallApplyHealth == \E op \in HealthOps, p \in Planes : Call(ApplyHealth(agent, op, p))
CallRecordPublishIntent == \E op \in Ops : Call(RecordPublishIntent(agent, op))
CallWriteJournal ==
  \E op \in Ops, phase \in Phases, progress \in ProgressMaps :
    Call(WriteJournal(agent,
      [op |-> op, phase |-> phase, attempts |-> 0, progress |-> progress,
       seq |-> NextSeq(agent)]))
CallCloseJournal ==
  \E op \in Ops, how \in TerminalPhases : Call(CloseJournal(agent, op, how))
CallFinishOperation ==
  \E op \in Ops, ps \in SUBSET Planes : Call(FinishOperation(agent, op, ps))
CallReleaseHolderSlots == \E op \in Ops : Call(ReleaseHolderSlots(agent, op))
CallReleaseStaleSlots == \E op \in Ops : Call(ReleaseStaleSlots(agent, op))
CallReleaseIdleHolder == Call(ReleaseIdleHolder(agent))
CallReclaimOperation == \E op \in Ops : Call(ReclaimOperation(agent, op))

Next ==
  \/ CallFence \/ CallReserveAll \/ CallStage \/ CallCommit
  \/ CallAbort \/ CallFail \/ CallApplyHealth
  \/ CallRecordPublishIntent \/ CallWriteJournal \/ CallCloseJournal
  \/ CallFinishOperation \/ CallReleaseHolderSlots \/ CallReleaseStaleSlots
  \/ CallReleaseIdleHolder \/ CallReclaimOperation

Spec == Init /\ [][Next]_vars
-----------------------------------------------------------------------------
(* The agent's state always has its type.                                  *)
TypeOK == agent \in AgentStates /\ closed \subseteq Whos \X Planes

(* A position that moves, moves strictly up: a commit that was delayed     *)
(* behind another operation's commit never takes a plane back (commit,     *)
(* acquire).  assertInvariants only asks that an epoch does not fall.      *)
PositionsMoveUp ==
  [][\A p \in Planes :
       \/ agent'.planes[p].epoch > agent.planes[p].epoch
       \/ /\ agent'.planes[p].epoch = agent.planes[p].epoch
          /\ agent'.planes[p].by = agent.planes[p].by
          /\ agent'.planes[p].rev >= agent.planes[p].rev]_vars

(* A transition that was ever failed or aborted never moves the plane      *)
(* afterwards, although its verdict and its ledger records may have been   *)
(* pruned and its calls arrive late or again (admit, terminalPrunable).    *)
NoResurrection ==
  [][\A p \in Planes :
       agent'.planes[p].by # agent.planes[p].by =>
         <<agent'.planes[p].by, p>> \notin closed]_vars

Activation == INSTANCE DpActivation WITH
  token <- agent.max, position <- agent.planes, closed <- closed,
  baseline <- IF agent.lastActivated = None THEN None ELSE Who(agent.lastActivated)

(* The agent implements what it promises (DpActivation): every call, as it *)
(* prunes, closes, supersedes and settles, is a move of one plane, a delta *)
(* inside its epoch, or a step that leaves every plane where it is.        *)
ActivationIsImplemented == Activation!Spec

(* Whoever moved a plane to where it stands has the verdict 'activated'    *)
(* there and left the evidence for it: pruning, late aborts and superseding*)
(* never take either away while the plane stands (commit, prune).          *)
StandingIsJustified ==
  \A p \in Planes : agent.planes[p].by # None =>
    /\ agent.terminal[<<agent.planes[p].by, p>>] = "activated"
    /\ <<p, agent.planes[p].epoch>> \in agent.evidence

(* The clauses that agent.ts:778 calls defensive stay silent whatever call *)
(* comes, and so do the others but the two that meet a leader whose first  *)
(* call is not its fence: its token is above the holder's (I1), or its     *)
(* intent above the newest token (I5).                                     *)
OnlyUnfencedTokensThrow == thrown \subseteq {"I1 holder", "I5"}
=============================================================================
