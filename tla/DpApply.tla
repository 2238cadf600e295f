------------------------------ MODULE DpApply ------------------------------
(***************************************************************************)
(* The apply path of the data plane: the runner (dp/apply.ts) and the      *)
(* driver (dp/driver.ts) drive the agent's durable journal and the world   *)
(* outside it, the published generation and the engine (dp/effects-fs.ts). *)
(*                                                                         *)
(* A call of the driver (applyConfig, recoverConfig, abortConfig) is a     *)
(* process.  Its steps end at its awaits: a step is a call of the agent    *)
(* (serialized, see DpAgent), an effect, or a turn of the event loop that  *)
(* only reads.  Any other process may run between two steps, except that   *)
(* exclusiveApply lets one drive at a time.                                *)
(***************************************************************************)
EXTENDS DpAgent

CONSTANTS
  Calls,        \* slots for calls in flight
  FenceFirst,   \* TRUE: a leader issues nothing before its fence was answered;
                \* FALSE: it was promoted while serving
  MaxFaults     \* bound: crashes, timeouts, blind reads and failed effects

ASSUME ApplyAssumption ==
  /\ Planes = {"http", "stream"} /\ None \notin Calls
  /\ FenceFirst \in BOOLEAN /\ MaxFaults \in Nat

ReloadAttemptLimit == 2    \* RELOAD_ATTEMPT_LIMIT
PartialRetryLimit == 2     \* PARTIAL_RETRY_LIMIT

VARIABLES
  agent,      \* the agent's durable state
  owner,      \* the record in current.owner: who published last
  link,       \* the generation `current` points at
  running,    \* the generation the engine accepts with
  hup,        \* a reload signal is on its way to the engine
  late,       \* operations whose timed-out signalReload may still send it
  call,       \* the calls in flight
  applying,   \* who is inside exclusiveApply
  started,    \* the operations applyConfig was called with
  cancelled,  \* history: who was cancelled by an abortConfig that returned
  faults,     \* how many faults may still happen
  thrown      \* the clauses of assertInvariants that made the last call throw

world == <<owner, link, running, hup, late>>
aux == <<started, cancelled, faults>>
vars == <<agent, owner, link, running, hup, late, call, applying, started,
          cancelled, faults, thrown>>

-----------------------------------------------------------------------------
(* A call in flight: where it is, the envelope it works for, the journal   *)
(* entry it read, the planes it has to visit, what it noted of each plane, *)
(* the entry it writes, where it goes after the write and after the finish.*)

Idle == [pc |-> "idle", op |-> None, j |-> None, todo |-> {}, progress |-> None,
         entry |-> None, next |-> "idle", after |-> "idle"]
InCall(pc, op) == [Idle EXCEPT !.pc = pc, !.op = op]

GotoInTheQueue(p, c) ==   \* a drive that ends keeps exclusiveApply
  call' = [call EXCEPT ![p] = c] /\ applying' = applying
Goto(p, c) ==
  /\ call' = [call EXCEPT ![p] = c]
  /\ applying' = IF applying = p /\ c.pc = "idle" THEN None ELSE applying
Turn(p, c) == Goto(p, c) /\ UNCHANGED <<agent, thrown>>

(* A serialized call of the agent: accepted, rejected, or thrown out by    *)
(* assertInvariants; that error is no DpRejection and ends the call.       *)
AgentCall(p, calls, accepted, rejected) ==
  \/ \E t \in Outcomes(calls) :
       /\ agent' = Guarded(agent, t)
       /\ thrown' = BrokenClauses(agent, t)
       /\ Goto(p, IF thrown' = {} THEN accepted ELSE Idle)
  \/ calls = {} /\ Turn(p, rejected)

At0(p, pc) == call[p].pc = pc
NextPlane(todo) == IF "http" \in todo THEN "http" ELSE "stream"
Fault == faults > 0 /\ faults' = faults - 1 /\ UNCHANGED <<started, cancelled>>

Loop(op) == InCall("loop", op)
Finishes(op, stuck, after) ==
  [InCall("finish", op) EXCEPT !.todo = stuck, !.after = after]
(* next(j, over): an entry is written on the seq that was read.            *)
Writes(entry, next) ==
  [InCall("write", entry.op) EXCEPT !.entry = [entry EXCEPT !.seq = @ + 1], !.next = next]
WritesAndFinishes(entry, stuck, after) ==
  [Writes(entry, "finish") EXCEPT !.todo = stuck, !.after = after]
FailsAll(j, after) ==
  [InCall("fail", j.op) EXCEPT !.j = j, !.todo = Planes, !.progress = j.progress,
                               !.after = after]
NotCommitted(j) == {p \in Planes : j.progress[p] # "committed"}

(* publishedByMe, and the evidence that proves a generation (provesActivation) *)
PublishedByMe(op) == owner # None /\ link = owner.epoch /\ owner = RecordOf(op)
Proves(op) == running = op.epoch

(* A plane's stage is noted; when none got through the operation fails.    *)
StagedTo(c, plane, noted) ==
  LET progress == [c.progress EXCEPT ![plane] = noted]
      advanced == \E p \in Planes : progress[p] = "staged"
  IN IF c.todo # {plane}
     THEN [c EXCEPT !.pc = "stage", !.todo = @ \ {plane}, !.progress = progress]
     ELSE IF advanced
     THEN Writes([c.j EXCEPT !.phase = "membership_staged", !.progress = progress], "loop")
     ELSE FailsAll(c.j, "loop")

(* A plane's commit is noted; after the last one the phase says how many   *)
(* planes arrived, and a partial activation keeps the operation.           *)
CommittedTo(c, plane, noted) ==
  LET progress == [c.progress EXCEPT ![plane] = noted]
      stuck    == {p \in Planes : progress[p] # "committed"}
      phase    == IF stuck = {} THEN "activated"
                  ELSE IF stuck = Planes THEN "failed" ELSE "partially_activated"
      entry    == [c.j EXCEPT !.phase = phase, !.progress = progress]
  IN IF c.todo # {plane} THEN [c EXCEPT !.todo = @ \ {plane}, !.progress = progress]
     ELSE IF phase = "partially_activated" THEN Writes(entry, "loop")
     ELSE WritesAndFinishes(entry, stuck, "loop")

-----------------------------------------------------------------------------
Init ==
  /\ agent = InitialAgent
  /\ owner = None /\ link = None /\ running = None /\ hup = FALSE /\ late = {}
  /\ call = [p \in Calls |-> Idle] /\ applying = None
  /\ started = {} /\ cancelled = {} /\ faults = MaxFaults /\ thrown = {}

(* A new leader fences before it issues an operation: at boot nothing is   *)
(* served before.  A later promotion serves at once, while its fence is on *)
(* its way, or lost: the election is not tried again (FenceFirst = FALSE). *)
Fenced(token) == FenceFirst => agent.max >= token
FenceCall ==
  \E token \in Tokens : \E t \in Outcomes(Fence(agent, token)) :
    /\ token > agent.max
    /\ agent' = Guarded(agent, t) /\ thrown' = BrokenClauses(agent, t)
    /\ UNCHANGED <<world, call, applying, aux>>

(* applyMembership: one delta on one plane, from the coordinate it read.   *)
HealthCall ==
  \E op \in HealthOps, p \in Planes : \E t \in Outcomes(ApplyHealth(agent, op, p)) :
    /\ Fenced(op.token)
    /\ t # agent
    /\ agent' = Guarded(agent, t) /\ thrown' = BrokenClauses(agent, t)
    /\ UNCHANGED <<world, call, applying, aux>>

(* applyConfig: run opens with reserveAll and then drives.  An operation   *)
(* is issued once, but the newest may come again: followActive issues the  *)
(* one it follows at every tick until the planes stand there, and of two   *)
(* rows with one epoch (a plan applied again) follows the newer.  Under    *)
(* one token the newer only became active by standing on both planes.      *)
StartRun(p) ==
  \E op \in Ops :
    /\ At0(p, "idle") /\ Fenced(op.token)
    /\ op \in started => \A o \in started :
         \/ o.epoch < op.epoch
         \/ o.epoch = op.epoch /\ (o.name = op.name \/ o.token < op.token)
    /\ AgentCall(p, ReserveAll(agent, op), InCall("queue", op), Idle)
    /\ started' = started \cup {op}
    /\ UNCHANGED <<world, cancelled, faults>>

(* recoverConfig: the journal is read, and what it says decides the next   *)
(* call; by then another process may have changed it.                      *)
RecoverUnfinishedOnly(p) ==   \* a closed journal is taken for a finished operation
  LET j == agent.journal IN
  /\ At0(p, "idle")
  /\ Turn(p, IF j = None THEN InCall("recover_idle", None)
             ELSE IF ~Unfinished(j) THEN Idle
             ELSE IF j.op.token < agent.max THEN InCall("recover_close", j.op)
             ELSE InCall("reclaim", j.op))
  /\ UNCHANGED <<world, aux>>
StartRecover(p) ==
  LET j == agent.journal IN
  /\ At0(p, "idle")
  /\ Turn(p, IF j = None THEN InCall("recover_idle", None)
             ELSE IF ~Unfinished(j) THEN Finishes(j.op, NotCommitted(j), "idle")
             ELSE IF j.op.token < agent.max THEN InCall("recover_close", j.op)
             ELSE InCall("reclaim", j.op))
  /\ UNCHANGED <<world, aux>>
RecoverIdle(p) ==
  /\ At0(p, "recover_idle")
  /\ AgentCall(p, ReleaseIdleHolder(agent), Idle, Idle)
  /\ UNCHANGED <<world, aux>>
RecoverClose(p) ==
  LET op == call[p].op IN
  /\ At0(p, "recover_close")
  /\ AgentCall(p, CloseJournal(agent, op, "superseded"), InCall("recover_free", op), Idle)
  /\ UNCHANGED <<world, aux>>
RecoverFree(p) ==
  /\ At0(p, "recover_free")
  /\ AgentCall(p, ReleaseStaleSlots(agent, call[p].op), Idle, Idle)
  /\ UNCHANGED <<world, aux>>
Reclaim(p) ==
  LET op == call[p].op IN
  /\ At0(p, "reclaim")
  /\ AgentCall(p, ReclaimOperation(agent, op), InCall("queue", op), Idle)
  /\ UNCHANGED <<world, aux>>

(* abortConfig: both planes, the holder's slots, the operation, and last   *)
(* the journal, closed with what the planes said one turn earlier.         *)
StartAbort(p) ==
  \E op \in started :
    /\ At0(p, "idle")
    /\ Turn(p, [InCall("abort", op) EXCEPT !.todo = Planes])
    /\ UNCHANGED <<world, aux>>
AbortPlane(p) ==
  LET c       == call[p]
      plane   == NextPlane(c.todo)
      onward(d) == [d EXCEPT !.todo = @ \ {plane},
                            !.pc = IF c.todo = {plane} THEN "abort_release" ELSE "abort"]
  IN /\ At0(p, "abort")
     /\ AgentCall(p, Abort(agent, c.op, plane), onward(c),
                  onward([c EXCEPT !.next = "refused"]))
     /\ UNCHANGED <<world, aux>>
AbortRelease(p) ==
  /\ At0(p, "abort_release")
  /\ AgentCall(p, ReleaseHolderSlots(agent, call[p].op),
               [call[p] EXCEPT !.pc = "abort_finish"], Idle)
  /\ UNCHANGED <<world, aux>>
AbortFinish(p) ==
  /\ At0(p, "abort_finish")
  /\ AgentCall(p, FinishOperation(agent, call[p].op, Planes),
               [call[p] EXCEPT !.pc = "abort_read"], Idle)
  /\ UNCHANGED <<world, aux>>
AbortUnread(p) ==   \* an abort takes it that nothing had moved
  /\ At0(p, "abort_read")
  /\ Turn(p, [call[p] EXCEPT !.pc = "abort_close", !.entry = "failed"])
  /\ UNCHANGED <<world, aux>>
AbortRead(p) ==
  /\ At0(p, "abort_read")
  /\ Turn(p, [call[p] EXCEPT !.pc = "abort_close",
               !.entry = IF agent.journal = None THEN None ELSE ReachedPhase(agent)])
  /\ UNCHANGED <<world, aux>>
AbortClose(p) ==
  LET c == call[p] IN
  /\ At0(p, "abort_close")
  /\ AgentCall(p, CloseJournal(agent, c.op, c.entry), Idle, Idle)
  /\ cancelled' = IF c.next = "refused" THEN cancelled ELSE cancelled \cup {Who(c.op)}
  /\ UNCHANGED <<world, started, faults>>

-----------------------------------------------------------------------------
(* The drive: exclusiveApply admits one; each round of driveLoop starts    *)
(* from the journal as it is now.                                          *)

EnterApply(p) ==
  /\ At0(p, "queue") /\ applying = None
  /\ call' = [call EXCEPT ![p] = Loop(call[p].op)]
  /\ applying' = p
  /\ UNCHANGED <<agent, thrown, world, aux>>

ClosedPlanes(j) == {p \in Planes : TerminalOf(agent, j.op, p) \in {"failed", "aborted"}}
VerdictCloses(j) ==
  \/ \E p \in Planes : TerminalOf(agent, j.op, p) = "aborted"
  \/ ClosedPlanes(j) = Planes

(* The phases that only write the next entry.                              *)
MembershipStaged(j) == Writes([j EXCEPT !.phase = "reload_intent"], "loop")
PartiallyActivated(j) ==
  LET exhausted == j.attempts >= ReloadAttemptLimit + PartialRetryLimit IN
  CASE exhausted ->
         WritesAndFinishes([j EXCEPT !.phase = "partial_exhausted"], NotCommitted(j), "idle")
    [] ~exhausted /\ NotCommitted(j) = {} ->
         Writes([j EXCEPT !.phase = "activated"], "loop")
    [] ~exhausted /\ NotCommitted(j) # {} ->
         Writes([j EXCEPT !.phase = "reload_observed", !.attempts = @ + 1], "loop")

LoopHead(p) ==
  LET j      == agent.journal
      bound  == call[p].op
      holds(op) == agent.holder # None /\ agent.holder.name = op.name
      onward ==
        CASE j.phase = "membership_staged"   -> MembershipStaged(j)
          [] j.phase = "partially_activated" -> PartiallyActivated(j)
          [] j.phase = "published" ->
               [InCall("stage", j.op) EXCEPT !.j = j, !.todo = Planes, !.progress = j.progress]
          [] OTHER -> [InCall(j.phase, j.op) EXCEPT !.j = j]
  IN /\ At0(p, "loop")
     /\ Turn(p, IF ~OwnsJournal(j, bound)
                THEN IF holds(bound) THEN Finishes(bound, {}, "idle") ELSE Idle
                ELSE IF ~Unfinished(j)
                THEN IF holds(j.op) THEN Finishes(j.op, NotCommitted(j), "idle") ELSE Idle
                ELSE IF VerdictCloses(j)
                THEN [InCall("close", j.op) EXCEPT !.next = ReachedPhase(agent)]
                ELSE IF ~LeaseValid(agent, j.op) THEN Idle
                ELSE onward)
     /\ UNCHANGED <<world, aux>>

CloseAndFinish(p) ==
  LET c == call[p] IN
  /\ At0(p, "close")
  /\ AgentCall(p, CloseJournal(agent, c.op, c.next), Finishes(c.op, Planes, "idle"), Idle)
  /\ UNCHANGED <<world, aux>>

WriteEntry(p) ==
  LET c        == call[p]
      written  == IF c.next = "finish" THEN Finishes(c.op, c.todo, c.after)
                  ELSE InCall(c.next, c.op)
      conflict == IF c.next = "signal" THEN Loop(c.op) ELSE written
  IN /\ At0(p, "write")
     /\ AgentCall(p, WriteJournal(agent, c.entry), written,
                  IF Writable(agent, c.entry.op) THEN conflict ELSE Idle)
     /\ UNCHANGED <<world, aux>>

Finish(p) ==
  LET c == call[p] IN
  /\ At0(p, "finish")
  /\ AgentCall(p, FinishOperation(agent, c.op, c.todo), InCall(c.after, IF c.after = "idle" THEN None ELSE c.op), Idle)
  /\ UNCHANGED <<world, aux>>

(* failAll: what moved stays committed, the rest fails; the verdict is     *)
(* what the planes say once the last call returned.                        *)
FailPlane(p) ==
  LET c        == call[p]
      plane    == NextPlane(c.todo)
      noted(d) == [c EXCEPT !.todo = @ \ {plane}, !.progress[plane] = d,
                            !.pc = IF c.todo = {plane} THEN "fail_read" ELSE "fail"]
  IN /\ At0(p, "fail")
     /\ IF MovedByMe(agent, c.op, plane) THEN Turn(p, noted("committed"))
        ELSE AgentCall(p, Fail(agent, c.op, plane), noted("failed"), noted("failed"))
     /\ UNCHANGED <<world, aux>>
FailRead(p) ==
  LET c == call[p] IN
  /\ At0(p, "fail_read")
  /\ Turn(p, WritesAndFinishes([c.j EXCEPT !.phase = ReachedPhase(agent),
                                           !.progress = c.progress], {}, c.after))
  /\ UNCHANGED <<world, aux>>

-----------------------------------------------------------------------------
(* The phases of the journal.                                              *)

Preflight(p) ==
  LET j == call[p].j IN
  /\ At0(p, "preflight")
  /\ Turn(p, IF LeaseValid(agent, j.op)
             THEN Writes([j EXCEPT !.phase = "publish_intent"], "loop") ELSE Idle)
  /\ UNCHANGED <<world, aux>>
PreflightRefuses(p) ==
  LET j == call[p].j IN
  /\ At0(p, "preflight")
  /\ Turn(p, IF LeaseValid(agent, j.op) THEN FailsAll(j, "loop") ELSE Idle)
  /\ Fault /\ UNCHANGED world

PublishIntent(p) ==
  LET j == call[p].j IN
  /\ At0(p, "publish_intent")
  /\ Turn(p, IF PublishedByMe(j.op) THEN Writes([j EXCEPT !.phase = "published"], "loop")
             ELSE [call[p] EXCEPT !.pc = "record_intent"])
  /\ UNCHANGED <<world, aux>>
RecordIntent(p) ==
  /\ At0(p, "record_intent")
  /\ AgentCall(p, RecordPublishIntent(agent, call[p].op),
               [call[p] EXCEPT !.pc = "publish"], Idle)
  /\ UNCHANGED <<world, aux>>

(* publish: the owner file is replaced first, then the lease is checked,   *)
(* then the link: a lost lease leaves the owner's record behind.           *)
Publish(p) ==
  LET j == call[p].j IN
  /\ At0(p, "publish")
  /\ owner' = RecordOf(j.op)
  /\ IF LeaseValid(agent, j.op)
     THEN /\ link' = j.op.epoch
          /\ Turn(p, Writes([j EXCEPT !.phase = "published"], "loop"))
     ELSE link' = link /\ Turn(p, Idle)
  /\ UNCHANGED <<running, hup, late, aux>>

StagePlane(p) ==
  LET c     == call[p]
      plane == NextPlane(c.todo)
  IN /\ At0(p, "stage")
     /\ AgentCall(p, Stage(agent, c.op, plane), [c EXCEPT !.pc = "stage_membership"],
                  StagedTo(c, plane, "failed"))
     /\ UNCHANGED <<world, aux>>
(* stageMembership pushes the slots only under a valid lease.              *)
StageMembership(p) ==
  LET c     == call[p]
      plane == NextPlane(c.todo)
  IN /\ At0(p, "stage_membership")
     /\ Turn(p, StagedTo(c, plane, IF LeaseValid(agent, c.op) THEN "staged" ELSE "failed"))
     /\ UNCHANGED <<world, aux>>

(* A reload is signalled at most twice, and its attempt is written first.  *)
ReloadIntent(p, blind) ==
  LET j == call[p].j IN
  /\ At0(p, "reload_intent")
  /\ Turn(p, IF ~blind /\ Proves(j.op)
             THEN Writes([j EXCEPT !.phase = "reload_observed"], "loop")
             ELSE IF j.attempts >= ReloadAttemptLimit \/ (blind /\ j.attempts > 0)
             THEN FailsAll(j, "loop")
             ELSE Writes([j EXCEPT !.attempts = @ + 1], "signal"))
  /\ IF blind THEN Fault ELSE UNCHANGED aux
  /\ UNCHANGED world

SignalReload(p) ==
  LET op == call[p].op IN
  /\ At0(p, "signal")
  /\ IF LeaseValid(agent, op)
     THEN hup' = TRUE /\ Turn(p, InCall("await", op))
     ELSE UNCHANGED hup /\ Turn(p, Idle)
  /\ UNCHANGED <<owner, link, running, late, aux>>

(* What awaitActivation saw last is noted on the journal as it is then.    *)
AwaitReload(p, blind) ==
  LET op  == call[p].op
      now == agent.journal
  IN /\ At0(p, "await")
     /\ Turn(p, IF blind \/ ~OwnsJournal(now, op) THEN Loop(op)
                ELSE IF Proves(op) THEN Writes([now EXCEPT !.phase = "reload_observed"], "loop")
                ELSE Writes(now, "loop"))
     /\ IF blind THEN Fault ELSE UNCHANGED aux
     /\ UNCHANGED world

ReloadObserved(p) ==
  LET j == call[p].j IN
  /\ At0(p, "reload_observed")
  /\ Turn(p, IF PublishedByMe(j.op) THEN [call[p] EXCEPT !.pc = "await_commit"]
             ELSE Writes([j EXCEPT !.phase = "publish_intent"], "loop"))
  /\ UNCHANGED <<world, aux>>
AwaitCommit(p, blind) ==
  LET j == call[p].j IN
  /\ At0(p, "await_commit")
  /\ Turn(p, IF ~blind /\ Proves(j.op)
             THEN [call[p] EXCEPT !.pc = "commit", !.todo = Planes, !.progress = j.progress]
             ELSE Writes([j EXCEPT !.phase = "reload_intent"], "loop"))
  /\ IF blind THEN Fault ELSE UNCHANGED aux
  /\ UNCHANGED world
CommitPlane(p) ==
  LET c     == call[p]
      plane == NextPlane(c.todo)
  IN /\ At0(p, "commit")
     /\ AgentCall(p, Commit(agent, c.op, plane, TRUE),
                  CommittedTo(c, plane, "committed"), CommittedTo(c, plane, "failed"))
     /\ UNCHANGED <<world, aux>>

-----------------------------------------------------------------------------
(* The engine, and the faults.                                             *)

EngineReloads == hup /\ hup' = FALSE /\ running' = link
                 /\ UNCHANGED <<agent, owner, link, late, call, applying, aux, thrown>>
EngineRefuses == hup /\ hup' = FALSE /\ Fault
                 /\ UNCHANGED <<agent, owner, link, running, late, call, applying, thrown>>

(* A signalReload that timed out before its lease check still runs it.     *)
LateReload ==
  \E op \in late :
    /\ late' = late \ {op}
    /\ hup' = (hup \/ LeaseValid(agent, op))
    /\ UNCHANGED <<agent, owner, link, running, call, applying, aux, thrown>>

(* budget: the wait ends, the effect does not.  A drive that still owns    *)
(* the journal fails its operation and returns.                            *)
EffectTimesOut(p) ==
  LET c    == call[p]
      j    == agent.journal
      gone == IF OwnsJournal(j, c.op) THEN FailsAll(j, "idle") ELSE Idle
  IN /\ c.pc \in {"preflight", "stage_membership", "signal"}
     /\ Fault
     /\ \/ c.pc = "signal" /\ late' = late \cup {c.op} /\ hup' = hup
        \/ c.pc = "signal" /\ LeaseValid(agent, c.op) /\ hup' = TRUE /\ late' = late
        \/ c.pc # "signal" /\ UNCHANGED <<hup, late>>
     /\ Turn(p, gone)
     /\ UNCHANGED <<owner, link, running>>
(* An effect that throws (no such generation, a refused push, a reload     *)
(* command that fails) ends the call where it stands.                      *)
EffectThrows(p) ==
  /\ call[p].pc \in {"publish", "stage_membership", "signal"}
  /\ Fault /\ Turn(p, Idle) /\ UNCHANGED world

(* The agent's process dies: every call is gone, the files stay.  It may   *)
(* die between the two renames of publish.                                 *)
Crash ==
  /\ Fault
  /\ call' = [p \in Calls |-> Idle] /\ applying' = None /\ late' = {}
  /\ \/ owner' = owner
     \/ \E p \in Calls : At0(p, "publish") /\ owner' = RecordOf(call[p].op)
  /\ \E p \in Calls : ~At0(p, "idle")
  /\ UNCHANGED <<agent, thrown, link, running, hup>>

-----------------------------------------------------------------------------
Step(p) ==
  \/ RecoverIdle(p) \/ RecoverClose(p) \/ RecoverFree(p) \/ Reclaim(p)
  \/ AbortPlane(p) \/ AbortRelease(p) \/ AbortFinish(p) \/ AbortRead(p) \/ AbortClose(p)
  \/ EnterApply(p) \/ LoopHead(p) \/ CloseAndFinish(p) \/ WriteEntry(p) \/ Finish(p)
  \/ FailPlane(p) \/ FailRead(p)
  \/ Preflight(p) \/ PublishIntent(p) \/ RecordIntent(p) \/ Publish(p)
  \/ StagePlane(p) \/ StageMembership(p)
  \/ ReloadIntent(p, FALSE) \/ SignalReload(p) \/ AwaitReload(p, FALSE)
  \/ ReloadObserved(p) \/ AwaitCommit(p, FALSE) \/ CommitPlane(p)
FaultyStep(p) ==
  \/ PreflightRefuses(p) \/ ReloadIntent(p, TRUE) \/ AwaitReload(p, TRUE)
  \/ AwaitCommit(p, TRUE) \/ EffectTimesOut(p) \/ EffectThrows(p)

Next ==
  \/ \E p \in Calls : StartRun(p) \/ StartRecover(p) \/ StartAbort(p)
  \/ \E p \in Calls : Step(p) \/ FaultyStep(p)
  \/ FenceCall \/ HealthCall
  \/ EngineReloads \/ EngineRefuses \/ LateReload \/ Crash

(* A call keeps taking its steps: every effect it awaits answers or runs    *)
(* out of its budget.  exclusiveApply queues first come, first served, so  *)
(* a waiting drive gets in.  A signal reaches the engine.                  *)
Fairness ==
  /\ \A p \in Calls : WF_vars(Step(p)) /\ SF_vars(EnterApply(p))
  /\ WF_vars(EngineReloads) /\ WF_vars(LateReload)
(* recoverConfig is nobody's duty but an operator's (POST /recover): here  *)
(* somebody asks again and again.                                          *)
Recovering == SF_vars(\E p \in Calls : StartRecover(p))

Spec == Init /\ [][Next]_vars
FairSpec == Spec /\ Fairness
RecoveredSpec == FairSpec /\ Recovering
-----------------------------------------------------------------------------
CallStates ==
  {"idle", "queue", "loop", "write", "finish", "close", "fail", "fail_read",
   "recover_idle", "recover_close", "recover_free", "reclaim",
   "abort", "abort_release", "abort_finish", "abort_read", "abort_close",
   "preflight", "publish_intent", "record_intent", "publish", "stage",
   "stage_membership", "reload_intent", "signal", "await", "reload_observed",
   "await_commit", "commit"}

(* Every variable keeps its type.                                          *)
TypeOK ==
  /\ agent \in AgentStates
  /\ owner \in Records \cup {None}
  /\ {link, running} \subseteq Epochs \cup {None}
  /\ hup \in BOOLEAN /\ late \subseteq Ops
  /\ applying \in Calls \cup {None}
  /\ started \subseteq Ops /\ cancelled \subseteq Whos /\ faults \in 0..MaxFaults
  /\ \A p \in Calls :
       /\ call[p].pc \in CallStates
       /\ call[p].op \in Ops \cup {None}
       /\ call[p].j \in Journals \cup {None}
       /\ call[p].todo \subseteq Planes

(* assertInvariants never throws on the apply path: no call of the runner  *)
(* or of the driver builds a state it would refuse.  The exceptions are    *)
(* the two clauses that meet a leader which did not wait for its fence, as *)
(* long as its token is still ahead of the fence.                          *)
NothingThrows ==
  /\ thrown \subseteq {"I1 holder", "I5"}
  /\ thrown # {} => ~FenceFirst /\ \E op \in started \cup HealthOps : op.token > agent.max

ReachedBy(op, p) == agent.planes[p].epoch > op.epoch \/ MovedByMe(agent, op, p)

(* The journal tells the truth about the planes: a plane it calls committed*)
(* was moved by its operation and has not gone back, and a closing phase   *)
(* says how many planes the operation moved (reachedPhase, failAll).       *)
JournalTellsTheTruth ==
  LET j == agent.journal IN
  j # None =>
    /\ \A p \in Planes : j.progress[p] = "committed" => ReachedBy(j.op, p)
    /\ j.phase = "activated" => \A p \in Planes : ReachedBy(j.op, p)
    /\ j.phase = "failed" => \A p \in Planes : ~MovedByMe(agent, j.op, p)
    /\ j.phase \in {"partially_activated", "partial_exhausted"} =>
         \E p \in Planes : ReachedBy(j.op, p)

(* A baseline is promoted only when the same operation has just been seen  *)
(* on every plane: a partial or superseded candidate never becomes it      *)
(* (finalizeCandidate).                                                    *)
BaselineIsWhole ==
  [][agent'.lastActivated # agent.lastActivated /\ agent'.lastActivated # None =>
       \A p \in Planes : /\ agent'.planes[p].epoch = agent'.lastActivated.epoch
                         /\ agent'.planes[p].by = Who(agent'.lastActivated)]_vars

(* Nobody republishes over an activation that is still pending: while one  *)
(* operation has moved a plane and is not settled, the link is not turned  *)
(* to another one.  So two-leaders.test.ts:645 has it (P9); TLC finds it   *)
(* violated once two crashes keep finishOperation from settling a          *)
(* candidate that abortConfig left without its hold.                       *)
PendingActivationIsNotOverwritten ==
  [][link' # link /\ agent.pendingActivation # None =>
       owner' = agent.pendingActivation]_vars

(* A cancelled operation has no effect any more: once abortConfig has      *)
(* returned, the link is never turned to it and it moves no plane.         *)
CancelledHasNoEffect ==
  [][/\ link' # link => Who(owner') \notin cancelled
     /\ \A p \in Planes : agent'.planes[p].by # agent.planes[p].by =>
          agent'.planes[p].by \notin cancelled]_vars

Quiet == \A p \in Calls : At0(p, "idle")

(* No slot is orphaned: when no call is in flight every reservation        *)
(* belongs to the holder or to the operation of an unfinished journal,    *)
(* where recoverConfig and the next apply find it.                         *)
NoOrphanedSlot ==
  Quiet => \A p \in Planes, e \in Epochs :
    agent.reservations[p][e] # None =>
      LET who == Who(agent.reservations[p][e].op) IN
      \/ agent.holder # None /\ Who(agent.holder) = who
      \/ Unfinished(agent.journal) /\ Who(agent.journal.op) = who

(* Every call of the driver returns: no run, recover or abort waits for    *)
(* ever, whatever the others do to the journal and the hold meanwhile.     *)
CallsReturn == \A p \in Calls : ~At0(p, "idle") ~> At0(p, "idle")

(* Recovering converges: an operation that a crash, a lost effect or a     *)
(* fence left unfinished is closed, and the apply path is free again.      *)
RecoveryConverges ==
  /\ Unfinished(agent.journal) ~> ~Unfinished(agent.journal)
  /\ agent.holder # None ~> agent.holder = None
=============================================================================
