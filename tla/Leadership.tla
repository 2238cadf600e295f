----------------------------- MODULE Leadership -----------------------------
(***************************************************************************)
(* Who leads: the election (control/leader.ts) over the advisory lock of   *)
(* the database (store/pg-leader.ts), the promotion of bin/barycenterd.ts  *)
(* and what of it the data-plane agent sees.                               *)
(*                                                                         *)
(* Every instance tries to take the lock on a connection of its own, draws *)
(* a token from the sequence once it holds it, and fences the agent with   *)
(* it.  The lock goes with the connection; the instance hears of the loss  *)
(* through the events of its session, an error and then the end.           *)
(*                                                                         *)
(* The agent is its maxToken here: DpAgent shows what a call does beyond   *)
(* being admitted.                                                         *)
(***************************************************************************)
EXTENDS Naturals, FiniteSets

CONSTANTS
  Nodes,         \* the barycenterd instances
  Conns,         \* bound: connections that may be open at once
  None,
  MaxFaults,     \* bound: cut connections, lost requests, stops and crashes
  EndsFirst      \* TRUE: the end of a failed session is told before the next is won

ASSUME LeadershipAssumption ==
  /\ MaxFaults \in Nat /\ EndsFirst \in BOOLEAN /\ None \notin Conns

VARIABLES
  lock,      \* the connection that holds the advisory lock
  seq,       \* leader_token_seq
  conn,      \* the connections: whose, how far, with which token
  cut,       \* the connections that are broken
  session,   \* #session of each node
  token,     \* #token of each node, 0 when undefined
  lost,      \* #lost of each node
  twice,     \* history: the processes that won an election while they led
  status,    \* how far the process of each node is
  wire,      \* the calls on their way to the agent
  agentMax,  \* maxToken of the agent
  faults     \* how many faults may still happen

database == <<lock, seq>>
election == <<session, token, lost, twice>>
agentSide == <<wire, agentMax>>
vars == <<database, conn, cut, election, status, agentSide, faults>>

-----------------------------------------------------------------------------
Unused == [stage |-> "unused", node |-> None, token |-> 0]
Attempting == {"connecting", "locked", "numbered", "recorded"}
AttemptsOf(n) == {c \in Conns : conn[c].node = n /\ conn[c].stage \in Attempting}

(* state.isLeader and assertLeader                                         *)
IsLeader(n) == session[n] # None /\ ~lost[n]
MayAct(n) == IsLeader(n) /\ token[n] # 0

Staged(c, stage) == conn' = [conn EXCEPT ![c].stage = stage]
Fault == faults > 0 /\ faults' = faults - 1

Init ==
  /\ lock = None /\ seq = 0
  /\ conn = [c \in Conns |-> Unused] /\ cut = {}
  /\ session = [n \in Nodes |-> None] /\ token = [n \in Nodes |-> 0]
  /\ lost = [n \in Nodes |-> FALSE] /\ twice = {} /\ status = [n \in Nodes |-> "down"]
  /\ wire = {} /\ agentMax = 0 /\ faults = MaxFaults

-----------------------------------------------------------------------------
(* tryAcquire opens a connection; the interval does not ask whether an     *)
(* earlier attempt is still under way.                                     *)

Connect(n) ==
  \E c \in Conns :
    /\ conn[c] = Unused /\ lock # c /\ \A m \in Nodes : session[m] # c
    /\ conn' = [conn EXCEPT ![c] = [stage |-> "connecting", node |-> n, token |-> 0]]
    /\ cut' = cut \ {c}

(* main: one attempt before anything is served.                            *)
Boot(n) ==
  /\ status[n] = "down"
  /\ Connect(n)
  /\ status' = [status EXCEPT ![n] = "booting"]
  /\ UNCHANGED <<database, election, agentSide, faults>>

(* The interval passes a leader by; so does tryAcquire itself.             *)
Retry(n) ==
  /\ status[n] \in {"serving", "leaving"}
  /\ ~IsLeader(n)
  /\ Connect(n)
  /\ UNCHANGED <<database, election, status, agentSide, faults>>

(* A standby serves: reads are answered while it waits.                    *)
StandsBy(n) ==
  status' = IF status[n] = "booting" THEN [status EXCEPT ![n] = "serving"] ELSE status

TryLock(c) ==
  /\ conn[c].stage = "connecting" /\ c \notin cut
  /\ IF lock = None
     THEN lock' = c /\ Staged(c, "locked") /\ UNCHANGED status
     ELSE UNCHANGED lock /\ conn' = [conn EXCEPT ![c] = Unused] /\ StandsBy(conn[c].node)
  /\ UNCHANGED <<seq, cut, election, agentSide, faults>>

NumberUnsaved(c) ==   \* the sequence is read, not advanced
  /\ conn[c].stage = "locked" /\ c \notin cut
  /\ conn' = [conn EXCEPT ![c].stage = "numbered", ![c].token = seq + 1]
  /\ UNCHANGED <<database, cut, election, status, agentSide, faults>>
Number(c) ==
  /\ conn[c].stage = "locked" /\ c \notin cut
  /\ seq' = seq + 1
  /\ conn' = [conn EXCEPT ![c].stage = "numbered", ![c].token = seq + 1]
  /\ UNCHANGED <<lock, cut, election, status, agentSide, faults>>
RecordLeadership(c) ==
  /\ conn[c].stage = "numbered" /\ c \notin cut
  /\ Staged(c, "recorded")
  /\ UNCHANGED <<database, cut, election, status, agentSide, faults>>

(* A query on a broken connection fails, and the attempt with it; so it    *)
(* does when the answer to the last one is lost.                           *)
AttemptFails(c) ==
  /\ conn[c].stage \in Attempting /\ c \in cut
  /\ conn' = [conn EXCEPT ![c] = Unused]
  /\ StandsBy(conn[c].node)
  /\ UNCHANGED <<database, cut, election, agentSide, faults>>

(* The node takes the session for its own and, in the same turn, sends the *)
(* fence.                                                                  *)
EndTold(n) == \A c \in Conns : conn[c].node = n => conn[c].stage # "failed"
WinsAgain(n) == twice' = IF IsLeader(n) THEN twice \cup {n} ELSE twice
ElectedStillLost(c) ==   \* #lost is not reset
  LET n == conn[c].node IN
  /\ conn[c].stage = "recorded" /\ (EndsFirst => EndTold(n))
  /\ Staged(c, "session")
  /\ session' = [session EXCEPT ![n] = c]
  /\ token' = [token EXCEPT ![n] = conn[c].token]
  /\ WinsAgain(n)
  /\ wire' = wire \cup {[call |-> "fence", node |-> n, token |-> conn[c].token]}
  /\ UNCHANGED <<database, cut, lost, status, agentMax, faults>>
Elected(c) ==
  LET n == conn[c].node IN
  /\ conn[c].stage = "recorded" /\ (EndsFirst => EndTold(n))
  /\ Staged(c, "session")
  /\ session' = [session EXCEPT ![n] = c]
  /\ token' = [token EXCEPT ![n] = conn[c].token]
  /\ WinsAgain(n)
  /\ lost' = [lost EXCEPT ![n] = FALSE]
  /\ wire' = wire \cup {[call |-> "fence", node |-> n, token |-> conn[c].token]}
  /\ UNCHANGED <<database, cut, status, agentMax, faults>>

-----------------------------------------------------------------------------
(* The loss of a session.                                                  *)

ConnectionBreaks(c) ==
  /\ conn[c] # Unused /\ c \notin cut /\ Fault
  /\ cut' = cut \cup {c}
  /\ UNCHANGED <<database, conn, election, status, agentSide>>
ServerReleases(c) ==
  /\ c \in cut /\ lock = c
  /\ lock' = None
  /\ UNCHANGED <<seq, conn, cut, election, status, agentSide, faults>>

(* onLost: whichever session tells it, #lost is set.                       *)
LostUnheard(n) == UNCHANGED lost   \* the event is only logged
Lost(n) == lost' = [lost EXCEPT ![n] = TRUE]
SessionError(c) ==
  /\ conn[c].stage = "session" /\ c \in cut
  /\ Staged(c, "failed")
  /\ Lost(conn[c].node)
  /\ UNCHANGED <<database, cut, session, token, twice, status, agentSide, faults>>
SessionEnd(c) ==
  /\ conn[c].stage = "failed"
  /\ conn' = [conn EXCEPT ![c] = Unused]
  /\ Lost(conn[c].node)
  /\ UNCHANGED <<database, cut, session, token, twice, status, agentSide, faults>>

-----------------------------------------------------------------------------
(* What the leader does, and what the agent admits.                        *)

(* ControlPlane.apply and its like ask assertLeader and send.              *)
Issue(n) ==
  /\ status[n] = "serving" /\ MayAct(n)
  /\ wire' = wire \cup {[call |-> "op", node |-> n, token |-> token[n]]}
  /\ wire' # wire
  /\ UNCHANGED <<database, conn, cut, election, status, agentMax, faults>>

(* At boot a fence that fails ends the process; later it is logged.        *)
Gone(n) ==
  /\ conn' = [c \in Conns |-> IF conn[c].node = n THEN Unused ELSE conn[c]]
  /\ cut' = cut \cup {c \in Conns : conn[c].node = n}
  /\ session' = [session EXCEPT ![n] = None]
  /\ token' = [token EXCEPT ![n] = 0]
  /\ lost' = [lost EXCEPT ![n] = FALSE]
  /\ twice' = twice \ {n}
  /\ status' = [status EXCEPT ![n] = "down"]
FenceFails(m) ==
  IF m.call = "fence" /\ status[m.node] = "booting" /\ token[m.node] = m.token
  THEN Gone(m.node) ELSE UNCHANGED <<conn, cut, election, status>>
FenceAnswered(m) ==
  IF m.call = "fence" /\ token[m.node] = m.token
  THEN StandsBy(m.node) /\ UNCHANGED <<conn, cut, election>>
  ELSE UNCHANGED <<conn, cut, election, status>>

AgentTakes(m) ==
  /\ wire' = wire \ {m}
  /\ IF m.token >= agentMax
     THEN /\ agentMax' = m.token
          /\ FenceAnswered(m)
     ELSE UNCHANGED agentMax /\ FenceFails(m)
  /\ UNCHANGED <<database, faults>>
CallIsLost(m) ==
  /\ Fault
  /\ wire' = wire \ {m}
  /\ FenceFails(m)
  /\ UNCHANGED <<database, agentMax>>

-----------------------------------------------------------------------------
(* Stopping.  release() forgets the session first and closes it then; the  *)
(* interval keeps trying until the process exits.                          *)

Release(n) ==
  /\ status[n] = "serving" /\ Fault
  /\ status' = [status EXCEPT ![n] = "leaving"]
  /\ session' = [session EXCEPT ![n] = None]
  /\ conn' = [c \in Conns |-> IF c = session[n] /\ conn[c].stage = "session"
                               THEN [conn[c] EXCEPT !.stage = "releasing"] ELSE conn[c]]
  /\ UNCHANGED <<database, cut, token, lost, twice, agentSide>>
Released(c) ==
  LET n == conn[c].node IN
  /\ conn[c].stage = "releasing"
  /\ conn' = [conn EXCEPT ![c] = Unused]
  /\ lock' = IF lock = c THEN None ELSE lock
  /\ Lost(n)
  /\ token' = [token EXCEPT ![n] = 0]
  /\ UNCHANGED <<seq, cut, session, twice, status, agentSide, faults>>
Exit(n) ==
  /\ status[n] = "leaving"
  /\ \A c \in Conns : conn[c].node = n => conn[c].stage # "releasing"
  /\ Gone(n)
  /\ UNCHANGED <<database, agentSide, faults>>
Crash(n) ==
  /\ status[n] # "down" /\ Fault
  /\ Gone(n)
  /\ UNCHANGED <<database, agentSide>>

-----------------------------------------------------------------------------
ConnStep(c) ==
  \/ TryLock(c) \/ Number(c) \/ RecordLeadership(c) \/ AttemptFails(c) \/ Elected(c)
  \/ ServerReleases(c) \/ SessionError(c) \/ SessionEnd(c) \/ Released(c)
Next ==
  \/ \E n \in Nodes : Boot(n) \/ Retry(n) \/ Issue(n) \/ Release(n) \/ Exit(n) \/ Crash(n)
  \/ \E c \in Conns : ConnStep(c) \/ ConnectionBreaks(c)
  \/ \E m \in wire : AgentTakes(m) \/ CallIsLost(m)

(* A process that died is started again, the interval fires, a query is    *)
(* answered or fails, a broken connection is noticed at both ends, and a   *)
(* call reaches the agent.                                                 *)
Fairness ==
  /\ \A n \in Nodes : WF_vars(Boot(n)) /\ WF_vars(Retry(n)) /\ WF_vars(Exit(n))
  /\ \A c \in Conns : WF_vars(ConnStep(c))
  /\ WF_vars(\E m \in wire : AgentTakes(m))

Spec == Init /\ [][Next]_vars
FairSpec == Spec /\ Fairness
-----------------------------------------------------------------------------
(* Every variable keeps its type.                                          *)
TypeOK ==
  /\ lock \in Conns \cup {None} /\ seq \in Nat /\ cut \subseteq Conns
  /\ conn \in [Conns -> [stage : Attempting \cup {"unused", "session", "failed", "releasing"},
                         node : Nodes \cup {None}, token : 0..seq]]
  /\ session \in [Nodes -> Conns \cup {None}] /\ lost \in [Nodes -> BOOLEAN] /\ twice \subseteq Nodes
  /\ token \in [Nodes -> 0..seq]
  /\ status \in [Nodes -> {"down", "booting", "serving", "leaving"}]
  /\ wire \subseteq [call : {"fence", "op"}, node : Nodes, token : 1..seq]
  /\ agentMax \in 0..seq /\ faults \in 0..MaxFaults

(* The lock outranks: whoever holds it and drew its token drew a higher    *)
(* one than every other session, believed or in the making, so its fence   *)
(* silences them all (the token is drawn after the lock, pg-leader.ts).    *)
TheHolderOutranks ==
  lock # None /\ conn[lock].token # 0 =>
    \A c \in Conns \ {lock} : conn[c].token < conn[lock].token

(* An instance that believes it leads holds the lock, or its connection is *)
(* broken and it has not been told yet: there is no other second leader    *)
(* (LeaderElection.state answers for now, not for the day of the election).*)
ALeaderHoldsTheLockOrIsCut ==
  \A n \in Nodes : IsLeader(n) =>
    /\ conn[session[n]].stage = "session" /\ conn[session[n]].node = n
    /\ lock = session[n] \/ session[n] \in cut

(* An instance won an election while it led: two of its attempts were      *)
(* under way at once, for the interval does not ask (barycenterd.ts:979).  *)
(* The answer that came last may be that of a dead session, or the old     *)
(* session's error is told after the new one was won; either way its       *)
(* process keeps the lock on a connection it no longer believes in.        *)
ForgottenAtTheLock ==
  lock # None /\ conn[lock].node \in twice /\ ~MayAct(conn[lock].node)

(* Whenever the faults stop, somebody leads again, and rightly: the lock   *)
(* of a leader that is gone is free, and who does not lead keeps trying.   *)
(* The exception is an instance that won twice and forgot that it leads.   *)
SomebodyLeads ==
  []<>(\/ \E n \in Nodes : MayAct(n) /\ lock = session[n]
       \/ ForgottenAtTheLock)
=============================================================================
