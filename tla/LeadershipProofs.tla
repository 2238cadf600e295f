--------------------------- MODULE LeadershipProofs ---------------------------
(***************************************************************************)
(* Proofs about the election of Leadership: for any number of instances,   *)
(* connections and faults, and in any order of their steps.                *)
(*                                                                         *)
(* What carries them is where a connection may be while it does not hold   *)
(* the lock: nowhere past winning it, unless it is broken.                 *)
(***************************************************************************)
EXTENDS Leadership, TLAPS

(* Past TryLock; past the drawing of the token.                            *)
Holding == {"locked", "numbered", "recorded", "session", "failed", "releasing"}
Drawn == Holding \ {"locked"}

(* A connection is somebody's exactly while it is in use, and has a token  *)
(* exactly from Number on.                                                 *)
ConnsAreOwned ==
  \A c \in Conns :
    /\ conn[c].stage # "unused" => conn[c].node \in Nodes
    /\ conn[c].stage \in Drawn <=> conn[c].token # 0

(* Who is past TryLock holds the lock, or was cut off since.               *)
HoldersHoldOrAreCut ==
  \A c \in Conns : conn[c].stage \in Holding => lock = c \/ c \in cut

(* Nobody's session is a connection still attempting, and no two nodes'    *)
(* the same one.                                                           *)
SessionsAreWon ==
  /\ \A c \in Conns, n \in Nodes : conn[c].stage \in Attempting => session[n] # c
  /\ \A n, m \in Nodes : session[n] = session[m] /\ session[n] # None => n = m

(* Who believes it leads has a session of its own that failed nowhere.     *)
LeadersHaveSessions ==
  \A n \in Nodes : IsLeader(n) =>
    conn[session[n]].stage = "session" /\ conn[session[n]].node = n

(* A leader's token is the one its session drew, or it is forgotten (the   *)
(* release of an earlier session, answered late, forgets it).              *)
TokensAreDrawn ==
  \A n \in Nodes : IsLeader(n) => token[n] \in {0, conn[session[n]].token}

ElectionInv ==
  /\ ConnsAreOwned
  /\ HoldersHoldOrAreCut
  /\ SessionsAreWon
  /\ LeadersHaveSessions
  /\ TokensAreDrawn
  /\ TheHolderOutranks

(* At most one believer is right, and it is the one to be obeyed: whatever *)
(* another instance still sends goes with a lower token than the one that  *)
(* holds the lock sends with (assertLeader and the agent's fence).         *)
TheRightfulLeaderPrevails ==
  \A n, m \in Nodes :
    MayAct(n) /\ lock = session[n] /\ MayAct(m) /\ n # m =>
      lock # session[m] /\ token[m] < token[n]

-----------------------------------------------------------------------------
(* Types.                                                                  *)

ConnStages == Attempting \cup {"unused", "session", "failed", "releasing"}
ConnRecords == [stage : ConnStages, node : Nodes \cup {None}, token : 0..seq]

(* A connection put back to unused keeps the type of the connections.      *)
LEMMA UnusedType ==
  ASSUME TypeOK
  PROVE  Unused \in ConnRecords
  BY DEF TypeOK, Unused, ConnRecords, ConnStages

(* tryAcquire's connection keeps the types.                                *)
LEMMA ConnectType ==
  ASSUME TypeOK, NEW n \in Nodes, Connect(n)
  PROVE  /\ conn' \in [Conns -> ConnRecords]
         /\ cut' \subseteq Conns
  BY DEF TypeOK, Connect, ConnRecords, ConnStages, Attempting

(* A process that is gone leaves well-typed connections and sessions.      *)
LEMMA GoneType ==
  ASSUME TypeOK, NEW n \in Nodes, Gone(n)
  PROVE  /\ conn' \in [Conns -> ConnRecords] /\ cut' \subseteq Conns
         /\ session' \in [Nodes -> Conns \cup {None}] /\ lost' \in [Nodes -> BOOLEAN]
         /\ twice' \subseteq Nodes
         /\ token' \in [Nodes -> 0..seq]
         /\ status' \in [Nodes -> {"down", "booting", "serving", "leaving"}]
  <1>1. conn' \in [Conns -> ConnRecords]
    BY UnusedType DEF TypeOK, Gone, ConnRecords, ConnStages
  <1> QED
    BY <1>1 DEF TypeOK, Gone

(* The lines a connection step leaves: one record of it changes.           *)
LEMMA StagedType ==
  ASSUME TypeOK, NEW c \in Conns, NEW stage \in ConnStages, Staged(c, stage)
  PROVE  conn' \in [Conns -> ConnRecords]
  BY DEF TypeOK, Staged, ConnRecords, ConnStages

(* A connection that is opened anew has its type.                          *)
LEMMA UnusedNowType ==
  ASSUME TypeOK, NEW c \in Conns, conn' = [conn EXCEPT ![c] = Unused]
  PROVE  conn' \in [Conns -> ConnRecords]
  BY UnusedType DEF TypeOK, ConnRecords, ConnStages

(* Forgetting a token keeps the type of the tokens.                        *)
LEMMA TokenClearedType ==
  ASSUME TypeOK, NEW n
  PROVE  [token EXCEPT ![n] = 0] \in [Nodes -> 0..seq]
  <1>1. seq \in Nat /\ token \in [Nodes -> 0..seq] /\ 0 \in 0..seq
    BY DEF TypeOK
  <1> QED
    BY <1>1

(* The election keeps its types: no step of an instance, of a connection   *)
(* or of the agent leaves them.                                            *)
LEMMA NextType ==
  ASSUME TypeOK, ConnsAreOwned, [Next]_vars
  PROVE  TypeOK'
  <1> USE LeadershipAssumption DEF TypeOK, database, election, agentSide, ConnRecords, ConnStages, Fault
  <1>1. ASSUME NEW n \in Nodes, Boot(n)
        PROVE  TypeOK'
    BY <1>1, ConnectType DEF Boot
  <1>2. ASSUME NEW n \in Nodes, Retry(n)
        PROVE  TypeOK'
    BY <1>2, ConnectType DEF Retry
  <1>3. ASSUME NEW n \in Nodes, Issue(n)
        PROVE  TypeOK'
    BY <1>3 DEF Issue, MayAct
  <1>4. ASSUME NEW n \in Nodes, Release(n)
        PROVE  TypeOK'
    BY <1>4 DEF Release
  <1>5. ASSUME NEW n \in Nodes, Exit(n)
        PROVE  TypeOK'
    BY <1>5, GoneType DEF Exit
  <1>6. ASSUME NEW n \in Nodes, Crash(n)
        PROVE  TypeOK'
    BY <1>6, GoneType DEF Crash
  <1>7. ASSUME NEW c \in Conns, TryLock(c)
        PROVE  TypeOK'
    <2>1. conn' \in [Conns -> ConnRecords]
      BY <1>7, StagedType, UnusedNowType DEF TryLock, Attempting
    <2> QED
      BY <1>7, <2>1 DEF TryLock, StandsBy
  <1>8. ASSUME NEW c \in Conns, Number(c)
        PROVE  TypeOK'
    BY <1>8 DEF Number, Attempting
  <1>9. ASSUME NEW c \in Conns, RecordLeadership(c)
        PROVE  TypeOK'
    BY <1>9, StagedType DEF RecordLeadership, Attempting
  <1>10. ASSUME NEW c \in Conns, AttemptFails(c)
         PROVE  TypeOK'
    BY <1>10, UnusedNowType DEF AttemptFails, StandsBy
  <1>11. ASSUME NEW c \in Conns, Elected(c)
         PROVE  TypeOK'
    <2>1. conn[c].node \in Nodes /\ conn[c].token \in 1..seq
      BY <1>11 DEF Elected, ConnsAreOwned, Drawn, Holding
    <2>2. conn' \in [Conns -> ConnRecords]
      BY <1>11, StagedType DEF Elected
    <2> QED
      BY <1>11, <2>1, <2>2 DEF Elected, WinsAgain
  <1>12. ASSUME NEW c \in Conns, ServerReleases(c)
         PROVE  TypeOK'
    BY <1>12 DEF ServerReleases
  <1>13. ASSUME NEW c \in Conns, SessionError(c)
         PROVE  TypeOK'
    BY <1>13, StagedType DEF SessionError, Lost
  <1>14. ASSUME NEW c \in Conns, SessionEnd(c)
         PROVE  TypeOK'
    BY <1>14, UnusedNowType DEF SessionEnd, Lost
  <1>15. ASSUME NEW c \in Conns, Released(c)
         PROVE  TypeOK'
    <2>1. /\ token' = [token EXCEPT ![conn[c].node] = 0]
          /\ lost' = [lost EXCEPT ![conn[c].node] = TRUE]
          /\ seq' = seq
      BY <1>15 DEF Released, Lost
    <2>4. token' \in [Nodes -> 0..seq] /\ lost' \in [Nodes -> BOOLEAN]
      BY <2>1, TokenClearedType
    <2>2. conn' \in [Conns -> ConnRecords]
      BY <1>15, UnusedNowType DEF Released
    <2>3. lock' \in Conns \cup {None}
      BY <1>15 DEF Released
    <2> QED
      BY <1>15, <2>1, <2>2, <2>3, <2>4 DEF Released
  <1>16. ASSUME NEW c \in Conns, ConnectionBreaks(c)
         PROVE  TypeOK'
    BY <1>16 DEF ConnectionBreaks
  <1>17. ASSUME NEW m \in wire, FenceFails(m)
         PROVE  /\ conn' \in [Conns -> ConnRecords] /\ cut' \subseteq Conns
                /\ session' \in [Nodes -> Conns \cup {None}] /\ lost' \in [Nodes -> BOOLEAN]
                /\ twice' \subseteq Nodes
                /\ token' \in [Nodes -> 0..seq]
                /\ status' \in [Nodes -> {"down", "booting", "serving", "leaving"}]
    BY <1>17, GoneType DEF FenceFails
  <1>18. ASSUME NEW m \in wire, AgentTakes(m)
         PROVE  TypeOK'
    <2>1. m.token \in 0..seq
      OBVIOUS
    <2>2. CASE m.token >= agentMax
      BY <1>18, <2>1, <2>2 DEF AgentTakes, FenceAnswered, StandsBy
    <2>3. CASE ~(m.token >= agentMax)
      BY <1>17, <1>18, <2>3 DEF AgentTakes
    <2> QED
      BY <2>2, <2>3
  <1>19. ASSUME NEW m \in wire, CallIsLost(m)
         PROVE  TypeOK'
    BY <1>17, <1>19 DEF CallIsLost
  <1>20. CASE UNCHANGED vars
    BY <1>20 DEF vars
  <1> QED
    BY <1>1, <1>2, <1>3, <1>4, <1>5, <1>6, <1>7, <1>8, <1>9, <1>10, <1>11, <1>12, <1>13,
       <1>14, <1>15, <1>16, <1>18, <1>19, <1>20
    DEF Next, ConnStep

-----------------------------------------------------------------------------
(* How the connections move.                                               *)

(* What a step does to one connection: tryAcquire takes an unused one that *)
(* is nobody's session and does not hold the lock, a step of its own takes *)
(* it one stage on, and it is put back when it is lost, closed or its      *)
(* process gone; a session goes with its process only.                     *)
PutBack(c) ==
  /\ conn'[c] = Unused
  /\ conn[c].stage = "session" => session'[conn[c].node] = None
Taken(c) ==
  /\ conn[c] = Unused /\ lock # c /\ \A m \in Nodes : session[m] # c
  /\ \E n \in Nodes : conn'[c] = [stage |-> "connecting", node |-> n, token |-> 0]
  /\ UNCHANGED <<lock, session, seq>>
MovedOn(c) ==
  /\ conn'[c].node = conn[c].node
  /\ \/ TryLock(c) /\ lock = None /\ lock' = c
        /\ conn'[c].stage = "locked" /\ conn'[c].token = conn[c].token
     \/ Number(c) /\ conn'[c].stage = "numbered" /\ conn'[c].token = seq + 1
     \/ RecordLeadership(c) /\ conn'[c].stage = "recorded" /\ conn'[c].token = conn[c].token
     \/ Elected(c) /\ conn'[c].stage = "session" /\ conn'[c].token = conn[c].token
     \/ SessionError(c) /\ conn'[c].stage = "failed" /\ conn'[c].token = conn[c].token
     \/ conn[c].stage = "session" /\ conn'[c].stage = "releasing"
        /\ conn'[c].token = conn[c].token
        /\ UNCHANGED <<lock, cut>>
        /\ \E n \in Nodes : Release(n) /\ session[n] = c

(* Every step does one of these to every connection, or leaves it.         *)
LEMMA ConnMoves ==
  ASSUME TypeOK, [Next]_vars, NEW c \in Conns
  PROVE  \/ conn'[c] = conn[c]
         \/ PutBack(c)
         \/ Taken(c)
         \/ MovedOn(c)
  <1> DEFINE Goal == conn'[c] = conn[c] \/ PutBack(c) \/ Taken(c) \/ MovedOn(c)
  <1> USE DEF database, election, agentSide
  <1>0. /\ conn \in [Conns -> ConnRecords]
        /\ conn[c] \in ConnRecords
    BY DEF TypeOK, ConnRecords, ConnStages
  <1>1. ASSUME NEW n \in Nodes, Connect(n), UNCHANGED <<database, election>>
        PROVE  Goal
    BY <1>0, <1>1 DEF Connect, Taken
  <1>2. ASSUME NEW n \in Nodes, Gone(n)
        PROVE  Goal
    <2>1. session'[n] = None
      BY <1>2 DEF Gone, TypeOK
    <2> QED
      BY <1>2, <2>1 DEF Gone, PutBack
  <1>3. ASSUME NEW n \in Nodes, Release(n)
        PROVE  Goal
    <2>1. CASE c = session[n] /\ conn[c].stage = "session"
      <3>1. conn'[c] = [conn[c] EXCEPT !.stage = "releasing"]
        BY <1>3, <2>1 DEF Release
      <3>2. UNCHANGED <<lock, cut>>
        BY <1>3 DEF Release
      <3> QED
        BY <1>0, <1>3, <2>1, <3>1, <3>2 DEF MovedOn, ConnRecords
    <2>2. CASE ~(c = session[n] /\ conn[c].stage = "session")
      BY <1>3, <2>2 DEF Release
    <2> QED
      BY <2>1, <2>2
  <1>4. ASSUME NEW d \in Conns, ConnStep(d), d # c
        PROVE  conn'[c] = conn[c]
    BY <1>0, <1>4 DEF ConnStep, TryLock, Number, RecordLeadership, AttemptFails, Elected,
         ServerReleases, SessionError, SessionEnd, Released, Staged
  <1>5. ASSUME ConnStep(c)
        PROVE  Goal
    <2>1. CASE TryLock(c) /\ lock = None
      BY <1>0, <2>1 DEF TryLock, Staged, MovedOn, ConnRecords
    <2>2. CASE TryLock(c) /\ lock # None
      BY <1>0, <2>2 DEF TryLock, PutBack
    <2>3. CASE Number(c)
      BY <1>0, <2>3 DEF Number, MovedOn, ConnRecords
    <2>4. CASE RecordLeadership(c)
      BY <1>0, <2>4 DEF RecordLeadership, Staged, MovedOn, ConnRecords
    <2>5. CASE Elected(c)
      BY <1>0, <2>5 DEF Elected, Staged, MovedOn, ConnRecords
    <2>6. CASE SessionError(c)
      BY <1>0, <2>6 DEF SessionError, Staged, MovedOn, ConnRecords
    <2>7. CASE AttemptFails(c) \/ SessionEnd(c) \/ Released(c)
      BY <1>0, <2>7 DEF AttemptFails, SessionEnd, Released, PutBack, Attempting
    <2>8. CASE ServerReleases(c)
      BY <1>0, <2>8 DEF ServerReleases
    <2> QED
      BY <1>5, <2>1, <2>2, <2>3, <2>4, <2>5, <2>6, <2>7, <2>8 DEF ConnStep
  <1>6. ASSUME NEW m \in wire, AgentTakes(m) \/ CallIsLost(m)
        PROVE  Goal
    <2>1. UNCHANGED conn \/ Gone(m.node)
      BY <1>6 DEF AgentTakes, CallIsLost, FenceFails, FenceAnswered
    <2>2. m.node \in Nodes
      BY DEF TypeOK
    <2> QED
      BY <1>2, <2>1, <2>2
  <1>7. ASSUME NEW n \in Nodes, Boot(n) \/ Retry(n) \/ Issue(n) \/ Release(n) \/ Exit(n) \/ Crash(n)
        PROVE  Goal
    BY <1>1, <1>2, <1>3, <1>7 DEF Boot, Retry, Issue, Exit, Crash
  <1>8. CASE UNCHANGED vars \/ \E d \in Conns : ConnectionBreaks(d)
    BY <1>8 DEF vars, ConnectionBreaks
  <1> QED
    BY <1>4, <1>5, <1>6, <1>7, <1>8 DEF Next

(* The lock is won by a connecting connection while it is free, and given  *)
(* up; it never passes from one connection to another.                     *)
LEMMA LockMoves ==
  ASSUME TypeOK, [Next]_vars
  PROVE  \/ lock' = lock
         \/ lock' = None /\ \/ \E c \in Conns : Released(c) /\ lock = c
                            \/ \E c \in cut : ServerReleases(c) /\ lock = c
         \/ lock = None /\ \E c \in Conns : TryLock(c) /\ lock' = c
  <1> USE DEF database, election, agentSide
  <1>1. ASSUME NEW c \in Conns, ConnStep(c) \/ ConnectionBreaks(c)
        PROVE  \/ lock' = lock
               \/ lock' = None /\ \/ Released(c) /\ lock = c
                                  \/ c \in cut /\ ServerReleases(c) /\ lock = c
               \/ lock = None /\ TryLock(c) /\ lock' = c
    BY <1>1 DEF ConnStep, TryLock, Number, RecordLeadership, AttemptFails, Elected,
         ServerReleases, SessionError, SessionEnd, Released, ConnectionBreaks
  <1>2. ASSUME NEW n \in Nodes, Boot(n) \/ Retry(n) \/ Issue(n) \/ Release(n) \/ Exit(n) \/ Crash(n)
        PROVE  lock' = lock
    BY <1>2 DEF Boot, Retry, Issue, Release, Exit, Crash
  <1>3. ASSUME NEW m \in wire, AgentTakes(m) \/ CallIsLost(m)
        PROVE  lock' = lock
    BY <1>3 DEF AgentTakes, CallIsLost
  <1> QED
    BY <1>1, <1>2, <1>3 DEF Next, vars

(* A connection that is broken stays broken until it is opened anew.       *)
LEMMA CutMoves ==
  ASSUME TypeOK, [Next]_vars, NEW c \in cut
  PROVE  c \in cut' \/ Taken(c)
  <1> USE DEF database, election, agentSide
  <1>1. ASSUME NEW n \in Nodes, Connect(n), UNCHANGED <<database, election>>
        PROVE  c \in cut' \/ Taken(c)
    BY <1>1 DEF Connect, Taken, TypeOK
  <1>2. ASSUME NEW n, Gone(n)
        PROVE  c \in cut'
    BY <1>2 DEF Gone
  <1>3. ASSUME NEW d \in Conns, ConnStep(d) \/ ConnectionBreaks(d)
        PROVE  c \in cut'
    BY <1>3 DEF ConnStep, TryLock, Number, RecordLeadership, AttemptFails, Elected,
         ServerReleases, SessionError, SessionEnd, Released, ConnectionBreaks
  <1>4. ASSUME NEW n \in Nodes, Boot(n) \/ Retry(n) \/ Issue(n) \/ Release(n) \/ Exit(n) \/ Crash(n)
        PROVE  c \in cut' \/ Taken(c)
    BY <1>1, <1>2, <1>4 DEF Boot, Retry, Issue, Release, Exit, Crash
  <1>5. ASSUME NEW m \in wire, AgentTakes(m) \/ CallIsLost(m)
        PROVE  c \in cut'
    BY <1>2, <1>5 DEF AgentTakes, CallIsLost, FenceFails, FenceAnswered
  <1> QED
    BY <1>3, <1>4, <1>5 DEF Next, vars

(* A node's session changes when it is elected, and is forgotten; whoever  *)
(* was told of a loss hears nothing else until it is elected again.        *)
LEMMA SessionMoves ==
  ASSUME TypeOK, ConnsAreOwned, [Next]_vars, NEW n \in Nodes
  PROVE  \/ session'[n] = session[n] /\ (lost[n] => lost'[n]) /\ token'[n] \in {0, token[n]}
         \/ session'[n] = None
         \/ \E c \in Conns : /\ Elected(c) /\ conn[c].node = n
                             /\ session'[n] = c /\ token'[n] = conn[c].token
  <1> DEFINE Goal ==
        \/ session'[n] = session[n] /\ (lost[n] => lost'[n]) /\ token'[n] \in {0, token[n]}
        \/ session'[n] = None
        \/ \E c \in Conns : /\ Elected(c) /\ conn[c].node = n
                            /\ session'[n] = c /\ token'[n] = conn[c].token
  <1> USE DEF database, election, agentSide
  <1>0. /\ session \in [Nodes -> Conns \cup {None}] /\ lost \in [Nodes -> BOOLEAN]
        /\ token \in [Nodes -> 0..seq]
        /\ \A m \in wire : m.node \in Nodes
    BY DEF TypeOK
  <1>1. ASSUME NEW m \in Nodes, Gone(m)
        PROVE  Goal
    BY <1>0, <1>1 DEF Gone
  <1>2. ASSUME NEW m \in Nodes, Release(m)
        PROVE  Goal
    BY <1>0, <1>2 DEF Release
  <1>3. ASSUME NEW c \in Conns, Elected(c)
        PROVE  Goal
    <2>1. conn[c].node \in Nodes
      BY <1>3 DEF Elected, ConnsAreOwned
    <2>2. /\ session' = [session EXCEPT ![conn[c].node] = c]
          /\ token' = [token EXCEPT ![conn[c].node] = conn[c].token]
          /\ lost' = [lost EXCEPT ![conn[c].node] = FALSE]
      BY <1>3 DEF Elected
    <2> QED
      BY <1>0, <1>3, <2>1, <2>2
  <1>4. ASSUME NEW c \in Conns, SessionError(c) \/ SessionEnd(c) \/ Released(c)
        PROVE  Goal
    BY <1>0, <1>4 DEF SessionError, SessionEnd, Released, Lost
  <1>5. ASSUME NEW c \in Conns, \/ TryLock(c) \/ Number(c) \/ RecordLeadership(c)
                                \/ AttemptFails(c) \/ ServerReleases(c) \/ ConnectionBreaks(c)
        PROVE  UNCHANGED election
    BY <1>5 DEF TryLock, Number, RecordLeadership, AttemptFails, ServerReleases, ConnectionBreaks
  <1>6. ASSUME NEW m \in Nodes, Boot(m) \/ Retry(m) \/ Issue(m) \/ Release(m) \/ Exit(m) \/ Crash(m)
        PROVE  Goal
    BY <1>1, <1>2, <1>6 DEF Boot, Retry, Issue, Exit, Crash
  <1>7. ASSUME NEW m \in wire, AgentTakes(m) \/ CallIsLost(m)
        PROVE  Goal
    BY <1>0, <1>1, <1>7 DEF AgentTakes, CallIsLost, FenceFails, FenceAnswered
  <1> QED
    BY <1>3, <1>4, <1>5, <1>6, <1>7 DEF Next, ConnStep, vars

-----------------------------------------------------------------------------
(* The parts of the invariant, one by one.                                 *)

(* A token is drawn by Number and by nothing else.                         *)
LEMMA OwnedStep ==
  ASSUME TypeOK, ConnsAreOwned, [Next]_vars
  PROVE  ConnsAreOwned'
  <1> SUFFICES ASSUME NEW c \in Conns
               PROVE  /\ conn'[c].stage # "unused" => conn'[c].node \in Nodes
                      /\ conn'[c].stage \in Drawn <=> conn'[c].token # 0
    BY DEF ConnsAreOwned
  <1> USE DEF Drawn, Holding
  <1>1. CASE conn'[c] = conn[c]
    BY <1>1 DEF ConnsAreOwned
  <1>2. CASE PutBack(c)
    BY <1>2 DEF PutBack, Unused
  <1>3. CASE Taken(c)
    BY <1>3 DEF Taken
  <1>4. CASE MovedOn(c)
    BY <1>4 DEF MovedOn, ConnsAreOwned, TypeOK, TryLock, Number, RecordLeadership, Elected, SessionError
  <1> QED
    BY <1>1, <1>2, <1>3, <1>4, ConnMoves

(* The lock passes a holder by only when its connection is gone: what it   *)
(* leaves behind is marked broken until it is told.                        *)
LEMMA HoldersStep ==
  ASSUME TypeOK, HoldersHoldOrAreCut, [Next]_vars
  PROVE  HoldersHoldOrAreCut'
  <1> SUFFICES ASSUME NEW c \in Conns, conn'[c].stage \in Holding
               PROVE  lock' = c \/ c \in cut'
    BY DEF HoldersHoldOrAreCut
  <1>1. ~PutBack(c) /\ ~Taken(c)
    <2>1. ~PutBack(c)
      BY DEF PutBack, Unused, Holding
    <2>2. ~Taken(c)
      <3>1. Taken(c) => conn'[c].stage = "connecting"
        BY DEF Taken
      <3> QED
        BY <3>1 DEF Holding
    <2> QED
      BY <2>1, <2>2
  <1>2. lock' = c \/ conn[c].stage \in Holding
    BY <1>1, ConnMoves DEF MovedOn, Holding, Number, RecordLeadership, Elected, SessionError
  <1>3. CASE conn[c].stage \in Holding /\ c \in cut
    BY <1>1, <1>3, CutMoves
  <1>4. CASE conn[c].stage \in Holding /\ lock = c
    <2>1. ~Released(c)
      BY <1>4 DEF Released, Unused, Holding, TypeOK
    <2>2. ServerReleases(c) => c \in cut'
      BY DEF ServerReleases
    <2> QED
      BY <1>4, <2>1, <2>2, LockMoves, LeadershipAssumption
  <1> QED
    BY <1>2, <1>3, <1>4 DEF HoldersHoldOrAreCut

(* A session is won by an attempt, once, and for the node that attempted.  *)
LEMMA SessionsStep ==
  ASSUME TypeOK, ConnsAreOwned, SessionsAreWon, [Next]_vars
  PROVE  SessionsAreWon'
  <1>1. ASSUME NEW c \in Conns, NEW n \in Nodes, conn'[c].stage \in Attempting
        PROVE  session'[n] # c
    <2>1. ~PutBack(c) /\ ~Elected(c)
      BY <1>1 DEF PutBack, Unused, Attempting, Elected, Staged, TypeOK
    <2>2. session[n] # c
      BY ZenonT(30), <1>1, <2>1, ConnMoves DEF SessionsAreWon, Taken, MovedOn, Attempting, TryLock, Number,
         RecordLeadership, SessionError
    <2> QED
      BY <2>1, <2>2, SessionMoves, LeadershipAssumption
  <1>2. ASSUME NEW n \in Nodes, NEW m \in Nodes, session'[n] = session'[m], session'[n] # None
        PROVE  n = m
    <2>1. ASSUME NEW c \in Conns, Elected(c), NEW k \in Nodes
          PROVE  session[k] # c
      BY <2>1 DEF Elected, SessionsAreWon, Attempting
    <2>2. \/ session'[n] = session[n]
          \/ \E c \in Conns : Elected(c) /\ conn[c].node = n /\ session'[n] = c
      BY <1>2, SessionMoves
    <2>3. \/ session'[m] = session[m]
          \/ \E c \in Conns : Elected(c) /\ conn[c].node = m /\ session'[m] = c
      BY <1>2, SessionMoves
    <2> QED
      BY <1>2, <2>1, <2>2, <2>3 DEF SessionsAreWon
  <1> QED
    BY <1>1, <1>2 DEF SessionsAreWon

(* A session that is the node's own ends with the node's losing it.        *)
LEMMA LeadersStep ==
  ASSUME TypeOK, ConnsAreOwned, SessionsAreWon, LeadersHaveSessions, [Next]_vars
  PROVE  LeadersHaveSessions'
  <1> SUFFICES ASSUME NEW n \in Nodes, session'[n] # None, ~lost'[n]
               PROVE  /\ conn'[session'[n]].stage = "session"
                      /\ conn'[session'[n]].node = n
    BY DEF LeadersHaveSessions, IsLeader
  <1>1. CASE session'[n] = session[n] /\ ~lost[n]
    <2> DEFINE c == session[n]
    <2>1. c \in Conns
      BY <1>1 DEF TypeOK
    <2>2. conn[c].stage = "session" /\ conn[c].node = n
      BY <1>1 DEF LeadersHaveSessions, IsLeader
    <2>3. ~PutBack(c) /\ ~Taken(c)
      BY <1>1, <2>2 DEF PutBack, Taken
    <2>4. ~SessionError(c)
      BY <2>2 DEF SessionError, Lost, TypeOK
    <2>5. ASSUME NEW k \in Nodes, Release(k), session[k] = c
          PROVE  FALSE
      <3>1. k = n
        BY <1>1, <2>5 DEF SessionsAreWon
      <3> QED
        BY <1>1, <2>5, <3>1 DEF Release, TypeOK
    <2>6. ~(TryLock(c) \/ Number(c) \/ RecordLeadership(c) \/ Elected(c))
      BY <2>2 DEF TryLock, Number, RecordLeadership, Elected
    <2>7. conn'[c] = conn[c]
      BY <2>1, <2>3, <2>4, <2>5, <2>6, ConnMoves DEF MovedOn
    <2> QED
      BY <1>1, <2>2, <2>7
  <1>2. ASSUME NEW c \in Conns, Elected(c), conn[c].node = n, session'[n] = c
        PROVE  conn'[c].stage = "session" /\ conn'[c].node = n
    BY <1>2 DEF Elected, Staged, TypeOK
  <1> QED
    BY <1>1, <1>2, SessionMoves DEF TypeOK

(* The token a leader goes by is its session's until it is forgotten.      *)
LEMMA TokensStep ==
  ASSUME TypeOK, ConnsAreOwned, SessionsAreWon, LeadersHaveSessions, TokensAreDrawn, [Next]_vars
  PROVE  TokensAreDrawn'
  <1> SUFFICES ASSUME NEW n \in Nodes, session'[n] # None, ~lost'[n]
               PROVE  token'[n] \in {0, conn'[session'[n]].token}
    BY DEF TokensAreDrawn, IsLeader
  <1>0. conn'[session'[n]].stage = "session"
    BY LeadersStep DEF LeadersHaveSessions, IsLeader
  <1>1. CASE session'[n] = session[n] /\ ~lost[n] /\ token'[n] \in {0, token[n]}
    <2> DEFINE c == session[n]
    <2>1. c \in Conns
      BY <1>1 DEF TypeOK
    <2>2. conn[c].stage = "session"
      BY <1>1 DEF LeadersHaveSessions, IsLeader
    <2>3. conn'[c].stage = "session"
      BY <1>0, <1>1
    <2>4. ~PutBack(c) /\ ~Taken(c)
      <3>1. ~PutBack(c)
        BY <2>3 DEF PutBack, Unused
      <3>2. ~Taken(c)
        BY <2>3 DEF Taken
      <3> QED
        BY <3>1, <3>2
    <2>5. conn'[c].token = conn[c].token
      BY <2>1, <2>3, <2>4, ConnMoves DEF MovedOn
    <2> QED
      BY <1>1, <2>5 DEF TokensAreDrawn, IsLeader
  <1>2. ASSUME NEW c \in Conns, Elected(c)
        PROVE  conn'[c].token = conn[c].token
    BY <1>2 DEF Elected, Staged, TypeOK
  <1> QED
    BY <1>1, <1>2, SessionMoves DEF TypeOK

(* A token is drawn by the holder alone, and each is above all before it.  *)
LEMMA OutranksStep ==
  ASSUME TypeOK, ConnsAreOwned, HoldersHoldOrAreCut, TheHolderOutranks, [Next]_vars
  PROVE  TheHolderOutranks'
  <1> SUFFICES ASSUME lock' # None, conn'[lock'].token # 0, NEW c \in Conns \ {lock'}
               PROVE  conn'[c].token < conn'[lock'].token
    BY DEF TheHolderOutranks
  <1>0. \A k \in Conns : conn[k].token \in 0..seq /\ seq \in Nat
    BY DEF TypeOK
  <1>1. ASSUME NEW k \in Conns, TryLock(k), lock = None, lock' = k
        PROVE  conn'[k].token = 0
    <2>1. conn[k].token = 0
      BY <1>1 DEF TryLock, ConnsAreOwned, Drawn, Holding
    <2> QED
      BY <1>1, <2>1 DEF TryLock, Staged, TypeOK
  <1>2. lock' = lock /\ lock \in Conns
    BY <1>1, LockMoves DEF TypeOK
  <1>3. CASE Number(lock)
    BY <1>0, <1>2, <1>3 DEF Number, TypeOK
  <1>4. CASE ~Number(lock)
    <2>1. conn'[lock].token = conn[lock].token
      BY <1>2, <1>4, ConnMoves DEF PutBack, Taken, Unused, MovedOn
    <2>2. conn[c].token < conn[lock].token
      BY <1>2, <2>1 DEF TheHolderOutranks
    <2>3. ~Number(c)
      BY <1>2 DEF Number, HoldersHoldOrAreCut, Holding
    <2>4. conn'[c].token \in {0, conn[c].token}
      <3>1. CASE PutBack(c)
        BY <3>1 DEF PutBack, Unused
      <3>2. CASE Taken(c)
        BY <3>2 DEF Taken
      <3>3. CASE MovedOn(c)
        BY <2>3, <3>3 DEF MovedOn
      <3> QED
        BY <3>1, <3>2, <3>3, ConnMoves
    <2> QED
      BY <1>0, <1>2, <2>1, <2>2, <2>4
  <1> QED
    BY <1>3, <1>4

-----------------------------------------------------------------------------
(* The theorems.                                                           *)

(* The invariant holds from the start, in every step.                      *)
LEMMA ElectionInvariant == Spec => [](TypeOK /\ ElectionInv)
  <1>1. Init => TypeOK /\ ElectionInv
    BY LeadershipAssumption DEF Init, TypeOK, ElectionInv, ConnsAreOwned, HoldersHoldOrAreCut, SessionsAreWon,
       LeadersHaveSessions, TokensAreDrawn, TheHolderOutranks, IsLeader, Unused, Attempting,
       Holding, Drawn
  <1>2. TypeOK /\ ElectionInv /\ [Next]_vars => TypeOK' /\ ElectionInv'
    BY NextType, OwnedStep, HoldersStep, SessionsStep, LeadersStep, TokensStep, OutranksStep
    DEF ElectionInv
  <1> QED
    BY <1>1, <1>2, PTL DEF Spec

(* Every variable keeps its type (the sequence bounds every token there    *)
(* is: at the nodes, on the connections, on the wire and at the agent).    *)
THEOREM ElectionTypeCorrect == Spec => []TypeOK
  BY ElectionInvariant, PTL

(* The lock outranks: whoever holds the lock and drew its token drew a     *)
(* higher one than every other connection (pg-leader.ts draws it after the *)
(* lock).                                                                  *)
THEOREM HolderOutranks == Spec => []TheHolderOutranks
  <1>1. ElectionInv => TheHolderOutranks
    BY DEF ElectionInv
  <1> QED
    BY <1>1, ElectionInvariant, PTL

(* A believer holds the lock or was cut off and not told: whatever else    *)
(* happens at once, state.isLeader is never true of a third instance.      *)
THEOREM LeadersHoldTheLockOrAreCut == Spec => []ALeaderHoldsTheLockOrIsCut
  <1>1. TypeOK /\ ElectionInv => ALeaderHoldsTheLockOrIsCut
    BY DEF TypeOK, ElectionInv, LeadersHaveSessions, HoldersHoldOrAreCut, Holding, IsLeader,
       ALeaderHoldsTheLockOrIsCut
  <1> QED
    BY <1>1, ElectionInvariant, PTL

(* Of two that believe they may act, the one that holds the lock acts with *)
(* the higher token: assertLeader lets both pass, and the fence of the     *)
(* first silences the second.                                              *)
THEOREM RightfulLeaderPrevails == Spec => []TheRightfulLeaderPrevails
  <1>1. ASSUME TypeOK, ElectionInv
        PROVE  TheRightfulLeaderPrevails
    <2> SUFFICES ASSUME NEW n \in Nodes, NEW m \in Nodes, n # m,
                        MayAct(n), MayAct(m), lock = session[n]
                 PROVE  lock # session[m] /\ token[m] < token[n]
      BY DEF TheRightfulLeaderPrevails
    <2>1. lock # session[m] /\ lock # None /\ session[m] \in Conns
      BY <1>1 DEF ElectionInv, SessionsAreWon, MayAct, IsLeader, TypeOK
    <2>2. token[n] = conn[lock].token /\ token[m] = conn[session[m]].token /\ token[n] # 0
      BY <1>1 DEF ElectionInv, TokensAreDrawn, MayAct
    <2> QED
      BY <1>1, <2>1, <2>2 DEF ElectionInv, TheHolderOutranks
  <1> QED
    BY <1>1, ElectionInvariant, PTL
===============================================================================
