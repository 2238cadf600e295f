------------------------------ MODULE MCDpAgent ------------------------------
(* Small instances of DpAgentSurface: two terms of leadership on one plane, *)
(* with one batch of operations at a time.  A behaviour is one of           *)
(* DpAgentSurface in which only the batch's operations leave a trace in the *)
(* agent's state.  Of the phases under way the agent tells none from        *)
(* another; one stands for all of them.                                     *)
EXTENDS DpAgentSurface

Everywhere(epoch, rev) == [p \in Planes |-> [epoch |-> epoch, rev |-> rev]]
Envelope(name, token, epoch, from) ==
  [name |-> name, token |-> token, epoch |-> epoch, rev |-> 0,
   exp |-> Everywhere(from, 0)]

\* an operation and one that expects the position it leaves
Sequel == {Envelope("a", 1, 1, 0), Envelope("b", 2, 2, 1)}
\* one operation that two leaders carry, as a follower's retry does
Retried == {Envelope("a", 1, 1, 0), Envelope("a", 2, 1, 0)}
Delta == {[Envelope("h", 2, 1, 1) EXCEPT !.rev = 1]}
AllCommitted == {[p \in Planes |-> "committed"]}

VARIABLE batch

Batches == {Sequel, Retried}
AnyOp == UNION Batches

Told == TerminalPhases \cup {"preflight"}

LeavesATrace(s, op) ==
  \/ \E r \in s.completed : r.op = op
  \/ \E p \in Planes : s.terminal[<<Who(op), p>>] # None \/ HasSlot(s, op, p)
  \/ s.journal # None /\ s.journal.op = op
  \/ RecordOf(op) \in {s.holder, s.lastPublishIntent}

MCInit == Init /\ batch \in Batches
MCNext ==
  /\ Next
  /\ \A op \in Ops \ batch : ~LeavesATrace(agent', op)
  /\ agent'.journal # None => agent'.journal.phase \in Told
  /\ UNCHANGED batch
MCSpec == MCInit /\ [][MCNext]_<<vars, batch>>
=============================================================================
