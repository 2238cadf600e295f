---------------------------- MODULE DpActivation ----------------------------
(***************************************************************************)
(* What the data-plane agent promises of activation, with no reservation,  *)
(* journal, ledger or pruning in sight: each plane stands somewhere, moves *)
(* only upwards and only by an operation that is current and not closed,   *)
(* and the baseline names an operation every plane has arrived at.         *)
(* DpAgentSurface implements it.                                           *)
(***************************************************************************)
EXTENDS Naturals

CONSTANTS Planes, Whos, None

VARIABLES
  token,     \* the newest leader token seen
  position,  \* where each plane stands and who moved it there
  closed,    \* the <<who, plane>> that were ever failed or aborted
  baseline   \* who was last seen activated on every plane

vars == <<token, position, closed, baseline>>

Init ==
  /\ token = 0
  /\ position = [p \in Planes |-> [epoch |-> 0, rev |-> 0, by |-> None]]
  /\ closed = {} /\ baseline = None

OnlyMoves(p) == \A q \in Planes \ {p} : position'[q] = position[q]

(* An operation of the newest leader moves one plane up.                   *)
Move(p) ==
  \E who \in Whos :
    /\ who.token >= token /\ token' = who.token
    /\ <<who, p>> \notin closed
    /\ position'[p].epoch > position[p].epoch /\ position'[p].by = who
    /\ OnlyMoves(p)
    /\ UNCHANGED <<closed, baseline>>

(* A membership delta moves a plane's revision up inside its epoch.        *)
Refresh(p) ==
  /\ token' >= token
  /\ position'[p].rev > position[p].rev
  /\ position'[p] = [position[p] EXCEPT !.rev = position'[p].rev]
  /\ OnlyMoves(p)
  /\ UNCHANGED <<closed, baseline>>

(* Everything else: a newer leader is seen, transitions that do not stand  *)
(* anywhere are closed, the baseline is settled or withdrawn.              *)
Arrived(who) ==
  /\ \A p \in Planes : position[p].by = who
  /\ \A p, q \in Planes : position[p].epoch = position[q].epoch
Administer ==
  /\ token' >= token
  /\ position' = position
  /\ closed \subseteq closed'
  /\ \A k \in closed' \ closed : position[k[2]].by # k[1]
  /\ baseline' \in {baseline, None} \cup {who \in Whos : Arrived(who)}

Next == \/ \E p \in Planes : Move(p) \/ Refresh(p)
        \/ Administer

Spec == Init /\ [][Next]_vars
=============================================================================
