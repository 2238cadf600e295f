----------------------------- MODULE MCDpApply -----------------------------
(* Small instances of DpApply.                                             *)
EXTENDS DpApply, TLC

Everywhere(epoch, rev) == [p \in Planes |-> [epoch |-> epoch, rev |-> rev]]
Envelope(name, token, epoch, from) ==
  [name |-> name, token |-> token, epoch |-> epoch, rev |-> 0,
   exp |-> Everywhere(from, 0)]
Both == {"http", "stream"}

\* one apply, with cancels, recoveries and a fence around it
OneOp == {Envelope("a", 1, 1, 0)}
\* a second leader's operation, built before or after the first one moved
Succession == {Envelope("a", 1, 1, 0), Envelope("b", 2, 2, 0)}
\* one operation that a follower issues again under a later token
Follow == {Envelope("a", 1, 1, 0), Envelope("a", 2, 1, 0)}
\* two built on the first, the last from where a delta and a partial second
\* one left the planes
Repair == {Envelope("a", 1, 1, 0), Envelope("b", 2, 2, 1),
           [Envelope("c", 2, 3, 2) EXCEPT !.exp["stream"] = [epoch |-> 1, rev |-> 1]]}
NoHealth == {}
\* of a second leader, for an epoch it has not brought yet: only its fence counts
LaterDelta == {[Envelope("h", 2, 2, 2) EXCEPT !.rev = 1]}
Delta == {[Envelope("h", 1, 1, 1) EXCEPT !.rev = 1]}
CallSymmetry == Permutations(Calls)
=============================================================================
