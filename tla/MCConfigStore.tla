--------------------------- MODULE MCConfigStore ---------------------------
(* A pool, a backend that goes with it and a listener that holds it.        *)
EXTENDS ConfigStore, TLC

AllKeys == {"pool", "backend", "listener"}
References == [k \in AllKeys |-> IF k = "pool" THEN {} ELSE {"pool"}]
Put(k, b) == [key |-> k, body |-> b]
PutSequence == <<"pool", "backend", "listener">>
WipeSequence == <<"listener", "pool">>
\* a listener in its second version is refused without a backend
RefusedModels == {m \in Models : m["listener"] = 2 /\ m["backend"] = None}
FewEdits == {<<Put("pool", 1), Put("backend", 1)>>, <<Put("listener", 2)>>,
             <<Put("pool", None)>>}

(* Two plays: authors, who edit two changesets at once; and one changeset   *)
(* at a time, with what becomes of its revisions: applies, retries, sweeps.*)
CONSTANTS c1, c2, q1, q2, Plays
VARIABLE play

OneChangeset == Cardinality(Rows(changesets)) <= 1
OneRequest == Cardinality(Rows(request)) <= 1
OnlyRetriesMeet == OneRequest \/ \A q \in Calls : request[q].pc = "replan"

MCInit == Init /\ play \in Plays
MCNext ==
  /\ Next
  /\ UNCHANGED play
  /\ IF play = "authors" THEN ops' = <<>> /\ ~Sweeping /\ OneRequest'
     ELSE OneChangeset' /\ OnlyRetriesMeet' /\ Len(ops') <= 2
MCSpec == MCInit /\ [][MCNext]_<<storeVars, play>>
Symmetry == Permutations({c1, c2}) \cup Permutations({q1, q2})
=============================================================================
