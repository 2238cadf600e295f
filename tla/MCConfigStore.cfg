SPECIFICATION MCSpec
CONSTANTS
  Keys <- AllKeys
  Bodies = {1, 2}
  Needs <- References
  Owned = {"backend"}
  Rendered = {"pool", "listener"}
  PutOrder <- PutSequence
  WipeOrder <- WipeSequence
  Refused <- RefusedModels
  Edits <- FewEdits
  Plays = {"authors", "operator"}
  c1 = c1
  c2 = c2
  q1 = q1
  q2 = q2
  Changesets = {c1, c2}
  Plans = {1, 2, 3}
  Calls = {q1, q2}
  None = None
  MaxChangesetOps = 2
  MaxRevision = 4
SYMMETRY Symmetry
CHECK_DEADLOCK FALSE
INVARIANTS TypeOK CommitsReplayTheirPatch WhatWasPlannedIsCommitted EpochsRankRevisions RollbacksRestore ReferencesResolve
