---------------------------- MODULE ConfigStore ----------------------------
(***************************************************************************)
(* The configuration store (store/config-store.ts) and the retention of    *)
(* its rows (store/db-retention.ts).  A transaction is one step: commit,   *)
(* rollback and replan hold config_head's row, reopen, discard and commit  *)
(* meet on the plan's row, SQLite has one writer.  A call of several       *)
(* transactions (plan, replan) is a process, and what it read in one may   *)
(* have changed by the next.  A transaction that throws changes nothing;   *)
(* the sequence numbers it may have drawn leave gaps, which nothing sees,  *)
(* for revisions and epochs are only compared.                             *)
(*                                                                         *)
(* Abstractions.  A model maps the keys of its objects to their bodies.    *)
(* What a body refers to is a constant of its key.  A digest is what the   *)
(* rendered configuration depends on: the rendered keys' bodies.           *)
(***************************************************************************)
EXTENDS Naturals, FiniteSets, Sequences, SequencesExt

CONSTANTS
  Keys, Bodies,   \* configuration objects and what may be put there
  Needs,          \* [Keys -> SUBSET Keys]: the objects a key's body refers to
  Owned,          \* keys whose foreign key is ON DELETE CASCADE; others RESTRICT
  Rendered,       \* keys that appear in nginx's configuration
  PutOrder,       \* opsOf: referred-to objects first
  WipeOrder,      \* rollbackTo: the tables it empties, referring ones first
  Refused,        \* models that renderOrThrow or the certificate and bind checks refuse
  Edits,          \* what one PATCH brings: sequences of operations
  Changesets, Plans,   \* identities of rows
  Calls,          \* plan and replan calls in flight
  None,
  MaxChangesetOps,     \* MAX_CHANGESET_OPS, 1000 in the code
  MaxRevision     \* bound: how many revisions are ever made

PatchOps == [key : Keys, body : Bodies \cup {None}]   \* no body: op 'delete'
Models == [Keys -> Bodies \cup {None}]
Revisions == 1..MaxRevision

ASSUME ModelAssumption ==
  /\ None \notin Bodies /\ Owned \subseteq Keys /\ Rendered \subseteq Keys
  /\ Needs \in [Keys -> SUBSET Keys]
  /\ PutOrder \in Seq(Keys) /\ WipeOrder \in Seq(Keys)
  /\ Refused \subseteq Models /\ Edits \subseteq Seq(PatchOps)
ASSUME RowsAssumption ==
  /\ MaxRevision \in Nat \ {0} /\ MaxChangesetOps \in Nat
  /\ Plans \subseteq Nat /\ IsFiniteSet(Plans)
\* what rollbackTo empties and puts back is everything: what no DELETE names
\* goes with what it belongs to
ASSUME OrderAssumption ==
  \A k \in Keys :
    /\ \E i \in DOMAIN PutOrder : PutOrder[i] = k
    /\ \E i \in DOMAIN WipeOrder :
         WipeOrder[i] = k \/ (k \in Owned /\ WipeOrder[i] \in Needs[k])

ChangesetStates == {"open", "sealed", "committed", "discarded"}
PlanStates ==
  {"planned", "expired", "superseded", "committed", "operation_bound", "applied"}
OpenPhases == {"pending"}
TerminalPhases == {"activated", "partial_exhausted", "failed", "superseded", "no_operation"}

ChangesetRows ==
  [state : ChangesetStates, base : Revisions, patch : Seq(PatchOps),
   committed : Revisions \cup {None}]
PlanRows ==
  [cs : Changesets \cup {None}, state : PlanStates, base : Revisions, model : Models,
   target : Revisions \cup {None}, epoch : Nat, digest : Models, late : BOOLEAN,
   patch : Seq(PatchOps)]
RevisionRows ==
  [model : Models, parent : Revisions \cup {None}, rollbackOf : Revisions \cup {None}]
OperationRows ==
  [plan : Plans, revision : Revisions, epoch : Nat,
   phase : OpenPhases \cup TerminalPhases]

ASSUME NoneAssumption ==
  /\ None \notin Changesets /\ None \notin Revisions
  /\ None \notin ChangesetRows /\ None \notin PlanRows /\ None \notin RevisionRows

VARIABLES
  tables,      \* the configuration's rows, as one model
  head,        \* config_head.revision
  revs,        \* config_revisions
  changesets,  \* changesets
  plans,       \* plans; `late` says that expires_at has passed, `patch` is a
               \* history field: the patch that was planned
  ops,         \* operations in the order of created_at
  request      \* the plan and replan calls in flight

store == <<tables, head, revs, changesets, plans, ops>>
storeVars == <<tables, head, revs, changesets, plans, ops, request>>

-----------------------------------------------------------------------------
(* Operators on models.                                                    *)

EmptyModel == [k \in Keys |-> None]
Digest(m) == [k \in Keys |-> IF k \in Rendered THEN m[k] ELSE None]
Renders(m) == m \notin Refused

Dependents(m, k) == {d \in Keys : m[d] # None /\ k \in Needs[d]}
Deleted(m, k) ==
  IF Dependents(m, k) \subseteq Owned
  THEN {[x \in Keys |-> IF x = k \/ x \in Dependents(m, k) THEN None ELSE m[x]]}
  ELSE {}

(* applyOp: the models an operation may leave; none when it throws: what   *)
(* it deletes is not there or is referred to, or it refers to what is not. *)
ApplyOp(m, op) ==
  IF op.body = None
  THEN IF m[op.key] = None THEN {} ELSE Deleted(m, op.key)
  ELSE IF \E r \in Needs[op.key] : m[r] = None THEN {}
       ELSE {[m EXCEPT ![op.key] = op.body]}
(* The models that steps leave one after the other: none if one throws.    *)
InTurn(m, steps) ==
  LET after[i \in 0..Len(steps)] ==
        IF i = 0 THEN {m} ELSE UNION {steps[i][x] : x \in after[i - 1]}
  IN after[Len(steps)]
ApplyAll(m, patch) ==
  InTurn(m, [i \in DOMAIN patch |-> [x \in Models |-> ApplyOp(x, patch[i])]])
Accepted(m, patch) == {x \in ApplyAll(m, patch) : Renders(x)}

(* rollbackTo empties the tables and puts the old model's objects back     *)
(* (opsOf).                                                                *)
Wipes == [i \in DOMAIN WipeOrder |-> [x \in Models |-> Deleted(x, WipeOrder[i])]]
PutsOf(old) ==
  [i \in DOMAIN PutOrder |-> [x \in Models |->
     LET k == PutOrder[i] IN
     IF old[k] = None THEN {x} ELSE ApplyOp(x, [key |-> k, body |-> old[k]])]]
RebuiltOver(m, old) ==   \* what the old model does not hold stays
  {x \in InTurn(m, PutsOf(old)) : Renders(x)}
Rebuilt(m, old) == {x \in InTurn(m, Wipes \o PutsOf(old)) : Renders(x)}

-----------------------------------------------------------------------------
(* Queries.                                                                *)

Rows(table) == {x \in DOMAIN table : table[x] # None}
PlanIn(p, states) == plans[p] # None /\ plans[p].state \in states
NextRevision == head + 1
EpochsDrawn == {0} \cup {plans[p].epoch : p \in Rows(plans)}
NextEpoch == 1 + (CHOOSE e \in EpochsDrawn : \A d \in EpochsDrawn : d <= e)
FreePlans == {p \in Plans : plans[p] = None /\ \A q \in Plans : plans[q] = None => p <= q}

(* activeRevision: of the activated row of the highest epoch, of equals    *)
(* the newest.                                                             *)
Activated == {i \in DOMAIN ops : ops[i].phase = "activated"}
Outranks(i, j) ==
  ops[i].epoch > ops[j].epoch \/ (ops[i].epoch = ops[j].epoch /\ i >= j)
ActiveRow == IF Activated = {} THEN None
             ELSE CHOOSE i \in Activated : \A j \in Activated : Outranks(i, j)
ActiveRevision == IF ActiveRow = None THEN None ELSE ops[ActiveRow].revision

HasRow(p) == \E i \in DOMAIN ops : ops[i].plan = p
FreshHead == \E p \in Rows(plans) :
  plans[p].target = head /\ plans[p].state = "committed" /\ ~HasRow(p)
(* failedHead: the head is not active, nothing fresh waits for it, and its *)
(* newest row failed, on every plane.                                      *)
FailedHead ==
  LET rows == {i \in DOMAIN ops : ops[i].revision = head}
      last == CHOOSE i \in rows : \A j \in rows : j <= i
  IN /\ ActiveRevision # head /\ ~FreshHead
     /\ rows # {} /\ ops[last].phase = "failed"

-----------------------------------------------------------------------------
Init ==
  /\ tables = EmptyModel /\ head = 1
  /\ revs = [r \in Revisions |->
       IF r = 1 THEN [model |-> EmptyModel, parent |-> None, rollbackOf |-> None] ELSE None]
  /\ changesets = [c \in Changesets |-> None]
  /\ plans = [p \in Plans |-> None]
  /\ ops = <<>>
  /\ request = [c \in Calls |-> None]

(* createChangeset: the base need not be the head.                         *)
CreateChangeset(c, base) ==
  /\ changesets[c] = None /\ revs[base] # None
  /\ changesets' = [changesets EXCEPT ![c] =
       [state |-> "open", base |-> base, patch |-> <<>>, committed |-> None]]
  /\ UNCHANGED <<tables, head, revs, plans, ops, request>>

(* patchChangeset: whole or not at all, while open and within the limit.   *)
PatchChangeset(c, edit) ==
  /\ changesets[c] # None /\ changesets[c].state = "open"
  /\ Len(changesets[c].patch) + Len(edit) <= MaxChangesetOps
  /\ changesets' = [changesets EXCEPT ![c].patch = @ \o edit]
  /\ UNCHANGED <<tables, head, revs, plans, ops, request>>

(* plan: reads the changeset, applies its patch to the tables of a later   *)
(* moment and takes that back (dryRun), then seals and stores the plan.    *)
PlanRead(q, c) ==
  /\ request[q] = None
  /\ changesets[c] # None /\ changesets[c].state \in {"open", "sealed"}
  /\ request' = [request EXCEPT ![q] =
       [pc |-> "dry_run", cs |-> c, base |-> changesets[c].base,
        patch |-> changesets[c].patch, model |-> None]]
  /\ UNCHANGED store
PlanDryRun(q) ==
  LET r == request[q] IN
  /\ r # None /\ r.pc = "dry_run"
  /\ \/ \E m \in Accepted(tables, r.patch) :
          request' = [request EXCEPT ![q].pc = "seal", ![q].model = m]
     \/ Accepted(tables, r.patch) = {} /\ request' = [request EXCEPT ![q] = None]
  /\ UNCHANGED store
PlanSeal(q) ==
  LET r == request[q] IN
  /\ r # None /\ r.pc = "seal"
  /\ request' = [request EXCEPT ![q] = None]
  /\ IF changesets[r.cs] = None THEN UNCHANGED store   \* plans_changeset_id_fkey
     ELSE /\ changesets' = [changesets EXCEPT ![r.cs].state =
               IF @ \in {"open", "sealed"} THEN "sealed" ELSE @]
          /\ \E p \in FreePlans : plans' = [plans EXCEPT ![p] =
               [cs |-> r.cs, state |-> "planned", base |-> r.base, model |-> r.model,
                target |-> None, epoch |-> 0, digest |-> Digest(r.model),
                late |-> FALSE, patch |-> r.patch]]
          /\ UNCHANGED <<tables, head, revs, ops>>

(* reopen and discardChangeset expire the changeset's plans.               *)
PlansExpired(c) ==
  [p \in Plans |-> IF PlanIn(p, {"planned"}) /\ plans[p].cs = c
                   THEN [plans[p] EXCEPT !.state = "expired"] ELSE plans[p]]
Reopen(c) ==
  /\ changesets[c] # None /\ changesets[c].state = "sealed"
  /\ changesets' = [changesets EXCEPT ![c].state = "open"]
  /\ plans' = PlansExpired(c)
  /\ UNCHANGED <<tables, head, revs, ops, request>>
DiscardChangeset(c) ==
  /\ changesets[c] # None /\ changesets[c].state \in {"open", "sealed"}
  /\ changesets' = [changesets EXCEPT ![c].state = "discarded"]
  /\ plans' = PlansExpired(c)
  /\ UNCHANGED <<tables, head, revs, ops, request>>

(* commit asks the plan's row, not the changeset's state, and replays the  *)
(* patch as it now is.  The plan keeps the model that was planned.  Its    *)
(* sibling plans are to become 'superseded', but without a target they     *)
(* violate plan_reserved_when_committed: then the transaction fails.       *)
Siblings(p) ==
  {q \in Rows(plans) \ {p} : plans[q].cs = plans[p].cs /\ plans[q].state = "planned"}
CommittableWhateverBase(p) ==   \* the base is not compared with the head
  /\ PlanIn(p, {"planned"}) /\ ~plans[p].late
  /\ Accepted(tables, changesets[plans[p].cs].patch) # {}
Committable(p) ==
  /\ PlanIn(p, {"planned"}) /\ ~plans[p].late /\ plans[p].base = head
  /\ Accepted(tables, changesets[plans[p].cs].patch) # {}
CommittedModels(p) == Accepted(tables, changesets[plans[p].cs].patch)
Commit(p) ==
  /\ Committable(p) /\ Siblings(p) = {} /\ NextRevision \in Revisions
  /\ \E m \in CommittedModels(p) :
       /\ tables' = m
       /\ revs' = [revs EXCEPT ![NextRevision] =
            [model |-> m, parent |-> head, rollbackOf |-> None]]
       /\ plans' = [plans EXCEPT ![p].state = "committed", ![p].target = NextRevision,
                                 ![p].epoch = NextEpoch, ![p].digest = Digest(m)]
  /\ head' = NextRevision
  /\ changesets' = [changesets EXCEPT ![plans[p].cs].state = "committed",
                                      ![plans[p].cs].committed = NextRevision]
  /\ UNCHANGED <<ops, request>>

CommittedPlan(base, target, m) ==
  [cs |-> None, state |-> "committed", base |-> base, model |-> m, target |-> target,
   epoch |-> NextEpoch, digest |-> Digest(m), late |-> FALSE, patch |-> <<>>]

(* rollbackTo: a new revision with an old one's model, and its plan.       *)
RollbackTo(r) ==
  /\ revs[r] # None /\ r < head /\ NextRevision \in Revisions
  /\ \E p \in FreePlans, m \in Rebuilt(tables, revs[r].model) :
       /\ tables' = m
       /\ revs' = [revs EXCEPT ![NextRevision] =
            [model |-> m, parent |-> head, rollbackOf |-> r]]
       /\ plans' = [plans EXCEPT ![p] = CommittedPlan(head, NextRevision, m)]
  /\ head' = NextRevision
  /\ UNCHANGED <<changesets, ops, request>>

(* replanHead and replanActiveHead: what they ask, they ask before the     *)
(* transaction that stores another plan for the head they saw.             *)
ReplanRead(q) ==
  /\ request[q] = None
  /\ FailedHead \/ (ActiveRevision = head /\ ~FreshHead)
  /\ request' = [request EXCEPT ![q] =
       [pc |-> "replan", cs |-> None, base |-> head, patch |-> <<>>,
        model |-> revs[head].model]]
  /\ UNCHANGED store
HeadAsRead(r) == TRUE   \* the head is not asked again
StillHead(r) == head = r.base
ReplanInsert(q) ==
  LET r == request[q] IN
  /\ r # None /\ r.pc = "replan"
  /\ request' = [request EXCEPT ![q] = None]
  /\ IF StillHead(r)
     THEN \E p \in FreePlans :
            /\ plans' = [plans EXCEPT ![p] = CommittedPlan(r.base, r.base, r.model)]
            /\ UNCHANGED <<tables, head, revs, changesets, ops>>
     ELSE UNCHANGED store

(* A plan's 24 hours pass.                                                 *)
PlanOutlived(p) ==
  /\ PlanIn(p, {"planned"}) /\ ~plans[p].late
  /\ plans' = [plans EXCEPT ![p].late = TRUE]
  /\ UNCHANGED <<tables, head, revs, changesets, ops, request>>

-----------------------------------------------------------------------------
(* The rows the control plane keeps of an apply (ControlPlane has the      *)
(* whole of it): one row per plan, which ends in a terminal phase.  A      *)
(* membership-only apply takes the served epoch instead of the plan's.     *)
Row(p, epoch) ==
  [plan |-> p, revision |-> plans[p].target, epoch |-> epoch, phase |-> "pending"]
Claim(p) ==
  /\ PlanIn(p, {"committed", "operation_bound", "applied"}) /\ ~HasRow(p)
  /\ \/ /\ ops' = Append(ops, Row(p, plans[p].epoch))
        /\ plans' = [plans EXCEPT ![p].state = IF @ = "committed" THEN "operation_bound" ELSE @]
     \/ \E i \in Activated :
          /\ ops' = Append(ops, Row(p, ops[i].epoch))
          /\ UNCHANGED plans
  /\ UNCHANGED <<tables, head, revs, changesets, request>>
Settle(i) ==
  /\ ops[i].phase = "pending"
  /\ \E phase \in {"activated", "failed", "partial_exhausted"} :
       /\ ops' = [ops EXCEPT ![i].phase = phase]
       /\ plans' = [plans EXCEPT ![ops[i].plan].state =
                      IF phase = "activated" THEN "applied" ELSE @]
  /\ UNCHANGED <<tables, head, revs, changesets, request>>

-----------------------------------------------------------------------------
(* sweepDatabase, one row or one prefix of the history at a time.          *)
SweepPlan(p) ==
  /\ PlanIn(p, {"expired"}) \/ (PlanIn(p, {"planned"}) /\ plans[p].late)
  /\ plans' = [plans EXCEPT ![p] = None]
  /\ UNCHANGED <<tables, head, revs, changesets, ops, request>>
SweepChangeset(c) ==
  /\ changesets[c] # None /\ changesets[c].state = "discarded"
  /\ changesets' = [changesets EXCEPT ![c] = None]
  /\ plans' = [p \in Plans |->
       IF plans[p] # None /\ plans[p].cs = c THEN None ELSE plans[p]]
  /\ UNCHANGED <<tables, head, revs, ops, request>>
SweepOperation(i) ==
  /\ ops[i].phase \in TerminalPhases /\ ops[i].revision # head
  /\ ops' = RemoveAt(ops, i)
  /\ UNCHANGED <<tables, head, revs, changesets, plans, request>>

(* pruneRevisionPrefix: what nothing refers to, from the oldest on, short  *)
(* of what a surviving rollback names as its source.  A reference made     *)
(* while it runs is refused or makes the DELETE fail (foreign keys).       *)
ReferredByPlansAndRows(r) ==   \* changesets hold revisions too
  \/ r = head
  \/ \E p \in Rows(plans) : plans[p].target = r
  \/ \E i \in DOMAIN ops : ops[i].revision = r
ReferredUnlessHead(r) ==   \* the head is taken for any other revision
  \/ \E p \in Rows(plans) : plans[p].target = r
  \/ \E i \in DOMAIN ops : ops[i].revision = r
  \/ \E c \in Rows(changesets) : r \in {changesets[c].base, changesets[c].committed}
Referred(r) ==
  \/ r = head
  \/ \E p \in Rows(plans) : plans[p].target = r
  \/ \E i \in DOMAIN ops : ops[i].revision = r
  \/ \E c \in Rows(changesets) : r \in {changesets[c].base, changesets[c].committed}
SweepRevisions ==
  \E cut \in Rows(revs) :
    LET oldest == CHOOSE r \in Rows(revs) : \A s \in Rows(revs) : r <= s
        prefix == oldest..cut
        held   == {revs[s].rollbackOf : s \in {x \in Rows(revs) : x > cut}}
        gone   == {r \in prefix : \A h \in held \ {None} : h \in prefix => r < h}
    IN /\ \A r \in prefix : ~Referred(r)
       /\ cut + 1 \notin Rows(revs) \/ Referred(cut + 1)
       /\ gone # {}
       /\ revs' = [r \in Revisions |->
            IF r \in gone \/ revs[r] = None THEN None
            ELSE IF revs[r].parent \in gone THEN [revs[r] EXCEPT !.parent = None]
            ELSE revs[r]]
       /\ UNCHANGED <<tables, head, changesets, plans, ops, request>>

Editing ==
  \/ \E c \in Changesets :
       \/ \E r \in Revisions : CreateChangeset(c, r)
       \/ \E edit \in Edits : PatchChangeset(c, edit)
       \/ Reopen(c) \/ DiscardChangeset(c)
       \/ \E q \in Calls : PlanRead(q, c)
  \/ \E q \in Calls : PlanDryRun(q) \/ PlanSeal(q) \/ ReplanRead(q) \/ ReplanInsert(q)
  \/ \E p \in Plans : Commit(p) \/ PlanOutlived(p)
  \/ \E r \in Revisions : RollbackTo(r)
Sweeping ==
  \/ \E p \in Plans : SweepPlan(p)
  \/ \E c \in Changesets : SweepChangeset(c)
  \/ \E i \in DOMAIN ops : SweepOperation(i)
  \/ SweepRevisions
Applying ==
  \/ \E p \in Plans : Claim(p)
  \/ \E i \in DOMAIN ops : Settle(i)

Next == Editing \/ Sweeping \/ Applying
Spec == Init /\ [][Next]_storeVars
-----------------------------------------------------------------------------
(* Every table keeps its type.                                             *)
TypeOK ==
  /\ tables \in Models /\ head \in Rows(revs)
  /\ revs \in [Revisions -> RevisionRows \cup {None}]
  /\ DOMAIN changesets = Changesets /\ DOMAIN plans = Plans
  /\ \A c \in Rows(changesets) : changesets[c] \in ChangesetRows
  /\ \A p \in Rows(plans) : plans[p] \in PlanRows
  /\ \A i \in DOMAIN ops : ops[i] \in OperationRows

Committed(p) == plans[p] # None /\ plans[p].target # None

(* A committed changeset's revision is its patch, as it was finally        *)
(* accepted, applied to the very revision that was head before it and that *)
(* the plan was based on: no commit is lost or applied over another one    *)
(* (commit's base check under the head's lock).                            *)
CommitsReplayTheirPatch ==
  \A p \in Rows(plans) :
    (Committed(p) /\ plans[p].cs # None /\ revs[plans[p].target] # None) =>
      LET r == revs[plans[p].target] IN
      /\ changesets[plans[p].cs].committed = plans[p].target
      /\ r.parent \in {plans[p].base, None}
      /\ revs[plans[p].base] # None =>
           r.model \in ApplyAll(revs[plans[p].base].model, changesets[plans[p].cs].patch)

(* What is committed is what the plan showed, unless the changeset was     *)
(* patched while the plan was being made: the dry run reads the tables     *)
(* and the commit replays the patch, at different moments (plan, commit).  *)
WhatWasPlannedIsCommitted ==
  \A p \in Rows(plans) :
    (Committed(p) /\ plans[p].cs # None /\ revs[plans[p].target] # None) =>
      (plans[p].patch = changesets[plans[p].cs].patch =>
         plans[p].model = revs[plans[p].target].model)

(* Epochs rank revisions: of two plans the one with the higher epoch never *)
(* has the older revision, so the highest activated epoch is the newest    *)
(* that was activated (commit, rollbackTo and #planHeadAgain under the     *)
(* head's lock; activeRevision).                                           *)
EpochsRankRevisions ==
  \A p, q \in Plans : (p # q /\ Committed(p) /\ Committed(q)) =>
    /\ plans[p].epoch # plans[q].epoch
    /\ plans[p].epoch < plans[q].epoch => plans[p].target <= plans[q].target

(* A rollback restores exactly what its source holds, although it replays  *)
(* it object by object over what is there (rollbackTo, opsOf).             *)
RollbacksRestore ==
  \A r \in Rows(revs) :
    LET s == revs[r].rollbackOf IN
    s # None => revs[s] # None /\ revs[r].model = revs[s].model

(* Whatever was swept, every row a row refers to is there, and the history *)
(* has no hole (sweepDatabase, pruneRevisionPrefix).                       *)
ReferencesResolve ==
  /\ \A r \in Rows(revs) :
       /\ revs[r].parent # None => revs[revs[r].parent] # None
       /\ \A s \in Rows(revs) : r < s => \A t \in r..s : revs[t] # None
  /\ \A c \in Rows(changesets) :
       /\ revs[changesets[c].base] # None
       /\ changesets[c].committed # None => revs[changesets[c].committed] # None
  /\ \A p \in Rows(plans) :
       /\ plans[p].cs # None => changesets[plans[p].cs] # None
       /\ plans[p].target # None => revs[plans[p].target] # None
  /\ \A i \in DOMAIN ops : plans[ops[i].plan] # None /\ revs[ops[i].revision] # None
=============================================================================
