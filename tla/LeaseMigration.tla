--------------------------- MODULE LeaseMigration ---------------------------
(***************************************************************************)
(* The reviewed migration of broad repository leases (lease_migration.py): *)
(* task files of the Git Registry that claim the whole Bureau repository   *)
(* are rewritten, in batches, to the narrow resources of a catalog.  Apply *)
(* works on the Registry it loaded at its start, writes one file at a      *)
(* time, and puts the old texts back when a gate fails.  Others edit the   *)
(* same worktree and commit.                                               *)
(***************************************************************************)
EXTENDS Naturals, Sequences, FiniteSets

CONSTANTS
  LTask,       \* tasks of the Registry
  LTaskOrder,  \* them in the order of their ids
  MaxBatch,    \* MAX_BATCH_SIZE
  MaxEdits     \* bound on what others do

ASSUME LTaskAssumption ==
  /\ IsFiniteSet(LTask) /\ LTask # {} /\ LTaskOrder \in Seq(LTask)
  /\ {LTaskOrder[i] : i \in DOMAIN LTaskOrder} = LTask /\ Len(LTaskOrder) = Cardinality(LTask)
  /\ MaxBatch \in Nat \ {0} /\ MaxEdits \in Nat

VARIABLES
  file,      \* file[t]: the task file in the worktree
  base,      \* base[t]: the same file at HEAD
  gitHead,   \* the commit of HEAD, counted
  queue, catalog,          \* queue.json, counted, and the tasks the catalog has an entry for
  queueBase, catalogBase,  \* both at HEAD
  leasePlan, \* the plan file, cands = <<>> and on = FALSE when there is none
  lm,        \* the apply command
  theirs,    \* history: the files that others wrote since apply loaded the Registry
  edits

catVars == <<queue, catalog, queueBase, catalogBase>>
fileVars == <<file, base, gitHead, catVars>>
lmVars == <<fileVars, leasePlan, lm, theirs, edits>>

\* broad: the file claims the broad resource; ver counts what others wrote.
TaskFile == [broad : BOOLEAN, open : BOOLEAN, ver : 0 .. MaxEdits]

NoLeasePlan == [on |-> FALSE, reviewed |-> FALSE, head |-> 0, queue |-> 0, catalog |-> {},
                size |-> 0, cands |-> <<>>]
NoApply == [pc |-> "idle", registry |-> <<>>, plan |-> NoLeasePlan, todo |-> <<>>, old |-> <<>>]

LmInit ==
  /\ file \in [LTask -> {[broad |-> TRUE, open |-> TRUE, ver |-> 0]}] /\ base = file
  /\ gitHead = 0 /\ queue = 0 /\ queueBase = 0
  /\ catalog \in {LTask, {LTaskOrder[1]}} /\ catalogBase = catalog
  /\ leasePlan = NoLeasePlan /\ lm = NoApply /\ theirs = {} /\ edits = 0

----------------------------------------------------------------------------
_dirty_paths == {t \in LTask : file[t] # base[t]}
                \cup (IF queue # queueBase THEN {"queue.json"} ELSE {})
                \cup (IF catalog # catalogBase THEN {"catalog"} ELSE {})

\* registry_bureau_lease_findings: open tasks with the broad resource.
Findings(registry) == {t \in LTask : registry[t].broad /\ registry[t].open}

_entry_refusals(t) == t \notin catalog
_migrate_task_raw(raw) == [raw EXCEPT !.broad = FALSE]

\* The place of t among the tasks F sorted by id.
PlaceOf(t) == CHOOSE i \in DOMAIN LTaskOrder : LTaskOrder[i] = t
PlaceIn(F, t) == Cardinality({u \in F : PlaceOf(u) <= PlaceOf(t)})

\* The first findings; one task without a complete entry blocks the whole batch.
Selected(registry, size) ==
  LET F == Findings(registry)
      n == IF Cardinality(F) < size THEN Cardinality(F) ELSE size
  IN  IF \E t \in F : _entry_refusals(t) THEN <<>>
      ELSE [i \in 1..n |-> CHOOSE t \in F : PlaceIn(F, t) = i]

\* Each proposal binds the text the file had, by the diff to the new text.
lease_migration_plan(registry, size) ==
  [on |-> TRUE, reviewed |-> FALSE, head |-> gitHead, queue |-> queue, catalog |-> catalog,
   size |-> size,
   cands |-> LET s == Selected(registry, size)
             IN  [i \in DOMAIN s |-> [task |-> s[i], source |-> registry[s[i]], text |-> file[s[i]]]]]

\* The inventory on its own changes nothing.
broad_bureau_lease_inventory == UNCHANGED lmVars

write_lease_migration_plan(size) ==
  /\ _dirty_paths = {}
  /\ leasePlan' = lease_migration_plan(file, size)
  /\ UNCHANGED <<fileVars, lm, theirs, edits>>

review_lease_plan ==
  /\ leasePlan.on /\ ~leasePlan.reviewed
  /\ leasePlan' = [leasePlan EXCEPT !.reviewed = TRUE]
  /\ UNCHANGED <<fileVars, lm, theirs, edits>>

----------------------------------------------------------------------------
\* apply_lease_migration_plan; the Registry is loaded before it is called.

load_registry ==
  /\ lm.pc = "idle" /\ leasePlan.on
  /\ lm' = [NoApply EXCEPT !.pc = "loaded", !.registry = file]
  /\ theirs' = {}
  /\ UNCHANGED <<fileVars, leasePlan, edits>>

\* A clean worktree at the planned commit, with the planned queue and catalog,
\* from which the same plan is made again.
PlanHolds(plan) ==
  /\ plan.reviewed /\ _dirty_paths = {}
  /\ [lease_migration_plan(lm.registry, plan.size) EXCEPT !.reviewed = TRUE] = plan

check_plan ==
  /\ lm.pc = "loaded"
  /\ lm' = IF PlanHolds(leasePlan) /\ leasePlan.cands # <<>>
           THEN [lm EXCEPT !.pc = "read", !.plan = leasePlan, !.todo = leasePlan.cands]
           ELSE NoApply
  /\ UNCHANGED <<fileVars, leasePlan, theirs, edits>>

\* A comparison of the loaded task only, and not of the text of its file.
same_proposal_task(c) == lm.registry[c.task] = c.source

\* The loaded task is the planned one, and so is the diff of the text read now.
same_proposal(c) == lm.registry[c.task] = c.source /\ file[c.task] = c.text

read_task ==
  /\ lm.pc = "read" /\ lm.todo # <<>>
  /\ LET c == Head(lm.todo)
     IN  lm' = IF same_proposal(c) /\ ~_entry_refusals(c.task)
               THEN [lm EXCEPT !.pc = "write", !.old = Append(@, [task |-> c.task, text |-> file[c.task]])]
               ELSE [lm EXCEPT !.pc = "failed"]
  /\ UNCHANGED <<fileVars, leasePlan, theirs, edits>>

write_task ==
  /\ lm.pc = "write"
  /\ LET t == Head(lm.todo).task
     IN  file' = [file EXCEPT ![t] = _migrate_task_raw(lm.registry[t])]
  /\ lm' = [lm EXCEPT !.pc = "read", !.todo = Tail(@)]
  /\ UNCHANGED <<base, gitHead, catVars, leasePlan, theirs, edits>>

Planned(plan) == {plan.cands[i].task : i \in DOMAIN plan.cands}

\* The Registry is loaded again: no finding is left, the states and the queue are
\* as before, and the files changed are exactly the planned ones.
post_gates ==
  /\ lm.pc = "read" /\ lm.todo = <<>>
  /\ LET P == Planned(lm.plan)
         good == /\ P \cap Findings(file) = {}
                 /\ \A t \in P : file[t].open = lm.registry[t].open
                 /\ queue = lm.plan.queue /\ _dirty_paths = P
     IN  lm' = [lm EXCEPT !.pc = IF good THEN "applied" ELSE "failed"]
  /\ UNCHANGED <<fileVars, leasePlan, theirs, edits>>

put_back ==
  /\ lm.pc = "failed" /\ lm.old # <<>>
  /\ file' = [file EXCEPT ![Head(lm.old).task] = Head(lm.old).text]
  /\ lm' = [lm EXCEPT !.old = Tail(@)]
  /\ UNCHANGED <<base, gitHead, catVars, leasePlan, theirs, edits>>

raise_error ==
  /\ lm.pc = "failed" /\ lm.old = <<>>
  /\ lm' = [lm EXCEPT !.pc = "refused"]
  /\ UNCHANGED <<fileVars, leasePlan, theirs, edits>>

next_call == /\ lm.pc \in {"applied", "refused"} /\ lm' = NoApply
             /\ UNCHANGED <<fileVars, leasePlan, theirs, edits>>

kill == /\ lm.pc \in {"loaded", "read", "write", "failed"} /\ lm' = NoApply
        /\ UNCHANGED <<fileVars, leasePlan, theirs, edits>>

----------------------------------------------------------------------------
Edits == edits < MaxEdits /\ edits' = edits + 1 /\ UNCHANGED <<leasePlan, lm>>
writes(t, to) ==
  /\ Edits /\ file' = [file EXCEPT ![t] = to]
  /\ theirs' = theirs \cup {t} /\ UNCHANGED <<base, gitHead, catVars>>
edit_task(t) == writes(t, [file[t] EXCEPT !.ver = edits + 1])
close_task(t) == file[t].open /\ writes(t, [file[t] EXCEPT !.open = FALSE, !.ver = edits + 1])
restore_task(t) == file[t] # base[t] /\ writes(t, base[t])
edit_queue == /\ Edits /\ queue' = queue + 1
              /\ UNCHANGED <<file, base, gitHead, catalog, queueBase, catalogBase, theirs>>
edit_catalog(t) == /\ Edits /\ catalog' = (catalog \cup {t}) \ (catalog \cap {t})
                   /\ UNCHANGED <<file, base, gitHead, queue, queueBase, catalogBase, theirs>>
commit_files == /\ Edits /\ gitHead' = gitHead + 1
                /\ base' = file /\ queueBase' = queue /\ catalogBase' = catalog
                /\ UNCHANGED <<file, queue, catalog, theirs>>

LmNext ==
  \/ \E n \in 1 .. MaxBatch : write_lease_migration_plan(n)
  \/ broad_bureau_lease_inventory \/ review_lease_plan \/ load_registry
  \/ check_plan \/ read_task \/ write_task \/ post_gates
  \/ put_back \/ raise_error \/ next_call \/ kill
  \/ edit_queue \/ commit_files
  \/ \E t \in LTask : edit_task(t) \/ close_task(t) \/ restore_task(t) \/ edit_catalog(t)

LmSpec == LmInit /\ [][LmNext]_lmVars
----------------------------------------------------------------------------
LmTypeOK ==
  /\ {file, base} \subseteq [LTask -> TaskFile] /\ {catalog, theirs} \subseteq SUBSET LTask
  /\ lm.pc \in {"idle", "loaded", "read", "write", "failed", "applied", "refused"}

\* Where nobody else wrote, a finished command has migrated every planned file
\* and no other, or has left every file as it was.
AllOrNothing ==
  lm.pc \in {"applied", "refused"} =>
    \A t \in LTask \ theirs :
      file[t] = IF lm.pc = "applied" /\ t \in Planned(lm.plan)
                THEN _migrate_task_raw(lm.registry[t]) ELSE lm.registry[t]

\* Success also means that no planned task is broad or changed its state, whoever
\* wrote meanwhile.
SuccessStep ==
  lm.pc = "read" /\ lm'.pc = "applied" =>
    \A t \in Planned(lm.plan) :
      ~(file[t].broad /\ file[t].open) /\ file[t].open = lm.registry[t].open

\* A file that others wrote is overwritten only by the rollback, or when they
\* wrote between apply's comparison and its write of that same file.
OverwriteStep ==
  /\ lm.pc = "write" /\ lm'.pc = "read" =>
       LET e == lm.old[Len(lm.old)]
       IN  file[e.task] # e.text => e.task \in theirs
  /\ lm'.pc = "write" /\ lm.pc = "read" => file[Head(lm.todo).task] = lm.registry[Head(lm.todo).task]

\* A reviewed batch is migrated as a whole or not at all, and it never hides what
\* somebody else did to the same files (apply_lease_migration_plan).
MigratedAsReviewed == [][LmTypeOK' /\ AllOrNothing' /\ SuccessStep /\ OverwriteStep]_lmVars
=============================================================================
