------------------------------ MODULE ClosePath ------------------------------
(***************************************************************************)
(* Closing a run (_complete_run_after_typed_evaluation and complete_run in *)
(* v2.py).  The close is one BEGIN IMMEDIATE transaction, but the plan,    *)
(* and without TaskSpecs the task too, live in Git files that no SQLite    *)
(* lock orders.  The transaction is therefore split at its two reads of    *)
(* the revision; lock is the writer reservation it holds meanwhile.        *)
(***************************************************************************)
EXTENDS RunStore

CONSTANTS
    Closer,       \* processes that close or replay
    MaxRev,       \* bound on the TaskSpec revisions of one task
    MaxGit        \* bound on the edits of the Git registry

ASSUME ClosePathAssumption == MaxRev \in Nat /\ MaxGit \in Nat /\ NULL \notin Closer

VARIABLES
    specs,        \* specs[t]: the TaskSpec revisions of t in the StateStore
    gitTask,      \* gitTask[t]: digest of the Git task document, or NULL
    gitPlan,      \* digest of current_plan in the Git initiative document
    gitEdits,     \* edits of the Git registry so far
    lock,         \* the closer that holds the write transaction, or NULL
    pc, job, rev, \* the local state of each closer
    guarded,      \* guarded[c]: gitEdits when c read the revision the second time
    files,        \* runs whose receipt file is materialised
    reply         \* reply[c]: the last result returned by c, or NULL

closeVars == <<specs, gitTask, gitPlan, gitEdits, lock, pc, job, rev, guarded, files, reply>>
closeAllVars == <<runVars, closeVars>>
local == <<pc, job, rev, guarded>>
git == <<gitTask, gitPlan, gitEdits>>

\* How a revision came about: an ordinary put, a repository identity rebind,
\* or one of the two receipts runtime refresh writes into the TaskSpec.
Source == {"put", "rebind", "binding", "consumption"}

\* orphaned: the runs with a run-orphaned event older than the revision.
SpecRevision == [sha : Sha, source : Source, orphaned : SUBSET RunId]

\* revision is 0 when the task comes from Git.
CloseRevision == [task : Sha, plan : Plan, revision : Nat]

Kind == {"typed", "historical", "replay"}
CloseJob == [run : RunId, kind : Kind]
Reply == [run : RunId, idempotent : BOOLEAN, current : BOOLEAN]

ASSUME CloseNullAssumption == NULL \notin CloseRevision /\ NULL \notin Reply

CloseTypeOK ==
    /\ specs \in [Task -> Seq(SpecRevision)]
    /\ gitTask \in [Task -> Sha \cup {NULL}] /\ gitPlan \in Plan /\ gitEdits \in 0..MaxGit
    /\ lock \in Closer \cup {NULL}
    /\ pc \in [Closer -> {"idle", "opened", "read", "guarded", "committed", "replaying",
                          "replayed"}]
    /\ job \in [Closer -> CloseJob \cup {NULL}]
    /\ rev \in [Closer -> CloseRevision \cup {NULL}]
    /\ guarded \in [Closer -> 0..MaxGit]
    /\ files \subseteq RunId
    /\ reply \in [Closer -> Reply \cup {NULL}]
    /\ \A c \in Closer : (lock = c) <=> (pc[c] \in {"opened", "read", "guarded"})

ClosePathInit ==
    /\ Init
    /\ \E s \in Sha :
           /\ gitTask = [t \in Task |-> s]
           /\ \/ specs = [t \in Task |-> <<>>]
              \/ specs = [t \in Task |-> <<[sha |-> s, source |-> "put", orphaned |-> {}]>>]
    /\ gitPlan \in Plan /\ gitEdits = 0
    /\ lock = NULL
    /\ pc = [c \in Closer |-> "idle"]
    /\ job = [c \in Closer |-> NULL]
    /\ rev = [c \in Closer |-> NULL]
    /\ guarded = [c \in Closer |-> 0]
    /\ files = {}
    /\ reply = [c \in Closer |-> NULL]

-----------------------------------------------------------------------------

\* get_current: the latest revision of a task that has one.
get_current(t) == specs[t][Len(specs[t])]

\* _authoritative_close_revision: the documents in Git; NULL when unreadable.
authoritative_close_revision(t) ==
    IF gitTask[t] = NULL THEN NULL
    ELSE [task |-> gitTask[t], plan |-> gitPlan, revision |-> 0]

\* _close_revision: one TaskSpec makes the StateStore authoritative for all.
close_revision(t) ==
    IF specs[t] # <<>>
    THEN [task |-> get_current(t).sha, plan |-> gitPlan, revision |-> Len(specs[t])]
    ELSE IF \E u \in Task : specs[u] # <<>> THEN NULL ELSE authoritative_close_revision(t)

\* The current revision is the claimed one plus exactly the two receipts of a
\* runtime refresh.
refresh_evolution(t, claimed) ==
    LET log == specs[t]
        n == Len(log)
    IN  /\ n >= 3
        /\ log[n - 2].sha = claimed
        /\ log[n - 1].source = "binding" /\ log[n].source = "consumption"

task_matches_claim_baseline(r, revision) ==
    \/ revision.task = runs[r].task_sha256
    \/ revision.revision # 0 /\ refresh_evolution(runs[r].task, runs[r].task_sha256)

\* Every revision since the claimed one, which must be unique, is a repository
\* rebind younger than the run-orphaned event.
repository_rebind_matches(r, revision) ==
    LET log == specs[runs[r].task]
        baseline == {i \in 1 .. (Len(log) - 1) : log[i].sha = runs[r].task_sha256}
    IN  /\ HistoricallyClosable(r)
        /\ Cardinality(baseline) = 1
        /\ \A i \in baseline : \A j \in (i + 1) .. Len(log) :
               log[j].source = "rebind" /\ r \in log[j].orphaned

baseline_matches(c, revision) ==
    LET r == job[c].run
    IN  /\ revision # NULL
        /\ IF job[c].kind = "historical" THEN repository_rebind_matches(r, revision)
           ELSE task_matches_claim_baseline(r, revision)
        /\ revision.plan = runs[r].plan_sha256

\* _receipt_binds_current_revision reads the Git documents.
receipt_binds_current_revision(r) ==
    LET revision == authoritative_close_revision(receipts[r].task)
    IN  /\ revision # NULL
        /\ revision.task = receipts[r].task_sha256
        /\ revision.plan = receipts[r].plan_sha256

-----------------------------------------------------------------------------

EndJob(c) ==
    /\ pc' = [pc EXCEPT ![c] = "idle"]
    /\ job' = [job EXCEPT ![c] = NULL]
    /\ rev' = [rev EXCEPT ![c] = NULL]
    /\ guarded' = [guarded EXCEPT ![c] = 0]

\* RunStateConflict inside the transaction: everything is rolled back.
Rollback(c) ==
    /\ lock' = NULL
    /\ EndJob(c)
    /\ UNCHANGED runVars

\* Every entry, complete_run included, reads an existing receipt back and ends
\* the transaction.
begin_replay(c, r) ==
    /\ pc[c] = "idle" /\ lock = NULL
    /\ receipts[r] # NULL
    /\ job' = [job EXCEPT ![c] = [run |-> r, kind |-> "replay"]]
    /\ pc' = [pc EXCEPT ![c] = "replaying"]
    /\ UNCHANGED <<runVars, specs, git, lock, rev, guarded, files, reply>>

\* A first close opens with the check of the run state; complete_run rejects
\* a run without a receipt, so only the typed paths get here.
begin_close(c, r, kind) ==
    /\ pc[c] = "idle" /\ lock = NULL
    /\ receipts[r] = NULL
    /\ IF kind = "historical" THEN HistoricallyClosable(r) ELSE Active(r)
    /\ lock' = c
    /\ job' = [job EXCEPT ![c] = [run |-> r, kind |-> kind]]
    /\ pc' = [pc EXCEPT ![c] = "opened"]
    /\ UNCHANGED <<runVars, specs, git, rev, guarded, files, reply>>

\* The last read before the first effect.
first_read(c) ==
    /\ pc[c] = "opened"
    /\ LET revision == close_revision(runs[job[c].run].task)
       IN  IF baseline_matches(c, revision)
           THEN /\ rev' = [rev EXCEPT ![c] = revision]
                /\ pc' = [pc EXCEPT ![c] = "read"]
                /\ UNCHANGED <<runVars, lock, job, guarded>>
           ELSE Rollback(c)
    /\ UNCHANGED <<specs, git, files, reply>>

\* Mutant: the revision is not compared again.
second_read_skipped(c) ==
    /\ pc[c] = "read"
    /\ pc' = [pc EXCEPT ![c] = "guarded"]
    /\ guarded' = [guarded EXCEPT ![c] = gitEdits]
    /\ UNCHANGED <<runVars, specs, git, lock, job, rev, files, reply>>

\* The effects are written, not yet committed, and the revision is read again.
second_read(c) ==
    /\ pc[c] = "read"
    /\ IF close_revision(runs[job[c].run].task) = rev[c]
       THEN /\ pc' = [pc EXCEPT ![c] = "guarded"]
            /\ guarded' = [guarded EXCEPT ![c] = gitEdits]
            /\ UNCHANGED <<runVars, lock, job, rev>>
       ELSE Rollback(c)
    /\ UNCHANGED <<specs, git, files, reply>>

\* Mutant: the reservations of the closed run are kept.
commit_reserving(c) ==
    /\ pc[c] = "guarded"
    /\ receipts[job[c].run] = NULL
    /\ write_receipt(job[c].run, rev[c].task)
    /\ runs' = [runs EXCEPT ![job[c].run].state = "succeeded"]
    /\ lock' = NULL
    /\ pc' = [pc EXCEPT ![c] = "committed"]
    /\ UNCHANGED <<resv, specs, git, job, rev, guarded, files, reply>>

commit(c) ==
    /\ pc[c] = "guarded"
    /\ IF job[c].kind = "historical" THEN complete_historical(job[c].run, rev[c].task)
       ELSE complete(job[c].run)
    /\ lock' = NULL
    /\ pc' = [pc EXCEPT ![c] = "committed"]
    /\ UNCHANGED <<specs, git, job, rev, guarded, files, reply>>

\* After the commit the receipt file is materialised and the result returned.
materialize_first(c) ==
    /\ pc[c] = "committed"
    /\ files' = files \cup {job[c].run}
    /\ reply' = [reply EXCEPT ![c] =
            [run |-> job[c].run, idempotent |-> FALSE, current |-> TRUE]]
    /\ EndJob(c)
    /\ UNCHANGED <<runVars, specs, git, lock>>

materialize_replay(c) ==
    /\ pc[c] = "replaying"
    /\ files' = files \cup {job[c].run}
    /\ pc' = [pc EXCEPT ![c] = "replayed"]
    /\ UNCHANGED <<runVars, specs, git, lock, job, rev, guarded, reply>>

derive_current(c) ==
    /\ pc[c] = "replayed"
    /\ reply' = [reply EXCEPT ![c] =
            [run |-> job[c].run, idempotent |-> TRUE,
             current |-> receipt_binds_current_revision(job[c].run)]]
    /\ EndJob(c)
    /\ UNCHANGED <<runVars, specs, git, lock, files>>

\* A closer dies; SQLite rolls an open transaction back.
close_crash(c) ==
    /\ pc[c] # "idle"
    /\ lock' = IF lock = c THEN NULL ELSE lock
    /\ EndJob(c)
    /\ UNCHANGED <<runVars, specs, git, files, reply>>

-----------------------------------------------------------------------------

\* A TaskSpec revision is committed to the StateStore.
put(t, s, source) ==
    /\ lock = NULL
    /\ Len(specs[t]) < MaxRev
    /\ specs[t] = <<>> => source = "put"
    /\ specs' = [specs EXCEPT ![t] = Append(@, [sha |-> s, source |-> source,
            orphaned |-> {r \in RunId : "run-orphaned" \in Range(life[r])}])]
    /\ UNCHANGED <<runVars, git, lock, local, files, reply>>

\* Someone edits the registry files; no lock stops them.
git_edit ==
    /\ gitEdits < MaxGit /\ gitEdits' = gitEdits + 1
    /\ \/ gitPlan' \in Plan /\ gitTask' = gitTask
       \/ \E t \in Task, s \in Sha \cup {NULL} :
              gitTask' = [gitTask EXCEPT ![t] = s] /\ gitPlan' = gitPlan
    /\ UNCHANGED <<runVars, specs, lock, local, files, reply>>

\* The other transactions on the run tables wait for the lock.
claim_current(r, t, w, k) ==
    /\ lock = NULL
    /\ close_revision(t) # NULL
    /\ claim(r, t, w, close_revision(t).task, gitPlan, k)
    /\ UNCHANGED closeVars

close_fails(r) == lock = NULL /\ fail_run(r, "failed") /\ UNCHANGED closeVars

close_time(r) == heartbeat_lapses(r) /\ UNCHANGED closeVars

close_reconcile ==
    /\ lock = NULL
    /\ reconcile([r \in active_runs |-> NULL], [r \in active_runs |-> "unobserved"])
    /\ UNCHANGED closeVars

ClosePathNext ==
    \/ \E c \in Closer, r \in RunId : begin_replay(c, r)
    \/ \E c \in Closer, r \in RunId, k \in {"typed", "historical"} : begin_close(c, r, k)
    \/ \E c \in Closer : first_read(c)
    \/ \E c \in Closer : second_read(c)
    \/ \E c \in Closer : commit(c)
    \/ \E c \in Closer : materialize_first(c)
    \/ \E c \in Closer : materialize_replay(c)
    \/ \E c \in Closer : derive_current(c)
    \/ \E c \in Closer : close_crash(c)
    \/ \E t \in Task, s \in Sha, k \in Source : put(t, s, k)
    \/ git_edit
    \/ \E r \in RunId, t \in Task, w \in Worker, k \in ClaimKinds : claim_current(r, t, w, k)
    \/ \E r \in RunId : close_fails(r)
    \/ \E r \in RunId : close_time(r)
    \/ close_reconcile

ClosePathSpec == ClosePathInit /\ [][ClosePathNext]_closeAllVars

-----------------------------------------------------------------------------

Closed(r) == receipts[r] = NULL /\ receipts'[r] # NULL

\* When the StateStore holds the TaskSpec, the revision a close verifies is the
\* one that is current at the commit, except for the two receipts a runtime
\* refresh writes; the writer reservation leaves no window.
TaskSpecExactStep ==
    \A r \in RunId : Closed(r) =>
        LET t == receipts'[r].task
        IN  specs[t] # <<>> =>
                \/ receipts'[r].verified_task_sha256 = get_current(t).sha
                \/ refresh_evolution(t, receipts'[r].verified_task_sha256)

\* A plan edited at any time before the second read stops the close: the only
\* edits a first close can miss fall between that read and the commit.
ResidualWindowStep ==
    \A c \in Closer : (pc[c] = "guarded" /\ pc'[c] = "committed" /\ guarded[c] = gitEdits)
        => /\ gitPlan = receipts'[job[c].run].plan_sha256
           /\ specs[receipts'[job[c].run].task] = <<>> =>
                  gitTask[receipts'[job[c].run].task] = receipts'[job[c].run].task_sha256

\* The variables have their types.  A receipt file exists only for a committed
\* receipt, and a result is returned only once the file of its run exists,
\* whatever crashes in between.
ReceiptFilesSound ==
    /\ CloseTypeOK
    /\ \A r \in files : receipts[r] # NULL
    /\ \A c \in Closer : reply[c] # NULL => reply[c].run \in files

\* What a first close certifies is current when it commits, up to the window
\* the files leave open; and the receipt files stay in step with the committed
\* receipts, whoever crashes between the commit and the write of the file.
CertifiesCurrent ==
    [][TaskSpecExactStep /\ ResidualWindowStep /\ ReceiptFilesSound']_closeAllVars

\* Every step of the close path is a step the run tables allow.
ClosePathImplementsRunStore == Spec

=============================================================================
