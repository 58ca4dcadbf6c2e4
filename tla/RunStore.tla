------------------------------ MODULE RunStore ------------------------------
(***************************************************************************)
(* The run tables of the StateStore (src/src/bureau/v2.py): runs,          *)
(* reservations, task_status, receipts and the lifecycle part of events.   *)
(* Every action is one BEGIN IMMEDIATE transaction, the unit in which      *)
(* SQLite orders the processes that share the database.  This module says  *)
(* what the tables allow whoever calls them: Dispatch, CoordinatedClaim    *)
(* and ClosePath add the callers, and are shown to take only these steps.  *)
(***************************************************************************)
EXTENDS Resources, Sequences

CONSTANTS
    Task, Worker, RunId,
    Sha,          \* task revision digests (task_sha256)
    Plan,         \* plan digests (plan_sha256)
    System,       \* external executor systems
    ExtId,        \* identities of external executions
    Claims,       \* Claims[t, s]: the claims of revision s of task t
    ClaimKinds,   \* which claims occur: coordinated (TRUE), direct (FALSE)
    Expansions,   \* claims an operator may add to a running task
    NULL,
    MaxLife       \* bound on the lifecycle events recorded for one run

ASSUME RunStoreAssumption ==
    /\ Claims \in [Task \X Sha -> SUBSET ClaimType]
    /\ \A t \in Task, s \in Sha : \A c, d \in Claims[t, s] :
           c.resource = d.resource => c = d
    /\ ClaimKinds \subseteq BOOLEAN
    /\ Expansions \subseteq ClaimType
    /\ NULL \notin Task \cup Worker \cup RunId \cup Sha \cup Plan \cup System \cup ExtId
    /\ IsFiniteSet(RunId)
    /\ MaxLife \in Nat

VARIABLES
    runs,         \* runs[r]: the row of run r, NULL before it is claimed
    resv,         \* resv[r]: the reservations run r holds
    status,       \* status[t]: the task_status overlay row of t, or NULL
    receipts,     \* receipts[r]: the completion receipt of r, or NULL
    life          \* life[r]: run-orphaned, run-orphan-resumed, run-completed

runVars == <<runs, resv, status, receipts, life>>

ACTIVE_STATES == {"assigned", "running", "verifying"}
TERMINAL_STATES == {"succeeded", "failed", "cancelled", "orphaned"}
ExternalState == {"dispatching", "dispatch-uncertain", "running", "succeeded",
                  "failed", "cancelled", "interrupted", "missing"}
Observation == {"running", "succeeded", "failed", "cancelled", "interrupted",
                "missing", "unobserved"}
STALE_WORKER == "stale worker without external executor"
LifeEvent == {"run-orphaned", "run-orphan-resumed", "run-completed"}

\* A row of the table runs.  fresh: the heartbeat is at most 900 s old.
\* coordinated: the envelope carries a claim intent.
RunRow ==
    [task : Task, worker : Worker, attempt : Nat,
     state : ACTIVE_STATES \cup TERMINAL_STATES,
     task_sha256 : Sha, plan_sha256 : Plan, coordinated : BOOLEAN,
     external_system : System \cup {NULL}, external_id : ExtId \cup {NULL},
     external_state : ExternalState \cup {NULL},
     error : {NULL, STALE_WORKER, "other"}, fresh : BOOLEAN]

\* verified_task_sha256 differs from task_sha256 only for a historical orphan
\* closed after its repository was rebound.
Receipt ==
    [task : Task, task_sha256 : Sha, plan_sha256 : Plan, verified_task_sha256 : Sha]

StatusRow == [task_sha256 : Sha, plan_sha256 : Plan, receipt : RunId]

ASSUME NullAssumption ==
    NULL \notin RunRow /\ NULL \notin Receipt /\ NULL \notin StatusRow

TypeOK ==
    /\ runs \in [RunId -> RunRow \cup {NULL}]
    /\ resv \in [RunId -> SUBSET ClaimType]
    /\ status \in [Task -> StatusRow \cup {NULL}]
    /\ receipts \in [RunId -> Receipt \cup {NULL}]
    /\ life \in [RunId -> Seq(LifeEvent)]

Init ==
    /\ runs = [r \in RunId |-> NULL]
    /\ resv = [r \in RunId |-> {}]
    /\ status = [t \in Task |-> NULL]
    /\ receipts = [r \in RunId |-> NULL]
    /\ life = [r \in RunId |-> <<>>]

-----------------------------------------------------------------------------

Active(r) == runs[r] # NULL /\ runs[r].state \in ACTIVE_STATES
active_runs == {r \in RunId : Active(r)}

\* StateStore.reservations: the rows joined with active runs, without those
\* of one excluded run.
reservations(exclude) == [r \in active_runs \ {exclude} |-> resv[r]]

WorkerBusy(w) == \E r \in active_runs : runs[r].worker = w
TaskBusy(t) == \E r \in active_runs : runs[r].task = t

claims_conflict(claims, exclude) ==
    \E c \in claims : claim_conflicts(c, reservations(exclude))

\* COUNT( * ) of the runs of t, plus one.
next_attempt(t) ==
    Cardinality({r \in RunId : runs[r] # NULL /\ runs[r].task = t}) + 1

\* An INSERT INTO events keeps the order of the run's own events.
record(r, event) == life' = [life EXCEPT ![r] = Append(@, event)]
CanRecord(r) == Len(life[r]) < MaxLife

-----------------------------------------------------------------------------

\* The INSERT of a claimed run and its reservations, shared by claim_next and
\* commit_claim_intent.  The guards are those both callers evaluate inside
\* the transaction.
claim(r, t, w, s, p, coordinated) ==
    /\ runs[r] = NULL
    /\ ~WorkerBusy(w)
    /\ ~TaskBusy(t)
    /\ ~claims_conflict(Claims[t, s], NULL)
    /\ runs' = [runs EXCEPT ![r] =
            [task |-> t, worker |-> w, attempt |-> next_attempt(t), state |-> "assigned",
             task_sha256 |-> s, plan_sha256 |-> p, coordinated |-> coordinated,
             external_system |-> NULL, external_id |-> NULL, external_state |-> NULL,
             error |-> NULL, fresh |-> TRUE]]
    /\ resv' = [resv EXCEPT ![r] = Claims[t, s]]
    /\ UNCHANGED <<status, receipts, life>>

bind(r, system, x) ==
    /\ Active(r)
    /\ runs[r].external_system \in {NULL, system}
    /\ runs[r].external_id \in {NULL, x}
    /\ runs' = [runs EXCEPT ![r] = [@ EXCEPT
            !.external_system = system, !.external_id = x, !.external_state = "running",
            !.state = "running", !.fresh = TRUE]]
    /\ UNCHANGED <<resv, status, receipts, life>>

\* A run that already has an external identity is returned as it is.
prepare_dispatch(r, system) ==
    /\ Active(r)
    /\ runs[r].external_id = NULL
    /\ runs[r].external_system \in {NULL, system}
    /\ runs' = [runs EXCEPT ![r] = [@ EXCEPT
            !.external_system = system, !.external_state = "dispatching"]]
    /\ UNCHANGED <<resv, status, receipts, life>>

\* Mutant: an uncertain dispatch is taken back.
mark_dispatch_uncertain_reset(r) ==
    /\ Active(r)
    /\ runs' = [runs EXCEPT ![r] = [@ EXCEPT
            !.external_system = NULL, !.external_state = "dispatch-uncertain", !.error = "other"]]
    /\ UNCHANGED <<resv, status, receipts, life>>

mark_dispatch_uncertain(r) ==
    /\ Active(r)
    /\ runs' = [runs EXCEPT ![r] = [@ EXCEPT
            !.external_state = "dispatch-uncertain", !.error = "other"]]
    /\ UNCHANGED <<resv, status, receipts, life>>

heartbeat(r) ==
    /\ Active(r)
    /\ runs' = [runs EXCEPT ![r].fresh = TRUE]
    /\ UNCHANGED <<resv, status, receipts, life>>

expand_claim(r, c) ==
    /\ Active(r)
    /\ \A d \in resv[r] : d.resource # c.resource
    /\ ~claim_conflicts(c, reservations(r))
    /\ resv' = [resv EXCEPT ![r] = @ \cup {c}]
    /\ runs' = [runs EXCEPT ![r].error = "other"]
    /\ UNCHANGED <<status, receipts, life>>

fail_run(r, state) ==
    /\ Active(r)
    /\ runs' = [runs EXCEPT ![r] = [@ EXCEPT !.state = state, !.error = "other"]]
    /\ resv' = [resv EXCEPT ![r] = {}]
    /\ UNCHANGED <<status, receipts, life>>

\* 900 seconds without a heartbeat pass.
heartbeat_lapses(r) ==
    /\ Active(r) /\ runs[r].fresh
    /\ runs' = [runs EXCEPT ![r].fresh = FALSE]
    /\ UNCHANGED <<resv, status, receipts, life>>

-----------------------------------------------------------------------------

\* reconcile: what one observation of the external execution does to a row.
observe(row, o) ==
    CASE o = "unobserved" -> row
      [] o = "running" -> [row EXCEPT !.external_state = "running", !.fresh = TRUE]
      [] o = "succeeded" -> [row EXCEPT !.state = "verifying",
                                        !.external_state = "succeeded", !.fresh = TRUE]
      [] o = "cancelled" -> [row EXCEPT !.state = "cancelled",
                                        !.external_state = "cancelled", !.error = "other"]
      [] OTHER -> [row EXCEPT !.state = "failed", !.external_state = o, !.error = "other"]

\* adapter.recover found the execution of an unbound dispatch.
recovered(row, x) ==
    [row EXCEPT !.external_id = x, !.external_state = "running", !.state = "running",
                !.fresh = TRUE]

\* Mutant: a stale heartbeat orphans a run whatever executor it has.
reconcile_row_stale(row, x, o) ==
    IF ~row.fresh THEN [row EXCEPT !.state = "orphaned", !.error = STALE_WORKER]
    ELSE IF row.external_system = NULL \/ (row.external_id = NULL /\ x = NULL) THEN row
    ELSE observe(IF row.external_id = NULL THEN recovered(row, x) ELSE row, o)

\* reconcile, the body of the loop: a run without an executor is orphaned when
\* its heartbeat is stale; a dispatched one is only ever moved by what its
\* executor reports (x: the identity recover returns, o: the observation).
reconcile_row(row, x, o) ==
    IF row.external_system = NULL
      THEN IF row.fresh THEN row
           ELSE [row EXCEPT !.state = "orphaned", !.error = STALE_WORKER]
    ELSE IF row.external_id # NULL THEN observe(row, o)
    ELSE IF x = NULL THEN row
    ELSE observe(recovered(row, x), o)

\* reconcile: one transaction over all active runs.  found[r] and seen[r] are
\* the answers of the adapters for run r.
reconcile(found, seen) ==
    LET after == [r \in active_runs |-> reconcile_row(runs[r], found[r], seen[r])]
        orphans == {r \in active_runs : after[r].state = "orphaned"}
        released == {r \in active_runs : after[r].state \in TERMINAL_STATES}
    IN  /\ \A r \in orphans : CanRecord(r)
        /\ runs' = [r \in RunId |-> IF r \in active_runs THEN after[r] ELSE runs[r]]
        /\ resv' = [r \in RunId |-> IF r \in released THEN {} ELSE resv[r]]
        /\ life' = [r \in RunId |->
                       IF r \in orphans THEN Append(life[r], "run-orphaned") ELSE life[r]]
        /\ UNCHANGED <<status, receipts>>

\* The external columns of a row that no executor has ever touched.
Unbound(row) ==
    row.external_system = NULL /\ row.external_id = NULL /\ row.external_state = NULL

\* Mutant: the resume does not look for other active runs.
resume_unchecked(r) ==
    /\ runs[r] # NULL
    /\ runs[r].state = "orphaned" /\ runs[r].error = STALE_WORKER
    /\ Unbound(runs[r])
    /\ resv[r] = {}
    /\ runs[r].coordinated
    /\ ~claims_conflict(Claims[runs[r].task, runs[r].task_sha256], NULL)
    /\ CanRecord(r)
    /\ runs' = [runs EXCEPT ![r] = [@ EXCEPT !.state = "assigned", !.error = NULL, !.fresh = TRUE]]
    /\ resv' = [resv EXCEPT ![r] = Claims[runs[r].task, runs[r].task_sha256]]
    /\ record(r, "run-orphan-resumed")
    /\ UNCHANGED <<status, receipts>>

resume_orphaned_run(r) ==
    /\ runs[r] # NULL
    /\ runs[r].state = "orphaned" /\ runs[r].error = STALE_WORKER
    /\ Unbound(runs[r])
    /\ resv[r] = {}
    /\ runs[r].coordinated
    /\ ~WorkerBusy(runs[r].worker)
    /\ ~TaskBusy(runs[r].task)
    /\ ~claims_conflict(Claims[runs[r].task, runs[r].task_sha256], NULL)
    /\ CanRecord(r)
    /\ runs' = [runs EXCEPT ![r] = [@ EXCEPT !.state = "assigned", !.error = NULL, !.fresh = TRUE]]
    /\ resv' = [resv EXCEPT ![r] = Claims[runs[r].task, runs[r].task_sha256]]
    /\ record(r, "run-orphan-resumed")
    /\ UNCHANGED <<status, receipts>>

-----------------------------------------------------------------------------

\* Mutant: the overlay carries the claimed revision also after a rebind.
write_receipt_claimed(r, verified) ==
    LET row == runs[r]
    IN  /\ receipts' = [receipts EXCEPT ![r] =
               [task |-> row.task, task_sha256 |-> row.task_sha256,
                plan_sha256 |-> row.plan_sha256, verified_task_sha256 |-> verified]]
        /\ status' = [status EXCEPT ![row.task] =
               [task_sha256 |-> row.task_sha256, plan_sha256 |-> row.plan_sha256,
                receipt |-> r]]
        /\ record(r, "run-completed")

\* The effects of a first close: receipt, verified overlay and terminal run in
\* one transaction.
write_receipt(r, verified) ==
    LET row == runs[r]
    IN  /\ receipts' = [receipts EXCEPT ![r] =
               [task |-> row.task, task_sha256 |-> row.task_sha256,
                plan_sha256 |-> row.plan_sha256, verified_task_sha256 |-> verified]]
        /\ status' = [status EXCEPT ![row.task] =
               [task_sha256 |-> verified, plan_sha256 |-> row.plan_sha256, receipt |-> r]]
        /\ record(r, "run-completed")

complete(r) ==
    /\ Active(r)
    /\ receipts[r] = NULL
    /\ CanRecord(r)
    /\ write_receipt(r, runs[r].task_sha256)
    /\ runs' = [runs EXCEPT ![r].state = "succeeded"]
    /\ resv' = [resv EXCEPT ![r] = {}]

\* _historical_orphaned_closeout_precondition_reason.
HistoricallyClosable(r) ==
    /\ runs[r] # NULL
    /\ runs[r].state = "orphaned" /\ runs[r].error = STALE_WORKER
    /\ Unbound(runs[r])
    /\ resv[r] = {}
    /\ life[r] = <<"run-orphaned">>
    /\ ~WorkerBusy(runs[r].worker)
    /\ ~TaskBusy(runs[r].task)

\* A historical orphan closes against the revision s its repository rebind
\* produced.
complete_historical(r, s) ==
    /\ HistoricallyClosable(r)
    /\ receipts[r] = NULL
    /\ CanRecord(r)
    /\ write_receipt(r, s)
    /\ runs' = [runs EXCEPT ![r] = [@ EXCEPT !.state = "succeeded", !.error = NULL]]
    /\ UNCHANGED resv

-----------------------------------------------------------------------------

Reconcile ==
    \E found \in [active_runs -> ExtId \cup {NULL}], seen \in [active_runs -> Observation] :
        reconcile(found, seen)

Next ==
    \/ \E r \in RunId, t \in Task, w \in Worker, s \in Sha, p \in Plan, k \in ClaimKinds :
           claim(r, t, w, s, p, k)
    \/ \E r \in RunId, y \in System, x \in ExtId : bind(r, y, x)
    \/ \E r \in RunId, y \in System : prepare_dispatch(r, y)
    \/ \E r \in RunId : mark_dispatch_uncertain(r)
    \/ \E r \in RunId : heartbeat(r)
    \/ \E r \in RunId, c \in Expansions : expand_claim(r, c)
    \/ \E r \in RunId, z \in {"failed", "cancelled", "orphaned"} : fail_run(r, z)
    \/ \E r \in RunId : heartbeat_lapses(r)
    \/ Reconcile
    \/ \E r \in RunId : resume_orphaned_run(r)
    \/ \E r \in RunId : complete(r)
    \/ \E r \in RunId, s \in Sha : complete_historical(r, s)

Spec == Init /\ [][Next]_runVars

-----------------------------------------------------------------------------

\* Two active runs never share a task or a worker: whatever order claims,
\* resumes, closes and reconciliations commit in, the partial unique indexes
\* one_active_run_per_task and one_active_run_per_worker never fire.
OneActiveRun ==
    \A r, q \in active_runs :
        r # q => runs[r].task # runs[q].task /\ runs[r].worker # runs[q].worker

\* A run that is not active holds no reservation: every path out of the active
\* states deletes them in the same transaction.
ReservationsOnlyActive ==
    \A r \in RunId : ~Active(r) => resv[r] = {}

\* Incompatible reservations never overlap in the resource tree, also after a
\* running task expanded its claim or an orphan was resumed.
ReservationsCompatible ==
    \A r, q \in RunId : r # q =>
        \A c \in resv[r], d \in resv[q] : ~excludes(c, d)

\* Reservations belong to active runs and are compatible with each other.
ReservationsSound == ReservationsOnlyActive /\ ReservationsCompatible

\* The capacity reserved on a resource never exceeds what it declares.
CapacityRespected ==
    \A x \in Resource : capacity_used(x, resv) <= Capacity[x]

\* A receipt exists exactly for a succeeded run, binds that run's own task,
\* task digest and plan digest, and is preceded by nothing but orphan/resume
\* cycles: a run completes once.
ReceiptBindsRun ==
    \A r \in RunId :
        /\ receipts[r] # NULL <=> runs[r] # NULL /\ runs[r].state = "succeeded"
        /\ receipts[r] # NULL =>
               /\ receipts[r].task = runs[r].task
               /\ receipts[r].task_sha256 = runs[r].task_sha256
               /\ receipts[r].plan_sha256 = runs[r].plan_sha256
        /\ \A i \in DOMAIN life[r] :
               life[r][i] = "run-completed" => i = Len(life[r]) /\ receipts[r] # NULL

\* A verified overlay is never invented: it names a receipt of the same task
\* that carries exactly its digests.
VerifiedByReceipt ==
    \A t \in Task : status[t] # NULL =>
        LET rec == receipts[status[t].receipt]
        IN  /\ rec # NULL
            /\ rec.task = t
            /\ rec.verified_task_sha256 = status[t].task_sha256
            /\ rec.plan_sha256 = status[t].plan_sha256

\* The evidence is sound: every receipt certifies its own run, and every
\* verified overlay rests on a receipt.
EvidenceBinds == ReceiptBindsRun /\ VerifiedByReceipt

\* Orphaning and resuming alternate, and the log tells the state: an active run
\* has been resumed as often as it was orphaned, an automatically orphaned run
\* once less, and that run has lost no executor.
StaleOrphan(r) ==
    runs[r] # NULL /\ runs[r].state = "orphaned" /\ runs[r].error = STALE_WORKER

Alternates(h) ==
    \A i \in DOMAIN h : h[i] # "run-completed" => (h[i] = "run-orphaned" <=> i % 2 = 1)

HistoryOf(r) ==
    /\ runs[r] = NULL => life[r] = <<>>
    /\ Active(r) => Len(life[r]) % 2 = 0
    /\ StaleOrphan(r) => Len(life[r]) % 2 = 1 /\ runs[r].external_system = NULL
    /\ Alternates(life[r])

OrphanHistory == \A r \in RunId : HistoryOf(r)

\* A terminal run stays as it is.  The two ways out of orphaned are the resume
\* of a coordinated run and the historical close, and both require that no
\* executor was ever prepared.
TerminalStep ==
    \A r \in RunId :
        runs[r] # NULL /\ runs[r].state \in TERMINAL_STATES /\ runs'[r] # runs[r] =>
            /\ runs[r].state = "orphaned" /\ Unbound(runs[r])
            /\ runs'[r].state \in {"assigned", "succeeded"}

\* A run never changes its identity or its baseline, and an external identity,
\* once bound by dispatch, by the operator or by recovery, is never replaced.
BindingStep ==
    \A r \in RunId : runs[r] # NULL =>
        /\ runs'[r] # NULL
        /\ runs'[r].task = runs[r].task /\ runs'[r].worker = runs[r].worker
        /\ runs'[r].attempt = runs[r].attempt
        /\ runs'[r].task_sha256 = runs[r].task_sha256
        /\ runs'[r].plan_sha256 = runs[r].plan_sha256
        /\ runs[r].external_system # NULL =>
               runs'[r].external_system = runs[r].external_system
        /\ runs[r].external_id # NULL => runs'[r].external_id = runs[r].external_id

\* Evidence is append-only: a receipt, once written, is never rewritten, and
\* a newer overlay of the same task only comes from a newer receipt.
EvidenceStep ==
    /\ \A r \in RunId : receipts[r] # NULL => receipts'[r] = receipts[r]
    /\ \A t \in Task : status'[t] # status[t] =>
           /\ status'[t] # NULL
           /\ receipts[status'[t].receipt] = NULL

\* No transaction undoes what an earlier one has settled: the end of a run, its
\* identity, baseline and executor, and its evidence.
NothingUndone == [][TerminalStep /\ BindingStep /\ EvidenceStep]_runVars

=============================================================================
