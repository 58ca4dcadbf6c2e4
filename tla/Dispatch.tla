------------------------------ MODULE Dispatch ------------------------------
(***************************************************************************)
(* checkout-next as concurrent processes (Dispatcher in v2.py): each one   *)
(* takes a snapshot of the TaskSpecs, reconciles, registers its worker,    *)
(* claims the first eligible task, writes the envelope file and hands the  *)
(* run to the external executor.  Only the StateStore transactions are     *)
(* atomic; a process can be overtaken or die between any two of them.      *)
(***************************************************************************)
EXTENDS RunStore

CONSTANTS
    Proc,         \* checkout-next processes
    WorkerOf,     \* WorkerOf[p]: the worker id p is started with
    Caps,         \* capabilities
    ProcCaps,     \* ProcCaps[p]: the capabilities p registers
    TaskCaps,     \* TaskCaps[t]: the capabilities t requires
    TaskOrder,    \* the tasks by (lane, rank, id)
    Deps,         \* Deps[t]: depends_on
    Children,     \* Children[t]: tasks whose parent_task is t
    Independent,  \* tasks marked independently_executable
    Autonomous,   \* tasks with the policy autonomous and a mode other than manual
    Bridge,       \* closure_bridge_task_ids
    BroadScope,   \* tasks whose claims cover the whole Bureau repository
    Strict,       \* queue_policy = "strict"
    MaxActive,    \* max_active_tasks of the initiative
    Grabowski,    \* the adapter's system
    EditStates,   \* the task states a revision may set
    Endings,      \* the states in which an execution may end
    Dedupe,       \* the executor keeps one execution per request identity
    BlockedSets,  \* the sets of tasks that the open-PR guard, an invalid
                  \* acceptance contract or the rLens policy may block
    Scenario      \* the bounds an instance chooses from, see Scenarios

\* Which processes are started, which tasks there are from the start, whether
\* checkout-next is called with --dispatch, and how often TaskSpecs and
\* initiative are revised meanwhile.
Scenarios == [procs : SUBSET Proc, tasks : SUBSET Task, dispatching : BOOLEAN, edits : Nat]

ASSUME DispatchAssumption ==
    /\ WorkerOf \in [Proc -> Worker]
    /\ ProcCaps \in [Proc -> SUBSET Caps] /\ TaskCaps \in [Task -> SUBSET Caps]
    /\ {TaskOrder[i] : i \in DOMAIN TaskOrder} = Task
    /\ Deps \in [Task -> SUBSET Task] /\ Children \in [Task -> SUBSET Task]
    /\ Independent \cup Autonomous \cup Bridge \cup BroadScope \subseteq Task
    /\ Autonomous \cap Bridge = {}
    /\ {Strict, Dedupe} \subseteq BOOLEAN
    /\ EditStates \subseteq {"planned", "ready", "verified", "cancelled", "superseded"}
    /\ Endings \subseteq {"completed", "failed", "cancelled", "interrupted"}
    /\ MaxActive \in Nat /\ Grabowski \in System
    /\ FALSE \in ClaimKinds   \* the claims of claim-next are not coordinated
    /\ BlockedSets \subseteq SUBSET Task
    /\ Scenario \subseteq Scenarios
    /\ \A z \in Scenario, t \in Task : Deps[t] \subseteq z.tasks

VARIABLES
    scenario,     \* the bounds of this behaviour
    spec,         \* spec[t]: the current TaskSpec revision, or NULL before it exists
    plan,         \* digest of the initiative's current plan
    initiative,   \* active (and committed to now or next), completed or held
    edits,        \* revisions so far
    workers,      \* workers[w]: the registered capabilities, or NULL
    envelope,     \* runs whose envelope file exists
    ext,          \* ext[x]: an execution at the executor, or NULL
    flight,       \* runs whose start request is still on its way after a timeout
    pc, snap, mine, answer    \* the local state of each process

registryVars == <<scenario, spec, plan, initiative, edits>>
executorVars == <<ext, flight>>
procVars == <<pc, snap, mine, answer>>
dispatchVars == <<registryVars, workers, envelope, executorVars, procVars>>
allVars == <<runVars, dispatchVars>>

TERMINAL_TASK_STATES == {"verified", "cancelled", "superseded"}
TaskState == {"planned", "ready"} \cup TERMINAL_TASK_STATES
InitiativeState == {"active", "completed", "held"}
ExtStatus == {"running", "completed", "failed", "cancelled", "interrupted"}

SpecRow == [sha : Sha, state : TaskState]
Snapshot == [spec : [Task -> SpecRow \cup {NULL}], plan : Plan]
Execution == [request : RunId, state : ExtStatus]

ASSUME DispatchNullAssumption == NULL \notin SpecRow /\ NULL \notin Execution

DispatchTypeOK ==
    /\ spec \in [Task -> SpecRow \cup {NULL}]
    /\ plan \in Plan /\ initiative \in InitiativeState
    /\ scenario \in Scenario /\ edits \in 0..scenario.edits
    /\ workers \in [Worker -> (SUBSET Caps) \cup {NULL}]
    /\ envelope \subseteq RunId
    /\ ext \in [ExtId -> Execution \cup {NULL}]
    /\ flight \subseteq RunId
    /\ pc \in [Proc -> {"idle", "built", "reconciled", "registered", "claimed", "assigned",
                        "prepared", "failed-call", "answered", "uncertain"}]
    /\ snap \in [Proc -> Snapshot \cup {NULL}]
    /\ mine \in [Proc -> RunId \cup {NULL}]
    /\ answer \in [Proc -> ExtId \cup {NULL}]

DispatchInit ==
    /\ Init
    /\ scenario \in Scenario
    /\ \E s \in Sha : spec = [t \in Task |->
           IF t \notin scenario.tasks THEN NULL
           ELSE [sha |-> s, state |-> IF t \in Bridge THEN "planned" ELSE "ready"]]
    /\ plan \in Plan /\ initiative = "active" /\ edits = 0
    /\ workers = [w \in Worker |-> NULL]
    /\ envelope = {}
    /\ ext = [x \in ExtId |-> NULL] /\ flight = {}
    /\ pc = [p \in Proc |-> "idle"]
    /\ snap = [p \in Proc |-> NULL]
    /\ mine = [p \in Proc |-> NULL]
    /\ answer = [p \in Proc |-> NULL]

-----------------------------------------------------------------------------

\* Mutant: the search does not filter on the request.
executions_any(r) == {x \in ExtId : ext[x] # NULL}

\* grabowski_task_find_by_request_id: the executions of the request of run r.
executions(r) == {x \in ExtId : ext[x] # NULL /\ ext[x].request = r}

\* Mutant: recover finds nothing.
recover_answers_none(r) == {NULL}

\* What recover can answer: an ambiguous identity raises, as does a failing call.
recover_answers(r) ==
    IF executions(r) = {} THEN {NULL}
    ELSE IF Cardinality(executions(r)) = 1 THEN executions(r) ELSE {}

\* GrabowskiTaskAdapter.observe.
observed(x) ==
    IF ext[x] = NULL THEN "unobserved"
    ELSE IF ext[x].state = "completed" THEN "succeeded" ELSE ext[x].state

\* Mutant: a verified row counts whatever it is bound to.
overlay_unbound(p, t) ==
    LET task == snap[p].spec[t]
    IN  IF task.state \in TERMINAL_TASK_STATES \/ status[t] = NULL THEN task.state
        ELSE "verified"

\* The effective state of t for process p: StateStore.overlays computed from
\* the committed rows and from the TaskSpecs p read when it was constructed.
overlay(p, t) ==
    LET task == snap[p].spec[t]
        row == status[t]
    IN  IF task.state \in TERMINAL_TASK_STATES \/ row = NULL THEN task.state
        ELSE IF row.task_sha256 = task.sha /\ row.plan_sha256 = snap[p].plan
                /\ receipts[row.receipt].verified_task_sha256 = task.sha
             THEN "verified" ELSE "stale"

Known(p) == {t \in Task : snap[p].spec[t] # NULL}

\* A ready TaskSpec supersedes its own stale verified overlay.
reverification_candidate(p, t) ==
    /\ overlay(p, t) = "stale"
    /\ snap[p].spec[t].state = "ready"
    /\ status[t] # NULL
    /\ status[t].task_sha256 # snap[p].spec[t].sha
    /\ status[t].plan_sha256 = plan

child_terminal(p, c) ==
    c \in Known(p) => overlay(p, c) \in TERMINAL_TASK_STATES

active_for_initiative(p) == {r \in active_runs : runs[r].task \in Known(p)}

\* A planned closure task of a completed initiative may be claimed.
closure_bridge(p, t) == t \in Bridge /\ overlay(p, t) = "planned" /\ initiative = "completed"

\* Dispatcher.reasons is empty.  blocked: one of BlockedSets.
eligible(p, t, blocked) ==
    /\ overlay(p, t) = "ready" \/ reverification_candidate(p, t) \/ closure_bridge(p, t)
    /\ t \in Independent \/ \A c \in Children[t] : child_terminal(p, c)
    /\ (initiative = "active" /\ t \in Autonomous) \/ closure_bridge(p, t)
    /\ TaskCaps[t] \subseteq workers[WorkerOf[p]]
    /\ \A d \in Deps[t] : overlay(p, d) = "verified"
    /\ ~TaskBusy(t)
    /\ Cardinality(active_for_initiative(p)) < MaxActive
    /\ t \notin blocked
    /\ t \notin BroadScope
    /\ ~claims_conflict(Claims[t, snap[p].spec[t].sha], NULL)

\* The first eligible task of _ordered_tasks, if any; under the strict policy a
\* ready task that is not eligible ends the search.
selected(p, blocked) ==
    LET Stops(i) == /\ TaskOrder[i] \in Known(p)
                    /\ \/ eligible(p, TaskOrder[i], blocked)
                       \/ Strict /\ snap[p].spec[TaskOrder[i]].state = "ready"
        first == {i \in DOMAIN TaskOrder : Stops(i) /\ \A j \in 1 .. (i - 1) : ~Stops(j)}
    IN  {t \in {TaskOrder[i] : i \in first} : eligible(p, t, blocked)}

-----------------------------------------------------------------------------

Goto(p, l) == pc' = [pc EXCEPT ![p] = l]
Exit(p) ==
    /\ pc' = [pc EXCEPT ![p] = "idle"]
    /\ snap' = [snap EXCEPT ![p] = NULL]
    /\ mine' = [mine EXCEPT ![p] = NULL]
    /\ answer' = [answer EXCEPT ![p] = NULL]

\* Dispatcher.__init__: the authoritative TaskSpecs are read once.
construct(p) ==
    /\ pc[p] = "idle" /\ p \in scenario.procs
    /\ snap' = [snap EXCEPT ![p] = [spec |-> spec, plan |-> plan]]
    /\ Goto(p, "built")
    /\ UNCHANGED <<runVars, registryVars, workers, envelope, executorVars, mine, answer>>

\* Dispatcher.reconcile.  deaf: the dispatched runs whose adapter call fails.
\* Missing envelope files of active runs are written back first.
reconcile_runs(deaf) ==
    LET found == [r \in active_runs |->
            IF r \in deaf \/ recover_answers(r) = {} THEN NULL
            ELSE CHOOSE x \in recover_answers(r) : TRUE]
        seen == [r \in active_runs |->
            LET x == IF runs[r].external_id # NULL THEN runs[r].external_id ELSE found[r]
            IN  IF r \in deaf \/ x = NULL THEN "unobserved" ELSE observed(x)]
    IN  /\ reconcile(found, seen)
        /\ envelope' = envelope \cup active_runs

reconcile_any ==
    \E deaf \in SUBSET {r \in active_runs : runs[r].external_system # NULL} :
        reconcile_runs(deaf)

reconcile_first(p) ==
    /\ pc[p] = "built"
    /\ reconcile_any
    /\ Goto(p, "reconciled")
    /\ UNCHANGED <<registryVars, workers, executorVars, snap, mine, answer>>

register_worker(p) ==
    /\ pc[p] = "reconciled"
    /\ workers' = [workers EXCEPT ![WorkerOf[p]] = ProcCaps[p]]
    /\ Goto(p, "registered")
    /\ UNCHANGED <<runVars, registryVars, envelope, executorVars, snap, mine, answer>>

\* claim_next, inside the transaction (the snapshot is not read after it): an
\* active run of the worker is returned with the external identity it has now.
existing_assignment(p) ==
    /\ pc[p] = "registered"
    /\ \E r \in active_runs :
           /\ runs[r].worker = WorkerOf[p]
           /\ mine' = [mine EXCEPT ![p] = r]
           /\ answer' = [answer EXCEPT ![p] = runs[r].external_id]
    /\ snap' = [snap EXCEPT ![p] = NULL]
    /\ Goto(p, "assigned")
    /\ UNCHANGED <<runVars, registryVars, workers, envelope, executorVars>>

\* Otherwise the selected task is claimed at the revision of the snapshot and
\* the plan of the freshly loaded initiative registry.
claim_next(p, r) ==
    /\ pc[p] = "registered"
    /\ \E blocked \in BlockedSets :
           \E t \in selected(p, blocked) :
               claim(r, t, WorkerOf[p], snap[p].spec[t].sha, plan, FALSE)
    /\ mine' = [mine EXCEPT ![p] = r]
    /\ snap' = [snap EXCEPT ![p] = NULL]
    /\ Goto(p, "claimed")
    /\ UNCHANGED <<registryVars, workers, envelope, executorVars, answer>>

no_eligible_task(p) ==
    /\ pc[p] = "registered"
    /\ ~WorkerBusy(WorkerOf[p])
    /\ \E blocked \in BlockedSets : selected(p, blocked) = {}
    /\ Exit(p)
    /\ UNCHANGED <<runVars, registryVars, workers, envelope, executorVars>>

\* The envelope file is written after the commit.
write_envelope(p) ==
    /\ pc[p] = "claimed"
    /\ envelope' = envelope \cup {mine[p]}
    /\ Goto(p, "assigned")
    /\ UNCHANGED <<runVars, registryVars, workers, executorVars, snap, mine, answer>>

\* checkout_next: an invalid agent brief fails the run, if it is still active.
brief_gate_fails(p) ==
    /\ pc[p] = "assigned"
    /\ IF Active(mine[p]) THEN fail_run(mine[p], "failed") ELSE UNCHANGED runVars
    /\ Exit(p)
    /\ UNCHANGED <<registryVars, workers, envelope, executorVars>>

\* Without --dispatch, and for a run that came back bound, checkout ends here.
hand_over(p) ==
    /\ pc[p] = "assigned"
    /\ Exit(p)
    /\ UNCHANGED <<runVars, registryVars, workers, envelope, executorVars>>

\* Mutant: the executor is called before the dispatch is on record.
prepare_skipped(p) ==
    /\ pc[p] = "assigned" /\ answer[p] = NULL
    /\ IF Active(mine[p]) THEN Goto(p, "prepared") /\ UNCHANGED <<snap, mine, answer>>
       ELSE Exit(p)
    /\ UNCHANGED <<runVars, registryVars, workers, envelope, executorVars>>

\* prepare_dispatch returns a row that another process has bound meanwhile as
\* it is, and the caller goes on to dispatch.
prepare(p) ==
    LET r == mine[p]
    IN  /\ scenario.dispatching /\ pc[p] = "assigned" /\ answer[p] = NULL
        /\ IF ~Active(r) THEN Exit(p) /\ UNCHANGED runVars
           ELSE /\ Goto(p, "prepared")
                /\ IF runs[r].external_id # NULL THEN UNCHANGED runVars
                   ELSE prepare_dispatch(r, Grabowski)
                /\ UNCHANGED <<snap, mine, answer>>
        /\ UNCHANGED <<registryVars, workers, envelope, executorVars>>

\* grabowski_task_start for run r: the executor's answer is x.
starts(r, x) ==
    IF Dedupe /\ executions(r) # {}
    THEN x \in executions(r) /\ ext' = ext
    ELSE ext[x] = NULL /\ ext' = [ext EXCEPT ![x] = [request |-> r, state |-> "running"]]

\* adapter.dispatch: the call succeeds, or it raises, and then the execution
\* has started, has not, or starts later.
dispatch_call(p) ==
    /\ pc[p] = "prepared"
    /\ \/ \E x \in ExtId :
              /\ starts(mine[p], x)
              /\ flight' = flight
              /\ \/ answer' = [answer EXCEPT ![p] = x] /\ Goto(p, "answered")
                 \/ answer' = answer /\ Goto(p, "failed-call")
       \/ /\ flight' \in {flight, flight \cup {mine[p]}}
          /\ ext' = ext /\ answer' = answer
          /\ Goto(p, "failed-call")
    /\ UNCHANGED <<runVars, registryVars, workers, envelope, snap, mine>>

\* The exception handler asks the executor for the request identity.
recover_call(p) ==
    /\ pc[p] = "failed-call"
    /\ \/ Exit(p)                    \* recover raises as well
       \/ \E x \in recover_answers(mine[p]) :
              /\ answer' = [answer EXCEPT ![p] = x]
              /\ Goto(p, IF x = NULL THEN "uncertain" ELSE "answered")
              /\ UNCHANGED <<snap, mine>>
    /\ UNCHANGED <<runVars, registryVars, workers, envelope, executorVars>>

\* Mutant: a late answer reopens a run that has ended.
bind_answer_late(p) ==
    LET r == mine[p]
    IN  /\ pc[p] = "answered"
        /\ IF runs[r].external_id \in {NULL, answer[p]}
           THEN /\ runs' = [runs EXCEPT ![r].external_id = answer[p], ![r].state = "running"]
                /\ UNCHANGED <<resv, status, receipts, life>>
           ELSE UNCHANGED runVars
        /\ Exit(p)
        /\ UNCHANGED <<registryVars, workers, envelope, executorVars>>

\* store.bind; a run that ended or has another binding raises.
bind_answer(p) ==
    LET r == mine[p]
    IN  /\ pc[p] = "answered"
        /\ IF Active(r) /\ runs[r].external_system \in {NULL, Grabowski}
                        /\ runs[r].external_id \in {NULL, answer[p]}
           THEN bind(r, Grabowski, answer[p]) ELSE UNCHANGED runVars
        /\ Exit(p)
        /\ UNCHANGED <<registryVars, workers, envelope, executorVars>>

mark_uncertain(p) ==
    /\ pc[p] = "uncertain"
    /\ IF Active(mine[p]) THEN mark_dispatch_uncertain(mine[p]) ELSE UNCHANGED runVars
    /\ Exit(p)
    /\ UNCHANGED <<registryVars, workers, envelope, executorVars>>

\* The process dies, or stops at the runtime gate, between two transactions.
crash(p) ==
    /\ pc[p] # "idle"
    /\ Exit(p)
    /\ UNCHANGED <<runVars, registryVars, workers, envelope, executorVars>>

-----------------------------------------------------------------------------

\* The executor: a delayed request arrives, an execution ends.
request_arrives(r) ==
    /\ r \in flight
    /\ flight' = flight \ {r}
    /\ \E x \in ExtId : starts(r, x)
    /\ UNCHANGED <<runVars, registryVars, workers, envelope, procVars>>

execution_ends(x) ==
    /\ ext[x] # NULL /\ ext[x].state = "running"
    /\ \E z \in Endings : ext' = [ext EXCEPT ![x].state = z]
    /\ UNCHANGED <<runVars, registryVars, workers, envelope, flight, procVars>>

\* A TaskSpec revision is put; the initiative's plan or state changes.
revise_task(t) ==
    /\ edits < scenario.edits /\ edits' = edits + 1
    /\ \E row \in [sha : Sha, state : EditStates] : row # spec[t] /\ spec' = [spec EXCEPT ![t] = row]
    /\ UNCHANGED <<runVars, scenario, plan, initiative, workers, envelope, executorVars, procVars>>

revise_initiative ==
    /\ edits < scenario.edits /\ edits' = edits + 1
    /\ plan' \in Plan /\ initiative' \in InitiativeState
    /\ <<plan', initiative'>> # <<plan, initiative>>
    /\ UNCHANGED <<runVars, scenario, spec, workers, envelope, executorVars, procVars>>

\* The reconcile command, with every adapter answering or not.
reconcile_heard ==
    /\ reconcile_runs({})
    /\ UNCHANGED <<registryVars, workers, executorVars, procVars>>

reconcile_command ==
    /\ reconcile_any
    /\ UNCHANGED <<registryVars, workers, executorVars, procVars>>

\* complete_run, abstractly: the claimed revision is still the current one.
close_run(r) ==
    /\ runs[r] # NULL
    /\ spec[runs[r].task].sha = runs[r].task_sha256
    /\ plan = runs[r].plan_sha256
    /\ complete(r)
    /\ UNCHANGED dispatchVars

operator_fails(r) == fail_run(r, "failed") /\ UNCHANGED dispatchVars

time_passes(r) == heartbeat_lapses(r) /\ UNCHANGED dispatchVars

DispatchNext ==
    \/ \E p \in Proc : construct(p)
    \/ \E p \in Proc : reconcile_first(p)
    \/ \E p \in Proc : register_worker(p)
    \/ \E p \in Proc : existing_assignment(p)
    \/ \E p \in Proc, r \in RunId : claim_next(p, r)
    \/ \E p \in Proc : no_eligible_task(p)
    \/ \E p \in Proc : write_envelope(p)
    \/ \E p \in Proc : brief_gate_fails(p)
    \/ \E p \in Proc : hand_over(p)
    \/ \E p \in Proc : prepare(p)
    \/ \E p \in Proc : dispatch_call(p)
    \/ \E p \in Proc : recover_call(p)
    \/ \E p \in Proc : bind_answer(p)
    \/ \E p \in Proc : mark_uncertain(p)
    \/ \E p \in Proc : crash(p)
    \/ \E r \in RunId : request_arrives(r)
    \/ \E x \in ExtId : execution_ends(x)
    \/ \E t \in Task : revise_task(t)
    \/ revise_initiative
    \/ reconcile_command
    \/ \E r \in RunId : close_run(r)
    \/ \E r \in RunId : operator_fails(r)
    \/ \E r \in RunId : time_passes(r)

DispatchSpec == DispatchInit /\ [][DispatchNext]_allVars

\* reconcile is the step of the scheduled observation loop and the first step
\* of every checkout; it infinitely often finds the executor answering.
DispatchFairSpec ==
    /\ DispatchSpec
    /\ WF_allVars(reconcile_heard)
    /\ \A x \in ExtId : WF_allVars(execution_ends(x))

-----------------------------------------------------------------------------

\* Whatever the interleaving of checkouts, crashes and late starts, an external
\* execution belongs to a run that prepare_dispatch marked before the call, so
\* reconcile never declares that run orphaned behind the executor's back.
NoOrphanWhileExecuting ==
    \A x \in ExtId : ext[x] # NULL =>
        LET row == runs[ext[x].request]
        IN  row.external_system = Grabowski /\ row.state # "orphaned"

\* The variables have their types; bind and recover only ever give a run an
\* execution of its own request, also when the executor holds several
\* executions of the same request.
BoundToOwnRequest ==
    /\ DispatchTypeOK
    /\ \A r \in RunId : (runs[r] # NULL /\ runs[r].external_id # NULL) =>
           /\ ext[runs[r].external_id] # NULL
           /\ ext[runs[r].external_id].request = r

\* Concurrent claim-next processes never exceed max_active_tasks with the tasks
\* that every process knows of.
ParallelLimit ==
    Cardinality({r \in active_runs : runs[r].task \in scenario.tasks}) <= MaxActive

\* d is verified at the TaskSpec revision and the plan that are current.
VerifiedNow(d) ==
    \/ spec[d].state = "verified"
    \/ /\ spec[d].state \notin TERMINAL_TASK_STATES /\ status[d] # NULL
       /\ status[d].task_sha256 = spec[d].sha /\ status[d].plan_sha256 = plan

Claimed(r) == runs[r] = NULL /\ runs'[r] # NULL

\* A process whose snapshot is still current claims a task only when each of
\* its dependencies is verified at the current revision and plan, whatever was
\* closed or revised before the snapshot.
FreshEvidenceStep ==
    \A p \in Proc, r \in RunId :
        (Claimed(r) /\ pc[p] = "registered" /\ pc'[p] = "claimed"
           /\ snap[p] = [spec |-> spec, plan |-> plan])
        => \A d \in Deps[runs'[r].task] : VerifiedNow(d)

\* A process whose snapshot is still current claims a parent task only when
\* its children are terminal now: parent_child_projection reads the overlays
\* of the claim transaction.
ParentWaitsStep ==
    \A p \in Proc, r \in RunId :
        (Claimed(r) /\ pc[p] = "registered" /\ pc'[p] = "claimed"
           /\ snap[p] = [spec |-> spec, plan |-> plan] /\ runs'[r].task \notin Independent)
        => \A c \in Children[runs'[r].task] :
               spec[c] # NULL => (spec[c].state \in TERMINAL_TASK_STATES \/ VerifiedNow(c))

\* A process with a current snapshot claims nothing before its dependencies and
\* its children allow it, and no claim of concurrent processes exceeds the
\* parallel limit.
ClaimsUnlocked == [][FreshEvidenceStep /\ ParentWaitsStep /\ ParallelLimit']_allVars

\* README.md, safety invariant 2: "old evidence never unlocks dependencies".
OldEvidenceStep ==
    \A r \in RunId : Claimed(r) => \A d \in Deps[runs'[r].task] : VerifiedNow(d)
OldEvidenceNeverUnlocks == [][OldEvidenceStep]_allVars

\* Every step of the processes is a step the run tables allow.
ImplementsRunStore == Spec

\* A run whose claim committed gets its envelope file, even when the process
\* died before writing it, unless the run ends first.
EnvelopeRestored ==
    \A r \in RunId : Active(r) ~> (r \in envelope \/ ~Active(r))

\* A dispatch whose answer was lost, with exactly one execution at the executor,
\* is eventually bound by reconcile unless the run ends first.
LostAnswerRecovered ==
    \A r \in RunId :
        (Active(r) /\ runs[r].external_system # NULL /\ Cardinality(executions(r)) = 1)
        ~> (~Active(r) \/ runs[r].external_id # NULL \/ Cardinality(executions(r)) > 1)

\* A bound run does not stay running for ever: reconcile moves it to verifying
\* or ends it once its execution ended.
BoundRunSettles ==
    \A r \in RunId :
        (Active(r) /\ runs[r].external_id # NULL)
        ~> (~Active(r) \/ runs[r].state = "verifying")

\* What a crash, a lost answer or the end of an execution left undone is made up
\* for by reconcile: the envelope returns, the answer is found, the run settles.
ReconcileRecovers == EnvelopeRestored /\ LostAnswerRecovered /\ BoundRunSettles

=============================================================================
