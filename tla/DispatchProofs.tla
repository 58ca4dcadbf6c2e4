--------------------------- MODULE DispatchProofs ---------------------------
(***************************************************************************)
(* Machine-checked proofs about Dispatch, for every set of processes,      *)
(* tasks, runs and executions: checkouts implement the run tables of       *)
(* RunStore, bind only executions of their own request, never leave an     *)
(* execution behind an orphaned run, and claim nothing before its          *)
(* dependencies, its children and the parallel limit allow it.             *)
(***************************************************************************)
EXTENDS Dispatch, RunStoreProofs

\* Time for each leaf: the provers are given more than their default.
USE ZenonT(60), SMTT(60)

-----------------------------------------------------------------------------

Pc == {"idle", "built", "reconciled", "registered", "claimed", "assigned",
       "prepared", "failed-call", "answered", "uncertain"}
Selecting == {"built", "reconciled", "registered"}
Calling == {"prepared", "failed-call", "answered", "uncertain"}
Holding == {"claimed", "assigned"} \cup Calling

\* x is an execution of the request of run r.
ExecutionOf(x, r) == x \in ExtId /\ ext[x] # NULL /\ ext[x].request = r

\* The dispatch of run r is on record.
Prepared(r) == r \in RunId /\ runs[r] # NULL /\ runs[r].external_system = Grabowski

\* What a process at l with snapshot s, run m and answer a knows.
ProcShape(l, s, m, a) ==
    /\ l \in Selecting => s \in Snapshot /\ \A t \in scenario.tasks : s.spec[t] # NULL
    /\ l \in Holding => m \in RunId /\ runs[m] # NULL
    /\ l \in Calling => Prepared(m)
    /\ l = "answered" => ExecutionOf(a, m)

Procs == \A p \in Proc : ProcShape(pc[p], snap[p], mine[p], answer[p])

\* The executor columns of the runs: an identity is an execution of the run's own
\* request, and a run with an executor is not orphaned.
RowOf(r) ==
    runs[r] # NULL =>
        /\ runs[r].external_system \in {NULL, Grabowski}
        /\ runs[r].external_id # NULL =>
               runs[r].external_system = Grabowski /\ ExecutionOf(runs[r].external_id, r)
        /\ runs[r].external_system # NULL => runs[r].state # "orphaned"
Rows == \A r \in RunId : RowOf(r)

\* Whatever has started, or may still start, was prepared.
Executions ==
    /\ \A x \in ExtId : ext[x] # NULL => Prepared(ext[x].request)
    /\ \A r \in flight : Prepared(r)

\* The tasks of the scenario exist.
SpecsKnown == \A t \in scenario.tasks : spec[t] # NULL

\* The inductive invariant.
DispatchInv ==
    /\ IInv /\ DispatchTypeOK
    /\ Procs /\ Rows /\ Executions /\ SpecsKnown /\ ParallelLimit

-----------------------------------------------------------------------------

\* The executor adapter has a name, and max_active_tasks is a number.
LEMMA AdapterNamed == Grabowski # NULL /\ MaxActive \in Nat
  BY DispatchAssumption, RunStoreAssumption, ZenonT(100)

\* What claim_next selects is a task the process knows, and eligible.
LEMMA SelectedTask ==
    ASSUME NEW p \in Proc, NEW blocked \in BlockedSets, NEW t \in selected(p, blocked)
    PROVE  t \in Task /\ t \in Known(p) /\ eligible(p, t, blocked)
  BY DEF selected, Known

\* The steps that change the run tables.
ClaimStep(p, r) ==
    /\ pc[p] = "registered"
    /\ \E blocked \in BlockedSets : \E t \in selected(p, blocked) :
           claim(r, t, WorkerOf[p], snap[p].spec[t].sha, plan, FALSE)
RowStep(r) ==
    \/ fail_run(r, "failed") \/ prepare_dispatch(r, Grabowski) \/ mark_dispatch_uncertain(r)
    \/ complete(r) \/ heartbeat_lapses(r)
BindStep(r, x) == ExecutionOf(x, r) /\ bind(r, Grabowski, x)
ReconcileStep ==
    \E found \in [active_runs -> ExtId \cup {NULL}], seen \in [active_runs -> Observation] :
        /\ reconcile(found, seen)
        /\ \A r \in active_runs : found[r] # NULL => ExecutionOf(found[r], r)

\* recover answers with an execution of the run's own request, or with none, and
\* observe with an observation.
LEMMA AdapterAnswers ==
    ASSUME DispatchInv, reconcile_any
    PROVE  ReconcileStep
  <1>1. PICK deaf \in SUBSET {r \in active_runs : runs[r].external_system # NULL} :
            reconcile_runs(deaf)
    BY DEF reconcile_any
  <1> DEFINE found == [r \in active_runs |->
                 IF r \in deaf \/ recover_answers(r) = {} THEN NULL
                 ELSE CHOOSE x \in recover_answers(r) : TRUE]
             seen == [r \in active_runs |->
                 LET x == IF runs[r].external_id # NULL THEN runs[r].external_id ELSE found[r]
                 IN  IF r \in deaf \/ x = NULL THEN "unobserved" ELSE observed(x)]
  <1>2. ASSUME NEW r \in active_runs
        PROVE  found[r] = NULL \/ ExecutionOf(found[r], r)
    <2>1. CASE r \in deaf \/ recover_answers(r) = {}
      BY <2>1
    <2>2. CASE ~(r \in deaf \/ recover_answers(r) = {})
      <3>1. found[r] = CHOOSE x \in recover_answers(r) : TRUE
        BY <2>2
      <3>2. found[r] \in recover_answers(r)
        BY <2>2, <3>1, ZenonT(100)
      <3>3. recover_answers(r) \subseteq {NULL} \cup executions(r)
        BY DEF recover_answers
      <3> QED
        BY <3>2, <3>3 DEF executions, ExecutionOf
    <2> QED
      BY <2>1, <2>2
  <1>3. found \in [active_runs -> ExtId \cup {NULL}]
    BY <1>2 DEF ExecutionOf
  <1>4. reconcile(found, seen)
    BY <1>1 DEF reconcile_runs
  <1> HIDE DEF found
  <1>5. ASSUME NEW r \in active_runs
        PROVE  seen[r] \in Observation
    <2> DEFINE x == IF runs[r].external_id # NULL THEN runs[r].external_id ELSE found[r]
    <2>1. x \in ExtId \cup {NULL}
      BY <1>3 DEF active_runs, Active, DispatchInv, IInv, TypeOK, RunRow
    <2>2. seen[r] = IF r \in deaf \/ x = NULL THEN "unobserved" ELSE observed(x)
      OBVIOUS
    <2> HIDE DEF x, seen
    <2>3. CASE r \in deaf \/ x = NULL
      BY <2>2, <2>3 DEF Observation
    <2>4. CASE ~(r \in deaf \/ x = NULL)
      <3>1. ext[x] = NULL \/ ext[x].state \in ExtStatus
        BY <2>1, <2>4 DEF DispatchInv, DispatchTypeOK, Execution
      <3> QED
        BY <2>2, <2>4, <3>1 DEF observed, ExtStatus, Observation
    <2> QED
      BY <2>3, <2>4
  <1>6. seen \in [active_runs -> Observation]
    BY <1>5
  <1> HIDE DEF seen
  <1> QED
    BY <1>2, <1>3, <1>4, <1>6 DEF ReconcileStep

\* What the steps of checkouts do to the run tables.
LEMMA TableEffect ==
    ASSUME DispatchInv, [DispatchNext]_allVars
    PROVE  \/ UNCHANGED runVars
           \/ \E p \in Proc, r \in RunId : ClaimStep(p, r) /\ claim_next(p, r)
           \/ \E r \in RunId : RowStep(r)
           \/ \E r \in RunId, x \in ExtId : BindStep(r, x)
           \/ ReconcileStep
  <1>1. ASSUME NEW p \in Proc, pc[p] \in Holding
        PROVE  mine[p] \in RunId
    BY <1>1 DEF DispatchInv, Procs, ProcShape
  <1>2. CASE \E p \in Proc : reconcile_first(p)
    BY <1>2, AdapterAnswers DEF reconcile_first
  <1>3. CASE reconcile_command
    BY <1>3, AdapterAnswers DEF reconcile_command
  <1>4. CASE \E p \in Proc, r \in RunId : claim_next(p, r)
    BY <1>4, ZenonT(100) DEF claim_next, ClaimStep
  <1>5. CASE \E p \in Proc : brief_gate_fails(p) \/ prepare(p) \/ mark_uncertain(p)
    BY <1>1, <1>5 DEF brief_gate_fails, prepare, mark_uncertain, RowStep, Holding, Calling
  <1>6. CASE \E p \in Proc : bind_answer(p)
    <2>1. PICK p \in Proc : bind_answer(p)
      BY <1>6
    <2>2. mine[p] \in RunId /\ ExecutionOf(answer[p], mine[p]) /\ answer[p] \in ExtId
      BY <2>1 DEF bind_answer, DispatchInv, Procs, ProcShape, Holding, Calling, ExecutionOf
    <2> QED
      BY <2>1, <2>2 DEF bind_answer, BindStep
  <1>7. CASE \E r \in RunId : close_run(r) \/ operator_fails(r) \/ time_passes(r)
    BY <1>7 DEF close_run, operator_fails, time_passes, RowStep
  <1>8. CASE \/ UNCHANGED allVars
             \/ \E p \in Proc : construct(p) \/ register_worker(p) \/ existing_assignment(p)
                                \/ no_eligible_task(p) \/ write_envelope(p) \/ hand_over(p)
                                \/ dispatch_call(p) \/ recover_call(p) \/ crash(p)
    BY <1>8 DEF allVars, construct, register_worker, existing_assignment, no_eligible_task,
       write_envelope, hand_over, dispatch_call, recover_call, crash
  <1>9. CASE \/ \E r \in RunId : request_arrives(r)
             \/ \E x \in ExtId : execution_ends(x)
             \/ \E t \in Task : revise_task(t)
             \/ revise_initiative
    BY <1>9 DEF request_arrives, execution_ends, revise_task, revise_initiative
  <1> QED
    BY <1>2, <1>3, <1>4, <1>5, <1>6, <1>7, <1>8, <1>9 DEF DispatchNext

\* Every step of the processes is a step the run tables allow.
LEMMA StepRefines ==
    ASSUME DispatchInv, [DispatchNext]_allVars
    PROVE  [Next]_runVars
  <1>1. CASE UNCHANGED runVars
    BY <1>1
  <1>2. CASE \E p \in Proc, r \in RunId : ClaimStep(p, r)
    <2>0. PICK p \in Proc, r \in RunId, blocked \in BlockedSets :
              /\ pc[p] = "registered"
              /\ \E t \in selected(p, blocked) :
                     claim(r, t, WorkerOf[p], snap[p].spec[t].sha, plan, FALSE)
      BY <1>2, ZenonT(100) DEF ClaimStep
    <2>1. PICK t \in selected(p, blocked) :
              claim(r, t, WorkerOf[p], snap[p].spec[t].sha, plan, FALSE)
      BY <2>0, ZenonT(100)
    <2>2. t \in Task /\ snap[p].spec[t] # NULL
      BY SelectedTask DEF Known
    <2>3. snap[p] \in Snapshot
      BY <2>0 DEF DispatchInv, Procs, ProcShape, Selecting
    <2>4. snap[p].spec[t] \in SpecRow
      BY <2>2, <2>3 DEF Snapshot
    <2>5. snap[p].spec[t].sha \in Sha
      BY <2>4 DEF SpecRow
    <2>6. WorkerOf[p] \in Worker /\ FALSE \in ClaimKinds /\ plan \in Plan
      BY DispatchAssumption, ZenonT(100) DEF DispatchInv, DispatchTypeOK
    <2> QED
      BY <2>1, <2>2, <2>5, <2>6, ZenonT(100) DEF Next
  <1>3. CASE \E r \in RunId : RowStep(r)
    BY <1>3, DispatchAssumption DEF RowStep, Next
  <1>4. CASE \E r \in RunId, x \in ExtId : BindStep(r, x)
    BY <1>4, DispatchAssumption DEF BindStep, Next
  <1>5. CASE ReconcileStep
    BY <1>5 DEF ReconcileStep, Reconcile, Next
  <1> QED
    BY <1>1, <1>2, <1>3, <1>4, <1>5, TableEffect

\* The steps that are not claims neither create a run nor make one active.
LEMMA OnlyClaimsStart ==
    ASSUME DispatchInv, NEW r \in RunId,
           \/ UNCHANGED runVars
           \/ \E q \in RunId : RowStep(q)
           \/ \E q \in RunId, x \in ExtId : BindStep(q, x)
           \/ ReconcileStep
    PROVE  (runs[r] = NULL => runs'[r] = NULL) /\ (Active(r)' => Active(r))
  <1>0. runs \in [RunId -> RunRow \cup {NULL}]
    BY DEF DispatchInv, IInv, TypeOK
  <1>1. CASE UNCHANGED runVars
    BY <1>1 DEF runVars, Active
  <1>2. ASSUME NEW q \in RunId, Active(q), \A p \in RunId : p # q => runs'[p] = runs[p]
        PROVE  (runs[r] = NULL => runs'[r] = NULL) /\ (Active(r)' => Active(r))
    BY <1>2 DEF Active
  <1>3. CASE \E q \in RunId : RowStep(q)
    BY <1>0, <1>2, <1>3, ZenonT(100) DEF RowStep, fail_run, prepare_dispatch, mark_dispatch_uncertain,
       complete, heartbeat_lapses
  <1>4. CASE \E q \in RunId, x \in ExtId : BindStep(q, x)
    BY <1>0, <1>2, <1>4, ZenonT(100) DEF BindStep, bind
  <1>5. CASE ReconcileStep
    <2>1. ~Active(r) => runs'[r] = runs[r]
      BY <1>5, ZenonT(100) DEF ReconcileStep, reconcile, active_runs
    <2> QED
      BY <2>1 DEF Active
  <1> QED
    BY <1>1, <1>3, <1>4, <1>5

-----------------------------------------------------------------------------

\* The executor starts executions of prepared runs, and forgets none.
LEMMA ExecutorEffect ==
    ASSUME DispatchInv, [DispatchNext]_allVars
    PROVE  /\ ext' \in [ExtId -> Execution \cup {NULL}]
           /\ \A x \in ExtId : ext[x] # NULL =>
                  ext'[x] # NULL /\ ext'[x].request = ext[x].request
           /\ \A x \in ExtId : ext[x] = NULL /\ ext'[x] # NULL => Prepared(ext'[x].request)
           /\ flight' \subseteq RunId
           /\ \A r \in flight' : r \in flight \/ Prepared(r)
  <1>0. ext \in [ExtId -> Execution \cup {NULL}] /\ flight \subseteq RunId
    BY DEF DispatchInv, DispatchTypeOK
  <1>1. ASSUME NEW r \in RunId, Prepared(r), NEW x \in ExtId, starts(r, x)
        PROVE  /\ ext' \in [ExtId -> Execution \cup {NULL}]
               /\ \A y \in ExtId : ext[y] # NULL =>
                      ext'[y] # NULL /\ ext'[y].request = ext[y].request
               /\ \A y \in ExtId : ext[y] = NULL /\ ext'[y] # NULL => Prepared(ext'[y].request)
    <2>1. CASE ext' = ext
      BY <1>0, <2>1
    <2>2. CASE ext[x] = NULL /\ ext' = [ext EXCEPT ![x] = [request |-> r, state |-> "running"]]
      <3>1. [request |-> r, state |-> "running"] \in Execution
        BY DEF Execution, ExtStatus
      <3>2. ext'[x].request = r /\ \A y \in ExtId : y # x => ext'[y] = ext[y]
        BY <1>0, <2>2
      <3> QED
        BY <1>0, <1>1, <2>2, <3>1, <3>2
    <2> QED
      BY <1>1, <2>1, <2>2 DEF starts
  <1>2. CASE \E p \in Proc : dispatch_call(p)
    <2>1. PICK p \in Proc : dispatch_call(p)
      BY <1>2
    <2>2. mine[p] \in RunId /\ Prepared(mine[p])
      BY <2>1 DEF dispatch_call, DispatchInv, Procs, ProcShape, Holding, Calling
    <2>3. flight' \subseteq RunId /\ \A r \in flight' : r \in flight \/ Prepared(r)
      BY <1>0, <2>1, <2>2 DEF dispatch_call
    <2>4. ext' = ext \/ \E x \in ExtId : starts(mine[p], x)
      BY <2>1 DEF dispatch_call
    <2> QED
      BY <1>0, <1>1, <2>2, <2>3, <2>4
  <1>3. CASE \E r \in RunId : request_arrives(r)
    <2>1. PICK r \in RunId : request_arrives(r)
      BY <1>3
    <2>2. Prepared(r)
      BY <2>1 DEF request_arrives, DispatchInv, Executions
    <2>3. flight' \subseteq flight /\ \E x \in ExtId : starts(r, x)
      BY <2>1 DEF request_arrives
    <2> QED
      BY <1>0, <1>1, <2>2, <2>3
  <1>4. CASE \E x \in ExtId : execution_ends(x)
    <2>1. PICK x \in ExtId, z \in Endings :
              /\ ext[x] # NULL /\ ext' = [ext EXCEPT ![x].state = z] /\ flight' = flight
      BY <1>4, ZenonT(100) DEF execution_ends
    <2>2. ext[x] \in Execution /\ z \in ExtStatus
      BY <1>0, <2>1, DispatchAssumption DEF ExtStatus
    <2>3. /\ [ext[x] EXCEPT !.state = z] \in Execution
          /\ [ext[x] EXCEPT !.state = z].request = ext[x].request
      BY <2>2 DEF Execution
    <2>4. /\ ext'[x] = [ext[x] EXCEPT !.state = z]
          /\ \A y \in ExtId : y # x => ext'[y] = ext[y]
          /\ ext' \in [ExtId -> Execution \cup {NULL}]
      BY <1>0, <2>1, <2>3
    <2>5. ext'[x] # NULL
      BY <2>3, <2>4, DispatchNullAssumption
    <2> QED
      BY <1>0, <2>1, <2>3, <2>4, <2>5
  <1>5. CASE UNCHANGED executorVars
    BY <1>0, <1>5 DEF executorVars
  <1>6. UNCHANGED allVars => UNCHANGED executorVars
    BY DEF allVars, dispatchVars, executorVars
  <1>7. \/ \E p \in Proc : dispatch_call(p)
        \/ \E r \in RunId : request_arrives(r)
        \/ \E x \in ExtId : execution_ends(x)
        \/ UNCHANGED executorVars
    BY <1>6, ZenonT(100) DEF DispatchNext, executorVars, dispatchVars, construct, reconcile_first,
       register_worker, existing_assignment, claim_next, no_eligible_task, write_envelope,
       brief_gate_fails, hand_over, prepare, recover_call, bind_answer, mark_uncertain, crash,
       revise_task, revise_initiative, reconcile_command, close_run, operator_fails, time_passes
  <1> QED
    BY <1>2, <1>3, <1>4, <1>5, <1>7

\* What no step takes back: a dispatch on record, an execution of a request, the
\* tasks of the scenario.
Lasting ==
    /\ \A r \in RunId : runs[r] # NULL => runs'[r] # NULL
    /\ \A r : Prepared(r) => Prepared(r)'
    /\ \A x, r : ExecutionOf(x, r) =>
           x \in ExtId /\ ext'[x] # NULL /\ ext'[x].request = r
    /\ scenario' = scenario
    /\ \A t \in scenario.tasks : spec'[t] # NULL

\* The registry keeps its types, and a revision never removes a task.
LEMMA RegistryEffect ==
    ASSUME DispatchInv, [DispatchNext]_allVars
    PROVE  /\ spec' \in [Task -> SpecRow \cup {NULL}]
           /\ plan' \in Plan /\ initiative' \in InitiativeState
           /\ scenario' = scenario /\ edits' \in 0 .. scenario.edits
           /\ \A t \in Task : spec[t] # NULL => spec'[t] # NULL
  <1>0. /\ spec \in [Task -> SpecRow \cup {NULL}]
        /\ plan \in Plan /\ initiative \in InitiativeState
        /\ scenario \in Scenario /\ edits \in 0 .. scenario.edits
    BY DEF DispatchInv, DispatchTypeOK
  <1>1. scenario.edits \in Nat
    BY <1>0, DispatchAssumption DEF Scenarios
  <1>2. CASE \E t \in Task : revise_task(t)
    <2>1. PICK t \in Task, row \in [sha : Sha, state : EditStates] :
              /\ edits < scenario.edits /\ edits' = edits + 1
              /\ spec' = [spec EXCEPT ![t] = row]
              /\ UNCHANGED <<scenario, plan, initiative>>
      BY <1>2, ZenonT(100) DEF revise_task
    <2>2. row \in SpecRow
      BY DispatchAssumption, ZenonT(100) DEF SpecRow, TaskState, TERMINAL_TASK_STATES
    <2>3. row # NULL
      BY <2>2, DispatchNullAssumption
    <2>4. edits' \in 0 .. scenario.edits
      BY SMTT(60), <1>0, <1>1, <2>1
    <2> QED
      BY <1>0, <2>1, <2>2, <2>3, <2>4
  <1>3. CASE revise_initiative
    <2>1. edits' \in 0 .. scenario.edits
      BY SMTT(60), <1>0, <1>1, <1>3 DEF revise_initiative
    <2> QED
      BY <1>0, <1>3, <2>1 DEF revise_initiative
  <1>4. CASE UNCHANGED registryVars
    BY <1>0, <1>4 DEF registryVars
  <1>5. UNCHANGED allVars => UNCHANGED registryVars
    BY DEF allVars, dispatchVars, registryVars
  <1>6. \/ \E t \in Task : revise_task(t)
        \/ revise_initiative
        \/ UNCHANGED registryVars
    BY <1>5, ZenonT(100) DEF DispatchNext, registryVars, dispatchVars, construct, reconcile_first,
       register_worker, existing_assignment, claim_next, no_eligible_task, write_envelope,
       brief_gate_fails, hand_over, prepare, dispatch_call, recover_call, bind_answer,
       mark_uncertain, crash, request_arrives, execution_ends, reconcile_command, close_run,
       operator_fails, time_passes
  <1> QED
    BY <1>2, <1>3, <1>4, <1>6

\* No step undoes what a process relies on: its run, its dispatch record and the executions stay.
LEMMA StepLasts ==
    ASSUME DispatchInv, [DispatchNext]_allVars
    PROVE  Lasting
  <1>1. BindingStep
    BY StepRefines, BindingPreserved DEF DispatchInv, IInv
  <1>2. Grabowski # NULL
    BY AdapterNamed
  <1>3. \A r \in RunId : runs[r] # NULL => runs'[r] # NULL
    BY <1>1 DEF BindingStep
  <1>4. ASSUME NEW r, Prepared(r) PROVE Prepared(r)'
    BY <1>1, <1>2, <1>4 DEF Prepared, BindingStep
  <1>5. \A x, r : ExecutionOf(x, r) => x \in ExtId /\ ext'[x] # NULL /\ ext'[x].request = r
    BY ExecutorEffect DEF ExecutionOf
  <1>6. scenario.tasks \subseteq Task
    <2>1. scenario \in Scenarios
      BY DispatchAssumption DEF DispatchInv, DispatchTypeOK
    <2> QED
      BY <2>1 DEF Scenarios
  <1>7. scenario' = scenario /\ \A t \in scenario.tasks : spec'[t] # NULL
    BY <1>6, RegistryEffect DEF DispatchInv, SpecsKnown
  <1> QED
    BY <1>3, <1>4, <1>5, <1>7 DEF Lasting

\* claim_next inserts the row of an eligible task, and touches no other row.
LEMMA ClaimedRow ==
    ASSUME DispatchInv, NEW p \in Proc, NEW r \in RunId, ClaimStep(p, r)
    PROVE  /\ runs[r] = NULL /\ runs'[r] \in RunRow
           /\ \A q \in RunId : q # r => runs'[q] = runs[q]
           /\ runs'[r].external_system = NULL /\ runs'[r].external_id = NULL
           /\ runs'[r].task \in Known(p)
           /\ \E blocked \in BlockedSets : eligible(p, runs'[r].task, blocked)
  <1>1. PICK blocked \in BlockedSets :
            \E t \in selected(p, blocked) :
                claim(r, t, WorkerOf[p], snap[p].spec[t].sha, plan, FALSE)
    BY ZenonT(100) DEF ClaimStep
  <1>2. PICK t \in selected(p, blocked) :
            claim(r, t, WorkerOf[p], snap[p].spec[t].sha, plan, FALSE)
    BY <1>1, ZenonT(100)
  <1>3. t \in Task /\ t \in Known(p) /\ eligible(p, t, blocked)
    BY SelectedTask
  <1>4. snap[p] \in Snapshot /\ snap[p].spec[t] # NULL
    BY <1>3, ZenonT(100) DEF ClaimStep, Known, DispatchInv, Procs, ProcShape, Selecting
  <1>5. snap[p].spec[t] \in SpecRow
    BY <1>3, <1>4 DEF Snapshot
  <1>6. PICK s \in Sha, w \in Worker, n \in Nat :
            s = snap[p].spec[t].sha /\ w = WorkerOf[p] /\ n = next_attempt(t)
    BY <1>3, <1>5, AttemptType, DispatchAssumption, ZenonT(100) DEF SpecRow
  <1>7. plan \in Plan /\ runs \in [RunId -> RunRow \cup {NULL}]
    BY DEF DispatchInv, DispatchTypeOK, IInv, TypeOK
  <1>8. /\ runs[r] = NULL
        /\ runs' = [runs EXCEPT ![r] =
               [task |-> t, worker |-> w, attempt |-> n, state |-> "assigned",
                task_sha256 |-> s, plan_sha256 |-> plan, coordinated |-> FALSE,
                external_system |-> NULL, external_id |-> NULL, external_state |-> NULL,
                error |-> NULL, fresh |-> TRUE]]
    BY <1>2, <1>6, ZenonT(100) DEF claim
  <1>9. /\ runs'[r] \in RunRow /\ runs'[r].task = t
        /\ runs'[r].external_system = NULL /\ runs'[r].external_id = NULL
        /\ \A q \in RunId : q # r => runs'[q] = runs[q]
    BY <1>3, <1>7, <1>8 DEF RunRow, ACTIVE_STATES
  <1> QED
    BY <1>3, <1>8, <1>9, ZenonT(100)

\* A run that keeps its executor columns, or gets an execution of its own request,
\* satisfies its row invariant afterwards.
LEMMA RowUpdated ==
    ASSUME Lasting, NEW r \in RunId, runs[r] # NULL, RowOf(r),
           runs'[r].external_system \in {runs[r].external_system, Grabowski},
           \/ runs'[r].external_id = runs[r].external_id
           \/ runs'[r].external_system = Grabowski /\ ExecutionOf(runs'[r].external_id, r),
           runs'[r].state = "orphaned" =>
               \/ runs[r].external_system = NULL /\ runs'[r].external_system = NULL
               \/ runs[r].state = "orphaned" /\ runs'[r].external_system = runs[r].external_system
    PROVE  RowOf(r)'
  <1>1. runs'[r].external_id # NULL =>
            /\ runs'[r].external_system = Grabowski
            /\ ExecutionOf(runs'[r].external_id, r)
    BY ZenonT(100) DEF RowOf
  <1>2. runs'[r].external_id # NULL =>
            /\ runs'[r].external_id \in ExtId
            /\ ext'[runs'[r].external_id] # NULL
            /\ ext'[runs'[r].external_id].request = r
    BY <1>1 DEF Lasting
  <1> QED
    BY <1>1, <1>2, ZenonT(100) DEF RowOf, ExecutionOf

\* The executor columns stay sound.
LEMMA RowsKept ==
    ASSUME DispatchInv, [DispatchNext]_allVars
    PROVE  Rows'
  <1>0. /\ Lasting /\ runs \in [RunId -> RunRow \cup {NULL}] /\ Grabowski # NULL
        /\ \A r \in RunId : RowOf(r)
    BY StepLasts, AdapterNamed DEF DispatchInv, IInv, TypeOK, Rows
  <1>1. ASSUME NEW r \in RunId, runs'[r] = runs[r] PROVE RowOf(r)'
    <2>1. CASE runs[r] = NULL
      BY <1>1, <2>1 DEF RowOf
    <2>2. CASE runs[r] # NULL
      BY <1>0, <1>1, <2>2, RowUpdated, ZenonT(100) DEF RowOf
    <2> QED
      BY <2>1, <2>2
  <1>2. ASSUME NEW q \in RunId, \A r \in RunId : r # q => runs'[r] = runs[r], RowOf(q)'
        PROVE  Rows'
    BY <1>1, <1>2 DEF Rows
  <1>3. CASE UNCHANGED runVars
    BY <1>1, <1>3 DEF runVars, Rows
  <1>4. CASE \E p \in Proc, q \in RunId : ClaimStep(p, q)
    <2>1. PICK p \in Proc, q \in RunId : ClaimStep(p, q)
      BY <1>4
    <2>2. /\ \A r \in RunId : r # q => runs'[r] = runs[r]
          /\ runs'[q].external_system = NULL /\ runs'[q].external_id = NULL
      BY <2>1, ClaimedRow
    <2> QED
      BY <1>2, <2>2 DEF RowOf
  <1>5. CASE \E q \in RunId : RowStep(q)
    <2>1. PICK q \in RunId : RowStep(q)
      BY <1>5
    <2>2. runs[q] # NULL /\ runs[q] \in RunRow
      BY <1>0, <2>1 DEF RowStep, Active, fail_run, prepare_dispatch, mark_dispatch_uncertain,
         complete, heartbeat_lapses
    <2>3. /\ \A r \in RunId : r # q => runs'[r] = runs[r]
          /\ runs'[q].external_system \in {runs[q].external_system, Grabowski}
          /\ runs'[q].external_id = runs[q].external_id
          /\ runs'[q].state # "orphaned"
      <3>0. runs[q].state # "orphaned"
        BY <2>1, ZenonT(100) DEF RowStep, Active, ACTIVE_STATES, fail_run, prepare_dispatch,
           mark_dispatch_uncertain, complete, heartbeat_lapses
      <3>1. CASE fail_run(q, "failed")
        BY <1>0, <2>2, <3>0, <3>1 DEF RunRow, fail_run
      <3>2. CASE prepare_dispatch(q, Grabowski)
        BY <1>0, <2>2, <3>0, <3>2 DEF RunRow, prepare_dispatch
      <3>3. CASE mark_dispatch_uncertain(q)
        BY <1>0, <2>2, <3>0, <3>3 DEF RunRow, mark_dispatch_uncertain
      <3>4. CASE complete(q)
        BY <1>0, <2>2, <3>0, <3>4 DEF RunRow, complete
      <3>5. CASE heartbeat_lapses(q)
        BY <1>0, <2>2, <3>0, <3>5 DEF RunRow, heartbeat_lapses
      <3> QED
        BY <2>1, <3>1, <3>2, <3>3, <3>4, <3>5, ZenonT(100) DEF RowStep
    <2>4. RowOf(q)'
      BY <1>0, <2>2, <2>3, RowUpdated
    <2> QED
      BY <1>2, <2>3, <2>4
  <1>6. CASE \E q \in RunId, x \in ExtId : BindStep(q, x)
    <2>1. PICK q \in RunId, x \in ExtId : BindStep(q, x)
      BY <1>6
    <2>2. runs[q] # NULL /\ runs[q] \in RunRow /\ ExecutionOf(x, q)
      BY <1>0, <2>1 DEF BindStep, bind, Active
    <2>3. /\ \A r \in RunId : r # q => runs'[r] = runs[r]
          /\ runs'[q].external_system = Grabowski /\ runs'[q].external_id = x
          /\ runs'[q].state = "running"
      BY <1>0, <2>1, <2>2 DEF BindStep, bind, RunRow
    <2>4. RowOf(q)'
      BY <1>0, <2>2, <2>3, RowUpdated, ZenonT(100)
    <2> QED
      BY <1>2, <2>3, <2>4
  <1>7. CASE ReconcileStep
    <2>1. PICK found \in [active_runs -> ExtId \cup {NULL}],
               seen \in [active_runs -> Observation] :
              /\ reconcile(found, seen)
              /\ \A r \in active_runs : found[r] # NULL => ExecutionOf(found[r], r)
      BY <1>7 DEF ReconcileStep
    <2>2. ASSUME NEW r \in RunId PROVE RowOf(r)'
      <3>1. CASE ~Active(r)
        BY <1>1, <2>1, <3>1, ZenonT(100) DEF reconcile, active_runs
      <3>2. CASE Active(r)
        <4>1. /\ runs[r] \in RunRow /\ runs[r] # NULL /\ runs[r].state \in ACTIVE_STATES
              /\ found[r] \in ExtId \cup {NULL} /\ seen[r] \in Observation
              /\ runs'[r] = reconcile_row(runs[r], found[r], seen[r])
              /\ found[r] # NULL => ExecutionOf(found[r], r)
          BY <1>0, <2>1, <3>2, ZenonT(100) DEF Active, active_runs, reconcile
        <4>2. /\ runs'[r].external_system = runs[r].external_system
              /\ runs'[r].external_id \in {runs[r].external_id, found[r]}
              /\ runs'[r].state = "orphaned" => runs[r].external_system = NULL
          <5> DEFINE after == reconcile_row(runs[r], found[r], seen[r])
          <5>1. /\ after.external_system = runs[r].external_system
                /\ after.external_id \in {runs[r].external_id, found[r]}
                /\ after.state = "orphaned" => runs[r].external_system = NULL
            BY <4>1, ReconcileRow, ZenonT(100)
          <5> QED
            BY <4>1, <5>1
        <4>3. \/ runs'[r].external_id = runs[r].external_id
              \/ runs'[r].external_id = found[r] /\ found[r] # NULL
              \/ runs'[r].external_id = NULL
          BY <4>2
        <4>4. CASE runs'[r].external_id = runs[r].external_id
          BY <1>0, <4>1, <4>2, <4>4, RowUpdated, ZenonT(100)
        <4>5. CASE runs'[r].external_id = NULL
          BY <1>0, <4>1, <4>2, <4>5 DEF RowOf
        <4>6. CASE runs'[r].external_id = found[r] /\ found[r] # NULL
          <5>1. runs[r].external_system = NULL => runs'[r].external_id = runs[r].external_id
            BY <4>1 DEF reconcile_row, RunRow
          <5>2. CASE runs[r].external_system = NULL
            BY <1>0, <4>1, <4>2, <5>1, <5>2, RowUpdated, ZenonT(100)
          <5>3. CASE runs[r].external_system # NULL
            <6>1. runs'[r].external_system = Grabowski
              BY <1>0, <4>1, <4>2, <5>3 DEF RowOf
            <6> QED
              BY <1>0, <4>1, <4>2, <4>6, <5>3, <6>1, RowUpdated, ZenonT(100)
          <5> QED
            BY <5>2, <5>3
        <4> QED
          BY <4>3, <4>4, <4>5, <4>6
      <3> QED
        BY <3>1, <3>2
    <2> QED
      BY <2>2 DEF Rows
  <1> QED
    BY <1>3, <1>4, <1>5, <1>6, <1>7, TableEffect

\* Whatever has started, or may still start, stays prepared.
LEMMA ExecutionsKept ==
    ASSUME DispatchInv, [DispatchNext]_allVars
    PROVE  Executions'
  <1>1. \A r : Prepared(r) => Prepared(r)'
    BY StepLasts, ZenonT(100) DEF Lasting
  <1>2. ASSUME NEW x \in ExtId, ext'[x] # NULL PROVE Prepared(ext'[x].request)
    BY <1>2, ExecutorEffect DEF DispatchInv, Executions
  <1>3. ASSUME NEW r \in flight' PROVE Prepared(r)
    BY <1>3, ExecutorEffect DEF DispatchInv, Executions
  <1>4. ASSUME NEW x \in ExtId, (ext[x] # NULL)' PROVE Prepared(ext[x].request)'
    BY <1>1, <1>2, <1>4 DEF Prepared
  <1>5. ASSUME NEW r \in flight' PROVE Prepared(r)'
    BY <1>1, <1>3, <1>5
  <1> QED
    BY <1>4, <1>5 DEF Executions

-----------------------------------------------------------------------------

\* What a process at l knows after the step.
ShapeNext(l, s, m, a) ==
    /\ l \in Selecting => s \in Snapshot /\ \A t \in scenario.tasks : s.spec[t] # NULL
    /\ l \in Holding => m \in RunId /\ runs'[m] # NULL
    /\ l \in Calling => m \in RunId /\ runs'[m].external_system = Grabowski
    /\ l = "answered" => a \in ExtId /\ ext'[a] # NULL /\ ext'[a].request = m

\* The local state has its types and every process knows what its position says.
Locals ==
    /\ pc \in [Proc -> Pc] /\ snap \in [Proc -> Snapshot \cup {NULL}]
    /\ mine \in [Proc -> RunId \cup {NULL}] /\ answer \in [Proc -> ExtId \cup {NULL}]
    /\ Procs

\* The invariant types the local state and says what every process knows.
LEMMA LocalsNow ==
    ASSUME DispatchInv
    PROVE  Locals
  BY DEF DispatchInv, DispatchTypeOK, Locals, Pc

\* A process that does not move still knows what it knew.
LEMMA ShapeLasts ==
    ASSUME Lasting, NEW l, NEW s, NEW m, NEW a, ProcShape(l, s, m, a)
    PROVE  ShapeNext(l, s, m, a)
  <1>1. l \in Calling => Prepared(m)'
    BY DEF ProcShape, Lasting
  <1>2. l = "answered" => a \in ExtId /\ ext'[a] # NULL /\ ext'[a].request = m
    BY DEF ProcShape, Lasting
  <1> QED
    BY <1>1, <1>2, ZenonT(100) DEF ProcShape, ShapeNext, Lasting, Prepared

LocalStep(p, l, s, m, a) ==
    /\ pc' = [pc EXCEPT ![p] = l] /\ snap' = [snap EXCEPT ![p] = s]
    /\ mine' = [mine EXCEPT ![p] = m] /\ answer' = [answer EXCEPT ![p] = a]

\* One process moves, and knows afterwards what its new position says.
LEMMA Mover ==
    ASSUME Locals, Lasting, NEW p \in Proc, NEW l \in Pc, NEW s \in Snapshot \cup {NULL},
           NEW m \in RunId \cup {NULL}, NEW a \in ExtId \cup {NULL},
           LocalStep(p, l, s, m, a), ShapeNext(l, s, m, a)
    PROVE  Locals'
  <1>1. /\ pc' \in [Proc -> Pc] /\ snap' \in [Proc -> Snapshot \cup {NULL}]
        /\ mine' \in [Proc -> RunId \cup {NULL}] /\ answer' \in [Proc -> ExtId \cup {NULL}]
    BY DEF LocalStep, Locals
  <1>2. ASSUME NEW q \in Proc PROVE ShapeNext(pc'[q], snap'[q], mine'[q], answer'[q])
    <2>1. CASE q = p
      <3>1. pc'[q] = l /\ snap'[q] = s /\ mine'[q] = m /\ answer'[q] = a
        BY <2>1 DEF LocalStep, Locals
      <3> QED
        BY <3>1
    <2>2. CASE q # p
      <3>1. /\ pc'[q] = pc[q] /\ snap'[q] = snap[q]
            /\ mine'[q] = mine[q] /\ answer'[q] = answer[q]
        BY <2>2 DEF LocalStep, Locals
      <3>2. ProcShape(pc[q], snap[q], mine[q], answer[q])
        BY DEF Locals, Procs
      <3>3. ShapeNext(pc[q], snap[q], mine[q], answer[q])
        BY <3>2, ShapeLasts
      <3> QED
        BY <3>1, <3>3
    <2> QED
      BY <2>1, <2>2
  <1>3. ASSUME NEW q \in Proc PROVE ProcShape(pc[q], snap[q], mine[q], answer[q])'
    <2>1. ShapeNext(pc'[q], snap'[q], mine'[q], answer'[q]) /\ scenario' = scenario
      BY <1>2, ZenonT(100) DEF Lasting
    <2> QED
      BY <2>1, ZenonT(100) DEF ShapeNext, ProcShape, Prepared, ExecutionOf, Holding, Calling
  <1> QED
    BY <1>1, <1>3 DEF Locals, Procs

\* No process moves.
LEMMA NoMover ==
    ASSUME Locals, Lasting, UNCHANGED procVars
    PROVE  Locals'
  <1>1. ASSUME NEW q \in Proc PROVE ProcShape(pc[q], snap[q], mine[q], answer[q])'
    <2>1. ProcShape(pc[q], snap[q], mine[q], answer[q])
      BY DEF Locals, Procs
    <2>2. ShapeNext(pc[q], snap[q], mine[q], answer[q])
      BY <2>1, ShapeLasts
    <2>3. /\ pc'[q] = pc[q] /\ snap'[q] = snap[q] /\ scenario' = scenario
          /\ mine'[q] = mine[q] /\ answer'[q] = answer[q]
      BY ZenonT(100) DEF procVars, Lasting
    <2> QED
      BY <2>2, <2>3, ZenonT(100) DEF ShapeNext, ProcShape, Prepared, ExecutionOf, Holding, Calling
  <1> QED
    BY <1>1 DEF Locals, Procs, procVars

\* A process that ends forgets everything.
LEMMA ExitKept ==
    ASSUME Locals, Lasting, NEW p \in Proc, Exit(p)
    PROVE  Locals'
  <1>1. LocalStep(p, "idle", NULL, NULL, NULL)
    BY DEF Exit, LocalStep
  <1>2. "idle" \in Pc /\ ShapeNext("idle", NULL, NULL, NULL)
    BY DEF Pc, ShapeNext, Selecting, Holding, Calling
  <1> QED
    BY <1>1, <1>2, Mover

\* A process that moves on with what it has: enough that the new position says no
\* more than the process knows.
LEMMA GoOn ==
    ASSUME Locals, Lasting, NEW p \in Proc, NEW l \in Pc, Goto(p, l),
           UNCHANGED <<snap, mine, answer>>, ShapeNext(l, snap[p], mine[p], answer[p])
    PROVE  Locals'
  <1>1. LocalStep(p, l, snap[p], mine[p], answer[p])
    BY DEF Goto, LocalStep, Locals
  <1>2. /\ snap[p] \in Snapshot \cup {NULL} /\ mine[p] \in RunId \cup {NULL}
        /\ answer[p] \in ExtId \cup {NULL}
    BY DEF Locals
  <1> QED
    BY <1>1, <1>2, Mover

\* Every step leaves each process knowing what its position says.
LEMMA LocalsKept ==
    ASSUME DispatchInv, [DispatchNext]_allVars
    PROVE  Locals'
  <1>0. Locals /\ Lasting
    BY LocalsNow, StepLasts
  <1>1. ASSUME NEW p \in Proc
        PROVE  /\ ProcShape(pc[p], snap[p], mine[p], answer[p])
               /\ ShapeNext(pc[p], snap[p], mine[p], answer[p])
               /\ snap[p] \in Snapshot \cup {NULL} /\ mine[p] \in RunId \cup {NULL}
               /\ answer[p] \in ExtId \cup {NULL}
    <2>1. ProcShape(pc[p], snap[p], mine[p], answer[p])
      BY <1>0 DEF Locals, Procs
    <2>2. ShapeNext(pc[p], snap[p], mine[p], answer[p])
      BY <1>0, <2>1, ShapeLasts
    <2> QED
      BY <1>0, <2>1, <2>2 DEF Locals
  <1>2. ASSUME NEW p \in Proc, construct(p) PROVE Locals'
    <2>1. [spec |-> spec, plan |-> plan] \in Snapshot
      BY ZenonT(100) DEF Snapshot, DispatchInv, DispatchTypeOK
    <2>2. PICK s \in Snapshot : s = [spec |-> spec, plan |-> plan]
      BY <2>1
    <2>3. \A t \in scenario.tasks : s.spec[t] # NULL
      BY <2>2 DEF DispatchInv, SpecsKnown
    <2>4. LocalStep(p, "built", s, mine[p], answer[p])
      BY <1>0, <1>2, <2>2 DEF construct, Goto, LocalStep, Locals
    <2>5. "built" \in Pc /\ ShapeNext("built", s, mine[p], answer[p])
      BY <2>3 DEF Pc, ShapeNext, Holding, Calling
    <2> QED
      BY <1>0, <1>1, <2>4, <2>5, Mover, ZenonT(100)
  <1>3. ASSUME NEW p \in Proc, reconcile_first(p) PROVE Locals'
    <2>1. "reconciled" \in Pc /\ ShapeNext("reconciled", snap[p], mine[p], answer[p])
      BY <1>1, <1>3, ZenonT(100) DEF reconcile_first, Pc, ShapeNext, Selecting, Holding, Calling
    <2> QED
      BY <1>0, <1>3, <2>1, GoOn DEF reconcile_first
  <1>4. ASSUME NEW p \in Proc, register_worker(p) PROVE Locals'
    <2>1. "registered" \in Pc /\ ShapeNext("registered", snap[p], mine[p], answer[p])
      BY <1>1, <1>4, ZenonT(100) DEF register_worker, Pc, ShapeNext, Selecting, Holding, Calling
    <2> QED
      BY <1>0, <1>4, <2>1, GoOn, ZenonT(100) DEF register_worker
  <1>5. ASSUME NEW p \in Proc, existing_assignment(p) PROVE Locals'
    <2>1. PICK r \in active_runs :
              /\ mine' = [mine EXCEPT ![p] = r]
              /\ answer' = [answer EXCEPT ![p] = runs[r].external_id]
      BY <1>5, ZenonT(100) DEF existing_assignment
    <2>2. r \in RunId /\ runs[r] # NULL /\ runs[r] \in RunRow
      BY DEF active_runs, Active, DispatchInv, IInv, TypeOK
    <2>3. PICK a \in ExtId \cup {NULL} : a = runs[r].external_id
      BY <2>2, ZenonT(100) DEF RunRow
    <2>4. LocalStep(p, "assigned", NULL, r, a)
      BY <1>5, <2>1, <2>3, ZenonT(100) DEF existing_assignment, Goto, LocalStep
    <2>5. "assigned" \in Pc /\ ShapeNext("assigned", NULL, r, a)
      BY <1>0, <2>2 DEF Pc, ShapeNext, Selecting, Holding, Calling, Lasting
    <2> QED
      BY <1>0, <2>2, <2>4, <2>5, Mover, ZenonT(100)
  <1>6. ASSUME NEW p \in Proc, NEW r \in RunId, claim_next(p, r) PROVE Locals'
    <2>0. ClaimStep(p, r)
      BY <1>6, ZenonT(100) DEF claim_next, ClaimStep
    <2>1. runs'[r] \in RunRow
      BY <2>0, ClaimedRow, ZenonT(100)
    <2>2. LocalStep(p, "claimed", NULL, r, answer[p])
      BY <1>0, <1>6 DEF claim_next, Goto, LocalStep, Locals
    <2>3. "claimed" \in Pc /\ ShapeNext("claimed", NULL, r, answer[p])
      BY <2>1, NullAssumption DEF Pc, ShapeNext, Selecting, Holding, Calling
    <2> QED
      BY <1>0, <1>1, <2>2, <2>3, Mover, ZenonT(100)
  <1>7. ASSUME NEW p \in Proc, write_envelope(p) PROVE Locals'
    <2>1. "assigned" \in Pc /\ ShapeNext("assigned", snap[p], mine[p], answer[p])
      BY <1>1, <1>7, ZenonT(100) DEF write_envelope, Pc, ShapeNext, Selecting, Holding, Calling
    <2> QED
      BY <1>0, <1>7, <2>1, GoOn, ZenonT(100) DEF write_envelope
  <1>8. ASSUME NEW p \in Proc,
               \/ no_eligible_task(p) \/ brief_gate_fails(p) \/ hand_over(p)
               \/ bind_answer(p) \/ mark_uncertain(p) \/ crash(p)
        PROVE  Locals'
    BY <1>0, <1>8, ExitKept, ZenonT(100) DEF no_eligible_task, brief_gate_fails, hand_over,
       bind_answer, mark_uncertain, crash
  <1>9. ASSUME NEW p \in Proc, prepare(p) PROVE Locals'
    <2>1. CASE Exit(p)
      BY <1>0, <2>1, ExitKept
    <2>2. CASE ~Exit(p)
      <3>1. /\ pc[p] = "assigned" /\ Active(mine[p]) /\ Goto(p, "prepared")
            /\ IF runs[mine[p]].external_id # NULL THEN UNCHANGED runVars
               ELSE prepare_dispatch(mine[p], Grabowski)
            /\ UNCHANGED <<snap, mine, answer>>
        BY <1>9, <2>2, ZenonT(100) DEF prepare
      <3>2. PICK r \in RunId : r = mine[p] /\ runs[r] # NULL
        BY <1>1, <3>1, ZenonT(100) DEF ProcShape, Holding, Calling
      <3>3. runs \in [RunId -> RunRow \cup {NULL}] /\ RowOf(r)
        BY DEF DispatchInv, IInv, TypeOK, Rows
      <3>4. runs'[r].external_system = Grabowski
        <4>1. CASE runs[r].external_id # NULL
          BY <3>1, <3>2, <3>3, <4>1 DEF RowOf, runVars
        <4>2. CASE runs[r].external_id = NULL
          <5>1. prepare_dispatch(r, Grabowski)
            BY <3>1, <3>2, <4>2
          <5> QED
            BY ZenonT(100), <3>2, <3>3, <5>1 DEF prepare_dispatch, RunRow
        <4> QED
          BY <4>1, <4>2
      <3>5. "prepared" \in Pc /\ ShapeNext("prepared", snap[p], mine[p], answer[p])
        BY <1>0, <3>2, <3>4, ZenonT(100) DEF Pc, ShapeNext, Selecting, Holding, Calling, Lasting
      <3> QED
        BY <1>0, <3>1, <3>5, GoOn
    <2> QED
      BY <2>1, <2>2
  <1>10. ASSUME NEW p \in Proc, dispatch_call(p) PROVE Locals'
    <2>1. /\ pc[p] = "prepared" /\ UNCHANGED <<snap, mine>>
          /\ \/ \E x \in ExtId : /\ starts(mine[p], x)
                                 /\ answer' = [answer EXCEPT ![p] = x] /\ Goto(p, "answered")
             \/ answer' = answer /\ Goto(p, "failed-call")
      BY <1>10 DEF dispatch_call
    <2>2. /\ mine[p] \in RunId /\ runs'[mine[p]] # NULL
          /\ runs'[mine[p]].external_system = Grabowski
      BY <1>1, <2>1, ZenonT(100) DEF ShapeNext, Holding, Calling
    <2>3. CASE answer' = answer /\ Goto(p, "failed-call")
      <3>1. "failed-call" \in Pc /\ ShapeNext("failed-call", snap[p], mine[p], answer[p])
        BY <2>2, ZenonT(100) DEF Pc, ShapeNext, Selecting, Holding, Calling
      <3> QED
        BY <1>0, <2>1, <2>3, <3>1, GoOn, ZenonT(100)
    <2>4. ASSUME NEW x \in ExtId, starts(mine[p], x),
                 answer' = [answer EXCEPT ![p] = x], Goto(p, "answered")
          PROVE  Locals'
      <3>1. ext \in [ExtId -> Execution \cup {NULL}]
        BY DEF DispatchInv, DispatchTypeOK
      <3>2. [request |-> mine[p], state |-> "running"] # NULL
        <4>1. [request |-> mine[p], state |-> "running"] \in Execution
          BY <2>2 DEF Execution, ExtStatus
        <4> QED
          BY <4>1, DispatchNullAssumption
      <3>3. ext'[x] # NULL /\ ext'[x].request = mine[p]
        <4>1. CASE Dedupe /\ executions(mine[p]) # {}
          <5>1. x \in executions(mine[p]) /\ ext' = ext
            BY <2>4, <4>1, ZenonT(100) DEF starts
          <5> QED
            BY <5>1 DEF executions
        <4>2. CASE ~(Dedupe /\ executions(mine[p]) # {})
          <5>1. ext' = [ext EXCEPT ![x] = [request |-> mine[p], state |-> "running"]]
            BY <2>4, <4>2, ZenonT(100) DEF starts
          <5>2. ext'[x] = [request |-> mine[p], state |-> "running"]
            BY <3>1, <5>1
          <5> QED
            BY <3>2, <5>2
        <4> QED
          BY <4>1, <4>2
      <3>4. LocalStep(p, "answered", snap[p], mine[p], x)
        BY <1>0, <2>1, <2>4 DEF Goto, LocalStep, Locals
      <3>5. "answered" \in Pc /\ ShapeNext("answered", snap[p], mine[p], x)
        BY <2>2, <3>3, ZenonT(100) DEF Pc, ShapeNext, Selecting, Holding, Calling
      <3> QED
        BY <1>0, <1>1, <3>4, <3>5, Mover, ZenonT(100)
    <2> QED
      BY <2>1, <2>3, <2>4
  <1>11. ASSUME NEW p \in Proc, recover_call(p) PROVE Locals'
    <2>1. CASE Exit(p)
      BY <1>0, <2>1, ExitKept
    <2>2. ASSUME NEW x \in recover_answers(mine[p]), answer' = [answer EXCEPT ![p] = x],
                 Goto(p, IF x = NULL THEN "uncertain" ELSE "answered"),
                 UNCHANGED <<snap, mine>>
          PROVE  Locals'
      <3>1. /\ mine[p] \in RunId /\ runs'[mine[p]] # NULL
            /\ runs'[mine[p]].external_system = Grabowski
        BY <1>1, <1>11, ZenonT(100) DEF recover_call, ShapeNext, Holding, Calling
      <3>2. x = NULL \/ ExecutionOf(x, mine[p])
        BY <2>2, ZenonT(100) DEF recover_answers, executions, ExecutionOf
      <3>3. x = NULL \/ (x \in ExtId /\ ext'[x] # NULL /\ ext'[x].request = mine[p])
        BY <1>0, <3>2, ZenonT(100) DEF Lasting
      <3>4. PICK l \in Pc : /\ l = IF x = NULL THEN "uncertain" ELSE "answered"
                            /\ l \in {"uncertain", "answered"}
        BY DEF Pc
      <3>5. LocalStep(p, l, snap[p], mine[p], x)
        BY <1>0, <2>2, <3>4 DEF Goto, LocalStep, Locals
      <3>6. ShapeNext(l, snap[p], mine[p], x)
        BY <3>1, <3>3, <3>4, ZenonT(100) DEF ShapeNext, Selecting, Holding, Calling
      <3> QED
        BY <1>0, <1>1, <3>3, <3>5, <3>6, Mover, ZenonT(100)
    <2> QED
      BY <1>11, <2>1, <2>2, ZenonT(100) DEF recover_call
  <1>12. CASE UNCHANGED procVars
    BY <1>0, <1>12, NoMover
  <1>13. UNCHANGED allVars \/ UNCHANGED dispatchVars => UNCHANGED procVars
    BY DEF allVars, dispatchVars, procVars
  <1>14. CASE \/ UNCHANGED allVars
              \/ \E r \in RunId : request_arrives(r) \/ close_run(r) \/ operator_fails(r)
                                  \/ time_passes(r)
              \/ \E x \in ExtId : execution_ends(x)
              \/ \E t \in Task : revise_task(t)
              \/ revise_initiative \/ reconcile_command
    BY <1>12, <1>13, <1>14 DEF request_arrives, close_run, operator_fails, time_passes,
       execution_ends, revise_task, revise_initiative, reconcile_command
  <1> QED
    BY <1>2, <1>3, <1>4, <1>5, <1>6, <1>7, <1>8, <1>9, <1>10, <1>11, <1>14 DEF DispatchNext

\* The worker registry and the envelope files keep their types.
LEMMA FilesKept ==
    ASSUME DispatchInv, [DispatchNext]_allVars
    PROVE  workers' \in [Worker -> (SUBSET Caps) \cup {NULL}] /\ envelope' \subseteq RunId
  <1>0. workers \in [Worker -> (SUBSET Caps) \cup {NULL}] /\ envelope \subseteq RunId
    BY DEF DispatchInv, DispatchTypeOK
  <1>1. CASE \E p \in Proc : register_worker(p)
    BY <1>0, <1>1, DispatchAssumption, ZenonT(100) DEF register_worker
  <1>2. CASE \E p \in Proc : write_envelope(p)
    <2>1. PICK p \in Proc : write_envelope(p)
      BY <1>2
    <2>2. mine[p] \in RunId
      BY <2>1, ZenonT(100) DEF write_envelope, DispatchInv, Procs, ProcShape, Holding
    <2> QED
      BY <1>0, <2>1, <2>2 DEF write_envelope
  <1>3. ASSUME reconcile_any PROVE envelope' \subseteq RunId
    <2>1. envelope' = envelope \cup active_runs
      BY <1>3, ZenonT(100) DEF reconcile_any, reconcile_runs
    <2> QED
      BY <1>0, <2>1 DEF active_runs
  <1>4. CASE reconcile_command \/ \E p \in Proc : reconcile_first(p)
    <2>1. reconcile_any /\ workers' = workers
      BY <1>4 DEF reconcile_command, reconcile_first
    <2> QED
      BY <1>0, <1>3, <2>1
  <1>5. UNCHANGED allVars \/ UNCHANGED dispatchVars => UNCHANGED <<workers, envelope>>
    BY DEF allVars, dispatchVars
  <1>6. CASE UNCHANGED <<workers, envelope>>
    BY <1>0, <1>6
  <1>7. CASE \/ \E p \in Proc : construct(p) \/ existing_assignment(p) \/ no_eligible_task(p)
                                \/ brief_gate_fails(p) \/ hand_over(p) \/ prepare(p)
                                \/ dispatch_call(p) \/ recover_call(p) \/ bind_answer(p)
                                \/ mark_uncertain(p) \/ crash(p)
             \/ \E p \in Proc, r \in RunId : claim_next(p, r)
    <2>1. UNCHANGED <<workers, envelope>>
      BY <1>7, ZenonT(100) DEF construct, existing_assignment, claim_next, no_eligible_task,
         brief_gate_fails, hand_over, prepare, dispatch_call, recover_call, bind_answer,
         mark_uncertain, crash
    <2> QED
      BY <1>6, <2>1
  <1>8. CASE \/ UNCHANGED allVars
             \/ \E r \in RunId : request_arrives(r) \/ close_run(r) \/ operator_fails(r)
                                 \/ time_passes(r)
             \/ \E x \in ExtId : execution_ends(x)
             \/ \E t \in Task : revise_task(t)
             \/ revise_initiative
    BY <1>5, <1>6, <1>8 DEF request_arrives, close_run, operator_fails, time_passes,
       execution_ends, revise_task, revise_initiative
  <1> QED
    BY <1>1, <1>2, <1>4, <1>7, <1>8 DEF DispatchNext

\* Any set of runs is finite.
LEMMA RunsFinite ==
    ASSUME NEW S, S \subseteq RunId
    PROVE  IsFiniteSet(S) /\ Cardinality(S) \in Nat
  <1>1. IsFiniteSet(RunId)
    BY RunStoreAssumption, ZenonT(100)
  <1>2. S \in SUBSET RunId
    OBVIOUS
  <1>3. IsFiniteSet(S)
    BY <1>1, <1>2, FS_Subset, ZenonT(100)
  <1> QED
    BY <1>3, FS_CardinalityType, ZenonT(100)

\* A claim counts the active runs of every task the process knows, the tasks of
\* the scenario among them, so that the limit holds after it.
LEMMA LimitKept ==
    ASSUME DispatchInv, [DispatchNext]_allVars
    PROVE  ParallelLimit'
  <1> DEFINE Before == {r \in active_runs : runs[r].task \in scenario.tasks}
             After == {r \in RunId : Active(r)' /\ runs'[r].task \in scenario.tasks}
  <1>0. MaxActive \in Nat /\ Before \subseteq RunId /\ After \subseteq RunId
    BY AdapterNamed DEF active_runs
  <1>1. Cardinality(After) \in Nat /\ Cardinality(Before) \in Nat /\ IsFiniteSet(Before)
    BY <1>0, RunsFinite
  <1>2. Cardinality(Before) <= MaxActive
    BY DEF DispatchInv, ParallelLimit
  <1>3. SUFFICES Cardinality(After) <= MaxActive
    <2>1. scenario' = scenario
      BY StepLasts DEF Lasting
    <2>2. {r \in active_runs : runs[r].task \in scenario.tasks}' = After
      BY <2>1 DEF active_runs
    <2> HIDE DEF After
    <2> QED
      BY <1>3, <2>2 DEF ParallelLimit
  <1>4. BindingStep
    BY StepRefines, BindingPreserved DEF DispatchInv, IInv
  <1>5. CASE \/ UNCHANGED runVars
             \/ \E q \in RunId : RowStep(q)
             \/ \E q \in RunId, x \in ExtId : BindStep(q, x)
             \/ ReconcileStep
    <2>1. \A r \in RunId : Active(r)' => Active(r)
      BY <1>5, OnlyClaimsStart
    <2>2. After \subseteq Before
      BY <1>4, <2>1 DEF BindingStep, active_runs, Active
    <2> HIDE DEF After, Before
    <2>3. Cardinality(After) <= Cardinality(Before)
      BY <1>1, <2>2, FS_Subset
    <2> QED
      BY SMTT(60), <1>0, <1>1, <1>2, <2>3
  <1>6. CASE \E p \in Proc, r \in RunId : ClaimStep(p, r)
    <2>1. PICK p \in Proc, r \in RunId : ClaimStep(p, r)
      BY <1>6
    <2>2. PICK blocked \in BlockedSets :
              /\ eligible(p, runs'[r].task, blocked)
              /\ \A q \in RunId : q # r => runs'[q] = runs[q]
      BY <2>1, ClaimedRow, ZenonT(100)
    <2> DEFINE Seen == active_for_initiative(p)
    <2>3. Cardinality(Seen) < MaxActive
      BY <2>2, ZenonT(100) DEF eligible
    <2>4. scenario.tasks \subseteq Known(p)
      <3>1. /\ snap[p] \in Snapshot
            /\ \A t \in scenario.tasks : snap[p].spec[t] # NULL
        BY <2>1, ZenonT(100) DEF ClaimStep, DispatchInv, Procs, ProcShape, Selecting
      <3>2. scenario \in Scenarios
        BY DispatchAssumption, ZenonT(100) DEF DispatchInv, DispatchTypeOK
      <3> QED
        BY <3>1, <3>2 DEF Known, Scenarios
    <2>5. After \subseteq Seen \cup {r}
      BY <2>2, <2>4, ZenonT(100) DEF active_for_initiative, active_runs, Active
    <2>6. Seen \subseteq RunId
      BY DEF active_for_initiative, active_runs
    <2> HIDE DEF After, Seen
    <2>7. IsFiniteSet(Seen) /\ Cardinality(Seen) \in Nat
      BY <2>6, RunsFinite
    <2>8. /\ IsFiniteSet(Seen \cup {r})
          /\ Cardinality(Seen \cup {r}) = IF r \in Seen THEN Cardinality(Seen)
                                          ELSE Cardinality(Seen) + 1
      BY <2>7, FS_AddElement
    <2>9. Cardinality(After) <= Cardinality(Seen \cup {r})
      BY <2>5, <2>8, FS_Subset
    <2> QED
      BY SMTT(60), <1>0, <1>1, <2>3, <2>7, <2>8, <2>9
  <1> QED
    BY <1>5, <1>6, TableEffect, ZenonT(100)

-----------------------------------------------------------------------------

\* The initial state satisfies the invariant.
LEMMA DispatchStarts ==
    ASSUME DispatchInit
    PROVE  DispatchInv
  <1>1. IInv
    BY InitInv DEF DispatchInit
  <1>2. scenario \in Scenarios /\ scenario \in Scenario
    BY DispatchAssumption, ZenonT(100) DEF DispatchInit
  <1>3. spec \in [Task -> SpecRow \cup {NULL}] /\ SpecsKnown
    <2>1. PICK s \in Sha : spec = [t \in Task |->
              IF t \notin scenario.tasks THEN NULL
              ELSE [sha |-> s, state |-> IF t \in Bridge THEN "planned" ELSE "ready"]]
      BY ZenonT(100) DEF DispatchInit
    <2>2. \A t \in Task :
              [sha |-> s, state |-> IF t \in Bridge THEN "planned" ELSE "ready"] \in SpecRow
      BY DEF SpecRow, TaskState
    <2>3. scenario.tasks \subseteq Task
      BY <1>2 DEF Scenarios
    <2> QED
      BY <2>1, <2>2, <2>3, DispatchNullAssumption DEF SpecsKnown
  <1>4. DispatchTypeOK
    <2>1. scenario.edits \in Nat
      BY <1>2 DEF Scenarios
    <2>2. plan \in Plan /\ initiative \in InitiativeState /\ edits \in 0 .. scenario.edits
      BY SMTT(60), <2>1 DEF DispatchInit, InitiativeState
    <2>3. workers \in [Worker -> (SUBSET Caps) \cup {NULL}] /\ envelope \subseteq RunId
      BY DEF DispatchInit
    <2>4. ext \in [ExtId -> Execution \cup {NULL}] /\ flight \subseteq RunId
      BY DEF DispatchInit
    <2>5. pc \in [Proc -> Pc] /\ snap \in [Proc -> Snapshot \cup {NULL}]
      BY DEF DispatchInit, Pc
    <2>6. mine \in [Proc -> RunId \cup {NULL}] /\ answer \in [Proc -> ExtId \cup {NULL}]
      BY DEF DispatchInit
    <2> QED
      BY <1>2, <1>3, <2>2, <2>3, <2>4, <2>5, <2>6, ZenonT(100) DEF DispatchTypeOK, Pc
  <1>5. Procs
    BY DEF DispatchInit, Procs, ProcShape, Selecting, Holding, Calling
  <1>6. Rows /\ Executions
    BY DEF DispatchInit, Init, Rows, RowOf, Executions
  <1>7. ParallelLimit
    <2>1. {r \in active_runs : runs[r].task \in scenario.tasks} = {}
      BY ZenonT(100) DEF DispatchInit, Init, active_runs, Active
    <2>2. Cardinality({r \in active_runs : runs[r].task \in scenario.tasks}) = 0
      BY <2>1, FS_EmptySet, ZenonT(100)
    <2>3. 0 <= MaxActive
      BY AdapterNamed
    <2> QED
      BY <2>2, <2>3, ZenonT(100) DEF ParallelLimit
  <1> QED
    BY <1>1, <1>3, <1>4, <1>5, <1>6, <1>7 DEF DispatchInv

\* Every step keeps it.
LEMMA DispatchSteps ==
    ASSUME DispatchInv, [DispatchNext]_allVars
    PROVE  DispatchInv'
  <1>1. IInv'
    BY StepRefines, StepInv DEF DispatchInv
  <1>2. DispatchTypeOK' /\ SpecsKnown'
    <2>1. scenario \in Scenario /\ scenario' = scenario
      BY RegistryEffect DEF DispatchInv, DispatchTypeOK
    <2>2. SpecsKnown'
      BY StepLasts, ZenonT(100) DEF Lasting, SpecsKnown
    <2> QED
      BY <2>1, <2>2, RegistryEffect, ExecutorEffect, FilesKept, LocalsKept, ZenonT(100)
         DEF DispatchTypeOK, Locals, Pc
  <1>3. Procs'
    BY LocalsKept DEF Locals
  <1> QED
    BY <1>1, <1>2, <1>3, RowsKept, ExecutionsKept, LimitKept DEF DispatchInv

\* The inductive invariant holds in every reachable state.
THEOREM DispatchSafe == DispatchSpec => []DispatchInv
  <1>1. DispatchInit => DispatchInv
    BY DispatchStarts
  <1>2. DispatchInv /\ [DispatchNext]_allVars => DispatchInv'
    BY DispatchSteps
  <1> QED
    BY <1>1, <1>2, PTL DEF DispatchSpec

\* bind and recover only ever give a run an execution of its own request, for any
\* number of processes and executions.
THEOREM BindingsOwn == DispatchSpec => []BoundToOwnRequest
  <1>1. DispatchInv => BoundToOwnRequest
    BY DEF DispatchInv, BoundToOwnRequest, Rows, RowOf, ExecutionOf
  <1> QED
    BY <1>1, DispatchSafe, PTL

\* No execution is left behind an orphaned run: what the executor started was
\* prepared, and reconcile orphans only what was not.
THEOREM NoneOrphaned == DispatchSpec => []NoOrphanWhileExecuting
  <1>1. ASSUME DispatchInv PROVE NoOrphanWhileExecuting
    <2>1. SUFFICES ASSUME NEW x \in ExtId, ext[x] # NULL
                   PROVE  /\ runs[ext[x].request].external_system = Grabowski
                          /\ runs[ext[x].request].state # "orphaned"
      BY DEF NoOrphanWhileExecuting
    <2>2. Prepared(ext[x].request)
      BY <1>1, <2>1 DEF DispatchInv, Executions
    <2>3. Grabowski # NULL
      BY AdapterNamed
    <2> QED
      BY <1>1, <2>2, <2>3 DEF DispatchInv, Prepared, Rows, RowOf
  <1> QED
    BY <1>1, DispatchSafe, PTL

\* The processes take only the steps the run tables allow.
THEOREM DispatchRefinesRunStore == DispatchSpec => ImplementsRunStore
  <1>1. DispatchInit => Init
    BY ZenonT(100) DEF DispatchInit
  <1>2. DispatchInv /\ [DispatchNext]_allVars => [Next]_runVars
    BY StepRefines
  <1> QED
    BY <1>1, <1>2, DispatchSafe, PTL DEF DispatchSpec, ImplementsRunStore, Spec

-----------------------------------------------------------------------------

\* With a current snapshot, the overlay says verified only of what is verified at
\* the current revision and plan.
LEMMA OverlayCurrent ==
    ASSUME NEW p \in Proc, snap[p] = [spec |-> spec, plan |-> plan], NEW d \in Task
    PROVE  /\ snap[p].spec = spec
           /\ overlay(p, d) = "verified" => VerifiedNow(d)
           /\ overlay(p, d) \in TERMINAL_TASK_STATES =>
                  spec[d].state \in TERMINAL_TASK_STATES \/ VerifiedNow(d)
  <1>1. snap[p].spec = spec /\ snap[p].plan = plan
    <2>1. /\ [spec |-> spec, plan |-> plan].spec = spec
          /\ [spec |-> spec, plan |-> plan].plan = plan
      BY SMT
    <2> QED
      BY <2>1, ZenonT(100)
  <1>2. CASE spec[d].state \in TERMINAL_TASK_STATES \/ status[d] = NULL
    <2>1. overlay(p, d) = spec[d].state
      BY <1>1, <1>2, ZenonT(100) DEF overlay
    <2> QED
      BY <1>1, <2>1, ZenonT(100) DEF VerifiedNow, TERMINAL_TASK_STATES
  <1>3. CASE ~(spec[d].state \in TERMINAL_TASK_STATES \/ status[d] = NULL)
    <2>1. overlay(p, d) = IF /\ status[d].task_sha256 = spec[d].sha
                             /\ status[d].plan_sha256 = plan
                             /\ receipts[status[d].receipt].verified_task_sha256 = spec[d].sha
                          THEN "verified" ELSE "stale"
      BY <1>1, <1>3, ZenonT(100) DEF overlay
    <2>2. "stale" \notin TERMINAL_TASK_STATES
      BY DEF TERMINAL_TASK_STATES
    <2> QED
      BY <1>1, <1>3, <2>1, <2>2, ZenonT(100) DEF VerifiedNow
  <1> QED
    BY <1>1, <1>2, <1>3, ZenonT(100)

\* A run that appears while p goes from registered to claimed is p's own claim.
LEMMA ClaimIsOwn ==
    ASSUME DispatchInv, [DispatchNext]_allVars, NEW p \in Proc, NEW r \in RunId,
           Claimed(r), pc[p] = "registered", pc'[p] = "claimed"
    PROVE  ClaimStep(p, r)
  <1>1. ~ \/ UNCHANGED runVars
          \/ \E q \in RunId : RowStep(q)
          \/ \E q \in RunId, x \in ExtId : BindStep(q, x)
          \/ ReconcileStep
    BY OnlyClaimsStart, ZenonT(100) DEF Claimed
  <1>2. PICK q \in Proc, u \in RunId : ClaimStep(q, u) /\ claim_next(q, u)
    BY <1>1, TableEffect, ZenonT(100)
  <1>3. u = r
    BY <1>2, ClaimedRow, ZenonT(100) DEF Claimed
  <1>4. pc' = [pc EXCEPT ![q] = "claimed"] /\ pc \in [Proc -> Pc]
    BY <1>2, LocalsNow, ZenonT(100) DEF claim_next, Goto, Locals
  <1>5. p = q
    BY <1>4
  <1> QED
    BY <1>2, <1>3, <1>5, ZenonT(100)

\* A claim made with a current snapshot waits for dependencies and children.
LEMMA ClaimWaits ==
    ASSUME DispatchInv, [DispatchNext]_allVars
    PROVE  FreshEvidenceStep /\ ParentWaitsStep
  <1>1. ASSUME NEW p \in Proc, NEW r \in RunId, Claimed(r), pc[p] = "registered",
               pc'[p] = "claimed", snap[p] = [spec |-> spec, plan |-> plan]
        PROVE  /\ \A d \in Deps[runs'[r].task] : VerifiedNow(d)
               /\ runs'[r].task \notin Independent =>
                      \A c \in Children[runs'[r].task] : spec[c] # NULL =>
                          (spec[c].state \in TERMINAL_TASK_STATES \/ VerifiedNow(c))
    <2>1. ClaimStep(p, r)
      BY <1>1, ClaimIsOwn, ZenonT(100)
    <2>2. PICK t \in Task, blocked \in BlockedSets :
              t = runs'[r].task /\ eligible(p, t, blocked)
      BY <2>1, ClaimedRow, ZenonT(100) DEF Known
    <2>3. Deps[t] \subseteq Task /\ Children[t] \subseteq Task
      BY DispatchAssumption
    <2>4. /\ \A d \in Deps[t] : overlay(p, d) = "verified"
          /\ t \in Independent \/ \A c \in Children[t] : child_terminal(p, c)
      BY <2>2, ZenonT(100) DEF eligible
    <2>5. \A d \in Deps[t] : VerifiedNow(d)
      BY <1>1, <2>3, <2>4, OverlayCurrent, ZenonT(100)
    <2>6. ASSUME NEW c \in Children[t], t \notin Independent, spec[c] # NULL
          PROVE  spec[c].state \in TERMINAL_TASK_STATES \/ VerifiedNow(c)
      <3>1. c \in Task /\ child_terminal(p, c)
        BY <2>3, <2>4, <2>6
      <3>2. snap[p].spec = spec
        BY <1>1, <3>1, OverlayCurrent, ZenonT(100)
      <3>3. c \in Known(p)
        BY <2>6, <3>1, <3>2, ZenonT(100) DEF Known
      <3>4. overlay(p, c) \in TERMINAL_TASK_STATES
        BY <3>1, <3>3 DEF child_terminal
      <3> QED
        BY <1>1, <3>1, <3>4, OverlayCurrent, ZenonT(100)
    <2> QED
      BY <2>2, <2>5, <2>6, ZenonT(100)
  <1>2. FreshEvidenceStep
    BY <1>1, ZenonT(100) DEF FreshEvidenceStep
  <1>3. ParentWaitsStep
    BY <1>1 DEF ParentWaitsStep
  <1> QED
    BY <1>2, <1>3

\* No claim made with a current snapshot runs ahead of its dependencies or its
\* children, and no claim at all exceeds the parallel limit.
THEOREM ClaimsWait == DispatchSpec => ClaimsUnlocked
  <1>1. DispatchInv /\ [DispatchNext]_allVars =>
            [FreshEvidenceStep /\ ParentWaitsStep /\ ParallelLimit']_allVars
    BY ClaimWaits, LimitKept
  <1> QED
    BY <1>1, DispatchSafe, PTL DEF DispatchSpec, ClaimsUnlocked
=============================================================================
