--------------------------- MODULE RunStoreProofs ---------------------------
(***************************************************************************)
(* Machine-checked proofs about RunStore, for every set of tasks, workers, *)
(* runs, resources and revisions: what its tables hold, the log of a run,  *)
(* and what no transaction undoes.                                         *)
(***************************************************************************)
EXTENDS RunStore, TLAPS, FiniteSetTheorems

\* Time for each leaf: the provers are given more than their default.
USE ZenonT(60), SMTT(60)

\* Whether two claims exclude each other does not depend on which of them was
\* there first (overlaps and modes_conflict).
LEMMA ExcludesSymmetric ==
    ASSUME NEW c, NEW d, excludes(c, d)
    PROVE  excludes(d, c)
  <1>1. overlaps(c.resource, d.resource) => overlaps(d.resource, c.resource)
    BY DEF overlaps
  <1>2. modes_conflict(c.mode, d.mode) => modes_conflict(d.mode, c.mode)
    <2>1. {c.mode, d.mode} = {d.mode, c.mode}
      OBVIOUS
    <2> QED
      BY <2>1 DEF modes_conflict
  <1> QED
    BY <1>1, <1>2 DEF excludes

\* The attempt number claim computes is a natural number.
LEMMA AttemptType ==
    ASSUME NEW t \in Task
    PROVE  next_attempt(t) \in Nat
  <1>1. IsFiniteSet({r \in RunId : runs[r] # NULL /\ runs[r].task = t})
    BY RunStoreAssumption, FS_Subset
  <1>2. Cardinality({r \in RunId : runs[r] # NULL /\ runs[r].task = t}) \in Nat
    BY <1>1, FS_CardinalityType
  <1> QED
    BY <1>2 DEF next_attempt

\* One pass of the loop of reconcile over a row keeps its identity and its
\* baseline, and never replaces an external identity; a new one is what recover
\* answered.
LEMMA ReconcileRow ==
    ASSUME NEW row \in RunRow, NEW x \in ExtId \cup {NULL}, NEW o \in Observation
    PROVE  LET after == reconcile_row(row, x, o)
           IN  /\ after \in RunRow
               /\ after.task = row.task /\ after.worker = row.worker
               /\ after.attempt = row.attempt
               /\ after.task_sha256 = row.task_sha256
               /\ after.plan_sha256 = row.plan_sha256
               /\ after.external_system = row.external_system
               /\ row.external_id # NULL => after.external_id = row.external_id
               /\ after.external_id \in {row.external_id, x}
               /\ row.state \in ACTIVE_STATES => after.state # "succeeded"
               /\ row.state \in ACTIVE_STATES /\ after.state = "orphaned"
                     => row.external_system = NULL
  <1> DEFINE Same(a, b) ==
        /\ b \in RunRow
        /\ b.task = a.task /\ b.worker = a.worker /\ b.attempt = a.attempt
        /\ b.task_sha256 = a.task_sha256 /\ b.plan_sha256 = a.plan_sha256
        /\ b.external_system = a.external_system
        /\ a.external_id # NULL => b.external_id = a.external_id
  <1>1. \A a \in RunRow : /\ Same(a, observe(a, o)) /\ observe(a, o).external_id = a.external_id
                          /\ a.state \in ACTIVE_STATES =>
                                observe(a, o).state \notin {"succeeded", "orphaned"}
    <2> TAKE a \in RunRow
    <2>1. CASE o = "unobserved"
      BY <2>1 DEF observe, ACTIVE_STATES
    <2>2. CASE o = "running"
      BY ZenonT(100), <2>2 DEF RunRow, observe, ExternalState, ACTIVE_STATES
    <2>3. CASE o = "succeeded"
      BY ZenonT(100), <2>3 DEF RunRow, observe, ExternalState, ACTIVE_STATES
    <2>4. CASE o = "cancelled"
      BY ZenonT(100), <2>4 DEF RunRow, observe, ExternalState, TERMINAL_STATES
    <2>5. CASE o \in {"failed", "interrupted", "missing"}
      <3>1. observe(a, o) = [a EXCEPT !.state = "failed", !.external_state = o,
                                      !.error = "other"]
        BY <2>5 DEF observe
      <3>2. o \in ExternalState
        BY <2>5 DEF ExternalState
      <3> QED
        BY ZenonT(100), <3>1, <3>2 DEF RunRow, TERMINAL_STATES
    <2> QED
      BY <2>1, <2>2, <2>3, <2>4, <2>5 DEF Observation
  <1>2. row.external_id = NULL /\ x # NULL =>
            /\ Same(row, recovered(row, x)) /\ recovered(row, x).state = "running"
            /\ recovered(row, x).external_id = x
    BY ZenonT(100) DEF RunRow, recovered, ExternalState, ACTIVE_STATES, TERMINAL_STATES
  <1>3. CASE row.external_system = NULL
    <2>1. CASE row.fresh
      BY <1>3, <2>1 DEF reconcile_row, ACTIVE_STATES
    <2>2. CASE ~row.fresh
      <3>1. reconcile_row(row, x, o) =
                [row EXCEPT !.state = "orphaned", !.error = STALE_WORKER]
        BY <1>3, <2>2 DEF reconcile_row
      <3> QED
        BY ZenonT(100), <1>3, <3>1 DEF RunRow, TERMINAL_STATES
    <2> QED
      BY <2>1, <2>2
  <1>4. CASE row.external_system # NULL /\ row.external_id # NULL
    BY <1>1, <1>4 DEF reconcile_row
  <1>5. CASE row.external_system # NULL /\ row.external_id = NULL /\ x = NULL
    BY <1>5 DEF reconcile_row, ACTIVE_STATES
  <1>6. CASE row.external_system # NULL /\ row.external_id = NULL /\ x # NULL
    <2>1. /\ Same(row, recovered(row, x)) /\ recovered(row, x).state \in ACTIVE_STATES
          /\ recovered(row, x).external_id = x
      BY <1>2, <1>6 DEF ACTIVE_STATES
    <2>2. /\ Same(recovered(row, x), observe(recovered(row, x), o))
          /\ observe(recovered(row, x), o).external_id = x
          /\ observe(recovered(row, x), o).state \notin {"succeeded", "orphaned"}
      BY <1>1, <2>1
    <2> QED
      BY <1>6, <2>1, <2>2 DEF reconcile_row
  <1> QED
    BY <1>3, <1>4, <1>5, <1>6

-----------------------------------------------------------------------------

\* The inductive invariant: the table invariants, which support one another
\* (a claim keeps reservations compatible only because the reservations it
\* does not see, those of inactive runs, are empty).
IInv ==
    /\ TypeOK
    /\ OneActiveRun
    /\ ReservationsOnlyActive
    /\ ReservationsCompatible
    /\ ReceiptBindsRun
    /\ VerifiedByReceipt

\* The empty tables satisfy the invariant.
LEMMA InitInv ==
    ASSUME Init
    PROVE  IInv
  <1> USE DEF Init
  <1>1. TypeOK
    BY DEF TypeOK
  <1>2. \A r \in RunId : ~Active(r)
    BY DEF Active
  <1>3. OneActiveRun
    BY <1>2 DEF OneActiveRun, active_runs
  <1>4. ReservationsOnlyActive /\ ReservationsCompatible
    BY DEF ReservationsOnlyActive, ReservationsCompatible
  <1>5. ReceiptBindsRun /\ VerifiedByReceipt
    BY DEF ReceiptBindsRun, VerifiedByReceipt
  <1> QED
    BY <1>1, <1>3, <1>4, <1>5 DEF IInv

\* A step that changes one row of an active run, keeps it active and keeps its
\* identity and baseline.
RowUpdate(r, row) ==
    /\ Active(r)
    /\ row \in RunRow
    /\ row.state \in ACTIVE_STATES
    /\ row.task = runs[r].task /\ row.worker = runs[r].worker
    /\ row.task_sha256 = runs[r].task_sha256
    /\ row.plan_sha256 = runs[r].plan_sha256
    /\ runs' = [runs EXCEPT ![r] = row]
    /\ UNCHANGED <<resv, status, receipts, life>>

\* Such a step keeps the invariant.
LEMMA RowUpdateInv ==
    ASSUME IInv, NEW r \in RunId, NEW row, RowUpdate(r, row)
    PROVE  IInv'
  <1> USE DEF IInv, RowUpdate
  <1>1. TypeOK'
    BY DEF TypeOK
  <1>2. \A q \in RunId : /\ Active(q)' <=> Active(q)
                         /\ runs[q] # NULL <=> runs'[q] # NULL
                         /\ runs[q] # NULL =>
                              /\ runs'[q].task = runs[q].task
                              /\ runs'[q].worker = runs[q].worker
                              /\ runs'[q].task_sha256 = runs[q].task_sha256
                              /\ runs'[q].plan_sha256 = runs[q].plan_sha256
    BY NullAssumption DEF TypeOK, Active
  <1>3. OneActiveRun'
    BY SMTT(60), <1>2 DEF OneActiveRun, active_runs, Active
  <1>4. ReservationsOnlyActive'
    BY <1>2 DEF ReservationsOnlyActive
  <1>5. ReservationsCompatible'
    BY DEF ReservationsCompatible
  <1>6. \A q \in RunId : (runs[q] # NULL /\ runs[q].state = "succeeded")
                          <=> (runs'[q] # NULL /\ runs'[q].state = "succeeded")
    BY <1>2 DEF TypeOK, Active, ACTIVE_STATES
  <1>7. ReceiptBindsRun'
    BY SMTT(60), <1>2, <1>6 DEF ReceiptBindsRun
  <1>8. VerifiedByReceipt'
    BY DEF VerifiedByReceipt
  <1> QED
    BY <1>1, <1>3, <1>4, <1>5, <1>7, <1>8

\* The transactions that touch one row and keep it active: bind,
\* prepare_dispatch, mark_dispatch_uncertain, heartbeat and the passing of time.
LEMMA RowActions ==
    ASSUME TypeOK, NEW r \in RunId,
           \/ \E y \in System, x \in ExtId : bind(r, y, x)
           \/ \E y \in System : prepare_dispatch(r, y)
           \/ mark_dispatch_uncertain(r)
           \/ heartbeat(r)
           \/ heartbeat_lapses(r)
    PROVE  RowUpdate(r, runs'[r])
  <1>1. Active(r) /\ runs[r] \in RunRow /\ runs[r].state \in ACTIVE_STATES
    BY ZenonT(100) DEF TypeOK, Active, bind, prepare_dispatch, mark_dispatch_uncertain, heartbeat,
           heartbeat_lapses
  <1> USE <1>1 DEF RowUpdate, TypeOK
  <1>2. ASSUME NEW y \in System, NEW x \in ExtId, bind(r, y, x)
        PROVE  RowUpdate(r, runs'[r])
    <2>1. runs'[r] = [runs[r] EXCEPT !.external_system = y, !.external_id = x,
                          !.external_state = "running", !.state = "running", !.fresh = TRUE]
      BY ZenonT(100), <1>2 DEF bind
    <2>2. runs'[r] \in RunRow
      BY ZenonT(100), <2>1 DEF RunRow, ExternalState, ACTIVE_STATES
    <2>3. runs' = [runs EXCEPT ![r] = runs'[r]]
      BY ZenonT(100), <1>2 DEF bind
    <2>4. /\ runs'[r].state \in ACTIVE_STATES
          /\ runs'[r].task = runs[r].task /\ runs'[r].worker = runs[r].worker
          /\ runs'[r].task_sha256 = runs[r].task_sha256
          /\ runs'[r].plan_sha256 = runs[r].plan_sha256
      BY <2>1 DEF RunRow, ACTIVE_STATES
    <2> QED
      BY ZenonT(100), <1>2, <2>2, <2>3, <2>4 DEF bind
  <1>3. ASSUME NEW y \in System, prepare_dispatch(r, y)
        PROVE  RowUpdate(r, runs'[r])
    <2>1. runs'[r] = [runs[r] EXCEPT !.external_system = y, !.external_state = "dispatching"]
      BY ZenonT(100), <1>3 DEF prepare_dispatch
    <2>2. runs'[r] \in RunRow
      BY ZenonT(100), <2>1 DEF RunRow, ExternalState
    <2> QED
      BY ZenonT(100), <1>3, <2>1, <2>2 DEF prepare_dispatch, RunRow
  <1>4. ASSUME mark_dispatch_uncertain(r)
        PROVE  RowUpdate(r, runs'[r])
    <2>1. runs'[r] = [runs[r] EXCEPT !.external_state = "dispatch-uncertain",
                                     !.error = "other"]
      BY <1>4 DEF mark_dispatch_uncertain
    <2>2. runs'[r] \in RunRow
      BY ZenonT(100), <2>1 DEF RunRow, ExternalState
    <2> QED
      BY <1>4, <2>1, <2>2 DEF mark_dispatch_uncertain, RunRow
  <1>5. ASSUME heartbeat(r) \/ heartbeat_lapses(r)
        PROVE  RowUpdate(r, runs'[r])
    <2>1. PICK b \in BOOLEAN : runs' = [runs EXCEPT ![r] = [runs[r] EXCEPT !.fresh = b]]
      BY ZenonT(100), <1>5 DEF heartbeat, heartbeat_lapses
    <2>2. runs'[r] \in RunRow
      BY ZenonT(100), <2>1 DEF RunRow
    <2>3. runs' = [runs EXCEPT ![r] = runs'[r]]
      BY <2>1
    <2>4. /\ runs'[r].state = runs[r].state
          /\ runs'[r].task = runs[r].task /\ runs'[r].worker = runs[r].worker
          /\ runs'[r].task_sha256 = runs[r].task_sha256
          /\ runs'[r].plan_sha256 = runs[r].plan_sha256
      <3>1. runs'[r] = [runs[r] EXCEPT !.fresh = b]
        BY <2>1
      <3> QED
        BY <3>1 DEF RunRow
    <2> QED
      BY <1>5, <2>2, <2>3, <2>4 DEF heartbeat, heartbeat_lapses
  <1> QED
    BY <1>2, <1>3, <1>4, <1>5

-----------------------------------------------------------------------------

\* A claim keeps the invariant: the new run is the only active one of its task
\* and worker, and its claims were compared with everything that is held.
LEMMA ClaimInv ==
    ASSUME IInv,
           NEW r \in RunId, NEW t \in Task, NEW w \in Worker, NEW s \in Sha, NEW p \in Plan,
           NEW k \in BOOLEAN, claim(r, t, w, s, p, k)
    PROVE  IInv'
  <1> USE DEF IInv
  <1>1. /\ runs'[r].task = t /\ runs'[r].worker = w /\ runs'[r].state = "assigned"
        /\ runs'[r] \in RunRow
        /\ \A q \in RunId \ {r} : runs'[q] = runs[q]
    BY ZenonT(100), AttemptType DEF claim, TypeOK, RunRow, ACTIVE_STATES
  <1>2. Claims[t, s] \subseteq ClaimType
    BY RunStoreAssumption
  <1>3. TypeOK'
    <2>1. runs' \in [RunId -> RunRow \cup {NULL}]
      BY ZenonT(100), <1>1 DEF claim, TypeOK
    <2> QED
      BY <1>2, <2>1 DEF claim, TypeOK
  <1>4. /\ Active(r)' /\ ~Active(r)
        /\ \A q \in RunId \ {r} : Active(q)' <=> Active(q)
    BY <1>1, NullAssumption DEF Active, claim, ACTIVE_STATES
  <1>5. OneActiveRun'
    <2>1. \A q \in RunId : Active(q) => runs[q].task # t /\ runs[q].worker # w
      BY DEF claim, WorkerBusy, TaskBusy, active_runs
    <2> QED
      BY <1>1, <1>4, <2>1 DEF OneActiveRun, active_runs
  <1>6. ReservationsOnlyActive'
    BY <1>4 DEF ReservationsOnlyActive, claim, TypeOK
  <1>7. ReservationsCompatible'
    <2>1. ASSUME NEW q \in RunId \ {r}, NEW c \in Claims[t, s], NEW d \in resv[q]
          PROVE  ~excludes(c, d)
      <3>1. Active(q)
        BY DEF ReservationsOnlyActive
      <3>2. q \in DOMAIN reservations(NULL) /\ reservations(NULL)[q] = resv[q]
        BY <3>1, RunStoreAssumption DEF reservations, active_runs
      <3> QED
        BY <3>2 DEF claim, claims_conflict, claim_conflicts
    <2>2. resv'[r] = Claims[t, s] /\ \A q \in RunId \ {r} : resv'[q] = resv[q]
      BY DEF claim, TypeOK
    <2>3. ASSUME NEW p1 \in RunId, NEW p2 \in RunId, p1 # p2, NEW c \in resv'[p1], NEW d \in resv'[p2]
          PROVE  ~excludes(c, d)
      <3>1. CASE p1 = r
        BY <2>1, <2>2, <2>3, <3>1
      <3>2. CASE p2 = r
        <4>1. p1 \in RunId \ {r} /\ d \in Claims[t, s] /\ c \in resv[p1]
          BY <2>2, <2>3, <3>2
        <4> QED
          BY <2>1, <4>1, ExcludesSymmetric
      <3>3. CASE p1 # r /\ p2 # r
        BY <2>2, <2>3, <3>3 DEF ReservationsCompatible
      <3> QED
        BY <3>1, <3>2, <3>3
    <2> QED
      BY <2>3 DEF ReservationsCompatible
  <1>8. ReceiptBindsRun'
    <2>1. receipts[r] = NULL
      BY DEF claim, ReceiptBindsRun
    <2>2. receipts' = receipts /\ life' = life
      BY DEF claim
    <2> QED
      BY ZenonT(100), <1>1, <2>1, <2>2, NullAssumption DEF ReceiptBindsRun
  <1>9. VerifiedByReceipt'
    BY DEF claim, VerifiedByReceipt
  <1> QED
    BY <1>3, <1>5, <1>6, <1>7, <1>8, <1>9

\* Expanding a claim keeps the invariant: the new reservation was compared
\* with those of every other run.
LEMMA ExpandInv ==
    ASSUME IInv, NEW r \in RunId, NEW c \in ClaimType, expand_claim(r, c)
    PROVE  IInv'
  <1> USE DEF IInv
  <1> DEFINE row == [runs[r] EXCEPT !.error = "other"]
  <1>1. /\ row \in RunRow /\ row.task = runs[r].task /\ row.worker = runs[r].worker
        /\ row.task_sha256 = runs[r].task_sha256 /\ row.plan_sha256 = runs[r].plan_sha256
        /\ row.state = runs[r].state /\ row.state \in ACTIVE_STATES
    BY ZenonT(100) DEF expand_claim, TypeOK, RunRow, Active
  <1>2. runs' = [runs EXCEPT ![r] = row]
    BY DEF expand_claim
  <1> HIDE DEF row
  <1>3. TypeOK'
    BY ZenonT(100), <1>1, <1>2 DEF expand_claim, TypeOK
  <1>4. \A q \in RunId : /\ Active(q)' <=> Active(q)
                         /\ runs[q] # NULL <=> runs'[q] # NULL
                         /\ runs[q] # NULL =>
                              /\ runs'[q].task = runs[q].task
                              /\ runs'[q].worker = runs[q].worker
                              /\ runs'[q].task_sha256 = runs[q].task_sha256
                              /\ runs'[q].plan_sha256 = runs[q].plan_sha256
                              /\ runs'[q].state = runs[q].state
    BY ZenonT(100), <1>1, <1>2, NullAssumption DEF expand_claim, TypeOK, Active
  <1>5. OneActiveRun'
    BY SMTT(60), <1>4 DEF OneActiveRun, active_runs, Active
  <1>6. /\ resv'[r] = resv[r] \cup {c} /\ Active(r)
        /\ \A q \in RunId \ {r} : resv'[q] = resv[q]
    BY DEF expand_claim, TypeOK
  <1>7. ReservationsOnlyActive'
    BY <1>4, <1>6 DEF ReservationsOnlyActive
  <1>8. ReservationsCompatible'
    <2>1. ASSUME NEW q \in RunId \ {r}, NEW d \in resv[q]
          PROVE  ~excludes(c, d)
      <3>1. Active(q)
        BY DEF ReservationsOnlyActive
      <3>2. q \in DOMAIN reservations(r) /\ reservations(r)[q] = resv[q]
        BY <3>1 DEF reservations, active_runs
      <3> QED
        BY <3>2 DEF expand_claim, claim_conflicts
    <2> QED
      BY <1>6, <2>1, ExcludesSymmetric DEF ReservationsCompatible
  <1>9. receipts' = receipts /\ life' = life /\ status' = status
    BY DEF expand_claim
  <1>10. ReceiptBindsRun' /\ VerifiedByReceipt'
    BY SMTT(60), <1>4, <1>9 DEF ReceiptBindsRun, VerifiedByReceipt
  <1> QED
    BY <1>3, <1>5, <1>7, <1>8, <1>10

\* A failing run releases what it holds.
LEMMA FailInv ==
    ASSUME IInv, NEW r \in RunId, NEW z \in {"failed", "cancelled", "orphaned"},
           fail_run(r, z)
    PROVE  IInv'
  <1> USE DEF IInv
  <1> DEFINE row == [runs[r] EXCEPT !.state = z, !.error = "other"]
  <1>1. /\ row \in RunRow /\ row.state = z
        /\ runs[r].state \in ACTIVE_STATES /\ runs[r] # NULL
    BY ZenonT(100) DEF fail_run, TypeOK, RunRow, Active, TERMINAL_STATES
  <1>2. runs' = [runs EXCEPT ![r] = row]
    BY DEF fail_run
  <1> HIDE DEF row
  <1>3. TypeOK'
    BY <1>1, <1>2 DEF fail_run, TypeOK
  <1>4. ~Active(r)' /\ \A q \in RunId \ {r} : runs'[q] = runs[q] /\ (Active(q)' <=> Active(q))
    BY <1>1, <1>2 DEF TypeOK, Active, ACTIVE_STATES
  <1>5. OneActiveRun'
    BY <1>4 DEF OneActiveRun, active_runs
  <1>6. resv'[r] = {} /\ \A q \in RunId \ {r} : resv'[q] = resv[q]
    BY DEF fail_run, TypeOK
  <1>7. ReservationsOnlyActive' /\ ReservationsCompatible'
    BY <1>4, <1>6 DEF ReservationsOnlyActive, ReservationsCompatible
  <1>8. receipts' = receipts /\ life' = life /\ status' = status
    BY DEF fail_run
  <1>9. receipts[r] = NULL
    BY <1>1 DEF ReceiptBindsRun, ACTIVE_STATES
  <1>10. runs'[r].state # "succeeded"
    BY <1>1, <1>2 DEF TypeOK
  <1>11. ReceiptBindsRun' /\ VerifiedByReceipt'
    BY SMTT(60), <1>4, <1>8, <1>9, <1>10 DEF ReceiptBindsRun, VerifiedByReceipt
  <1> QED
    BY <1>3, <1>5, <1>7, <1>11

\* A reconciliation, whatever the adapters answer for each active run, only
\* lets runs leave the active states, and releases exactly those.
LEMMA ReconcileInv ==
    ASSUME IInv, NEW found \in [active_runs -> ExtId \cup {NULL}],
           NEW seen \in [active_runs -> Observation], reconcile(found, seen)
    PROVE  IInv'
  <1> USE DEF IInv
  <1> DEFINE after(r) == reconcile_row(runs[r], found[r], seen[r])
  <1>1. \A r \in RunId : runs'[r] = IF Active(r) THEN after(r) ELSE runs[r]
    BY DEF reconcile, active_runs
  <1>2. \A r \in RunId : Active(r) => runs[r] \in RunRow /\ runs[r].state \in ACTIVE_STATES
    BY DEF Active, TypeOK
  <1>3. ASSUME NEW r \in RunId, Active(r)
        PROVE  /\ after(r) \in RunRow
               /\ after(r).task = runs[r].task /\ after(r).worker = runs[r].worker
               /\ after(r).state # "succeeded"
    <2>1. /\ runs[r] \in RunRow /\ runs[r].state \in ACTIVE_STATES
          /\ found[r] \in ExtId \cup {NULL} /\ seen[r] \in Observation
      BY <1>2, <1>3 DEF active_runs
    <2> HIDE DEF IInv
    <2> QED
      BY ZenonT(100), <2>1, ReconcileRow
  <1> HIDE DEF after
  <1>4. \A r \in RunId : Active(r)' => Active(r)
    BY <1>1 DEF Active
  <1>5. \A r \in RunId : resv'[r] = {} \/ resv'[r] = resv[r]
    BY DEF reconcile
  <1>6. TypeOK'
    <2>1. runs' \in [RunId -> RunRow \cup {NULL}]
      BY SMTT(60), <1>1, <1>3 DEF reconcile, TypeOK
    <2>2. resv' \in [RunId -> SUBSET ClaimType]
      BY DEF reconcile, TypeOK
    <2>3. life' \in [RunId -> Seq(LifeEvent)]
      <3>1. \A r \in RunId : Append(life[r], "run-orphaned") \in Seq(LifeEvent)
        BY SMTT(60) DEF TypeOK, LifeEvent
      <3> QED
        BY <3>1 DEF reconcile, TypeOK
    <2> QED
      BY ZenonT(100), <2>1, <2>2, <2>3 DEF reconcile, TypeOK
  <1>7. OneActiveRun'
    BY SMTT(60), <1>1, <1>3, <1>4 DEF OneActiveRun, active_runs
  <1>8. ReservationsOnlyActive'
    <2>1. ASSUME NEW r \in RunId, ~Active(r)' PROVE resv'[r] = {}
      <3>1. CASE ~Active(r)
        BY <1>5, <3>1 DEF ReservationsOnlyActive
      <3>2. CASE Active(r)
        <4>1. after(r) # NULL /\ after(r).state \in TERMINAL_STATES
          BY ZenonT(100), <1>1, <1>3, <2>1, <3>2, NullAssumption DEF Active, RunRow
        <4> QED
          BY <3>2, <4>1 DEF reconcile, active_runs, after
      <3> QED
        BY <3>1, <3>2
    <2> QED
      BY <2>1 DEF ReservationsOnlyActive
  <1>9. ReservationsCompatible'
    BY <1>5 DEF ReservationsCompatible
  <1>10. receipts' = receipts /\ status' = status
    BY DEF reconcile
  <1>11. \A r \in RunId : Active(r) => receipts[r] = NULL
    BY <1>2 DEF ReceiptBindsRun, ACTIVE_STATES
  <1>12. ReceiptBindsRun'
    <2>1. ASSUME NEW r \in RunId, ~Active(r) PROVE life'[r] = life[r] /\ runs'[r] = runs[r]
      BY <1>1, <2>1 DEF reconcile, active_runs
    <2>2. ASSUME NEW r \in RunId, Active(r)
          PROVE \A i \in DOMAIN life'[r] : life'[r][i] # "run-completed"
      <3>1. life'[r] = life[r] \/ life'[r] = Append(life[r], "run-orphaned")
        BY DEF reconcile
      <3>2. \A i \in DOMAIN life[r] : life[r][i] # "run-completed"
        BY <1>11, <2>2 DEF ReceiptBindsRun
      <3>3. life[r] \in Seq(LifeEvent)
        BY DEF TypeOK
      <3> QED
        BY <3>1, <3>2, <3>3
    <2>3. \A r \in RunId : (runs[r] # NULL /\ runs[r].state = "succeeded")
                             <=> (runs'[r] # NULL /\ runs'[r].state = "succeeded")
      BY <1>1, <1>2, <1>3 DEF ACTIVE_STATES
    <2> QED
      BY SMTT(60), <1>10, <1>11, <2>1, <2>2, <2>3 DEF ReceiptBindsRun
  <1>13. VerifiedByReceipt'
    BY <1>10 DEF VerifiedByReceipt
  <1> QED
    BY <1>6, <1>7, <1>8, <1>9, <1>12, <1>13

\* Resuming an orphan is a claim on its old row.
LEMMA ResumeInv ==
    ASSUME IInv, NEW r \in RunId, resume_orphaned_run(r)
    PROVE  IInv'
  <1> USE DEF IInv
  <1> DEFINE row == [runs[r] EXCEPT !.state = "assigned", !.error = NULL, !.fresh = TRUE]
             claims == Claims[runs[r].task, runs[r].task_sha256]
  <1>1. /\ row \in RunRow /\ row.task = runs[r].task /\ row.worker = runs[r].worker
        /\ row.state = "assigned"
        /\ runs[r].state = "orphaned" /\ runs[r] # NULL /\ runs[r] \in RunRow
    <2>1. runs[r].state = "orphaned" /\ runs[r] # NULL /\ runs[r] \in RunRow
      BY DEF resume_orphaned_run, TypeOK
    <2> QED
      BY ZenonT(100), <2>1 DEF RunRow, ACTIVE_STATES
  <1>2. runs' = [runs EXCEPT ![r] = row]
    BY DEF resume_orphaned_run
  <1>3. claims \subseteq ClaimType
    BY <1>1, RunStoreAssumption DEF RunRow
  <1>4. ~claims_conflict(claims, NULL) /\ resv' = [resv EXCEPT ![r] = claims]
    BY DEF resume_orphaned_run
  <1> HIDE DEF row, claims
  <1>5. life'[r] = Append(life[r], "run-orphan-resumed")
        /\ life' \in [RunId -> Seq(LifeEvent)]
        /\ \A q \in RunId \ {r} : life'[q] = life[q]
    <2>1. Append(life[r], "run-orphan-resumed") \in Seq(LifeEvent)
      BY SMTT(60) DEF TypeOK, LifeEvent
    <2> QED
      BY <2>1 DEF resume_orphaned_run, record, TypeOK
  <1>6. receipts' = receipts /\ status' = status
    BY DEF resume_orphaned_run
  <1>7. TypeOK'
    BY ZenonT(100), <1>1, <1>2, <1>3, <1>4, <1>5, <1>6 DEF TypeOK
  <1>8. /\ Active(r)' /\ ~Active(r)
        /\ \A q \in RunId \ {r} : runs'[q] = runs[q] /\ (Active(q)' <=> Active(q))
        /\ runs'[r] = row
    BY <1>1, <1>2, NullAssumption DEF TypeOK, Active, ACTIVE_STATES
  <1>9. OneActiveRun'
    <2>1. \A q \in RunId : Active(q) => runs[q].task # runs[r].task
                                         /\ runs[q].worker # runs[r].worker
      BY DEF resume_orphaned_run, WorkerBusy, TaskBusy, active_runs
    <2> QED
      BY SMTT(60), <1>1, <1>8, <2>1 DEF OneActiveRun, active_runs
  <1>10. ReservationsOnlyActive'
    BY <1>4, <1>8 DEF ReservationsOnlyActive, TypeOK
  <1>11. ReservationsCompatible'
    <2>1. ASSUME NEW q \in RunId \ {r}, NEW c \in claims, NEW d \in resv[q]
          PROVE  ~excludes(c, d)
      <3>1. Active(q)
        BY DEF ReservationsOnlyActive
      <3>2. q \in DOMAIN reservations(NULL) /\ reservations(NULL)[q] = resv[q]
        BY <3>1, RunStoreAssumption DEF reservations, active_runs
      <3> QED
        BY <1>4, <3>2 DEF claims_conflict, claim_conflicts
    <2>2. resv'[r] = claims /\ \A q \in RunId \ {r} : resv'[q] = resv[q]
      BY <1>4 DEF TypeOK
    <2> QED
      BY ZenonT(100), <2>1, <2>2, ExcludesSymmetric DEF ReservationsCompatible
  <1>12. ReceiptBindsRun'
    <2>1. receipts[r] = NULL
      BY <1>1 DEF ReceiptBindsRun
    <2>2. \A i \in DOMAIN life'[r] : life'[r][i] # "run-completed"
      <3>1. \A i \in DOMAIN life[r] : life[r][i] # "run-completed"
        BY <2>1 DEF ReceiptBindsRun
      <3>2. life[r] \in Seq(LifeEvent)
        BY DEF TypeOK
      <3> QED
        BY <1>5, <3>1, <3>2
    <2>3. runs'[r].state # "succeeded"
      BY <1>1, <1>8
    <2> QED
      BY SMTT(60), <1>5, <1>6, <1>8, <2>1, <2>2, <2>3 DEF ReceiptBindsRun
  <1>13. VerifiedByReceipt'
    BY <1>6 DEF VerifiedByReceipt
  <1> QED
    BY <1>7, <1>9, <1>10, <1>11, <1>12, <1>13

\* What both closes share: the run leaves its state for succeeded, gets its
\* first receipt and holds nothing afterwards.
LEMMA CloseInv ==
    ASSUME IInv, NEW r \in RunId, NEW v \in Sha, NEW row \in RunRow,
           runs[r] # NULL, receipts[r] = NULL, runs[r].state # "succeeded",
           row.state = "succeeded", row.task = runs[r].task,
           row.task_sha256 = runs[r].task_sha256, row.plan_sha256 = runs[r].plan_sha256,
           runs' = [runs EXCEPT ![r] = row], resv' = [resv EXCEPT ![r] = {}],
           write_receipt(r, v)
    PROVE  IInv'
  <1> USE DEF IInv
  <1> DEFINE rec == [task |-> runs[r].task, task_sha256 |-> runs[r].task_sha256,
                     plan_sha256 |-> runs[r].plan_sha256, verified_task_sha256 |-> v]
             t == runs[r].task
  <1>1. runs[r] \in RunRow /\ t \in Task /\ rec \in Receipt
    BY DEF TypeOK, RunRow, Receipt
  <1>2. /\ receipts' = [receipts EXCEPT ![r] = rec]
        /\ status' = [status EXCEPT ![t] = [task_sha256 |-> v,
                          plan_sha256 |-> runs[r].plan_sha256, receipt |-> r]]
        /\ life' = [life EXCEPT ![r] = Append(life[r], "run-completed")]
    BY DEF write_receipt, record
  <1>3. /\ rec.task = t /\ rec.task_sha256 = runs[r].task_sha256
        /\ rec.plan_sha256 = runs[r].plan_sha256 /\ rec.verified_task_sha256 = v
    OBVIOUS
  <1> HIDE DEF rec
  <1>4. TypeOK'
    <2>1. Append(life[r], "run-completed") \in Seq(LifeEvent)
      BY SMTT(60) DEF TypeOK, LifeEvent
    <2>2. life' \in [RunId -> Seq(LifeEvent)]
      BY <1>2, <2>1 DEF TypeOK
    <2>3. status' \in [Task -> StatusRow \cup {NULL}]
      BY <1>1, <1>2 DEF TypeOK, StatusRow, RunRow
    <2>4. receipts' \in [RunId -> Receipt \cup {NULL}]
      BY <1>1, <1>2 DEF TypeOK
    <2> QED
      BY ZenonT(100), <2>2, <2>3, <2>4 DEF TypeOK
  <1>5. /\ ~Active(r)' /\ runs'[r] = row
        /\ \A q \in RunId \ {r} : runs'[q] = runs[q] /\ (Active(q)' <=> Active(q))
    BY DEF TypeOK, Active, ACTIVE_STATES
  <1>6. OneActiveRun'
    BY SMTT(60), <1>5 DEF OneActiveRun, active_runs
  <1>7. resv'[r] = {} /\ \A q \in RunId \ {r} : resv'[q] = resv[q]
    BY DEF TypeOK
  <1>8. ReservationsOnlyActive' /\ ReservationsCompatible'
    BY <1>5, <1>7 DEF ReservationsOnlyActive, ReservationsCompatible
  <1>9. receipts'[r] = rec /\ rec # NULL /\ row # NULL
        /\ \A q \in RunId \ {r} : receipts'[q] = receipts[q]
    BY <1>1, <1>2, NullAssumption DEF TypeOK
  <1>10. ReceiptBindsRun'
    <2>1. life[r] \in Seq(LifeEvent) /\ life'[r] = Append(life[r], "run-completed")
          /\ \A q \in RunId \ {r} : life'[q] = life[q]
      BY <1>2 DEF TypeOK
    <2>2. \A i \in DOMAIN life[r] : life[r][i] # "run-completed"
      BY DEF ReceiptBindsRun
    <2>3. \A i \in DOMAIN life'[r] : life'[r][i] = "run-completed" => i = Len(life'[r])
      BY SMTT(60), <2>1, <2>2
    <2>4. ASSUME NEW q \in RunId, q # r
          PROVE  receipts'[q] = receipts[q] /\ runs'[q] = runs[q] /\ life'[q] = life[q]
      BY <1>5, <1>9, <2>1, <2>4
    <2>5. receipts'[r] # NULL /\ runs'[r] # NULL /\ runs'[r].state = "succeeded"
      BY <1>5, <1>9
    <2>6. /\ receipts'[r].task = runs'[r].task
          /\ receipts'[r].task_sha256 = runs'[r].task_sha256
          /\ receipts'[r].plan_sha256 = runs'[r].plan_sha256
      BY <1>3, <1>5, <1>9
    <2> QED
      BY SMTT(60), <2>3, <2>4, <2>5, <2>6 DEF ReceiptBindsRun
  <1>11. VerifiedByReceipt'
    <2>1. ASSUME NEW u \in Task, u # t, status[u] # NULL
          PROVE  status'[u] = status[u] /\ receipts'[status[u].receipt] = receipts[status[u].receipt]
      <3>1. status[u].receipt # r /\ status[u].receipt \in RunId
        BY <2>1 DEF VerifiedByReceipt, TypeOK, StatusRow
      <3> QED
        BY <1>2, <1>9, <2>1, <3>1 DEF TypeOK
    <2>2. /\ status'[t].receipt = r /\ status'[t].task_sha256 = v
          /\ status'[t].plan_sha256 = runs[r].plan_sha256
      BY <1>1, <1>2 DEF TypeOK
    <2>3. \A u \in Task : u # t => status'[u] = status[u]
      BY <1>1, <1>2 DEF TypeOK
    <2> HIDE DEF t
    <2> QED
      BY SMTT(60), <1>1, <1>3, <1>9, <2>1, <2>2, <2>3 DEF VerifiedByReceipt
  <1> QED
    BY <1>4, <1>6, <1>8, <1>10, <1>11

\* The close of an active run keeps the invariant.
LEMMA CompleteInv ==
    ASSUME IInv, NEW r \in RunId, complete(r)
    PROVE  IInv'
  <1> DEFINE row == [runs[r] EXCEPT !.state = "succeeded"]
  <1>1. runs[r] \in RunRow /\ runs[r] # NULL /\ runs[r].state # "succeeded"
    BY SMTT(60) DEF IInv, TypeOK, complete, Active, ACTIVE_STATES
  <1>2. /\ row \in RunRow /\ row.state = "succeeded" /\ row.task = runs[r].task
        /\ row.task_sha256 = runs[r].task_sha256 /\ row.plan_sha256 = runs[r].plan_sha256
        /\ runs[r].task_sha256 \in Sha
    BY <1>1 DEF RunRow, TERMINAL_STATES
  <1>3. runs' = [runs EXCEPT ![r] = row]
    BY DEF complete
  <1> HIDE DEF row
  <1> QED
    BY ZenonT(100), <1>1, <1>2, <1>3, CloseInv DEF complete

\* The close of a historical orphan keeps the invariant.
LEMMA HistoricalInv ==
    ASSUME IInv, NEW r \in RunId, NEW v \in Sha, complete_historical(r, v)
    PROVE  IInv'
  <1> DEFINE row == [runs[r] EXCEPT !.state = "succeeded", !.error = NULL]
  <1>1. runs[r] \in RunRow /\ runs[r] # NULL /\ runs[r].state # "succeeded" /\ resv[r] = {}
    BY DEF IInv, TypeOK, complete_historical, HistoricallyClosable
  <1>2. /\ row \in RunRow /\ row.state = "succeeded" /\ row.task = runs[r].task
        /\ row.task_sha256 = runs[r].task_sha256 /\ row.plan_sha256 = runs[r].plan_sha256
    BY ZenonT(100), <1>1 DEF RunRow, TERMINAL_STATES
  <1>3. runs' = [runs EXCEPT ![r] = row]
    BY DEF complete_historical
  <1>4. resv' = [resv EXCEPT ![r] = {}]
    BY <1>1 DEF complete_historical, IInv, TypeOK
  <1> HIDE DEF row
  <1> QED
    BY ZenonT(100), <1>1, <1>2, <1>3, <1>4, CloseInv DEF complete_historical

\* Every transaction keeps the invariant.
LEMMA StepInv ==
    ASSUME IInv, [Next]_runVars
    PROVE  IInv'
  <1>1. CASE UNCHANGED runVars
    <2>1. TypeOK' /\ OneActiveRun'
      BY <1>1 DEF runVars, IInv, TypeOK, OneActiveRun, active_runs, Active
    <2>2. ReservationsOnlyActive' /\ ReservationsCompatible'
      BY <1>1 DEF runVars, IInv, Active, ReservationsOnlyActive, ReservationsCompatible
    <2>3. ReceiptBindsRun' /\ VerifiedByReceipt'
      BY <1>1 DEF runVars, IInv, ReceiptBindsRun, VerifiedByReceipt
    <2> QED
      BY <2>1, <2>2, <2>3 DEF IInv
  <1>2. CASE \E r \in RunId, t \in Task, w \in Worker, s \in Sha, p \in Plan,
                k \in ClaimKinds : claim(r, t, w, s, p, k)
    <2>1. \A k \in ClaimKinds : k \in BOOLEAN
      BY RunStoreAssumption
    <2>2. PICK r \in RunId, t \in Task, w \in Worker, s \in Sha, p \in Plan, k \in ClaimKinds :
              claim(r, t, w, s, p, k)
      BY <1>2
    <2>3. k \in BOOLEAN
      BY <2>1
    <2> QED
      BY <2>2, <2>3, ClaimInv
  <1>3. CASE \E r \in RunId : \/ \E y \in System, x \in ExtId : bind(r, y, x)
                              \/ \E y \in System : prepare_dispatch(r, y)
                              \/ mark_dispatch_uncertain(r)
                              \/ heartbeat(r)
                              \/ heartbeat_lapses(r)
    BY <1>3, RowActions, RowUpdateInv DEF IInv
  <1>4. CASE \E r \in RunId, c \in Expansions : expand_claim(r, c)
    BY <1>4, ExpandInv, RunStoreAssumption
  <1>5. CASE \E r \in RunId, z \in {"failed", "cancelled", "orphaned"} : fail_run(r, z)
    BY <1>5, FailInv
  <1>6. CASE Reconcile
    BY <1>6, ReconcileInv DEF Reconcile
  <1>7. CASE \E r \in RunId : resume_orphaned_run(r)
    BY <1>7, ResumeInv
  <1>8. CASE \E r \in RunId : complete(r)
    BY <1>8, CompleteInv
  <1>9. CASE \E r \in RunId, s \in Sha : complete_historical(r, s)
    BY <1>9, HistoricalInv
  <1> QED
    BY <1>1, <1>2, <1>3, <1>4, <1>5, <1>6, <1>7, <1>8, <1>9 DEF Next

-----------------------------------------------------------------------------

\* The table invariants hold in every reachable state.
THEOREM TablesSafe == Spec => []IInv
  <1>1. Init => IInv
    BY InitInv
  <1>2. IInv /\ [Next]_runVars => IInv'
    BY StepInv
  <1> QED
    BY <1>1, <1>2, PTL DEF Spec

\* Every row the transactions write is well formed.
THEOREM TypeCorrect == Spec => []TypeOK
  <1>1. IInv => TypeOK
    BY DEF IInv
  <1> QED
    BY <1>1, TablesSafe, PTL

\* Two active runs never share a task or a worker: the partial unique indexes
\* of the StateStore never have to reject a claim or a resume.
THEOREM MutualExclusion == Spec => []OneActiveRun
  <1>1. IInv => OneActiveRun
    BY DEF IInv
  <1> QED
    BY <1>1, TablesSafe, PTL

\* Incompatible reservations never coexist, for every resource tree and every
\* set of claims, and no path out of the active states leaks a reservation.
THEOREM ReservationsSafe == Spec => []ReservationsSound
  <1>1. IInv => ReservationsSound
    BY DEF IInv, ReservationsSound
  <1> QED
    BY <1>1, TablesSafe, PTL

\* A receipt verifies exactly one run, with its own digests, and a verified
\* overlay always rests on such a receipt.
THEOREM EvidenceSound == Spec => []EvidenceBinds
  <1>1. IInv => EvidenceBinds
    BY DEF IInv, EvidenceBinds
  <1> QED
    BY <1>1, TablesSafe, PTL

-----------------------------------------------------------------------------

\* Appending an event to an alternating history keeps it alternating when the
\* event fits the length.
LEMMA AppendAlternates ==
    ASSUME NEW h \in Seq(LifeEvent), NEW e \in LifeEvent, Alternates(h),
           e # "run-completed" => (e = "run-orphaned" <=> Len(h) % 2 = 0)
    PROVE  /\ Alternates(Append(h, e))
           /\ Len(h) % 2 = 0 => Len(Append(h, e)) % 2 = 1
           /\ Len(h) % 2 = 1 => Len(Append(h, e)) % 2 = 0
  <1> USE DEF Alternates
  <1>1. \A n \in Nat : (n % 2 = 0 => (n + 1) % 2 = 1) /\ (n % 2 = 1 => (n + 1) % 2 = 0)
    OBVIOUS
  <1>2. \A n \in Nat : n % 2 = 0 \/ n % 2 = 1
    OBVIOUS
  <1>3. Len(h) \in Nat /\ Len(Append(h, e)) = Len(h) + 1
    OBVIOUS
  <1>4. ASSUME NEW i \in DOMAIN Append(h, e)
        PROVE  Append(h, e)[i] # "run-completed" =>
                   (Append(h, e)[i] = "run-orphaned" <=> i % 2 = 1)
    <2>1. CASE i = Len(h) + 1
      BY SMTT(60), <1>1, <1>2, <1>3, <2>1
    <2>2. CASE i # Len(h) + 1
      <3>1. i \in DOMAIN h /\ Append(h, e)[i] = h[i]
        BY SMTT(60), <2>2
      <3> QED
        BY <3>1
    <2> QED
      BY <2>1, <2>2
  <1> QED
    BY <1>1, <1>3, <1>4

\* A run whose row and events a step leaves alone keeps its history.
LEMMA HistoryFrame ==
    ASSUME NEW q \in RunId, runs'[q] = runs[q], life'[q] = life[q], HistoryOf(q)
    PROVE  HistoryOf(q)'
  BY ZenonT(100) DEF HistoryOf, Active, StaleOrphan, Alternates

\* Every transaction keeps the orphan history alternating.
LEMMA HistoryStep ==
    ASSUME IInv, OrphanHistory, [Next]_runVars
    PROVE  OrphanHistory'
  <1>0. \A r \in RunId : life[r] \in Seq(LifeEvent) /\ HistoryOf(r)
    BY DEF IInv, TypeOK, OrphanHistory
  <1>1. CASE UNCHANGED runVars
    BY <1>0, <1>1, HistoryFrame DEF runVars, OrphanHistory
  <1>2. CASE \E r \in RunId, t \in Task, w \in Worker, s \in Sha, p \in Plan,
                k \in ClaimKinds : claim(r, t, w, s, p, k)
    <2>1. PICK r \in RunId, t \in Task, w \in Worker, s \in Sha, p \in Plan, k \in ClaimKinds :
              claim(r, t, w, s, p, k)
      BY <1>2
    <2>2. /\ \A q \in RunId : q # r => runs'[q] = runs[q]
          /\ runs[r] = NULL /\ life' = life
      BY <2>1 DEF claim, IInv, TypeOK
    <2> HIDE DEF IInv
    <2>8. runs'[r].state = "assigned"
      <3>1. runs \in [RunId -> RunRow \cup {NULL}]
        BY DEF IInv, TypeOK
      <3> QED
        BY <2>1, <3>1 DEF claim
    <2>3. life'[r] = <<>> /\ Alternates(life'[r]) /\ Len(life'[r]) % 2 = 0
      <3>1. life'[r] = <<>> /\ Alternates(life'[r])
        BY ZenonT(100), <1>0, <2>2 DEF HistoryOf
      <3>2. Len(<<>>) = 0 /\ 0 % 2 = 0
        OBVIOUS
      <3> QED
        BY <3>1, <3>2
    <2>4. HistoryOf(r)'
      BY <2>2, <2>8, <2>3, NullAssumption DEF HistoryOf, StaleOrphan
    <2> QED
      BY <1>0, <2>2, <2>4, HistoryFrame DEF OrphanHistory
  <1>3. CASE \E r \in RunId : \/ \E y \in System, x \in ExtId : bind(r, y, x)
                              \/ \E y \in System : prepare_dispatch(r, y)
                              \/ mark_dispatch_uncertain(r)
                              \/ heartbeat(r)
                              \/ heartbeat_lapses(r)
    <2>1. PICK r \in RunId : RowUpdate(r, runs'[r])
      BY <1>3, RowActions DEF IInv
    <2>2. \A q \in RunId : q # r => runs'[q] = runs[q]
      BY <2>1 DEF RowUpdate, IInv, TypeOK
    <2>3. Active(r) /\ ~StaleOrphan(r)' /\ life' = life /\ runs'[r] # NULL
      BY <2>1, NullAssumption DEF RowUpdate, StaleOrphan, ACTIVE_STATES
    <2>4. HistoryOf(r)'
      BY ZenonT(100), <1>0, <2>3 DEF HistoryOf
    <2> QED
      BY <1>0, <2>2, <2>3, <2>4, HistoryFrame DEF OrphanHistory
  <1>4. CASE \E r \in RunId, c \in Expansions : expand_claim(r, c)
    <2>1. PICK r \in RunId : /\ Active(r) /\ life' = life
                             /\ runs' = [runs EXCEPT ![r].error = "other"]
      BY ZenonT(100), <1>4 DEF expand_claim
    <2>2. /\ \A q \in RunId : q # r => runs'[q] = runs[q]
          /\ runs'[r] = [runs[r] EXCEPT !.error = "other"]
          /\ runs[r] \in RunRow
      BY <2>1 DEF IInv, TypeOK, Active
    <2>3. runs'[r].error = "other" /\ runs'[r] \in RunRow /\ runs'[r] # NULL
      BY ZenonT(100), <2>2, NullAssumption DEF RunRow
    <2>4. ~StaleOrphan(r)'
      BY <2>3 DEF StaleOrphan, STALE_WORKER
    <2>5. HistoryOf(r)'
      BY ZenonT(100), <1>0, <2>1, <2>3, <2>4 DEF HistoryOf
    <2> QED
      BY <1>0, <2>1, <2>2, <2>5, HistoryFrame DEF OrphanHistory
  <1>5. CASE \E r \in RunId, z \in {"failed", "cancelled", "orphaned"} : fail_run(r, z)
    <2>1. PICK r \in RunId, z \in {"failed", "cancelled", "orphaned"} : fail_run(r, z)
      BY <1>5
    <2>2. /\ life' = life /\ \A q \in RunId : q # r => runs'[q] = runs[q]
          /\ runs'[r] = [runs[r] EXCEPT !.state = z, !.error = "other"]
          /\ runs[r] \in RunRow
      BY <2>1 DEF fail_run, IInv, TypeOK, Active
    <2>3. runs'[r].error = "other" /\ runs'[r].state = z
      BY <2>2 DEF RunRow
    <2>4. runs'[r] \in RunRow
      BY ZenonT(100), <2>2 DEF RunRow, TERMINAL_STATES
    <2>5. ~StaleOrphan(r)' /\ ~Active(r)' /\ runs'[r] # NULL
      BY <2>3, <2>4, NullAssumption DEF StaleOrphan, STALE_WORKER, Active, ACTIVE_STATES
    <2>6. HistoryOf(r)'
      BY ZenonT(100), <1>0, <2>2, <2>5 DEF HistoryOf
    <2> QED
      BY <1>0, <2>2, <2>6, HistoryFrame DEF OrphanHistory
  <1>6. CASE Reconcile
    <2>1. PICK found \in [active_runs -> ExtId \cup {NULL}],
               seen \in [active_runs -> Observation] : reconcile(found, seen)
      BY <1>6 DEF Reconcile
    <2>2. SUFFICES ASSUME NEW r \in RunId PROVE HistoryOf(r)'
      BY DEF OrphanHistory
    <2>3. CASE ~Active(r)
      BY ZenonT(100), <1>0, <2>1, <2>3, HistoryFrame DEF reconcile, active_runs
    <2>4. CASE Active(r)
      <3>1. /\ runs[r] \in RunRow /\ runs[r].state \in ACTIVE_STATES
            /\ found[r] \in ExtId \cup {NULL} /\ seen[r] \in Observation
            /\ runs'[r] = reconcile_row(runs[r], found[r], seen[r])
        BY <2>1, <2>4 DEF IInv, TypeOK, Active, active_runs, reconcile
      <3> DEFINE after == reconcile_row(runs[r], found[r], seen[r])
      <3>2. /\ after \in RunRow
            /\ after.external_system = runs[r].external_system
            /\ after.state = "orphaned" => runs[r].external_system = NULL
        BY ZenonT(100), <3>1, ReconcileRow
      <3>3. after # NULL
        BY <3>2, NullAssumption
      <3>4. Len(life[r]) % 2 = 0 /\ Alternates(life[r]) /\ life[r] \in Seq(LifeEvent)
        BY ZenonT(100), <1>0, <2>4 DEF HistoryOf
      <3>5. CASE after.state = "orphaned"
        <4>1. life'[r] = Append(life[r], "run-orphaned")
          BY <2>1, <2>4, <3>5 DEF reconcile, active_runs
        <4>2. Alternates(life'[r]) /\ Len(life'[r]) % 2 = 1
          BY ZenonT(100), <3>4, <4>1, AppendAlternates DEF LifeEvent
        <4> HIDE DEF after
        <4> QED
          BY ZenonT(100), <3>1, <3>2, <3>3, <3>5, <4>2 DEF HistoryOf, Active, ACTIVE_STATES, after
      <3>6. CASE after.state # "orphaned"
        <4>1. life'[r] = life[r]
          BY <2>1, <2>4, <3>6 DEF reconcile, active_runs
        <4> QED
          BY ZenonT(100), <3>1, <3>3, <3>4, <3>6, <4>1 DEF HistoryOf, StaleOrphan
      <3> QED
        BY <3>5, <3>6
    <2> QED
      BY <2>3, <2>4
  <1>7. CASE \E r \in RunId : resume_orphaned_run(r)
    <2>1. PICK r \in RunId : resume_orphaned_run(r)
      BY <1>7
    <2>2. StaleOrphan(r) /\ runs[r] \in RunRow
      BY <2>1 DEF resume_orphaned_run, IInv, TypeOK, StaleOrphan
    <2>3. /\ life'[r] = Append(life[r], "run-orphan-resumed")
          /\ \A q \in RunId : q # r => life'[q] = life[q]
      BY <2>1 DEF resume_orphaned_run, record, IInv, TypeOK
    <2>4. /\ \A q \in RunId : q # r => runs'[q] = runs[q]
          /\ runs'[r] = [runs[r] EXCEPT !.state = "assigned", !.error = NULL, !.fresh = TRUE]
      BY <2>1 DEF resume_orphaned_run, IInv, TypeOK
    <2>5. runs'[r].state = "assigned" /\ runs'[r] \in RunRow
      BY ZenonT(100), <2>2, <2>4 DEF RunRow, ACTIVE_STATES
    <2>6. Alternates(life'[r]) /\ Len(life'[r]) % 2 = 0
      <3>1. Alternates(life[r]) /\ Len(life[r]) % 2 = 1 /\ life[r] \in Seq(LifeEvent)
        BY ZenonT(100), <1>0, <2>2 DEF HistoryOf
      <3>2. "run-orphan-resumed" \in LifeEvent
        BY DEF LifeEvent
      <3>3. Len(life[r]) % 2 # 0
        <4>1. \A n : n = 1 => n # 0
          OBVIOUS
        <4> QED
          BY <3>1, <4>1, Zenon
      <3>4. "run-orphan-resumed" # "run-orphaned"
        OBVIOUS
      <3>5. /\ Alternates(Append(life[r], "run-orphan-resumed"))
            /\ Len(life[r]) % 2 = 1 => Len(Append(life[r], "run-orphan-resumed")) % 2 = 0
        BY ZenonT(100), <3>1, <3>2, <3>3, <3>4, AppendAlternates
      <3> QED
        BY ZenonT(100), <2>3, <3>1, <3>5
    <2>7. HistoryOf(r)'
      BY ZenonT(100), <2>5, <2>6, NullAssumption DEF HistoryOf, StaleOrphan
    <2> QED
      BY <1>0, <2>3, <2>4, <2>7, HistoryFrame DEF OrphanHistory
  <1>8. CASE \/ \E r \in RunId : complete(r)
             \/ \E r \in RunId, v \in Sha : complete_historical(r, v)
    <2>1. PICK r \in RunId : complete(r) \/ \E v \in Sha : complete_historical(r, v)
      BY <1>8
    <2>2. runs[r] \in RunRow
      BY <2>1 DEF complete, complete_historical, HistoricallyClosable, Active, IInv, TypeOK
    <2>3. /\ life'[r] = Append(life[r], "run-completed")
          /\ \A q \in RunId : q # r => life'[q] = life[q]
      BY ZenonT(100), <2>1 DEF complete, complete_historical, write_receipt, record, IInv, TypeOK
    <2>4. /\ \/ runs'[r] = [runs[r] EXCEPT !.state = "succeeded"]
             \/ runs'[r] = [runs[r] EXCEPT !.state = "succeeded", !.error = NULL]
          /\ \A q \in RunId : q # r => runs'[q] = runs[q]
      BY ZenonT(100), <2>1 DEF complete, complete_historical, IInv, TypeOK
    <2>5. runs'[r].state = "succeeded" /\ runs'[r] \in RunRow
      BY ZenonT(100), <2>2, <2>4 DEF RunRow, TERMINAL_STATES
    <2>6. Alternates(life'[r])
      <3>1. Alternates(life[r]) /\ life[r] \in Seq(LifeEvent)
        BY ZenonT(100), <1>0 DEF HistoryOf
      <3> QED
        BY <2>3, <3>1, AppendAlternates DEF LifeEvent
    <2>7. HistoryOf(r)'
      BY <2>5, <2>6, NullAssumption DEF HistoryOf, StaleOrphan, Active, ACTIVE_STATES
    <2> QED
      BY <1>0, <2>3, <2>4, <2>7, HistoryFrame DEF OrphanHistory
  <1> QED
    BY <1>1, <1>2, <1>3, <1>4, <1>5, <1>6, <1>7, <1>8 DEF Next

\* An active run has been resumed as often as it was orphaned, and a run that
\* reconcile orphaned never had an executor.
THEOREM HistoryAlternates == Spec => []OrphanHistory
  <1>1. Init => OrphanHistory
    BY SMTT(60) DEF Init, OrphanHistory, HistoryOf, Active, StaleOrphan, Alternates
  <1>2. IInv /\ OrphanHistory /\ [Next]_runVars => OrphanHistory'
    BY HistoryStep
  <1> QED
    BY <1>1, <1>2, TablesSafe, PTL DEF Spec

-----------------------------------------------------------------------------

\* The row of the run a transaction works on, before and after.  A step that
\* leaves all other rows alone satisfies the row properties when this row does.
BindingOf(a, b) ==
    /\ b.task = a.task /\ b.worker = a.worker /\ b.attempt = a.attempt
    /\ b.task_sha256 = a.task_sha256 /\ b.plan_sha256 = a.plan_sha256
    /\ a.external_system # NULL => b.external_system = a.external_system
    /\ a.external_id # NULL => b.external_id = a.external_id

\* The transactions that can change the row of a claimed run.
LEMMA Touched ==
    ASSUME TypeOK, [Next]_runVars, NEW r \in RunId, runs[r] # NULL
    PROVE  \/ runs'[r] = runs[r]
           \/ \E y \in System, x \in ExtId : bind(r, y, x)
           \/ \E y \in System : prepare_dispatch(r, y)
           \/ mark_dispatch_uncertain(r) \/ heartbeat(r) \/ heartbeat_lapses(r)
           \/ (\E z \in {"failed", "cancelled", "orphaned"} : fail_run(r, z))
           \/ (\E c \in Expansions : expand_claim(r, c))
           \/ complete(r) \/ resume_orphaned_run(r)
           \/ (\E v \in Sha : complete_historical(r, v))
           \/ Reconcile
  <1>1. CASE UNCHANGED runVars
    BY <1>1 DEF runVars
  <1>2. CASE \E q \in RunId, t \in Task, w \in Worker, s \in Sha, p \in Plan,
                k \in ClaimKinds : claim(q, t, w, s, p, k)
    <2>1. PICK q \in RunId, t \in Task, w \in Worker, s \in Sha, p \in Plan,
               k \in ClaimKinds : claim(q, t, w, s, p, k)
      BY <1>2
    <2>2. q # r
      BY <2>1 DEF claim
    <2> QED
      BY <2>1, <2>2 DEF claim, TypeOK
  <1>3. ASSUME NEW q \in RunId, q # r, NEW row, runs' = [runs EXCEPT ![q] = row]
        PROVE  runs'[r] = runs[r]
    BY <1>3 DEF TypeOK
  <1>4. CASE \E q \in RunId, y \in System, x \in ExtId : bind(q, y, x)
    BY ZenonT(100), <1>3, <1>4 DEF bind
  <1>5. CASE \E q \in RunId, y \in System : prepare_dispatch(q, y)
    BY ZenonT(100), <1>3, <1>5 DEF prepare_dispatch
  <1>6. CASE \E q \in RunId : mark_dispatch_uncertain(q) \/ heartbeat(q)
                              \/ heartbeat_lapses(q)
    BY ZenonT(100), <1>3, <1>6 DEF mark_dispatch_uncertain, heartbeat, heartbeat_lapses
  <1>7. CASE \E q \in RunId, z \in {"failed", "cancelled", "orphaned"} : fail_run(q, z)
    BY ZenonT(100), <1>3, <1>7 DEF fail_run
  <1>8. CASE \E q \in RunId, c \in Expansions : expand_claim(q, c)
    BY ZenonT(100), <1>3, <1>8 DEF expand_claim
  <1>9. CASE \E q \in RunId : complete(q) \/ resume_orphaned_run(q)
    BY ZenonT(100), <1>3, <1>9 DEF complete, resume_orphaned_run
  <1>10. CASE \E q \in RunId, v \in Sha : complete_historical(q, v)
    BY ZenonT(100), <1>3, <1>10 DEF complete_historical
  <1> QED
    BY ZenonT(100), <1>1, <1>2, <1>4, <1>5, <1>6, <1>7, <1>8, <1>9, <1>10 DEF Next

\* No transaction changes the identity, the baseline or the executor of a run.
LEMMA BindingPreserved ==
    ASSUME TypeOK, [Next]_runVars
    PROVE  BindingStep
  <1> SUFFICES ASSUME NEW r \in RunId, runs[r] # NULL
               PROVE  runs'[r] \in RunRow /\ BindingOf(runs[r], runs'[r])
    BY NullAssumption DEF BindingStep, BindingOf
  <1>0. runs[r] \in RunRow
    BY DEF TypeOK
  <1>1. CASE runs'[r] = runs[r]
    BY <1>0, <1>1 DEF BindingOf
  <1>2. ASSUME NEW y \in System, NEW x \in ExtId, bind(r, y, x)
        PROVE  runs'[r] \in RunRow /\ BindingOf(runs[r], runs'[r])
    <2>1. runs'[r] = [runs[r] EXCEPT !.external_system = y, !.external_id = x,
                          !.external_state = "running", !.state = "running", !.fresh = TRUE]
      BY <1>2 DEF bind, TypeOK
    <2>2. runs'[r] \in RunRow
      BY ZenonT(100), <1>0, <2>1 DEF RunRow, ExternalState, ACTIVE_STATES
    <2>3. runs[r].external_system \in {NULL, y} /\ runs[r].external_id \in {NULL, x}
      BY <1>2 DEF bind
    <2>4. BindingOf(runs[r], runs'[r])
      BY <1>0, <2>1, <2>3 DEF RunRow, BindingOf
    <2> QED
      BY <2>2, <2>4
  <1>3. ASSUME NEW y \in System, prepare_dispatch(r, y)
        PROVE  runs'[r] \in RunRow /\ BindingOf(runs[r], runs'[r])
    <2>1. runs'[r] = [runs[r] EXCEPT !.external_system = y, !.external_state = "dispatching"]
      BY <1>3 DEF prepare_dispatch, TypeOK
    <2>2. runs'[r] \in RunRow
      BY ZenonT(100), <1>0, <2>1 DEF RunRow, ExternalState
    <2>3. runs[r].external_system \in {NULL, y}
      BY <1>3 DEF prepare_dispatch
    <2>4. BindingOf(runs[r], runs'[r])
      BY <1>0, <2>1, <2>3 DEF RunRow, BindingOf
    <2> QED
      BY <2>2, <2>4
  <1>5. CASE mark_dispatch_uncertain(r) \/ heartbeat(r) \/ heartbeat_lapses(r)
             \/ (\E z \in {"failed", "cancelled", "orphaned"} : fail_run(r, z))
             \/ (\E c \in Expansions : expand_claim(r, c))
             \/ complete(r) \/ resume_orphaned_run(r)
             \/ (\E v \in Sha : complete_historical(r, v))
    <2>1. CASE mark_dispatch_uncertain(r)
      <3>1. runs'[r] = [runs[r] EXCEPT !.external_state = "dispatch-uncertain",
                                       !.error = "other"]
        BY <2>1 DEF mark_dispatch_uncertain, TypeOK
      <3> QED
        BY ZenonT(100), <1>0, <3>1 DEF RunRow, BindingOf, ExternalState
    <2>2. CASE heartbeat(r) \/ heartbeat_lapses(r)
      <3>1. PICK b \in BOOLEAN : runs'[r] = [runs[r] EXCEPT !.fresh = b]
        BY ZenonT(100), <2>2 DEF heartbeat, heartbeat_lapses, TypeOK
      <3> QED
        BY <1>0, <3>1 DEF RunRow, BindingOf
    <2>3. CASE \E z \in {"failed", "cancelled", "orphaned"} : fail_run(r, z)
      <3>1. PICK z \in TERMINAL_STATES :
                runs'[r] = [runs[r] EXCEPT !.state = z, !.error = "other"]
        BY ZenonT(100), <2>3 DEF fail_run, TypeOK, TERMINAL_STATES
      <3> QED
        BY ZenonT(100), <1>0, <3>1 DEF RunRow, BindingOf
    <2>4. CASE \E c \in Expansions : expand_claim(r, c)
      <3>1. runs'[r] = [runs[r] EXCEPT !.error = "other"]
        BY <2>4 DEF expand_claim, TypeOK
      <3> QED
        BY <1>0, <3>1 DEF RunRow, BindingOf
    <2>5. CASE complete(r)
      <3>1. runs'[r] = [runs[r] EXCEPT !.state = "succeeded"]
        BY <2>5 DEF complete, TypeOK
      <3> QED
        BY <1>0, <3>1 DEF RunRow, BindingOf, TERMINAL_STATES
    <2>6. CASE resume_orphaned_run(r)
      <3>1. runs'[r] = [runs[r] EXCEPT !.state = "assigned", !.error = NULL, !.fresh = TRUE]
        BY <2>6 DEF resume_orphaned_run, TypeOK
      <3> QED
        BY ZenonT(100), <1>0, <3>1 DEF RunRow, BindingOf, ACTIVE_STATES
    <2>7. CASE \E v \in Sha : complete_historical(r, v)
      <3>1. runs'[r] = [runs[r] EXCEPT !.state = "succeeded", !.error = NULL]
        BY <2>7 DEF complete_historical, TypeOK
      <3> QED
        BY ZenonT(100), <1>0, <3>1 DEF RunRow, BindingOf, TERMINAL_STATES
    <2> QED
      BY <1>5, <2>1, <2>2, <2>3, <2>4, <2>5, <2>6, <2>7
  <1>6. CASE Reconcile
    <2>1. PICK found \in [active_runs -> ExtId \cup {NULL}],
               seen \in [active_runs -> Observation] : reconcile(found, seen)
      BY <1>6 DEF Reconcile
    <2>2. CASE Active(r)
      <3>1. /\ found[r] \in ExtId \cup {NULL} /\ seen[r] \in Observation
            /\ runs'[r] = reconcile_row(runs[r], found[r], seen[r])
        BY <2>1, <2>2 DEF active_runs, reconcile
      <3>2. /\ reconcile_row(runs[r], found[r], seen[r]) \in RunRow
            /\ BindingOf(runs[r], reconcile_row(runs[r], found[r], seen[r]))
        BY ZenonT(100), <1>0, <3>1, ReconcileRow DEF BindingOf
      <3> QED
        BY <3>1, <3>2
    <2>3. CASE ~Active(r)
      <3>1. runs'[r] = runs[r]
        BY <2>1, <2>3 DEF reconcile, active_runs
      <3> QED
        BY <1>1, <3>1
    <2> QED
      BY <2>2, <2>3
  <1> QED
    BY <1>1, <1>2, <1>3, <1>5, <1>6, Touched

\* Only a resume or a historical close changes the row of a terminal run.
LEMMA TerminalPreserved ==
    ASSUME TypeOK, [Next]_runVars
    PROVE  TerminalStep
  <1> SUFFICES ASSUME NEW r \in RunId, runs[r] # NULL, runs[r].state \in TERMINAL_STATES,
                      runs'[r] # runs[r]
               PROVE  /\ runs[r].state = "orphaned" /\ Unbound(runs[r])
                      /\ runs'[r].state \in {"assigned", "succeeded"}
    BY DEF TerminalStep
  <1>1. ~Active(r) /\ runs[r] \in RunRow
    BY DEF Active, ACTIVE_STATES, TERMINAL_STATES, TypeOK
  <1>2. ~Reconcile
    BY ZenonT(100), <1>1 DEF Reconcile, reconcile, active_runs
  <1>3. resume_orphaned_run(r) \/ \E v \in Sha : complete_historical(r, v)
    BY ZenonT(100), <1>1, <1>2, Touched DEF bind, prepare_dispatch, mark_dispatch_uncertain, heartbeat,
       heartbeat_lapses, fail_run, expand_claim, complete
  <1>4. runs[r].state = "orphaned" /\ Unbound(runs[r])
    BY <1>3 DEF resume_orphaned_run, complete_historical, HistoricallyClosable
  <1>5. CASE resume_orphaned_run(r)
    <2>1. runs'[r] = [runs[r] EXCEPT !.state = "assigned", !.error = NULL, !.fresh = TRUE]
      BY <1>5 DEF resume_orphaned_run, TypeOK
    <2> QED
      BY <1>1, <1>4, <2>1 DEF RunRow
  <1>6. CASE \E v \in Sha : complete_historical(r, v)
    <2>1. runs'[r] = [runs[r] EXCEPT !.state = "succeeded", !.error = NULL]
      BY <1>6 DEF complete_historical, TypeOK
    <2> QED
      BY <1>1, <1>4, <2>1 DEF RunRow
  <1> QED
    BY <1>3, <1>5, <1>6

\* Only a close writes evidence, and only for a run that had no receipt.
LEMMA EvidencePreserved ==
    ASSUME TypeOK, [Next]_runVars
    PROVE  EvidenceStep
  <1>1. CASE receipts' = receipts /\ status' = status
    BY <1>1 DEF EvidenceStep
  <1>2. ASSUME NEW r \in RunId, NEW v \in Sha, receipts[r] = NULL, runs[r] # NULL,
               write_receipt(r, v)
        PROVE  EvidenceStep
    <2>1. runs[r].task \in Task /\ runs[r].plan_sha256 \in Plan
      BY SMTT(60), <1>2 DEF TypeOK, RunRow
    <2>2. \A q \in RunId : receipts[q] # NULL => receipts'[q] = receipts[q]
      BY <1>2 DEF write_receipt, TypeOK
    <2>3. ASSUME NEW t \in Task, status'[t] # status[t]
          PROVE  status'[t] # NULL /\ receipts[status'[t].receipt] = NULL
      <3> DEFINE new == [task_sha256 |-> v, plan_sha256 |-> runs[r].plan_sha256, receipt |-> r]
      <3>1. status'[t] = new
        BY <1>2, <2>1, <2>3 DEF write_receipt, TypeOK
      <3>2. new \in StatusRow /\ new.receipt = r
        BY <2>1 DEF StatusRow
      <3> HIDE DEF new
      <3> QED
        BY <1>2, <3>1, <3>2, NullAssumption
    <2> QED
      BY <2>2, <2>3 DEF EvidenceStep
  <1>3. CASE \E r \in RunId : complete(r)
    <2>1. PICK r \in RunId : complete(r)
      BY <1>3
    <2>2. runs[r] # NULL /\ runs[r].task_sha256 \in Sha
      BY <2>1 DEF complete, Active, TypeOK, RunRow
    <2> QED
      BY <1>2, <2>1, <2>2 DEF complete
  <1>4. CASE \E r \in RunId, v \in Sha : complete_historical(r, v)
    BY <1>2, <1>4 DEF complete_historical, HistoricallyClosable
  <1>5. CASE [Next]_runVars /\ ~(\E r \in RunId : complete(r))
             /\ ~(\E r \in RunId, v \in Sha : complete_historical(r, v))
    BY ZenonT(100), <1>1, <1>5 DEF Next, runVars, claim, bind, prepare_dispatch, mark_dispatch_uncertain,
       heartbeat, expand_claim, fail_run, heartbeat_lapses, Reconcile, reconcile,
       resume_orphaned_run
  <1> QED
    BY <1>3, <1>4, <1>5

\* A terminal run is never brought back except as an orphan no executor was ever
\* prepared for; a run keeps its identity and, once bound, its executor for ever;
\* receipts are never rewritten.
THEOREM HistoryFinal == Spec => NothingUndone
  <1>1. TypeOK /\ [Next]_runVars => TerminalStep /\ BindingStep /\ EvidenceStep
    BY TerminalPreserved, BindingPreserved, EvidencePreserved
  <1> QED
    BY <1>1, TypeCorrect, PTL DEF Spec, NothingUndone
=============================================================================
