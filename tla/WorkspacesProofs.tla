-------------------------- MODULE WorkspacesProofs --------------------------
(***************************************************************************)
(* Machine-checked proofs about the commands that work in repositories.    *)
(*                                                                         *)
(* Workspaces, for every set of processes and runs and every number of     *)
(* commits: workspace commands implement the run tables of RunStore, and a *)
(* cleanup removes what it records, nothing that is in use and no work of  *)
(* an agent.                                                               *)
(*                                                                         *)
(* FetchApply, for every set of calls and every history of commits: refs   *)
(* and documents move to what was reviewed and fetched, and nowhere else.  *)
(*                                                                         *)
(* WorktreeCleanup, for every set of worktrees and commits: the reviewed   *)
(* cleanup removes what was reviewed, and says what it did.                *)
(***************************************************************************)
EXTENDS Workspaces, FetchApply, WorktreeCleanup, RunStoreProofs

\* Time for each leaf: the provers are given more than their default.
USE ZenonT(15), SMTT(20), Z3T(20)

-----------------------------------------------------------------------------

Pc == {"idle", "adding", "recording", "failing", "missing", "proving", "preserving",
       "removing", "unlisting"}
Cleaning == {"missing", "proving", "preserving", "removing", "unlisting"}

\* What a process at l knows of the run of its job j.  A cleanup has read that
\* the run had ended; if it is active again, an event was recorded meanwhile.  A
\* worktree that was gone, or is removed, comes back only from an overlapping
\* creation.
JobShape(l, j) ==
    /\ l # "idle" => j \in Job
    /\ l \in {"adding", "recording"} => runs[j.run] # NULL
    /\ l \in Cleaning =>
         /\ bound[j.run]
         /\ j.force => forced[j.run]
         /\ j.seen <= Len(life[j.run])
         /\ Active(j.run) => j.seen < Len(life[j.run])
    /\ l \in {"missing", "unlisting"} => tree[j.run] = NULL \/ shared[j.run]

Jobs == \A p \in Proc : JobShape(ppc[p], pjob[p])

\* Creations overlap, or one goes on after another has bound the workspace, only
\* where the history says so.
CreationsShared ==
    \A p \in Proc, r \in RunId : Creating(p, r) =>
        /\ bound[r] => shared[r]
        /\ \A q \in Proc \ {p} : Creating(q, r) => shared[r]

\* A workspace row, or an edit, belongs to a bound run, and a worktree is on a branch.
RowsBound ==
    \A r \in RunId :
        /\ ws[r] # NULL => bound[r]
        /\ bound[r] => runs[r] # NULL
        /\ tree[r] = "dirty" => bound[r]
        /\ tree[r] # NULL => branch[r] # NULL

\* The inductive invariant.
WsInv ==
    /\ IInv
    /\ Jobs /\ CreationsShared /\ RowsBound
    /\ RemovedStaysGone /\ NoWorkLost

-----------------------------------------------------------------------------

\* The steps that end a run, let it rest, orphan it or resume it.
RunGoesOn ==
    \/ \E r \in RunId : fail_run(r, "failed")
    \/ \E r \in RunId : heartbeat_lapses(r)
    \/ reconcile([r \in active_runs |-> NULL], [r \in active_runs |-> "unobserved"])
    \/ \E r \in RunId : resume_orphaned_run(r)

\* What the steps of workspace commands and of runs do to the run tables.
LEMMA TableEffect ==
    ASSUME WsInv, [WsNext]_wsAllVars
    PROVE  \/ UNCHANGED runVars
           \/ \E r \in RunId, t \in Task, w \in Worker, s \in Sha, pl \in Plan :
                  claim(r, t, w, s, pl, TRUE)
           \/ RunGoesOn
  <1>1. CASE UNCHANGED wsAllVars
    BY <1>1 DEF wsAllVars
  <1>2. CASE \E p \in Proc : fail_checkout(p)
    BY ZenonT(30), <1>2 DEF fail_checkout, RunGoesOn, WsInv, Jobs, JobShape, Job
  <1>3. CASE \/ \E r \in RunId : resume_with_workspace(r) \/ end_run(r) \/ silence(r)
             \/ reconcile_runs
             \/ \E r \in RunId, t \in Task, w \in Worker, s \in Sha, pl \in Plan :
                    claim_run(r, t, w, s, pl)
    BY ZenonT(30), <1>3 DEF resume_with_workspace, end_run, silence, reconcile_runs, claim_run, RunGoesOn
  <1>4. CASE \/ \E p \in Proc, r \in RunId, c \in BOOLEAN : create_workspace(p, r, c)
             \/ \E p \in Proc : add_worktree(p) \/ record_workspace(p) \/ roll_back(p)
                                \/ refuse(p)
             \/ \E p \in Proc, r \in RunId : identity_mismatch(p, r)
    BY ZenonT(30), <1>4 DEF create_workspace, add_worktree, record_workspace, roll_back, refuse,
       identity_mismatch
  <1>5. CASE \/ \E p \in Proc, r \in RunId, f \in BOOLEAN : cleanup_workspace(p, r, f)
             \/ \E p \in Proc : record_missing(p) \/ prove_squash(p) \/ proof_unavailable(p)
                                \/ preserve(p) \/ remove_worktree(p) \/ record_removed(p)
                                \/ die(p)
    BY ZenonT(30), <1>5 DEF cleanup_workspace, record_missing, prove_squash, proof_unavailable, preserve,
       remove_worktree, record_removed, die
  <1>6. CASE \E r \in RunId : preserve_workspace(r) \/ agent_edit(r) \/ agent_commit(r)
                              \/ merge_branch(r)
    BY ZenonT(30), <1>6 DEF preserve_workspace, agent_edit, agent_commit, merge_branch
  <1> QED
    BY ZenonT(30), <1>1, <1>2, <1>3, <1>4, <1>5, <1>6 DEF WsNext

\* Every step is a step of the run tables or leaves them alone.
LEMMA StepRefines ==
    ASSUME WsInv, [WsNext]_wsAllVars
    PROVE  [Next]_runVars
  <1>1. CASE \E r \in RunId, t \in Task, w \in Worker, s \in Sha, pl \in Plan :
                 claim(r, t, w, s, pl, TRUE)
    BY ZenonT(30), <1>1, WorkspacesAssumption DEF Next
  <1>2. CASE RunGoesOn
    <2>1. /\ [r \in active_runs |-> NULL] \in [active_runs -> ExtId \cup {NULL}]
          /\ [r \in active_runs |-> "unobserved"] \in [active_runs -> Observation]
      BY DEF Observation
    <2> QED
      BY <1>2, <2>1 DEF RunGoesOn, Reconcile, Next
  <1> QED
    BY ZenonT(30), <1>1, <1>2, TableEffect

\* A claimed run stays claimed, its events are only added to, and it becomes
\* active again only with an event.
LEMMA LifeStep ==
    ASSUME WsInv, [WsNext]_wsAllVars, NEW r \in RunId
    PROVE  /\ runs[r] # NULL => runs'[r] # NULL
           /\ Len(life[r]) \in Nat /\ Len(life'[r]) \in Nat /\ Len(life[r]) <= Len(life'[r])
           /\ (runs[r] # NULL /\ Active(r)') => Active(r) \/ Len(life[r]) < Len(life'[r])
  <1>1. TypeOK /\ BindingStep
    BY StepRefines, BindingPreserved DEF WsInv, IInv
  <1>2. runs[r] # NULL => runs'[r] # NULL
    BY <1>1 DEF BindingStep
  <1>3. life[r] \in Seq(LifeEvent) /\ Len(life[r]) \in Nat
    BY <1>1 DEF TypeOK
  <1>4. CASE UNCHANGED runVars
    BY <1>2, <1>3, <1>4 DEF runVars, Active
  <1>5. CASE \E q \in RunId, t \in Task, w \in Worker, s \in Sha, pl \in Plan :
                 claim(q, t, w, s, pl, TRUE)
    <2>1. life' = life /\ (runs[r] # NULL => runs'[r] = runs[r])
      BY ZenonT(100), <1>1, <1>5 DEF claim, TypeOK
    <2> QED
      BY <1>3, <2>1 DEF Active
  <1>6. CASE \E q \in RunId : fail_run(q, "failed") \/ heartbeat_lapses(q)
    <2>1. life' = life /\ (~Active(r) => runs'[r] = runs[r])
      BY <1>1, <1>6 DEF fail_run, heartbeat_lapses, TypeOK
    <2> QED
      BY <1>2, <1>3, <2>1 DEF Active
  <1>7. CASE reconcile([q \in active_runs |-> NULL], [q \in active_runs |-> "unobserved"])
    <2>1. ~Active(r) => runs'[r] = runs[r]
      BY <1>7 DEF reconcile, active_runs
    <2>2. life'[r] = life[r] \/ life'[r] = Append(life[r], "run-orphaned")
      BY <1>7 DEF reconcile
    <2>3. Len(life'[r]) = Len(life[r]) \/ Len(life'[r]) = Len(life[r]) + 1
      BY <1>3, <2>2 DEF LifeEvent
    <2> QED
      BY <1>2, <1>3, <2>1, <2>3 DEF Active
  <1>8. CASE \E q \in RunId : resume_orphaned_run(q)
    <2>1. PICK q \in RunId : resume_orphaned_run(q)
      BY <1>8
    <2>2. CASE q = r
      <3>1. life'[r] = Append(life[r], "run-orphan-resumed")
        BY <1>1, <2>1, <2>2 DEF resume_orphaned_run, record, TypeOK
      <3>2. Len(life'[r]) = Len(life[r]) + 1
        BY <1>3, <3>1 DEF LifeEvent
      <3> QED
        BY <1>2, <1>3, <3>2
    <2>3. CASE q # r
      <3>1. life'[r] = life[r] /\ runs'[r] = runs[r]
        BY ZenonT(30), <1>1, <2>1, <2>3 DEF resume_orphaned_run, record, TypeOK
      <3> QED
        BY <1>3, <3>1 DEF Active
    <2> QED
      BY <2>2, <2>3
  <1> QED
    BY ZenonT(30), <1>4, <1>5, <1>6, <1>7, <1>8, TableEffect DEF RunGoesOn

-----------------------------------------------------------------------------

\* What no step takes back: bindings, the history, and the absence of a bound
\* worktree, which only an overlapping creation can bring back.
WsMono ==
    \A r \in RunId :
        /\ bound[r] => bound'[r]
        /\ forced[r] => forced'[r]
        /\ shared[r] => shared'[r]
        /\ (bound[r] /\ tree[r] = NULL) => tree'[r] = NULL \/ shared'[r]

\* The steps that change neither the rows, the worktrees nor the history.
Quiet == UNCHANGED <<bound, tree, forced, shared>>

\* No step undoes what a running command relies on: rows stay bound, removed worktrees stay away.
LEMMA MonoStep ==
    ASSUME WsInv, [WsNext]_wsAllVars
    PROVE  WsMono
  <1>0. WsTypeOK
    BY DEF WsInv, NoWorkLost
  <1> USE DEF WsMono
  <1>1. CASE Quiet
    BY <1>1 DEF Quiet
  <1>2. ASSUME NEW p \in Proc, NEW r \in RunId, NEW c \in BOOLEAN, create_workspace(p, r, c)
        PROVE  WsMono
    BY <1>0, <1>2 DEF create_workspace, WsTypeOK, rowVars, gitVars
  <1>3. ASSUME NEW p \in Proc, add_worktree(p)
        PROVE  WsMono
    <2>1. pjob[p] \in Job /\ Creating(p, pjob[p].run) /\ pjob[p].run \in RunId
      BY <1>3 DEF add_worktree, WsInv, Jobs, JobShape, Creating, Job
    <2>2. bound[pjob[p].run] => shared[pjob[p].run]
      BY <2>1 DEF WsInv, CreationsShared
    <2> QED
      BY <1>0, <1>3, <2>1, <2>2 DEF add_worktree, WsTypeOK, rowVars, pastVars
  <1>4. ASSUME NEW p \in Proc, record_workspace(p)
        PROVE  WsMono
    BY <1>0, <1>4 DEF record_workspace, WsTypeOK, gitVars, pastVars
  <1>5. ASSUME NEW p \in Proc, roll_back(p) \/ remove_worktree(p)
        PROVE  WsMono
    <2>1. tree' = tree \/ tree' = [tree EXCEPT ![pjob[p].run] = NULL]
      BY <1>5 DEF roll_back, remove_worktree
    <2> QED
      BY <1>0, <1>5, <2>1 DEF roll_back, remove_worktree, WsTypeOK, rowVars
  <1>6. ASSUME NEW p \in Proc, NEW r \in RunId, NEW f \in BOOLEAN, cleanup_workspace(p, r, f)
        PROVE  WsMono
    BY <1>0, <1>6 DEF cleanup_workspace, WsTypeOK, rowVars, gitVars
  <1>7. ASSUME NEW r \in RunId, agent_edit(r) \/ agent_commit(r)
        PROVE  WsMono
    <2>1. \A q \in RunId : tree[q] = NULL => tree'[q] = NULL
      <3>1. tree[r] # NULL
        BY <1>7, WorkspacesNullAssumption DEF agent_edit, agent_commit
      <3> QED
        BY <1>0, <1>7, <3>1 DEF agent_edit, agent_commit, WsTypeOK
    <2> QED
      BY <1>7, <2>1 DEF agent_edit, agent_commit, rowVars, pastVars
  <1>8. CASE \/ UNCHANGED wsAllVars
             \/ \E p \in Proc : refuse(p) \/ fail_checkout(p) \/ record_missing(p)
                                \/ prove_squash(p) \/ proof_unavailable(p) \/ preserve(p)
                                \/ record_removed(p) \/ die(p)
             \/ \E p \in Proc, r \in RunId : identity_mismatch(p, r)
             \/ \E r \in RunId : preserve_workspace(r) \/ merge_branch(r)
    BY ZenonT(30), <1>1, <1>8 DEF Quiet, wsAllVars, wsVars, refuse, fail_checkout, record_missing,
       prove_squash, proof_unavailable, preserve, record_removed, die, identity_mismatch,
       preserve_workspace, merge_branch, rowVars, gitVars, pastVars
  <1>9. CASE \/ \E r \in RunId : resume_with_workspace(r) \/ end_run(r) \/ silence(r)
             \/ reconcile_runs
             \/ \E r \in RunId, t \in Task, w \in Worker, s \in Sha, pl \in Plan :
                    claim_run(r, t, w, s, pl)
    BY ZenonT(30), <1>1, <1>9 DEF Quiet, resume_with_workspace, end_run, silence, reconcile_runs,
       claim_run, wsVars, rowVars, gitVars, pastVars
  <1> QED
    BY ZenonT(30), <1>2, <1>3, <1>4, <1>5, <1>6, <1>7, <1>8, <1>9 DEF WsNext

\* A process that does not move keeps what it knows.
LEMMA ShapeKept ==
    ASSUME WsInv, [WsNext]_wsAllVars, NEW q \in Proc, UNCHANGED <<ppc[q], pjob[q]>>
    PROVE  JobShape(ppc[q], pjob[q])'
  <1>1. JobShape(ppc[q], pjob[q])
    BY DEF WsInv, Jobs
  <1>2. CASE ppc[q] = "idle"
    BY <1>2 DEF JobShape, Cleaning
  <1>3. CASE ppc[q] # "idle"
    <2>1. pjob[q] \in Job /\ pjob[q].run \in RunId /\ pjob[q].seen \in Nat
      BY <1>1, <1>3 DEF JobShape, Job
    <2>2. PICK r \in RunId, j \in Job : j = pjob[q] /\ r = j.run
      BY <2>1
    <2>3. bound[r] => runs[r] # NULL
      BY DEF WsInv, RowsBound
    <2>4. /\ runs[r] # NULL => runs'[r] # NULL
          /\ Len(life[r]) \in Nat /\ Len(life'[r]) \in Nat /\ Len(life[r]) <= Len(life'[r])
          /\ (runs[r] # NULL /\ Active(r)') => Active(r) \/ Len(life[r]) < Len(life'[r])
      BY LifeStep
    <2>5. /\ bound[r] => bound'[r] /\ (forced[r] => forced'[r]) /\ (shared[r] => shared'[r])
          /\ (bound[r] /\ tree[r] = NULL) => tree'[r] = NULL \/ shared'[r]
      BY MonoStep DEF WsMono
    <2>6. ppc[q] \in Cleaning =>
            /\ bound'[r] /\ (j.force => forced'[r])
            /\ j.seen <= Len(life'[r])
            /\ Active(r)' => j.seen < Len(life'[r])
      <3>1. j.seen \in Nat
        BY <2>1, <2>2
      <3> HIDE DEF Active
      <3> QED
        BY <1>1, <2>2, <2>3, <2>4, <2>5, <3>1 DEF JobShape
    <2>7. ppc[q] \in {"missing", "unlisting"} => tree'[r] = NULL \/ shared'[r]
      BY <1>1, <2>2, <2>5 DEF JobShape, Cleaning
    <2>8. ppc[q] \in {"adding", "recording"} => runs'[r] # NULL
      BY <1>1, <2>2, <2>4 DEF JobShape
    <2>9. Active(r)' = Active(pjob[q].run)'
      BY <2>2
    <2> QED
      BY <2>2, <2>6, <2>7, <2>8, <2>9 DEF JobShape
  <1> QED
    BY <1>2, <1>3

\* The jobs stay well formed when the process that moves has a well-formed one.
LEMMA MoverJobs ==
    ASSUME WsInv, [WsNext]_wsAllVars, NEW p \in Proc, NEW l \in Pc, NEW j \in Job \cup {NULL},
           ppc' = [ppc EXCEPT ![p] = l], pjob' = [pjob EXCEPT ![p] = j], JobShape(l, j)'
    PROVE  /\ ppc' \in [Proc -> Pc] /\ pjob' \in [Proc -> Job \cup {NULL}]
           /\ ppc'[p] = l /\ pjob'[p] = j
           /\ \A q \in Proc \ {p} : ppc'[q] = ppc[q] /\ pjob'[q] = pjob[q]
           /\ Jobs'
  <1>1. ppc \in [Proc -> Pc] /\ pjob \in [Proc -> Job \cup {NULL}]
    BY DEF WsInv, NoWorkLost, WsTypeOK, Pc
  <1>2. /\ ppc' \in [Proc -> Pc] /\ pjob' \in [Proc -> Job \cup {NULL}]
        /\ ppc'[p] = l /\ pjob'[p] = j
        /\ \A q \in Proc \ {p} : ppc'[q] = ppc[q] /\ pjob'[q] = pjob[q]
    BY <1>1
  <1>3. ASSUME NEW q \in Proc
        PROVE  JobShape(ppc[q], pjob[q])'
    <2>1. CASE q = p
      BY <1>2, <2>1
    <2>2. CASE q # p
      BY <1>2, <2>2, ShapeKept
    <2> QED
      BY <2>1, <2>2
  <1> QED
    BY <1>2, <1>3 DEF Jobs

\* What is left to show of a step: everything but the jobs and the run tables.
WsRest == CreationsShared /\ RowsBound /\ RemovedStaysGone /\ NoWorkLost

\* A process returns, raises or dies; the others go on.
LEMMA DoneStep ==
    ASSUME WsInv, [WsNext]_wsAllVars, NEW p \in Proc, Done(p)
    PROVE  /\ ppc' \in [Proc -> Pc] /\ pjob' \in [Proc -> Job \cup {NULL}]
           /\ ppc'[p] = "idle" /\ Jobs'
           /\ \A q \in Proc \ {p} : ppc'[q] = ppc[q] /\ pjob'[q] = pjob[q]
           /\ \A q \in Proc, r \in RunId : Creating(q, r)' => Creating(q, r)
  <1>1. JobShape("idle", NULL)'
    BY DEF JobShape, Cleaning
  <1>2. /\ ppc' \in [Proc -> Pc] /\ pjob' \in [Proc -> Job \cup {NULL}]
        /\ ppc'[p] = "idle" /\ Jobs'
        /\ \A q \in Proc \ {p} : ppc'[q] = ppc[q] /\ pjob'[q] = pjob[q]
    BY ZenonT(30), <1>1, MoverJobs DEF Done, Pc
  <1> QED
    BY <1>2 DEF Creating

\* A process goes on with the job it has.
LEMMA GotoStep ==
    ASSUME WsInv, [WsNext]_wsAllVars, NEW p \in Proc, NEW l \in Pc, Goto(p, l),
           ppc[p] # "idle", l \notin {"adding", "recording"}, JobShape(l, pjob[p])'
    PROVE  /\ ppc' \in [Proc -> Pc] /\ pjob' \in [Proc -> Job \cup {NULL}]
           /\ ppc'[p] = l /\ Jobs'
           /\ \A q \in Proc, r \in RunId : Creating(q, r)' => Creating(q, r)
  <1>1. PICK j \in Job \cup {NULL} : j = pjob[p]
    BY DEF WsInv, NoWorkLost, WsTypeOK
  <1>2. pjob' = [pjob EXCEPT ![p] = j] /\ pjob' = pjob
    BY <1>1 DEF Goto, WsInv, NoWorkLost, WsTypeOK
  <1>3. JobShape(l, j)'
    BY <1>1, <1>2 DEF JobShape
  <1>4. /\ ppc' \in [Proc -> Pc] /\ pjob' \in [Proc -> Job \cup {NULL}]
        /\ ppc'[p] = l /\ Jobs'
        /\ \A q \in Proc \ {p} : ppc'[q] = ppc[q] /\ pjob'[q] = pjob[q]
    BY ZenonT(30), <1>2, <1>3, MoverJobs DEF Goto
  <1> QED
    BY <1>4 DEF Creating

\* A step that starts no creation and binds nothing leaves no unrecorded overlap.
LEMMA CreationsKept ==
    ASSUME WsInv, UNCHANGED <<bound, shared>>,
           \A q \in Proc, r \in RunId : Creating(q, r)' => Creating(q, r)
    PROVE  CreationsShared'
  <1>1. \A p \in Proc, r \in RunId : Creating(p, r) =>
            /\ bound[r] => shared[r]
            /\ \A q \in Proc \ {p} : Creating(q, r) => shared[r]
    BY DEF WsInv, CreationsShared
  <1>2. bound' = bound /\ shared' = shared
    OBVIOUS
  <1> SUFFICES ASSUME NEW p \in Proc, NEW r \in RunId, Creating(p, r)'
               PROVE  /\ bound'[r] => shared'[r]
                      /\ \A q \in Proc \ {p} : Creating(q, r)' => shared'[r]
    BY ZenonT(30) DEF CreationsShared
  <1> QED
    BY <1>1, <1>2, ZenonT(30)

\* The rest of the invariant after a step that creates nothing, binds nothing and
\* leaves rows, worktrees, branches and the history alone, but for preserving.
LEMMA QuietRest ==
    ASSUME WsInv, [WsNext]_wsAllVars,
           UNCHANGED <<bound, tree, branch, forced, lost, shared>>,
           \A r \in RunId : ws'[r] \in {ws[r], "preserved"},
           \A r \in RunId : ws'[r] # ws[r] => bound[r],
           \A q \in Proc, r \in RunId : Creating(q, r)' => Creating(q, r),
           WsTypeOK'
    PROVE  WsRest'
  <1>1. \A r \in RunId : runs[r] # NULL => runs'[r] # NULL
    BY LifeStep
  <1>2. CreationsShared'
    BY CreationsKept, ZenonT(30)
  <1>3. RowsBound'
    BY <1>1 DEF WsInv, RowsBound
  <1>4. RemovedStaysGone'
    BY DEF WsInv, RemovedStaysGone
  <1>5. NoWorkLost'
    BY DEF WsInv, NoWorkLost
  <1> QED
    BY <1>2, <1>3, <1>4, <1>5 DEF WsRest

-----------------------------------------------------------------------------

\* What every step must keep.
Kept == Jobs /\ WsRest

\* A creation starts: if another one is under way the history says so.
LEMMA CreateKept ==
    ASSUME WsInv, [WsNext]_wsAllVars, NEW p \in Proc, NEW r \in RunId, NEW c \in BOOLEAN,
           create_workspace(p, r, c)
    PROVE  Kept'
  <1> DEFINE j == [NoJob(r) EXCEPT !.checkout = c]
  <1>0. WsTypeOK
    BY DEF WsInv, NoWorkLost
  <1>1. j \in Job /\ j.run = r
    BY ZenonT(30) DEF NoJob, Job
  <1>2. /\ ppc[p] = "idle" /\ runs[r] # NULL /\ ~bound[r]
        /\ ppc' = [ppc EXCEPT ![p] = "adding"] /\ pjob' = [pjob EXCEPT ![p] = j]
        /\ UNCHANGED <<runs, bound, ws, tree, branch, merged, squashed, forced, lost>>
    BY DEF create_workspace, Start, runVars, rowVars, gitVars
  <1> HIDE DEF j
  <1>3. JobShape("adding", j)'
    BY <1>1, <1>2 DEF JobShape, Cleaning
  <1>4. /\ ppc' \in [Proc -> Pc] /\ pjob' \in [Proc -> Job \cup {NULL}]
        /\ ppc'[p] = "adding" /\ pjob'[p] = j
        /\ \A q \in Proc \ {p} : ppc'[q] = ppc[q] /\ pjob'[q] = pjob[q]
        /\ Jobs'
    BY ZenonT(30), <1>1, <1>2, <1>3, MoverJobs DEF Pc
  <1>5. /\ shared' \in [RunId -> BOOLEAN]
        /\ \A o \in RunId \ {r} : shared'[o] = shared[o]
        /\ shared'[r] <=> shared[r] \/ \E q \in Proc : Creating(q, r)
    BY ZenonT(30), <1>0 DEF create_workspace, WsTypeOK
  <1>6. WsTypeOK'
    BY <1>0, <1>2, <1>4, <1>5 DEF WsTypeOK, Pc
  <1>7. /\ \A o \in RunId : Creating(p, o)' <=> o = r
        /\ \A q \in Proc \ {p}, o \in RunId : Creating(q, o)' <=> Creating(q, o)
    BY <1>1, <1>4 DEF Creating
  <1>8. CreationsShared'
    <2>1. /\ \A q \in Proc, o \in RunId : Creating(q, o) =>
                /\ bound[o] => shared[o]
                /\ \A u \in Proc \ {q} : Creating(u, o) => shared[o]
          /\ \A o \in RunId : shared[o] => shared'[o]
      BY <1>5 DEF WsInv, CreationsShared
    <2> SUFFICES ASSUME NEW q \in Proc, NEW o \in RunId, Creating(q, o)'
                 PROVE  /\ bound'[o] => shared'[o]
                        /\ \A u \in Proc \ {q} : Creating(u, o)' => shared'[o]
      BY ZenonT(30) DEF CreationsShared
    <2>2. CASE q = p
      <3>1. o = r /\ ~bound'[o]
        BY <1>2, <1>7, <2>2, ZenonT(30)
      <3>2. ASSUME NEW u \in Proc \ {q}, Creating(u, o)'
            PROVE  shared'[o]
        <4>1. Creating(u, r)
          BY <1>7, <2>2, <3>1, <3>2, ZenonT(30)
        <4> QED
          BY <1>5, <3>1, <4>1, ZenonT(30)
      <3> QED
        BY <3>1, <3>2, ZenonT(30)
    <2>3. CASE q # p
      <3>1. Creating(q, o)
        BY <1>7, <2>3, ZenonT(30)
      <3>2. bound'[o] => shared'[o]
        BY <1>2, <2>1, <3>1, ZenonT(30)
      <3>3. ASSUME NEW u \in Proc \ {q}, Creating(u, o)'
            PROVE  shared'[o]
        <4>1. CASE u = p
          BY <1>5, <1>7, <3>1, <3>3, <4>1, ZenonT(30)
        <4>2. CASE u # p
          BY <1>7, <2>1, <3>1, <3>3, <4>2, ZenonT(30)
        <4> QED
          BY <4>1, <4>2
      <3> QED
        BY <3>2, <3>3, ZenonT(30)
    <2> QED
      BY <2>2, <2>3
  <1>9. RowsBound' /\ RemovedStaysGone' /\ NoWorkLost'
    BY <1>2, <1>5, <1>6 DEF WsInv, RowsBound, RemovedStaysGone, NoWorkLost
  <1> QED
    BY <1>4, <1>8, <1>9 DEF Kept, WsRest

\* git worktree add: a worktree that comes to a bound run is an overlap.
LEMMA AddKept ==
    ASSUME WsInv, [WsNext]_wsAllVars, NEW p \in Proc, add_worktree(p)
    PROVE  Kept'
  <1>0. WsTypeOK
    BY DEF WsInv, NoWorkLost
  <1>1. PICK j \in Job, r \in RunId : j = pjob[p] /\ r = j.run
    BY DEF add_worktree, WsInv, Jobs, JobShape, Job
  <1>2. PICK k \in Job : k = [j EXCEPT !.created = (tree[r] = NULL)] /\ k.run = r
    <2>1. PICK b \in BOOLEAN : b = (tree[r] = NULL)
      OBVIOUS
    <2>2. [j EXCEPT !.created = b] \in Job /\ [j EXCEPT !.created = b].run = r
      BY <1>1 DEF Job
    <2> QED
      BY ZenonT(30), <2>1, <2>2
  <1>3. /\ ppc[p] = "adding"
        /\ ppc' = [ppc EXCEPT ![p] = "recording"] /\ pjob' = [pjob EXCEPT ![p] = k]
        /\ UNCHANGED <<runs, bound, ws, merged, squashed, forced, lost, shared>>
    BY <1>1, <1>2 DEF add_worktree, Start, runVars, rowVars, pastVars
  <1>4. runs[r] # NULL /\ Creating(p, r) /\ (bound[r] => shared[r])
    BY <1>1, <1>3 DEF WsInv, Jobs, JobShape, Creating, CreationsShared
  <1>5. JobShape("recording", k)'
    BY <1>2, <1>3, <1>4 DEF JobShape, Cleaning
  <1>6. /\ ppc' \in [Proc -> Pc] /\ pjob' \in [Proc -> Job \cup {NULL}]
        /\ ppc'[p] = "recording" /\ pjob'[p] = k
        /\ \A q \in Proc \ {p} : ppc'[q] = ppc[q] /\ pjob'[q] = pjob[q]
        /\ Jobs'
    BY ZenonT(30), <1>3, <1>5, MoverJobs DEF Pc
  <1>7. /\ tree' \in [RunId -> {NULL, "clean", "dirty"}] /\ branch' \in [RunId -> Tip \cup {NULL}]
        /\ \A o \in RunId \ {r} : tree'[o] = tree[o] /\ branch'[o] = branch[o]
        /\ tree'[r] \in {tree[r], "clean"} /\ branch'[r] # NULL
    BY <1>0, <1>1, WorkspacesAssumption, WorkspacesNullAssumption
       DEF add_worktree, WsTypeOK, Tip
  <1>8. WsTypeOK'
    BY <1>0, <1>3, <1>6, <1>7 DEF WsTypeOK, Pc
  <1>9. \A q \in Proc, o \in RunId : Creating(q, o)' <=> Creating(q, o)
    BY <1>1, <1>2, <1>3, <1>6 DEF Creating
  <1>10. CreationsShared'
    BY <1>3, <1>9 DEF WsInv, CreationsShared
  <1>11. RowsBound'
    BY <1>3, <1>7 DEF WsInv, RowsBound
  <1>12. RemovedStaysGone'
    BY <1>3, <1>4, <1>7, WorkspacesNullAssumption DEF WsInv, RowsBound, RemovedStaysGone
  <1>13. NoWorkLost'
    BY <1>3, <1>8 DEF WsInv, NoWorkLost
  <1> QED
    BY <1>6, <1>10, <1>11, <1>12, <1>13 DEF Kept, WsRest

\* The transaction binds the workspace; a creation that is still under way
\* overlapped with this one.
LEMMA RecordKept ==
    ASSUME WsInv, [WsNext]_wsAllVars, NEW p \in Proc, record_workspace(p)
    PROVE  Kept'
  <1>0. WsTypeOK
    BY DEF WsInv, NoWorkLost
  <1>1. PICK r \in RunId : r = pjob[p].run /\ Creating(p, r) /\ runs[r] # NULL
    BY DEF record_workspace, WsInv, Jobs, JobShape, Job, Creating
  <1>2. /\ ppc[p] = "recording" /\ Done(p)
        /\ bound' = [bound EXCEPT ![r] = TRUE] /\ ws' = [ws EXCEPT ![r] = "active"]
        /\ UNCHANGED <<runs, tree, branch, merged, squashed, forced, lost, shared>>
    BY <1>1 DEF record_workspace, runVars, gitVars, pastVars
  <1>3. /\ ppc' \in [Proc -> Pc] /\ pjob' \in [Proc -> Job \cup {NULL}]
        /\ ppc'[p] = "idle" /\ Jobs'
        /\ \A q \in Proc, o \in RunId : Creating(q, o)' => Creating(q, o) /\ q # p
    BY <1>2, DoneStep DEF Creating
  <1>4. /\ bound' \in [RunId -> BOOLEAN] /\ bound'[r]
        /\ ws' \in [RunId -> {NULL, "active", "preserved", "removed"}] /\ ws'[r] = "active"
        /\ \A o \in RunId \ {r} : bound'[o] = bound[o] /\ ws'[o] = ws[o]
    BY <1>0, <1>2 DEF WsTypeOK
  <1>5. WsTypeOK'
    BY <1>0, <1>2, <1>3, <1>4 DEF WsTypeOK, Pc
  <1>6. CreationsShared'
    <2>1. \A q \in Proc, o \in RunId : Creating(q, o) =>
              /\ bound[o] => shared[o]
              /\ \A u \in Proc \ {q} : Creating(u, o) => shared[o]
      BY DEF WsInv, CreationsShared
    <2> SUFFICES ASSUME NEW q \in Proc, NEW o \in RunId, Creating(q, o)'
                 PROVE  /\ bound'[o] => shared'[o]
                        /\ \A u \in Proc \ {q} : Creating(u, o)' => shared'[o]
      BY ZenonT(30) DEF CreationsShared
    <2>2. Creating(q, o) /\ q # p /\ shared'[o] = shared[o]
      BY <1>2, <1>3, ZenonT(30)
    <2>3. o = r => shared[o]
      BY <1>1, <2>1, <2>2, ZenonT(30)
    <2>4. bound'[o] => shared'[o]
      BY <1>4, <2>1, <2>2, <2>3, ZenonT(30)
    <2>5. \A u \in Proc \ {q} : Creating(u, o)' => shared'[o]
      BY <1>3, <2>1, <2>2, ZenonT(30)
    <2> QED
      BY <2>4, <2>5, ZenonT(30)
  <1>7. RowsBound'
    BY <1>1, <1>2, <1>4 DEF WsInv, RowsBound
  <1>8. RemovedStaysGone' /\ NoWorkLost'
    BY <1>2, <1>4, <1>5 DEF WsInv, RemovedStaysGone, NoWorkLost
  <1> QED
    BY <1>3, <1>6, <1>7, <1>8 DEF Kept, WsRest

\* The transaction raises: a dirty worktree of this call belongs to a run that
\* another creation has bound.
LEMMA RollBackKept ==
    ASSUME WsInv, [WsNext]_wsAllVars, NEW p \in Proc, roll_back(p)
    PROVE  Kept'
  <1>0. WsTypeOK
    BY DEF WsInv, NoWorkLost
  <1>1. PICK j \in Job, r \in RunId : j = pjob[p] /\ r = j.run /\ Creating(p, r)
    BY DEF roll_back, WsInv, Jobs, JobShape, Job, Creating
  <1>2. /\ ppc[p] = "recording" /\ Goto(p, "failing")
        /\ UNCHANGED <<runs, bound, ws, branch, merged, squashed, forced, shared>>
    BY ZenonT(30), <1>1 DEF roll_back, runVars, rowVars
  <1>3. JobShape("failing", pjob[p])'
    BY <1>1, <1>2 DEF Goto, JobShape, Cleaning
  <1>4. /\ ppc' \in [Proc -> Pc] /\ pjob' \in [Proc -> Job \cup {NULL}] /\ Jobs'
        /\ \A q \in Proc, o \in RunId : Creating(q, o)' => Creating(q, o)
    BY <1>2, <1>3, GotoStep DEF Pc
  <1>5. tree[r] = "dirty" => shared[r]
    BY <1>1 DEF WsInv, RowsBound, CreationsShared
  <1>6. /\ tree' \in [RunId -> {NULL, "clean", "dirty"}]
        /\ \A o \in RunId : tree'[o] \in {NULL, tree[o]}
    BY <1>0 DEF roll_back, WsTypeOK
  <1>7. /\ lost' \in [RunId -> BOOLEAN]
        /\ \A o \in RunId : lost'[o] => lost[o] \/ shared[o]
    <2>1. CASE j.created
      <3>1. lost' = [lost EXCEPT ![r] = lost[r] \/ tree[r] = "dirty"
                 \/ (branch[r] # branch'[r] /\ branch[r] > merged[r])]
        BY <1>1, <2>1 DEF roll_back, Loses
      <3> QED
        BY <1>0, <1>2, <1>5, <3>1 DEF WsTypeOK
    <2>2. CASE ~j.created
      BY <1>0, <1>1, <2>2 DEF roll_back, WsTypeOK
    <2> QED
      BY <2>1, <2>2
  <1>8. WsTypeOK'
    BY ZenonT(100), <1>0, <1>2, <1>4, <1>6, <1>7 DEF WsTypeOK, Pc
  <1>9. CreationsShared'
    BY <1>2, <1>4 DEF WsInv, CreationsShared
  <1>10. RowsBound' /\ RemovedStaysGone'
    BY <1>2, <1>6, WorkspacesNullAssumption DEF WsInv, RowsBound, RemovedStaysGone
  <1>11. NoWorkLost'
    BY <1>2, <1>7, <1>8 DEF WsInv, NoWorkLost
  <1> QED
    BY <1>4, <1>9, <1>10, <1>11 DEF Kept, WsRest

\* Git refuses, GitHub cannot be observed, or another checkout finds the
\* workspace at another path.
LEMMA RefuseKept ==
    ASSUME WsInv, [WsNext]_wsAllVars, NEW p \in Proc,
           refuse(p) \/ proof_unavailable(p) \/ \E r \in RunId : identity_mismatch(p, r)
    PROVE  Kept'
  <1>0. WsTypeOK
    BY DEF WsInv, NoWorkLost
  <1>1. /\ UNCHANGED <<runs, life, bound, ws, tree, branch, merged, squashed, forced, lost, shared>>
        /\ UNCHANGED runVars
    BY ZenonT(30) DEF refuse, proof_unavailable, identity_mismatch, runVars, rowVars, gitVars, pastVars
  <1>2. /\ ppc' \in [Proc -> Pc] /\ pjob' \in [Proc -> Job \cup {NULL}] /\ Jobs'
        /\ \A q \in Proc, o \in RunId : Creating(q, o)' => Creating(q, o)
    <2>1. CASE refuse(p)
      <3>1. JobShape("failing", pjob[p])'
        BY <2>1 DEF refuse, Goto, JobShape, Cleaning, WsInv, Jobs
      <3> QED
        BY <2>1, <3>1, GotoStep DEF refuse, Pc
    <2>2. CASE proof_unavailable(p)
      <3>1. JobShape("proving", pjob[p])
        BY <2>2 DEF proof_unavailable, WsInv, Jobs
      <3>2. JobShape("preserving", pjob[p])'
        BY <1>1, <2>2, <3>1 DEF proof_unavailable, Goto, JobShape, Cleaning, Active
      <3> QED
        BY <2>2, <3>2, GotoStep DEF proof_unavailable, Pc
    <2>3. CASE \E r \in RunId : identity_mismatch(p, r)
      <3>1. PICK r \in RunId : identity_mismatch(p, r)
        BY <2>3
      <3>2. PICK j \in Job : j = [NoJob(r) EXCEPT !.checkout = TRUE]
        BY ZenonT(30) DEF NoJob, Job
      <3>3. JobShape("failing", j)'
        BY DEF JobShape, Cleaning
      <3>4. ppc' = [ppc EXCEPT ![p] = "failing"] /\ pjob' = [pjob EXCEPT ![p] = j]
        BY <3>1, <3>2 DEF identity_mismatch, Start
      <3>5. /\ ppc' \in [Proc -> Pc] /\ pjob' \in [Proc -> Job \cup {NULL}] /\ Jobs'
            /\ ppc'[p] = "failing"
            /\ \A q \in Proc \ {p} : ppc'[q] = ppc[q] /\ pjob'[q] = pjob[q]
        BY ZenonT(30), <3>3, <3>4, MoverJobs DEF Pc
      <3> QED
        BY <3>5 DEF Creating
    <2> QED
      BY <2>1, <2>2, <2>3
  <1>3. WsTypeOK'
    BY <1>0, <1>1, <1>2 DEF WsTypeOK, Pc
  <1>4. WsRest'
    BY ZenonT(30), <1>1, <1>2, <1>3, QuietRest
  <1> QED
    BY <1>2, <1>4 DEF Kept

\* A checkout gives up its run, a command dies, or its workspace is preserved.
LEMMA EndKept ==
    ASSUME WsInv, [WsNext]_wsAllVars, NEW p \in Proc, fail_checkout(p) \/ die(p) \/ preserve(p)
    PROVE  Kept'
  <1>0. WsTypeOK
    BY DEF WsInv, NoWorkLost
  <1>1. /\ UNCHANGED <<bound, tree, branch, merged, squashed, forced, lost, shared>>
        /\ Done(p)
    BY ZenonT(30) DEF fail_checkout, die, preserve, rowVars, gitVars, pastVars
  <1>2. /\ ppc' \in [Proc -> Pc] /\ pjob' \in [Proc -> Job \cup {NULL}] /\ Jobs'
        /\ \A q \in Proc, o \in RunId : Creating(q, o)' => Creating(q, o)
    BY <1>1, DoneStep
  <1>3. /\ ws' \in [RunId -> {NULL, "active", "preserved", "removed"}]
        /\ \A r \in RunId : ws'[r] \in {ws[r], "preserved"} /\ (ws'[r] # ws[r] => bound[r])
    <2>1. CASE fail_checkout(p) \/ die(p)
      BY <1>0, <2>1 DEF fail_checkout, die, rowVars, WsTypeOK
    <2>2. CASE preserve(p)
      <3>1. pjob[p].run \in RunId /\ bound[pjob[p].run]
        BY ZenonT(30), <2>2 DEF preserve, WsInv, Jobs, JobShape, Cleaning, Job
      <3> QED
        BY <1>0, <2>2, <3>1 DEF preserve, WsTypeOK
    <2> QED
      BY <2>1, <2>2
  <1>4. WsTypeOK'
    BY <1>0, <1>1, <1>2, <1>3 DEF WsTypeOK, Pc
  <1>5. WsRest'
    BY ZenonT(30), <1>1, <1>2, <1>3, <1>4, QuietRest
  <1> QED
    BY <1>2, <1>5 DEF Kept

\* A cleanup reads that the run has ended, and what is in the worktree.
LEMMA CleanupKept ==
    ASSUME WsInv, [WsNext]_wsAllVars, NEW p \in Proc, NEW r \in RunId, NEW f \in BOOLEAN,
           cleanup_workspace(p, r, f)
    PROVE  Kept'
  <1>0. WsTypeOK
    BY DEF WsInv, NoWorkLost
  <1> DEFINE contained == tree[r] # NULL /\ branch[r] <= merged[r]
             next == CASE tree[r] = NULL -> "missing"
                       [] tree[r] = "dirty" /\ ~f -> "preserving"
                       [] tree[r] # NULL /\ (f \/ (tree[r] = "clean" /\ contained)) -> "removing"
                       [] OTHER -> "proving"
  <1>1. /\ next \in {"missing", "preserving", "removing", "proving"}
        /\ next = "missing" => tree[r] = NULL
    <2> HIDE DEF contained
    <2>1. tree[r] \in {NULL, "clean", "dirty"} /\ NULL # "clean" /\ NULL # "dirty"
      BY <1>0, WorkspacesNullAssumption DEF WsTypeOK
    <2>2. CASE tree[r] = NULL
      BY <2>1, <2>2, Zenon
    <2>3. CASE tree[r] = "dirty" /\ ~f
      BY <2>1, <2>3, Zenon
    <2>4. CASE tree[r] # NULL /\ (f \/ (tree[r] = "clean" /\ contained))
      BY <2>1, <2>4, Zenon
    <2>5. CASE /\ ~(tree[r] = NULL) /\ ~(tree[r] = "dirty" /\ ~f)
               /\ ~(tree[r] # NULL /\ (f \/ (tree[r] = "clean" /\ contained)))
      BY <2>1, <2>5, Zenon
    <2> QED
      BY <2>2, <2>3, <2>4, <2>5, Zenon
  <1>2. PICK l \in {"missing", "preserving", "removing", "proving"} : l = next
    BY <1>1
  <1>3. PICK m \in BOOLEAN : m = (next = "removing" /\ contained)
    OBVIOUS
  <1> HIDE DEF contained, next
  <1>4. PICK n \in Nat : n = Len(life[r])
    BY ZenonT(30), LifeStep
  <1>5. PICK h \in Tip \cup {NULL} : h = IF next = "proving" THEN branch[r] ELSE NULL
    BY <1>0 DEF WsTypeOK
  <1>6. PICK j \in Job :
          /\ j = [NoJob(r) EXCEPT !.force = f, !.seen = n, !.head = h, !.merged = m]
          /\ j.run = r /\ j.force = f /\ j.seen = n
    <2> DEFINE k == [NoJob(r) EXCEPT !.force = f, !.seen = n, !.head = h, !.merged = m]
    <2>1. k = [[[[NoJob(r) EXCEPT !.force = f] EXCEPT !.seen = n] EXCEPT !.head = h]
               EXCEPT !.merged = m]
      BY Zenon
    <2>2. NoJob(r) \in Job
      BY DEF NoJob, Job
    <2>3. [NoJob(r) EXCEPT !.force = f] \in Job
      BY <2>2 DEF Job
    <2>4. [[NoJob(r) EXCEPT !.force = f] EXCEPT !.seen = n] \in Job
      BY ZenonT(30), <2>3 DEF Job
    <2>5. [[[NoJob(r) EXCEPT !.force = f] EXCEPT !.seen = n] EXCEPT !.head = h] \in Job
      BY ZenonT(30), <2>4 DEF Job
    <2>6. k \in Job
      BY ZenonT(30), <2>1, <2>5 DEF Job
    <2>7. k.run = r /\ k.force = f /\ k.seen = n
      BY DEF NoJob
    <2> HIDE DEF k
    <2> QED
      BY ZenonT(30), <2>6, <2>7 DEF k
  <1>7. /\ ppc[p] = "idle" /\ ws[r] # NULL /\ ~Active(r)
        /\ UNCHANGED <<runVars, runs, life, bound, ws, tree, branch, merged, squashed, lost, shared>>
        /\ forced' = [forced EXCEPT ![r] = forced[r] \/ f]
    BY DEF cleanup_workspace, cleanup_allowed, runVars, rowVars, gitVars
  <1>8. ppc' = [ppc EXCEPT ![p] = l] /\ pjob' = [pjob EXCEPT ![p] = j]
    <2>1. /\ ppc' = [ppc EXCEPT ![p] = next]
          /\ pjob' = [pjob EXCEPT ![p] = [NoJob(r) EXCEPT !.force = f, !.seen = Len(life[r]),
                 !.head = IF next = "proving" THEN branch[r] ELSE NULL,
                 !.merged = (next = "removing" /\ contained)]]
      BY Zenon DEF cleanup_workspace, Start, next, contained
    <2> QED
      BY <1>2, <1>3, <1>4, <1>5, <1>6, <2>1, Zenon
  <1>9. /\ forced' \in [RunId -> BOOLEAN] /\ (f => forced'[r])
        /\ \A o \in RunId : forced[o] => forced'[o]
    BY <1>0, <1>7 DEF WsTypeOK
  <1>10. JobShape(l, j)'
    <2>1. bound[r] /\ Active(r)' = Active(r)
      BY <1>7 DEF WsInv, RowsBound, Active
    <2> QED
      BY <1>1, <1>2, <1>4, <1>6, <1>7, <1>9, <2>1 DEF JobShape, Cleaning
  <1>11. /\ ppc' \in [Proc -> Pc] /\ pjob' \in [Proc -> Job \cup {NULL}] /\ Jobs'
         /\ ppc'[p] = l
         /\ \A q \in Proc \ {p} : ppc'[q] = ppc[q] /\ pjob'[q] = pjob[q]
    <2>1. l \in Pc
      BY DEF Pc
    <2> QED
      BY ZenonT(30), <1>8, <1>10, <2>1, MoverJobs
  <1>12. \A q \in Proc, o \in RunId : Creating(q, o)' => Creating(q, o)
    BY <1>11 DEF Creating
  <1>13. WsTypeOK'
    BY <1>0, <1>7, <1>9, <1>11 DEF WsTypeOK, Pc
  <1>14. CreationsShared' /\ RowsBound' /\ RemovedStaysGone'
    BY ZenonT(30), <1>7, <1>12 DEF WsInv, CreationsShared, RowsBound, RemovedStaysGone
  <1>15. NoWorkLost'
    BY ZenonT(30), <1>7, <1>9, <1>13 DEF WsInv, NoWorkLost
  <1> QED
    BY ZenonT(30), <1>11, <1>14, <1>15 DEF Kept, WsRest

\* A row becomes "removed" once the worktree is gone.
LEMMA RemovedKept ==
    ASSUME WsInv, [WsNext]_wsAllVars, NEW p \in Proc, record_missing(p) \/ record_removed(p)
    PROVE  Kept'
  <1>0. WsTypeOK
    BY DEF WsInv, NoWorkLost
  <1>1. PICK r \in RunId : r = pjob[p].run /\ bound[r] /\ (tree[r] = NULL \/ shared[r])
    BY DEF record_missing, record_removed, WsInv, Jobs, JobShape, Cleaning, Job
  <1>2. /\ UNCHANGED <<runs, bound, tree, branch, merged, squashed, forced, lost, shared>>
        /\ ws' = [ws EXCEPT ![r] = "removed"] /\ Done(p)
    BY ZenonT(30), <1>1 DEF record_missing, record_removed, runVars, gitVars, pastVars
  <1>3. /\ ppc' \in [Proc -> Pc] /\ pjob' \in [Proc -> Job \cup {NULL}] /\ Jobs'
        /\ \A q \in Proc, o \in RunId : Creating(q, o)' => Creating(q, o)
    BY ZenonT(30), <1>2, DoneStep
  <1>4. /\ ws' \in [RunId -> {NULL, "active", "preserved", "removed"}]
        /\ \A o \in RunId \ {r} : ws'[o] = ws[o]
    BY <1>0, <1>2 DEF WsTypeOK
  <1>5. WsTypeOK'
    BY <1>0, <1>2, <1>3, <1>4 DEF WsTypeOK, Pc
  <1>6. CreationsShared' /\ RowsBound' /\ NoWorkLost'
    BY ZenonT(30), <1>1, <1>2, <1>3, <1>4, <1>5 DEF WsInv, CreationsShared, RowsBound, NoWorkLost
  <1>7. RemovedStaysGone'
    BY ZenonT(30), <1>1, <1>2, <1>4 DEF WsInv, RemovedStaysGone
  <1> QED
    BY <1>3, <1>6, <1>7 DEF Kept, WsRest

\* The squash proof, with the status read again.
LEMMA ProveKept ==
    ASSUME WsInv, [WsNext]_wsAllVars, NEW p \in Proc, prove_squash(p)
    PROVE  Kept'
  <1>0. WsTypeOK
    BY DEF WsInv, NoWorkLost
  <1>1. PICK j \in Job, r \in RunId : j = pjob[p] /\ r = j.run /\ JobShape("proving", j)
    BY DEF prove_squash, WsInv, Jobs, JobShape, Cleaning, Job
  <1>2. PICK k \in Job : /\ k = [j EXCEPT !.head = NULL]
                         /\ k.run = r /\ k.force = j.force /\ k.seen = j.seen
    BY ZenonT(100), <1>1 DEF Job
  <1>3. PICK l \in {"removing", "preserving"} :
          ppc' = [ppc EXCEPT ![p] = l] /\ pjob' = [pjob EXCEPT ![p] = k]
    BY ZenonT(30), <1>1, <1>2 DEF prove_squash, Start
  <1>4. /\ UNCHANGED <<runs, life, bound, ws, tree, branch, merged, squashed, forced, lost, shared>>
        /\ ppc[p] = "proving"
    BY DEF prove_squash, runVars, rowVars, gitVars, pastVars
  <1>5. JobShape(l, k)'
    BY <1>1, <1>2, <1>4 DEF JobShape, Cleaning, Active
  <1>6. /\ ppc' \in [Proc -> Pc] /\ pjob' \in [Proc -> Job \cup {NULL}] /\ Jobs'
        /\ ppc'[p] = l
        /\ \A q \in Proc \ {p} : ppc'[q] = ppc[q] /\ pjob'[q] = pjob[q]
    <2>1. l \in Pc
      BY DEF Pc
    <2> QED
      BY ZenonT(30), <1>3, <1>5, <2>1, MoverJobs
  <1>7. \A q \in Proc, o \in RunId : Creating(q, o)' => Creating(q, o)
    BY <1>6 DEF Creating
  <1>8. WsTypeOK'
    BY <1>0, <1>4, <1>6 DEF WsTypeOK, Pc
  <1>9. WsRest'
    BY ZenonT(30), <1>4, <1>7, <1>8, QuietRest
  <1> QED
    BY ZenonT(30), <1>6, <1>9 DEF Kept

\* git worktree remove: edits go only when forced, and a branch only when main
\* contains it.
LEMMA RemoveKept ==
    ASSUME WsInv, [WsNext]_wsAllVars, NEW p \in Proc, remove_worktree(p)
    PROVE  Kept'
  <1>0. WsTypeOK
    BY DEF WsInv, NoWorkLost
  <1>1. PICK j \in Job, r \in RunId : /\ j = pjob[p] /\ r = j.run /\ JobShape("removing", j)
                                      /\ bound[r] /\ (j.force => forced[r])
    BY ZenonT(30) DEF remove_worktree, WsInv, Jobs, JobShape, Cleaning, Job
  <1>2. /\ ppc[p] = "removing" /\ Goto(p, "unlisting")
        /\ tree[r] = "clean" \/ (tree[r] = "dirty" /\ j.force)
        /\ tree' = [tree EXCEPT ![r] = NULL]
        /\ UNCHANGED <<runs, life, bound, ws, merged, squashed, forced, shared>>
    BY ZenonT(30), <1>1 DEF remove_worktree, runVars, rowVars
  <1>3. branch' = branch \/ (branch[r] <= merged[r] /\ branch' = [branch EXCEPT ![r] = NULL])
    BY <1>1 DEF remove_worktree, delete_branch
  <1>4. /\ tree' \in [RunId -> {NULL, "clean", "dirty"}] /\ tree'[r] = NULL
        /\ \A o \in RunId \ {r} : tree'[o] = tree[o]
        /\ branch' \in [RunId -> Tip \cup {NULL}]
        /\ \A o \in RunId \ {r} : branch'[o] = branch[o]
    BY ZenonT(30), <1>0, <1>2, <1>3 DEF WsTypeOK
  <1>5. tree[r] = "dirty" => forced[r]
    BY ZenonT(30), <1>1, <1>2
  <1>6. ~(branch[r] # branch'[r] /\ branch[r] > merged[r])
    <2>1. CASE branch' = branch
      BY <2>1
    <2>2. CASE branch[r] <= merged[r] /\ branch' = [branch EXCEPT ![r] = NULL]
      <3>1. branch[r] # NULL
        BY <1>2, WorkspacesNullAssumption DEF WsInv, RowsBound
      <3>2. branch[r] \in Nat /\ merged[r] \in Nat
        BY <1>0, <3>1, WorkspacesAssumption DEF WsTypeOK, Tip
      <3> QED
        BY <2>2, <3>2
    <2> QED
      BY <1>3, <2>1, <2>2
  <1>7. /\ lost' \in [RunId -> BOOLEAN]
        /\ \A o \in RunId : lost'[o] => lost[o] \/ forced[o]
    <2>1. lost' = [lost EXCEPT ![r] = lost[r] \/ tree[r] = "dirty"
               \/ (branch[r] # branch'[r] /\ branch[r] > merged[r])]
      BY ZenonT(30), <1>1 DEF remove_worktree, Loses
    <2> QED
      BY <1>0, <1>5, <1>6, <2>1 DEF WsTypeOK
  <1>8. JobShape("unlisting", pjob[p])'
    <2>1. JobShape("unlisting", j)'
      BY ZenonT(30), <1>1, <1>2, <1>4 DEF JobShape, Cleaning, Active
    <2>2. pjob'[p] = j
      BY ZenonT(30), <1>1, <1>2 DEF Goto
    <2> QED
      BY ZenonT(30), <2>1, <2>2 DEF JobShape
  <1>9. /\ ppc' \in [Proc -> Pc] /\ pjob' \in [Proc -> Job \cup {NULL}] /\ Jobs'
        /\ \A q \in Proc, o \in RunId : Creating(q, o)' => Creating(q, o)
    BY <1>2, <1>8, GotoStep DEF Pc
  <1>10. WsTypeOK'
    <2>1. /\ bound' \in [RunId -> BOOLEAN] /\ merged' \in [RunId -> Tip]
          /\ ws' \in [RunId -> {NULL, "active", "preserved", "removed"}]
          /\ squashed' \in [RunId -> Tip \cup {NULL}]
          /\ forced' \in [RunId -> BOOLEAN] /\ shared' \in [RunId -> BOOLEAN]
      BY <1>0, <1>2 DEF WsTypeOK
    <2>2. {forced', lost', shared'} \subseteq [RunId -> BOOLEAN]
      BY <1>7, <2>1, ZenonT(30)
    <2> QED
      BY <1>4, <1>9, <2>1, <2>2 DEF WsTypeOK, Pc
  <1>11. CreationsShared' /\ RowsBound' /\ RemovedStaysGone'
    <2>1. CreationsShared'
      BY <1>2, <1>9, CreationsKept, ZenonT(30)
    <2>2. RowsBound'
      BY ZenonT(100), <1>2, <1>4, WorkspacesNullAssumption DEF WsInv, RowsBound
    <2>3. RemovedStaysGone'
      BY <1>2, <1>4 DEF WsInv, RemovedStaysGone
    <2> QED
      BY <2>1, <2>2, <2>3
  <1>12. NoWorkLost'
    BY ZenonT(30), <1>2, <1>7, <1>10 DEF WsInv, NoWorkLost
  <1> QED
    BY <1>9, <1>11, <1>12 DEF Kept, WsRest

\* What happens outside the commands: agents edit and commit, GitHub merges, the
\* operator preserves, and runs are claimed, end, rest, are orphaned and resumed.
RunSteps ==
    \/ \E r \in RunId : resume_with_workspace(r) \/ end_run(r) \/ silence(r)
    \/ reconcile_runs
    \/ \E r \in RunId, t \in Task, w \in Worker, s \in Sha, pl \in Plan : claim_run(r, t, w, s, pl)
Outside ==
    \/ UNCHANGED wsAllVars \/ RunSteps
    \/ \E r \in RunId : agent_edit(r) \/ agent_commit(r) \/ merge_branch(r) \/ preserve_workspace(r)

\* Agents, GitHub, the operator and the run transactions keep what the commands know.
LEMMA OutsideKept ==
    ASSUME WsInv, [WsNext]_wsAllVars, Outside
    PROVE  Kept'
  <1>0. WsTypeOK
    BY DEF WsInv, NoWorkLost
  <1>1. RunSteps \/ UNCHANGED wsAllVars => UNCHANGED wsVars
    BY ZenonT(30) DEF RunSteps, resume_with_workspace, end_run, silence, reconcile_runs, claim_run, wsAllVars
  <1>2. UNCHANGED procVars
    BY <1>1 DEF Outside, agent_edit, agent_commit, merge_branch, preserve_workspace, wsVars
  <1>3. /\ \A q \in Proc : ppc'[q] = ppc[q] /\ pjob'[q] = pjob[q]
        /\ ppc' \in [Proc -> Pc] /\ pjob' \in [Proc -> Job \cup {NULL}]
    BY <1>0, <1>2 DEF procVars, WsTypeOK, Pc
  <1>4. Jobs'
    BY <1>3, ShapeKept DEF Jobs
  <1>5. \A q \in Proc, r \in RunId : Creating(q, r)' => Creating(q, r)
    BY <1>3 DEF Creating
  <1> SUFFICES WsRest'
    BY <1>4 DEF Kept
  <1>6. ASSUME NEW r \in RunId, agent_edit(r) \/ agent_commit(r)
        PROVE  WsRest'
    <2>1. UNCHANGED <<runs, bound, ws, merged, squashed, forced, lost, shared>>
      BY <1>6 DEF agent_edit, agent_commit, runVars, rowVars, pastVars
    <2>2. tree[r] # NULL /\ bound[r] /\ branch[r] # NULL /\ branch[r] \in Tip
      BY <1>0, <1>6, WorkspacesNullAssumption
         DEF agent_edit, agent_commit, WsInv, RowsBound, WsTypeOK
    <2>3. /\ tree' \in [RunId -> {NULL, "clean", "dirty"}]
          /\ \A o \in RunId \ {r} : tree'[o] = tree[o]
      BY <1>0, <1>6 DEF agent_edit, agent_commit, WsTypeOK
    <2>4. /\ branch' \in [RunId -> Tip \cup {NULL}]
          /\ \A o \in RunId : branch[o] # NULL => branch'[o] # NULL
      <3>1. CASE agent_edit(r)
        BY <1>0, <3>1 DEF agent_edit, WsTypeOK
      <3>2. CASE agent_commit(r)
        <4>1. branch[r] + 1 \in Tip
          BY <2>2, <3>2, WorkspacesAssumption DEF agent_commit, Tip
        <4> QED
          BY <1>0, <3>2, <4>1, WorkspacesNullAssumption DEF agent_commit, WsTypeOK
      <3> QED
        BY <1>6, <3>1, <3>2
    <2>5. WsTypeOK'
      BY <1>0, <1>3, <2>1, <2>3, <2>4 DEF WsTypeOK, Pc
    <2>6. CreationsShared' /\ NoWorkLost'
      BY ZenonT(30), <1>5, <2>1, <2>5 DEF WsInv, CreationsShared, NoWorkLost
    <2>7. RowsBound'
      BY <2>1, <2>2, <2>3, <2>4 DEF WsInv, RowsBound
    <2>8. RemovedStaysGone'
      BY <2>1, <2>2, <2>3 DEF WsInv, RemovedStaysGone
    <2> QED
      BY <2>6, <2>7, <2>8 DEF WsRest
  <1>7. CASE /\ UNCHANGED <<bound, tree, branch, forced, lost, shared>>
             /\ merged' \in [RunId -> Tip] /\ squashed' \in [RunId -> Tip \cup {NULL}]
             /\ UNCHANGED ws \/ \E r \in RunId : preserve_workspace(r)
    <2>1. /\ ws' \in [RunId -> {NULL, "active", "preserved", "removed"}]
          /\ \A r \in RunId : ws'[r] \in {ws[r], "preserved"} /\ (ws'[r] # ws[r] => bound[r])
      <3>1. CASE UNCHANGED ws
        BY <1>0, <3>1 DEF WsTypeOK
      <3>2. CASE \E r \in RunId : preserve_workspace(r)
        BY ZenonT(100), <1>0, <3>2 DEF preserve_workspace, WsTypeOK, WsInv, RowsBound
      <3> QED
        BY <1>7, <3>1, <3>2
    <2>2. WsTypeOK'
      BY <1>0, <1>3, <1>7, <2>1 DEF WsTypeOK, Pc
    <2> QED
      BY <1>5, <1>7, <2>1, <2>2, QuietRest
  <1>8. ASSUME NEW r \in RunId, merge_branch(r)
        PROVE  WsRest'
    <2>1. branch[r] \in Tip
      BY <1>0, <1>8 DEF merge_branch, WsTypeOK
    <2>2. merged' \in [RunId -> Tip] /\ squashed' \in [RunId -> Tip \cup {NULL}]
      BY <1>0, <1>8, <2>1 DEF merge_branch, WsTypeOK
    <2> QED
      BY <1>7, <1>8, <2>2 DEF merge_branch, rowVars, pastVars
  <1>9. ASSUME NEW r \in RunId, preserve_workspace(r)
        PROVE  WsRest'
    BY ZenonT(30), <1>0, <1>7, <1>9 DEF preserve_workspace, gitVars, pastVars, WsTypeOK
  <1>10. CASE UNCHANGED wsVars
    BY <1>0, <1>7, <1>10 DEF wsVars, rowVars, gitVars, pastVars, WsTypeOK
  <1> QED
    BY <1>1, <1>6, <1>8, <1>9, <1>10 DEF Outside

-----------------------------------------------------------------------------

\* The invariant holds before the first command.
LEMMA WsInitInv ==
    ASSUME WsInit
    PROVE  WsInv
  <1>1. IInv
    BY InitInv DEF WsInit
  <1>2. 0 \in Tip
    BY WorkspacesAssumption DEF Tip
  <1>3. WsTypeOK
    BY <1>2 DEF WsInit, WsTypeOK
  <1>4. Jobs /\ CreationsShared
    BY DEF WsInit, Jobs, JobShape, Cleaning, CreationsShared, Creating
  <1>5. RowsBound /\ RemovedStaysGone /\ NoWorkLost
    BY <1>3, WorkspacesNullAssumption DEF WsInit, RowsBound, RemovedStaysGone, NoWorkLost
  <1> QED
    BY <1>1, <1>4, <1>5 DEF WsInv

\* Every step preserves the invariant.
LEMMA WsStepInv ==
    ASSUME WsInv, [WsNext]_wsAllVars
    PROVE  WsInv'
  <1>1. IInv'
    BY StepRefines, StepInv DEF WsInv
  <1>2. Kept'
    BY ZenonT(30), CreateKept, AddKept, RecordKept, RollBackKept, RefuseKept, EndKept, CleanupKept,
       RemovedKept, ProveKept, RemoveKept, OutsideKept DEF WsNext, Outside, RunSteps
  <1> QED
    BY <1>1, <1>2 DEF WsInv, Kept, WsRest

\* In every reachable state the workspaces satisfy their inductive invariant.
THEOREM WorkspacesSafe == WsSpec => []WsInv
  <1>1. WsInit => WsInv
    BY WsInitInv
  <1>2. WsInv /\ [WsNext]_wsAllVars => WsInv'
    BY WsStepInv
  <1> QED
    BY <1>1, <1>2, PTL DEF WsSpec

\* cleanup_workspace removes what it records, nothing that is in use and no work
\* of an agent, wherever edits and commits fall between its checks and git
\* worktree remove, but for the resumption it cannot see and for overlapping
\* creations.
THEOREM CleanupIsExact == WsSpec => CleanupExact
  <1>1. ASSUME WsInv, [WsNext]_wsAllVars
        PROVE  CleanupStep /\ RemovedStaysGone' /\ NoWorkLost'
    <2>1. RemovedStaysGone' /\ NoWorkLost'
      BY <1>1, WsStepInv DEF WsInv
    <2>2. CleanupStep
      <3> SUFFICES ASSUME NEW p \in Proc, ppc[p] = "removing", Active(pjob[p].run)
                   PROVE  Len(life[pjob[p].run]) > pjob[p].seen
        BY DEF CleanupStep
      <3>1. /\ pjob[p] \in Job /\ pjob[p].run \in RunId /\ pjob[p].seen \in Nat
            /\ pjob[p].seen < Len(life[pjob[p].run])
        BY <1>1 DEF WsInv, Jobs, JobShape, Cleaning, Job
      <3>2. Len(life[pjob[p].run]) \in Nat
        BY <1>1, <3>1, LifeStep
      <3> QED
        BY <3>1, <3>2
    <2> QED
      BY <2>1, <2>2
  <1> QED
    BY <1>1, WorkspacesSafe, PTL DEF WsSpec, CleanupExact

\* Every behaviour of the workspace commands is one of the run tables, so what is
\* proved of RunStore holds with them.
THEOREM WorkspacesRefineRunStore == WsSpec => WsImplementsRunStore
  <1>1. WsInit => Init
    BY DEF WsInit
  <1>2. WsInv /\ [WsNext]_wsAllVars => [Next]_runVars
    BY StepRefines
  <1> QED
    BY <1>1, <1>2, WorkspacesSafe, PTL DEF WsSpec, Spec, WsImplementsRunStore

-----------------------------------------------------------------------------
\* Reviewed fetches and imports (FetchApply).

Fetching == {"probe", "fetch", "read", "compare", "cleanup", "commit"}
Importing == {"import", "sync", "verify", "replace"}
FtPc == {"idle", "reviewed", "readback"} \cup Fetching \cup Importing \cup Outcome

Call == [pc : FtPc, source : Commit \cup {NoCommit}, before : Commit \cup {NoCommit},
         seen : Commit \cup {NoCommit}, moved : BOOLEAN, raced : BOOLEAN]

\* What a call knows at each point, x being the document in place: a call that goes
\* on has something to move, the commit it compares or moves to is the fetched one
\* and a descendant, and the document it replaces is the reviewed one unless
\* another replacement came in between.
CallOK(c, x) ==
  /\ c \in Call
  /\ c.pc \in Fetching => c.source \in Commit /\ c.source # c.before
  /\ c.pc \in {"compare", "commit"} => c.seen = c.source
  /\ c.pc = "commit" => FastForward(c.before, c.source)
  /\ c.pc = "replace" => x = c.before \/ c.raced
  /\ c.moved => c.pc \in {"readback", "applied", "error"}
  /\ c.pc \in {"readback", "applied"} => c.moved

\* The call c answers for the temporary ref of t, whose value is x: it fetched into
\* it and has not looked yet, or it has seen this value.
Answers(c, t, x) ==
  c.source = t /\ (c.pc = "read" \/ (c.pc \in {"compare", "cleanup", "commit"} /\ c.seen = x))

\* A temporary ref was left behind, or some call answers for its present value:
\* that a call merely holds it is not inductive, since calls share it.
TempAnswered ==
  \A t \in Commit : temp[t] # NoCommit =>
    t \in left \/ \E p \in Caller : Answers(call[p], t, temp[t])

FetchInv ==
  /\ FtTypeOK /\ call \in [Caller -> Call]
  /\ \A p \in Caller : CallOK(call[p], target)
  /\ TempAnswered


\* The initial state: no call, no temporary ref.
LEMMA FetchInitial == FtInit => FetchInv
  <1> SUFFICES ASSUME FtInit PROVE FetchInv
    OBVIOUS
  <1>1. NoCall \in Call /\ CallOK(NoCall, target)
    BY DEF NoCall, Call, CallOK, FtPc, Fetching, Importing
  <1>2. call \in [Caller -> Call] /\ \A p \in Caller : CallOK(call[p], target)
    BY <1>1 DEF FtInit
  <1>3. FtTypeOK /\ TempAnswered
    BY DEF FtInit, FtTypeOK, TempAnswered
  <1> QED
    BY <1>2, <1>3 DEF FetchInv

\* A step of the call p, which becomes c, keeps the invariant when c knows what a
\* call at its place has to know, and every temporary ref is left behind, answered
\* for by c, or untouched and not a matter of p.
LEMMA CallStep ==
  ASSUME FetchInv, NEW p \in Caller, NEW c, call' = [call EXCEPT ![p] = c],
         FtTypeOK', target' = target, CallOK(c, target),
         \A t \in Commit : temp'[t] # NoCommit =>
           \/ t \in left' \/ Answers(c, t, temp'[t])
           \/ temp'[t] = temp[t] /\ (t \in left => t \in left') /\ ~Answers(call[p], t, temp[t])
  PROVE  FetchInv'
  <1>1. c \in Call
    BY DEF CallOK
  <1>2. call' \in [Caller -> Call] /\ call'[p] = c /\ \A q \in Caller : q # p => call'[q] = call[q]
    BY <1>1 DEF FetchInv
  <1>3. \A q \in Caller : CallOK(call'[q], target')
    BY <1>2 DEF FetchInv
  <1>4. ASSUME NEW t \in Commit, temp'[t] # NoCommit
        PROVE  t \in left' \/ \E q \in Caller : Answers(call'[q], t, temp'[t])
    <2>1. CASE t \in left' \/ Answers(c, t, temp'[t])
      BY <1>2, <2>1
    <2>2. CASE temp'[t] = temp[t] /\ (t \in left => t \in left') /\ ~Answers(call[p], t, temp[t])
      <3>1. t \in left \/ \E q \in Caller : Answers(call[q], t, temp[t])
        BY <1>4, <2>2 DEF FetchInv, TempAnswered
      <3> QED
        BY <1>2, <2>2, <3>1
    <2> QED
      BY <1>4, <2>1, <2>2
  <1> QED
    BY <1>2, <1>3, <1>4 DEF FetchInv, TempAnswered

\* A step of p that leaves the world alone: whoever answered goes on answering.
LEMMA QuietStep ==
  ASSUME FetchInv, NEW p \in Caller, NEW c, call' = [call EXCEPT ![p] = c],
         UNCHANGED worldVars, CallOK(c, target),
         \A t \in Commit : Answers(call[p], t, temp[t]) => Answers(c, t, temp[t])
  PROVE  FetchInv'
  <1>1. temp' = temp /\ left' = left /\ target' = target
    BY DEF worldVars
  <1>2. FtTypeOK'
    BY DEF FetchInv, FtTypeOK, worldVars
  <1>3. \A t \in Commit : temp'[t] # NoCommit =>
           \/ t \in left' \/ Answers(c, t, temp'[t])
           \/ temp'[t] = temp[t] /\ (t \in left => t \in left') /\ ~Answers(call[p], t, temp[t])
    BY <1>1
  <1> QED
    BY <1>1, <1>2, <1>3, CallStep

\* A call moved to l has its other fields as before.
LEMMA MovedTo ==
  ASSUME call \in [Caller -> Call], NEW p \in Caller, NEW l \in FtPc, To(p, l)
  PROVE  \E c \in Call : /\ call' = [call EXCEPT ![p] = c] /\ c.pc = l
                         /\ c.source = call[p].source /\ c.before = call[p].before
                         /\ c.seen = call[p].seen /\ c.moved = call[p].moved
                         /\ c.raced = call[p].raced
  <1>1. PICK c : c = [call[p] EXCEPT !.pc = l]
    OBVIOUS
  <1>2. call[p] \in Call
    OBVIOUS
  <1>3. /\ c \in Call /\ c.pc = l /\ c.source = call[p].source /\ c.before = call[p].before
        /\ c.seen = call[p].seen /\ c.moved = call[p].moved /\ c.raced = call[p].raced
    BY <1>1, <1>2 DEF Call
  <1>4. call' = [call EXCEPT ![p] = c]
    BY <1>1 DEF To
  <1> QED
    BY <1>3, <1>4

\* A call that is done, or has not begun to fetch, answers for nothing.
LEMMA NoAnswer ==
  ASSUME NEW c, c.pc \notin {"read", "compare", "cleanup", "commit"}
  PROVE  \A t, x : ~Answers(c, t, x)
  BY DEF Answers

\* Planning, comparing with the plan, probing and failing to fetch.
LEMMA BeginSteps ==
  ASSUME FetchInv, NEW p \in Caller,
         \/ plan_fetch(p) \/ apply_repo_fetch_plan(p) \/ probe_temp_ref(p) \/ fetch_fails(p)
         \/ plan_import(p) \/ apply_source_import_plan(p) \/ source_sync(p)
         \/ _atomic_write_if_preimage(p) \/ post_readback(p) \/ return(p)
  PROVE  FetchInv'
  <1>1. UNCHANGED worldVars
    BY ZenonT(30) DEF plan_fetch, apply_repo_fetch_plan, probe_temp_ref, fetch_fails, plan_import,
       apply_source_import_plan, source_sync, _atomic_write_if_preimage, post_readback, return
  <1>2. \A t \in Commit : ~Answers(call[p], t, temp[t])
    <2>1. call[p].pc \notin {"read", "compare", "cleanup", "commit"}
      BY DEF plan_fetch, apply_repo_fetch_plan, probe_temp_ref, fetch_fails, plan_import,
         apply_source_import_plan, source_sync, _atomic_write_if_preimage, post_readback, return,
         Outcome
    <2> QED
      BY <2>1 DEF Answers
  <1>3. SUFFICES \E c : call' = [call EXCEPT ![p] = c] /\ CallOK(c, target)
    BY <1>1, <1>2, QuietStep
  <1>4. call \in [Caller -> Call] /\ call[p] \in Call /\ CallOK(call[p], target) /\ FtTypeOK
    BY DEF FetchInv
  <1>5. NoCall \in Call /\ CallOK(NoCall, target)
    BY DEF NoCall, Call, CallOK, FtPc, Fetching, Importing
  <1>6. CASE return(p)
    BY <1>5, <1>6 DEF return
  <1>7. CASE plan_fetch(p)
    <2>1. PICK c : c = [NoCall EXCEPT !.pc = "reviewed", !.source = remote, !.before = dest]
      OBVIOUS
    <2>2. call' = [call EXCEPT ![p] = c]
      BY <1>7, <2>1 DEF plan_fetch, repo_fetch_plan
    <2>3. CallOK(c, target)
      BY <1>4, <2>1 DEF FtTypeOK, NoCall, Call, CallOK, FtPc, Fetching, Importing
    <2> QED
      BY <2>2, <2>3
  <1>8. CASE plan_import(p)
    <2>1. PICK c : c = [NoCall EXCEPT !.pc = "import", !.source = dest, !.before = target]
      OBVIOUS
    <2>2. call' = [call EXCEPT ![p] = c]
      BY <1>8, <2>1 DEF plan_import, source_import_plan
    <2>3. CallOK(c, target)
      BY <1>4, <2>1 DEF FtTypeOK, NoCall, Call, CallOK, FtPc, Fetching, Importing
    <2> QED
      BY <2>2, <2>3
  <1>9. CASE apply_repo_fetch_plan(p)
    <2>1. PICK l \in {"refused", "no-op", "probe"} :
            /\ To(p, l) /\ call[p].pc = "reviewed"
            /\ l = "probe" => /\ call[p].source = remote /\ call[p].before = dest
                              /\ remote # dest
      BY <1>9 DEF apply_repo_fetch_plan, repo_fetch_plan
    <2>2. PICK c \in Call : /\ call' = [call EXCEPT ![p] = c] /\ c.pc = l
                            /\ c.source = call[p].source /\ c.before = call[p].before
                            /\ c.seen = call[p].seen /\ c.moved = call[p].moved
                            /\ c.raced = call[p].raced
      BY ZenonT(100), <1>4, <2>1, MovedTo DEF FtPc, Fetching, Outcome
    <2>3. ~c.moved
      BY <1>4, <2>1, <2>2 DEF CallOK
    <2>4. CallOK(c, target)
      BY <1>4, <2>1, <2>2, <2>3 DEF CallOK, FtTypeOK, Fetching
    <2> QED
      BY <2>2, <2>4
  <1>10. CASE probe_temp_ref(p) \/ fetch_fails(p)
    <2>1. PICK l \in {"fetch", "refused", "error"} : To(p, l) /\ call[p].pc \in {"probe", "fetch"}
      BY <1>10 DEF probe_temp_ref, fetch_fails
    <2>2. PICK c \in Call : /\ call' = [call EXCEPT ![p] = c] /\ c.pc = l
                            /\ c.source = call[p].source /\ c.before = call[p].before
                            /\ c.seen = call[p].seen /\ c.moved = call[p].moved
                            /\ c.raced = call[p].raced
      BY <1>4, <2>1, MovedTo DEF FtPc, Fetching, Outcome
    <2>3. ~c.moved
      BY <1>4, <2>1, <2>2 DEF CallOK
    <2>4. CallOK(c, target)
      BY <1>4, <2>1, <2>2, <2>3 DEF CallOK, Fetching
    <2> QED
      BY <2>2, <2>4
  <1>11. CASE apply_source_import_plan(p) \/ source_sync(p) \/ _atomic_write_if_preimage(p)
    <2>1. PICK l \in {"sync", "verify", "replace", "refused", "no-op"} :
            /\ To(p, l) /\ call[p].pc \in {"import", "sync", "verify"}
            /\ l = "replace" => target = call[p].before
      BY <1>11 DEF apply_source_import_plan, source_sync, _atomic_write_if_preimage
    <2>2. PICK c \in Call : /\ call' = [call EXCEPT ![p] = c] /\ c.pc = l
                            /\ c.source = call[p].source /\ c.before = call[p].before
                            /\ c.seen = call[p].seen /\ c.moved = call[p].moved
                            /\ c.raced = call[p].raced
      BY ZenonT(100), <1>4, <2>1, MovedTo DEF FtPc, Importing, Outcome
    <2>3. ~c.moved
      BY <1>4, <2>1, <2>2 DEF CallOK
    <2>4. CallOK(c, target)
      BY <2>1, <2>2, <2>3 DEF CallOK, Fetching
    <2> QED
      BY <2>2, <2>4
  <1>12. CASE post_readback(p)
    <2>1. PICK l \in {"applied", "error"} : To(p, l) /\ call[p].pc = "readback"
      BY <1>12 DEF post_readback
    <2>2. PICK c \in Call : /\ call' = [call EXCEPT ![p] = c] /\ c.pc = l
                            /\ c.source = call[p].source /\ c.before = call[p].before
                            /\ c.seen = call[p].seen /\ c.moved = call[p].moved
                            /\ c.raced = call[p].raced
      BY <1>4, <2>1, MovedTo DEF FtPc, Outcome
    <2>3. c.moved
      BY <1>4, <2>1, <2>2 DEF CallOK
    <2>4. CallOK(c, target)
      BY <2>1, <2>2, <2>3 DEF CallOK, Fetching
    <2> QED
      BY <2>2, <2>4
  <1> QED
    BY <1>6, <1>7, <1>8, <1>9, <1>10, <1>11, <1>12


\* Fetching into the temporary ref makes the call answer for it.
LEMMA FetchStep == ASSUME FetchInv, NEW p \in Caller, git_fetch(p) PROVE FetchInv'
  <1>1. call \in [Caller -> Call] /\ call[p] \in Call /\ CallOK(call[p], target) /\ FtTypeOK
    BY DEF FetchInv
  <1>2. PICK c \in Call : /\ call' = [call EXCEPT ![p] = c] /\ c.pc = "read"
                          /\ c.source = call[p].source /\ c.before = call[p].before
                          /\ c.seen = call[p].seen /\ c.moved = call[p].moved
                          /\ c.raced = call[p].raced
    BY <1>1, MovedTo DEF git_fetch, FtPc, Fetching
  <1>3. PICK s \in Commit : s = call[p].source /\ s # call[p].before /\ call[p].pc = "fetch" /\ ~call[p].moved
    BY <1>1 DEF git_fetch, CallOK, Fetching
  <1>4. CallOK(c, target)
    BY <1>2, <1>3 DEF CallOK
  <1>5. temp' = [temp EXCEPT ![s] = remote] /\ left' = left \ {s} /\ target' = target
    BY <1>3 DEF git_fetch
  <1>6. FtTypeOK'
    <2>1. temp' \in [Commit -> Commit \cup {NoCommit}] /\ left' \subseteq Commit
      BY <1>1, <1>3, <1>5 DEF FtTypeOK
    <2>2. UNCHANGED <<remote, dest, target, blocked, reserved>>
      BY DEF git_fetch
    <2> QED
      BY <1>1, <2>1, <2>2 DEF FtTypeOK
  <1>7. ASSUME NEW t \in Commit
        PROVE  \/ Answers(c, t, temp'[t])
               \/ temp'[t] = temp[t] /\ (t \in left => t \in left') /\ ~Answers(call[p], t, temp[t])
    <2>1. CASE t = s
      BY <1>2, <1>3, <2>1 DEF Answers
    <2>2. CASE t # s
      BY <1>1, <1>3, <1>5, <2>2 DEF Answers, FtTypeOK
    <2> QED
      BY <2>1, <2>2
  <1> QED
    BY <1>2, <1>4, <1>5, <1>6, <1>7, CallStep

\* Looking at the fetched commit and at the destination.
LEMMA LookSteps ==
  ASSUME FetchInv, NEW p \in Caller, read_fetched(p) \/ compare_destination(p)
  PROVE  FetchInv'
  <1>1. call \in [Caller -> Call] /\ call[p] \in Call /\ CallOK(call[p], target) /\ FtTypeOK
    BY DEF FetchInv
  <1>2. UNCHANGED worldVars
    BY DEF read_fetched, compare_destination
  <1>3. CASE read_fetched(p)
    <2>1. PICK s \in Commit : s = call[p].source /\ s # call[p].before /\ call[p].pc = "read" /\ ~call[p].moved
      BY <1>1, <1>3 DEF read_fetched, CallOK, Fetching
    <2>2. PICK l \in {"compare", "cleanup"} : (l = "compare" => temp[s] = s) /\ Sees(p, l, temp[s])
      BY <1>3, <2>1 DEF read_fetched
    <2>3. PICK c : c = [call[p] EXCEPT !.pc = l, !.seen = temp[s]]
      OBVIOUS
    <2>4. temp[s] \in Commit \cup {NoCommit}
      BY <1>1, <2>1 DEF FtTypeOK
    <2>5. /\ c \in Call /\ c.pc = l /\ c.source = s /\ c.before = call[p].before
          /\ c.seen = temp[s] /\ c.moved = call[p].moved /\ c.raced = call[p].raced
      BY <1>1, <2>1, <2>2, <2>3, <2>4 DEF Call, FtPc, Fetching
    <2>6. call' = [call EXCEPT ![p] = c]
      BY <2>2, <2>3 DEF Sees
    <2>7. CallOK(c, target)
      BY <2>1, <2>2, <2>5 DEF CallOK
    <2>8. \A t \in Commit : Answers(call[p], t, temp[t]) => Answers(c, t, temp[t])
      BY <2>1, <2>2, <2>5 DEF Answers
    <2> QED
      BY <1>2, <2>6, <2>7, <2>8, QuietStep
  <1>4. CASE compare_destination(p)
    <2>1. PICK l \in {"commit", "cleanup"} :
            /\ To(p, l) /\ call[p].pc = "compare"
            /\ l = "commit" => FastForward(call[p].before, call[p].source)
      BY <1>4 DEF compare_destination
    <2>2. PICK c \in Call : /\ call' = [call EXCEPT ![p] = c] /\ c.pc = l
                            /\ c.source = call[p].source /\ c.before = call[p].before
                            /\ c.seen = call[p].seen /\ c.moved = call[p].moved
                            /\ c.raced = call[p].raced
      BY <1>1, <2>1, MovedTo DEF FtPc, Fetching
    <2>3. ~c.moved
      BY <1>1, <2>1, <2>2 DEF CallOK
    <2>4. CallOK(c, target)
      BY <1>1, <2>1, <2>2, <2>3 DEF CallOK, Fetching
    <2>5. \A t \in Commit : Answers(call[p], t, temp[t]) => Answers(c, t, temp[t])
      BY <2>1, <2>2 DEF Answers
    <2> QED
      BY <1>2, <2>2, <2>4, <2>5, QuietStep
  <1> QED
    BY <1>3, <1>4

\* A call that is done with its temporary ref: what it has seen of the ref is gone
\* or left behind, and what it has not seen is answered for by another call.
LEMMA DropSteps ==
  ASSUME FetchInv, NEW p \in Caller, _cleanup_temp_ref(p) \/ update_fails(p)
  PROVE  FetchInv'
  <1>1. call \in [Caller -> Call] /\ call[p] \in Call /\ CallOK(call[p], target) /\ FtTypeOK
    BY DEF FetchInv
  <1>2. PICK s \in Commit : s = call[p].source /\ ~call[p].moved
    BY <1>1 DEF _cleanup_temp_ref, update_fails, CallOK, Fetching
  <1>3. PICK l \in {"conflict", "error"} : To(p, l)
    BY DEF _cleanup_temp_ref, update_fails
  <1>4. PICK c \in Call : /\ call' = [call EXCEPT ![p] = c] /\ c.pc = l
                          /\ c.source = call[p].source /\ c.before = call[p].before
                          /\ c.seen = call[p].seen /\ c.moved = call[p].moved
                          /\ c.raced = call[p].raced
    BY ZenonT(100), <1>1, <1>3, MovedTo DEF FtPc, Outcome
  <1>5. CallOK(c, target)
    BY <1>2, <1>3, <1>4 DEF CallOK, Fetching
  <1>6. \/ temp' = temp /\ left' = left /\ temp[s] # call[p].seen
        \/ temp' = temp /\ left' = left /\ temp[s] = NoCommit
        \/ temp' = temp /\ left' = left \cup {s}
        \/ temp' = [temp EXCEPT ![s] = NoCommit] /\ left' = left \ {s}
    <2>1. CASE _cleanup_temp_ref(p)
      BY <1>2, <2>1 DEF _cleanup_temp_ref
    <2>2. CASE update_fails(p)
      <3>1. call[p].seen = s
        BY <1>1, <1>2, <2>2 DEF update_fails, CallOK
      <3> QED
        BY <1>2, <2>2, <3>1 DEF update_fails
    <2> QED
      BY <2>1, <2>2
  <1>7. target' = target /\ UNCHANGED <<remote, dest, blocked, reserved>>
    BY DEF _cleanup_temp_ref, update_fails
  <1>8. FtTypeOK'
    BY <1>1, <1>2, <1>6, <1>7 DEF FtTypeOK
  <1>9. call[p].pc \in {"cleanup", "commit"}
    BY DEF _cleanup_temp_ref, update_fails
  <1>10. ASSUME NEW t \in Commit, temp'[t] # NoCommit
         PROVE  \/ t \in left'
                \/ temp'[t] = temp[t] /\ (t \in left => t \in left') /\ ~Answers(call[p], t, temp[t])
    <2>1. CASE t = s
      BY <1>1, <1>2, <1>6, <1>9, <1>10, <2>1 DEF Answers, FtTypeOK
    <2>2. CASE t # s
      BY <1>1, <1>2, <1>6, <2>2 DEF Answers, FtTypeOK
    <2> QED
      BY <2>1, <2>2
  <1> QED
    BY <1>4, <1>5, <1>7, <1>8, <1>10, CallStep

\* The transaction of Git drops the temporary ref.
LEMMA UpdateStep == ASSUME FetchInv, NEW p \in Caller, update_refs(p) PROVE FetchInv'
  <1>1. call \in [Caller -> Call] /\ call[p] \in Call /\ CallOK(call[p], target) /\ FtTypeOK
    BY DEF FetchInv
  <1>2. PICK s \in Commit : s = call[p].source /\ call[p].pc = "commit"
    BY <1>1 DEF update_refs, CallOK, Fetching
  <1>3. PICK c : c = [call[p] EXCEPT !.pc = "readback", !.moved = TRUE]
    OBVIOUS
  <1>4. /\ c \in Call /\ c.pc = "readback" /\ c.source = s /\ c.before = call[p].before
        /\ c.moved = TRUE
    BY <1>1, <1>2, <1>3 DEF Call, FtPc
  <1>5. call' = [call EXCEPT ![p] = c]
    BY <1>3 DEF update_refs
  <1>6. CallOK(c, target)
    BY <1>4 DEF CallOK, Fetching
  <1>7. /\ temp' = [temp EXCEPT ![s] = NoCommit] /\ left' = left \ {s} /\ dest' = s
        /\ target' = target /\ UNCHANGED <<remote, blocked, reserved>>
    BY <1>2 DEF update_refs, Transaction
  <1>8. FtTypeOK'
    BY <1>1, <1>2, <1>7 DEF FtTypeOK
  <1>9. ASSUME NEW t \in Commit, temp'[t] # NoCommit
        PROVE  temp'[t] = temp[t] /\ (t \in left => t \in left') /\ ~Answers(call[p], t, temp[t])
    BY <1>1, <1>2, <1>7, <1>9 DEF Answers, FtTypeOK
  <1> QED
    BY <1>5, <1>6, <1>7, <1>8, <1>9, CallStep

\* A replaced document marks the replacements under way as raced.
LEMMA ReplaceStep == ASSUME FetchInv, NEW p \in Caller, os_replace(p) PROVE FetchInv'
  <1>1. call \in [Caller -> Call] /\ FtTypeOK /\ \A q \in Caller : CallOK(call[q], target)
    BY DEF FetchInv
  <1>2. \A q \in Caller : call[q] \in Call
    BY <1>1
  <1>3. temp' = temp /\ left' = left /\ target' = call[p].source /\ call[p].pc = "replace"
    BY DEF os_replace
  <1>4. FtTypeOK'
    <2>1. target' \in Commit \cup {NoCommit}
      BY <1>2, <1>3 DEF Call
    <2>2. UNCHANGED <<remote, dest, temp, left, blocked, reserved>>
      BY DEF os_replace
    <2> QED
      BY <1>1, <2>1, <2>2 DEF FtTypeOK
  <1>5. ASSUME NEW q \in Caller
        PROVE  /\ call'[q] \in Call /\ CallOK(call'[q], target')
               /\ \A t \in Commit : Answers(call[q], t, temp[t]) => Answers(call'[q], t, temp[t])
    <2>1. CASE q = p
      <3>1. PICK c : c = [call[q] EXCEPT !.pc = "applied", !.moved = TRUE]
        OBVIOUS
      <3>2. c \in Call /\ c.pc = "applied" /\ c.moved = TRUE
        BY <1>2, <3>1 DEF Call, FtPc, Outcome
      <3>3. call'[q] = c
        BY <2>1, <3>1 DEF os_replace
      <3>4. CallOK(c, target')
        BY <3>2 DEF CallOK, Fetching
      <3> QED
        BY <1>3, <2>1, <3>2, <3>3, <3>4 DEF Answers
    <2>2. CASE q # p /\ call[q].pc = "replace"
      <3>1. PICK c : c = [call[q] EXCEPT !.raced = TRUE]
        OBVIOUS
      <3>2. c \in Call /\ c.pc = "replace" /\ c.raced = TRUE /\ c.moved = call[q].moved
        BY <1>2, <2>2, <3>1 DEF Call
      <3>3. call'[q] = c
        BY <2>2, <3>1 DEF os_replace
      <3>4. CallOK(c, target')
        BY <1>1, <2>2, <3>2 DEF CallOK, Fetching
      <3> QED
        BY <2>2, <3>2, <3>3, <3>4 DEF Answers
    <2>3. CASE q # p /\ call[q].pc # "replace"
      <3>1. call'[q] = call[q]
        BY <2>3 DEF os_replace
      <3>2. CallOK(call[q], target')
        BY <1>1, <2>3 DEF CallOK
      <3> QED
        BY <1>2, <3>1, <3>2
    <2> QED
      BY <2>1, <2>2, <2>3
  <1>6. call' \in [Caller -> Call]
    <2>1. call' = [q \in Caller |-> call'[q]]
      BY DEF os_replace
    <2> QED
      BY <1>5, <2>1
  <1>7. TempAnswered'
    BY <1>1, <1>3, <1>5 DEF FetchInv, TempAnswered
  <1> QED
    BY <1>4, <1>5, <1>6, <1>7 DEF FetchInv

\* A call that dies leaves what it answered for behind.
LEMMA DeathStep == ASSUME FetchInv, NEW p \in Caller, caller_dies(p) PROVE FetchInv'
  <1>1. call \in [Caller -> Call] /\ call[p] \in Call /\ FtTypeOK
    BY DEF FetchInv
  <1>2. CallOK(NoCall, target)
    BY DEF NoCall, Call, CallOK, FtPc, Fetching, Importing
  <1>3. /\ call' = [call EXCEPT ![p] = NoCall] /\ temp' = temp /\ target' = target
        /\ left' = left \cup {t \in Commit : p \in Holders(t) /\ temp[t] # NoCommit}
    BY DEF caller_dies
  <1>4. FtTypeOK'
    BY <1>1, <1>3 DEF FtTypeOK, caller_dies
  <1>5. \A t \in Commit : Answers(call[p], t, temp[t]) => p \in Holders(t)
    BY DEF Answers, Holders
  <1>6. \A t \in Commit : temp'[t] # NoCommit =>
           \/ t \in left'
           \/ temp'[t] = temp[t] /\ (t \in left => t \in left') /\ ~Answers(call[p], t, temp[t])
    BY <1>3, <1>5
  <1> QED
    BY <1>2, <1>3, <1>4, <1>6, CallStep

\* What others do concerns no call.
LEMMA OthersStep ==
  ASSUME FetchInv, (\E c \in Commit : push(c)) \/ someone_fetches \/ drift \/ run_ends
  PROVE  FetchInv'
  <1>1. UNCHANGED <<temp, target, call, left>>
    BY DEF push, someone_fetches, drift, run_ends, Moves
  <1>2. FtTypeOK'
    BY <1>1 DEF FetchInv, FtTypeOK, push, someone_fetches, drift, run_ends, Moves
  <1> QED
    BY <1>1, <1>2 DEF FetchInv, TempAnswered

\* Every step of FetchApply keeps the invariant.
LEMMA FetchKeeps == FetchInv /\ [FtNext]_ftVars => FetchInv'
  <1> SUFFICES ASSUME FetchInv, [FtNext]_ftVars PROVE FetchInv'
    OBVIOUS
  <1>1. CASE UNCHANGED ftVars
    BY <1>1 DEF FetchInv, FtTypeOK, TempAnswered, ftVars
  <1>2. CASE FtNext
    <2>1. CASE \E p \in Caller :
            \/ plan_fetch(p) \/ apply_repo_fetch_plan(p) \/ probe_temp_ref(p) \/ fetch_fails(p)
            \/ plan_import(p) \/ apply_source_import_plan(p) \/ source_sync(p)
            \/ _atomic_write_if_preimage(p) \/ post_readback(p) \/ return(p)
      BY <2>1, BeginSteps
    <2>2. CASE \E p \in Caller :
            \/ git_fetch(p) \/ read_fetched(p) \/ compare_destination(p) \/ _cleanup_temp_ref(p)
            \/ update_refs(p) \/ update_fails(p) \/ os_replace(p) \/ caller_dies(p)
      BY <2>2, FetchStep, LookSteps, DropSteps, UpdateStep, ReplaceStep, DeathStep
    <2>3. CASE (\E c \in Commit : push(c)) \/ someone_fetches \/ drift \/ run_ends
      BY <2>3, OthersStep
    <2> QED
      BY <1>2, <2>1, <2>2, <2>3 DEF FtNext
  <1> QED
    BY <1>1, <1>2

\* Only the transaction of the refs and the replacement of the document move anything.
LEMMA MovesNothing ==
  ASSUME FetchInv, FtNext, NEW p \in Caller, ~call[p].moved, call'[p].moved
  PROVE  update_refs(p) \/ os_replace(p)
  <1>1. \A q \in Caller : call[q] \in Call
    BY DEF FetchInv
  <1>2. ASSUME NEW q \in Caller, NEW l, To(q, l) PROVE FALSE
    BY <1>1, <1>2 DEF To, FetchInv, Call
  <1>3. ASSUME NEW q \in Caller, NEW l, NEW c, Sees(q, l, c) PROVE FALSE
    BY <1>1, <1>3 DEF Sees, FetchInv, Call
  <1>4. ASSUME NEW q \in Caller, NEW c, c.moved = FALSE, call' = [call EXCEPT ![q] = c] PROVE FALSE
    BY <1>4 DEF FetchInv
  <1>5. ASSUME NEW q \in Caller, plan_fetch(q) \/ plan_import(q) \/ return(q) \/ caller_dies(q)
        PROVE  FALSE
    BY <1>4, <1>5 DEF plan_fetch, plan_import, return, caller_dies, NoCall
  <1>6. ASSUME NEW q \in Caller,
               \/ apply_repo_fetch_plan(q) \/ probe_temp_ref(q) \/ git_fetch(q) \/ fetch_fails(q)
               \/ read_fetched(q) \/ compare_destination(q) \/ _cleanup_temp_ref(q)
        PROVE  FALSE
    BY <1>2, <1>3, <1>6 DEF apply_repo_fetch_plan, probe_temp_ref, git_fetch, fetch_fails,
       read_fetched, compare_destination, _cleanup_temp_ref
  <1>7. ASSUME NEW q \in Caller,
               \/ update_fails(q) \/ post_readback(q) \/ apply_source_import_plan(q)
               \/ source_sync(q) \/ _atomic_write_if_preimage(q)
        PROVE  FALSE
    BY <1>2, <1>7 DEF update_fails, post_readback, apply_source_import_plan, source_sync,
       _atomic_write_if_preimage
  <1>8. ASSUME (\E c \in Commit : push(c)) \/ someone_fetches \/ drift \/ run_ends PROVE FALSE
    BY <1>8 DEF push, someone_fetches, drift, run_ends, Moves
  <1>9. ASSUME NEW q \in Caller, update_refs(q), q # p PROVE FALSE
    <2>1. call'[p] = call[p]
      BY <1>9 DEF update_refs, FetchInv
    <2> QED
      BY <2>1
  <1>10. ASSUME NEW q \in Caller, os_replace(q), q # p PROVE FALSE
    <2>1. call'[p] = IF call[p].pc = "replace" THEN [call[p] EXCEPT !.raced = TRUE] ELSE call[p]
      BY <1>10 DEF os_replace
    <2>2. [call[p] EXCEPT !.raced = TRUE].moved = call[p].moved
      BY <1>1 DEF Call
    <2> QED
      BY <2>1, <2>2
  <1> QED
    BY <1>5, <1>6, <1>7, <1>8, <1>9, <1>10 DEF FtNext

\* What a step of a call moves is what was reviewed.
LEMMA MovesReviewed == FetchInv /\ FtNext => ReviewedStep
  <1> SUFFICES ASSUME FetchInv, FtNext, NEW p \in Caller, ~call[p].moved, call'[p].moved
               PROVE  IF dest' # dest
                      THEN dest = call[p].before /\ dest' = call[p].source /\ FastForward(dest, dest')
                      ELSE target' = call[p].source /\ (target = call[p].before \/ call[p].raced)
    BY DEF ReviewedStep
  <1>1. CallOK(call[p], target)
    BY DEF FetchInv
  <1>2. CASE update_refs(p)
    <2>1. dest = call[p].before /\ dest' = call[p].source /\ call[p].pc = "commit"
      BY <1>2 DEF update_refs, Transaction
    <2> QED
      BY <1>1, <2>1 DEF CallOK, Fetching
  <1>3. CASE os_replace(p)
    BY <1>1, <1>3 DEF os_replace, CallOK
  <1> QED
    BY <1>2, <1>3, MovesNothing

\* However calls that share a temporary ref, pushes, other fetches and crashes
\* interleave, apply_repo_fetch_plan and apply_source_import_plan do what was
\* reviewed or nothing, say which, and leave no temporary ref that nobody answers for.
THEOREM FetchesAsReviewed == FtSpec => FetchedAsReviewed
  <1>1. FetchInv => FtTypeOK /\ TempAccounted /\ OutcomesHonest
    <2> SUFFICES ASSUME FetchInv PROVE TempAccounted /\ OutcomesHonest
      BY DEF FetchInv
    <2>1. TempAccounted
      BY ZenonT(100) DEF FetchInv, TempAnswered, TempAccounted, Answers, Holders
    <2>2. OutcomesHonest
      BY DEF FetchInv, CallOK, OutcomesHonest
    <2> QED
      BY <2>1, <2>2
  <1>2. FetchInv /\ [FtNext]_ftVars => [ReviewedStep]_ftVars
    BY MovesReviewed
  <1> QED
    BY <1>1, <1>2, FetchInitial, FetchKeeps, PTL DEF FtSpec, FetchedAsReviewed

-----------------------------------------------------------------------------
\* Reviewed cleanup of worktrees (WorktreeCleanup).

Cand == [path : Wt, head : SUBSET NewCommit, merged : BOOLEAN]

IsCandFile(p) ==
  /\ p = [stamp |-> p.stamp, reviewed |-> p.reviewed, cands |-> p.cands]
  /\ Len(p.cands) \in Nat /\ p.cands = [i \in 1..Len(p.cands) |-> p.cands[i]]

\* The worktree an apply is about to remove: still linked, with no commit but the
\* reviewed ones and those made since it was looked at, and the reviewed ones are
\* on the main branch.
Looked(c) ==
  /\ wt[c.path].linked /\ wt[c.path].head \subseteq c.head \cup late
  /\ c.head \subseteq onMain

\* What an apply has in hand: the candidates of its plan are those it removed and
\* those it has yet to remove, in this order.
ApplyOK ==
  /\ ap = [pc |-> ap.pc, plan |-> ap.plan, todo |-> ap.todo, gone |-> ap.gone, undone |-> ap.undone]
  /\ ap.gone \in Seq(Cand)
  /\ ap.pc \in {"next", "remove"} =>
       /\ ap.plan.reviewed /\ ap.plan.cands \in Seq(Cand) /\ ap.todo \in Seq(Cand)
       /\ ap.plan.cands = ap.gone \o ap.todo
  /\ ap.pc = "remove" => ap.todo # <<>> /\ Looked(Head(ap.todo))
  /\ ap.pc = "refused" => ap.undone = {}

\* The inductive invariant.
WcInv == WcTypeOK /\ IsCandFile(planFile) /\ ApplyOK


\* A step that unlinks no worktree and takes no commit away removes nothing.
LEMMA NothingRemoved ==
  ASSUME \A w \in Wt : /\ wt[w].linked => wt'[w].linked /\ wt[w].head \subseteq wt'[w].head
                       /\ tips[w] \subseteq tips'[w],
         onMain \subseteq onMain'
  PROVE  RemovalStep /\ Reachable \subseteq Reachable' \cup late
  <1>1. RemovalStep
    BY DEF RemovalStep
  <1>2. ASSUME NEW s \in Reachable
        PROVE  s \in Reachable'
    <2>1. CASE s \in onMain
      BY <2>1 DEF Reachable
    <2>2. ASSUME NEW w \in Wt, s \in tips[w]
          PROVE  s \in Reachable'
      <3>1. s \in tips'[w]
        BY <2>2
      <3> QED
        BY <3>1 DEF Reachable
    <2>3. ASSUME NEW w \in Wt, wt[w].linked, s \in wt[w].head
          PROVE  s \in Reachable'
      <3>1. wt'[w].linked /\ s \in wt'[w].head
        BY <2>3
      <3> QED
        BY <3>1 DEF Reachable
    <2> QED
      BY <2>1, <2>2, <2>3 DEF Reachable
  <1> QED
    BY <1>1, <1>2

\* An apply that stands still while others work keeps what it knows.
LEMMA ApplyStands ==
  ASSUME ApplyOK, ap' = ap, onMain \subseteq onMain',
         \A w \in Wt : wt[w].linked => wt'[w].linked,
         late \subseteq late',
         ap.pc = "remove" =>
           LET w == Head(ap.todo).path IN wt'[w].head \subseteq wt[w].head \cup late'
  PROVE  ApplyOK' /\ OutcomeStep
  <1>1. OutcomeStep
    <2>1. PICK a : a = ap
      OBVIOUS
    <2>2. ap' = a /\ (a.pc = "refused" => a.undone = {})
      BY <2>1 DEF ApplyOK
    <2>3. ~(Len(a.gone) < Len(a.gone))
      BY <2>1 DEF ApplyOK
    <2> QED
      BY <2>1, <2>2, <2>3 DEF OutcomeStep
  <1>2. ASSUME ap.pc = "remove"
        PROVE  Looked(Head(ap.todo))'
    <2>1. PICK c : c = Head(ap.todo)
      OBVIOUS
    <2>2. c \in Cand /\ wt[c.path].linked /\ wt[c.path].head \subseteq c.head \cup late /\ c.head \subseteq onMain
      BY <1>2, <2>1 DEF ApplyOK, Looked
    <2>3. c.path \in Wt /\ wt'[c.path].head \subseteq wt[c.path].head \cup late'
      BY <1>2, <2>1, <2>2 DEF Cand
    <2> QED
      BY <2>1, <2>2, <2>3 DEF Looked
  <1> QED
    BY <1>1, <1>2 DEF ApplyOK


WcStep == WcTypeOK' /\ RemovalStep /\ OutcomeStep /\ Reachable \subseteq Reachable' \cup late

\* What others do to one worktree, or to the branches, is no business of apply's.
LEMMA OthersKeep ==
  ASSUME WcInv, Others
  PROVE  WcInv' /\ WcStep
  <1>0. /\ WcTypeOK /\ IsCandFile(planFile) /\ ApplyOK /\ planFile' = planFile /\ ap' = ap
        /\ wt \in [Wt -> Tree] /\ tips \in [Wt -> SUBSET NewCommit]
        /\ onMain \in SUBSET NewCommit /\ late \in SUBSET NewCommit /\ atMain \in BOOLEAN
    BY DEF WcInv, WcTypeOK, Others, Churns, edits, locks, enters, deletes_directory,
       checks_branch_out, recreates, merges, switches, commits
  <1>1. ASSUME WcTypeOK',
               \A w \in Wt : /\ wt[w].linked => wt'[w].linked /\ wt[w].head \subseteq wt'[w].head
                             /\ tips[w] \subseteq tips'[w],
               onMain \subseteq onMain', late \subseteq late',
               \A w \in Wt : wt[w].linked /\ ap.pc = "remove" /\ Head(ap.todo).path = w =>
                 wt'[w].head \subseteq wt[w].head \cup late'
        PROVE  WcInv' /\ WcStep
    <2>1. RemovalStep /\ Reachable \subseteq Reachable' \cup late
      BY <1>1, NothingRemoved
    <2>2. ap.pc = "remove" => Head(ap.todo).path \in Wt /\ wt[Head(ap.todo).path].linked
      <3>1. ap.pc = "remove" => Head(ap.todo) \in Cand /\ Looked(Head(ap.todo))
        BY <1>0 DEF ApplyOK
      <3> QED
        BY <3>1 DEF Looked, Cand
    <2>3. ApplyOK' /\ OutcomeStep
      BY <1>0, <1>1, <2>2, ApplyStands
    <2>4. IsCandFile(planFile)'
      BY <1>0 DEF IsCandFile
    <2> QED
      BY <1>1, <2>1, <2>3, <2>4 DEF WcInv, WcStep
  <1>2. ASSUME NEW w \in Wt, NEW t \in Tree, Sets(w, t),
               wt[w].linked => t.linked /\ t.head = wt[w].head
        PROVE  WcInv' /\ WcStep
    <2>1. /\ wt' \in [Wt -> Tree] /\ wt'[w] = t /\ \A v \in Wt \ {w} : wt'[v] = wt[v]
          /\ UNCHANGED <<tips, onMain, atMain, late>>
      BY <1>0, <1>2 DEF Sets
    <2>2. WcTypeOK'
      BY <1>0, <2>1 DEF WcTypeOK
    <2>3. \A v \in Wt : wt[v].linked => wt'[v].linked /\ wt'[v].head = wt[v].head
      BY <1>2, <2>1
    <2> QED
      BY <1>1, <2>1, <2>2, <2>3
  <1>3. ASSUME NEW w \in Wt, edits(w) \/ locks(w) \/ enters(w) \/ deletes_directory(w)
                             \/ checks_branch_out(w)
        PROVE  WcInv' /\ WcStep
    <2>1. PICK x : x = wt[w]
      OBVIOUS
    <2>2. x \in Tree
      BY <1>0, <2>1
    <2>3. ASSUME NEW t, t \in {[x EXCEPT !.dirty = TRUE], [x EXCEPT !.locked = ~@],
                               [x EXCEPT !.used = ~@], [x EXCEPT !.dir = FALSE, !.dirty = FALSE],
                               [x EXCEPT !.elsewhere = TRUE]}
          PROVE  t \in Tree /\ t.linked = x.linked /\ t.head = x.head
      BY <2>2, <2>3 DEF Tree
    <2>4. PICK t : /\ t \in {[x EXCEPT !.dirty = TRUE], [x EXCEPT !.locked = ~@],
                             [x EXCEPT !.used = ~@], [x EXCEPT !.dir = FALSE, !.dirty = FALSE],
                             [x EXCEPT !.elsewhere = TRUE]}
                   /\ Sets(w, t)
      BY <1>3, <2>1 DEF edits, locks, enters, deletes_directory, checks_branch_out
    <2> QED
      BY <1>2, <2>1, <2>3, <2>4
  <1>4. ASSUME NEW w \in Wt, recreates(w)
        PROVE  WcInv' /\ WcStep
    <2>1. PICK h : h = IF w \in Detached THEN {} ELSE tips[w]
      OBVIOUS
    <2>2. h \in SUBSET NewCommit /\ ~wt[w].linked /\ Sets(w, [Fresh EXCEPT !.head = h])
      BY <1>0, <1>4, <2>1 DEF recreates, git_adds
    <2>3. [Fresh EXCEPT !.head = h] \in Tree
      BY <2>2 DEF Fresh, Tree
    <2> QED
      BY <1>2, <2>2, <2>3
  <1>5. ASSUME NEW w \in Wt, NEW s \in NewCommit, commits(w, s)
        PROVE  WcInv' /\ WcStep
    <2>1. PICK x, t : x = wt[w] /\ t = [x EXCEPT !.head = @ \cup {s}, !.dirty = FALSE]
      OBVIOUS
    <2>2. x \in Tree
      BY <1>0, <2>1
    <2>3. t \in Tree /\ t.linked = x.linked /\ t.head = x.head \cup {s}
      BY <2>1, <2>2 DEF Tree
    <2>4. /\ wt' = [wt EXCEPT ![w] = t] /\ UNCHANGED <<onMain, atMain>>
          /\ tips' = IF w \in Detached THEN tips ELSE [tips EXCEPT ![w] = @ \cup {s}]
          /\ late' = late \cup (IF ap.pc = "remove" /\ Head(ap.todo).path = w THEN {s} ELSE {})
      BY <1>0, <1>5, <2>1 DEF commits
    <2>5. /\ wt' \in [Wt -> Tree] /\ wt'[w] = t /\ \A v \in Wt \ {w} : wt'[v] = wt[v]
      BY <1>0, <2>3, <2>4
    <2>6. tips' \in [Wt -> SUBSET NewCommit] /\ \A v \in Wt : tips[v] \subseteq tips'[v]
      BY <1>0, <2>4
    <2>7. late' \in SUBSET NewCommit /\ late \subseteq late'
      BY <1>0, <2>4
    <2>8. WcTypeOK'
      BY <1>0, <2>4, <2>5, <2>6, <2>7 DEF WcTypeOK
    <2>9. \A v \in Wt : wt[v].linked => wt'[v].linked /\ wt[v].head \subseteq wt'[v].head
      BY <2>1, <2>3, <2>5
    <2>10. \A v \in Wt : ap.pc = "remove" /\ Head(ap.todo).path = v =>
             wt'[v].head \subseteq wt[v].head \cup late'
      BY <2>1, <2>3, <2>4, <2>5
    <2> QED
      BY <1>1, <2>4, <2>6, <2>7, <2>8, <2>9, <2>10
  <1>6. ASSUME NEW w \in Wt, merges(w)
        PROVE  WcInv' /\ WcStep
    <2>1. /\ onMain' = onMain \cup wt[w].head /\ UNCHANGED <<wt, tips, atMain, late>>
          /\ wt[w].head \in SUBSET NewCommit
      BY <1>0, <1>6 DEF merges, Tree
    <2>2. WcTypeOK'
      BY <1>0, <2>1 DEF WcTypeOK
    <2> QED
      BY <1>1, <2>1, <2>2
  <1>7. CASE switches
    <2>1. atMain' \in BOOLEAN /\ UNCHANGED <<wt, tips, onMain, late>>
      BY <1>0, <1>7 DEF switches
    <2>2. WcTypeOK'
      BY <1>0, <2>1 DEF WcTypeOK
    <2> QED
      BY <1>1, <2>1, <2>2
  <1> QED
    BY <1>3, <1>4, <1>5, <1>6, <1>7 DEF Others


\* A step of apply that leaves the worktrees alone.
LEMMA TreesStand ==
  ASSUME WcInv, UNCHANGED <<wt, tips, onMain, atMain>>, late' \in SUBSET NewCommit,
         ap'.pc \in {"idle", "next", "remove", "failed", "applied", "refused", "incomplete"}
  PROVE  WcTypeOK' /\ RemovalStep /\ Reachable \subseteq Reachable' \cup late
  <1>1. WcTypeOK'
    BY DEF WcInv, WcTypeOK
  <1> QED
    BY <1>1, NothingRemoved

\* A plan file is written for selected candidates, in the order of their paths.
LEMMA PlanWritten ==
  ASSUME WcInv, NEW C \in SUBSET Wt, write_worktree_cleanup_plan(C)
  PROVE  WcInv' /\ WcStep
  <1>1. /\ UNCHANGED <<wt, tips, onMain, atMain, ap, late>>
        /\ planFile' = [stamp |-> planFile.stamp + 1, reviewed |-> FALSE,
                        cands |-> _select_candidates(InOrder(C))]
    BY DEF write_worktree_cleanup_plan
  <1>2. PICK n \in Nat : n = Cardinality(C)
    BY WtAssumption, FS_Subset, FS_CardinalityType
  <1>3. PICK paths : paths = InOrder(C)
    OBVIOUS
  <1>4. DOMAIN paths = 1..n
    BY <1>2, <1>3 DEF InOrder
  <1>5. PICK cs : cs = _select_candidates(paths)
    OBVIOUS
  <1>6. cs = [i \in 1..n |-> _candidate_identity(paths[i])]
    BY <1>4, <1>5 DEF _select_candidates
  <1>7. Len(cs) \in Nat /\ cs = [i \in 1..Len(cs) |-> cs[i]]
    <2> DEFINE S == {_candidate_identity(paths[i]) : i \in 1..n}
    <2>1. cs \in [1..n -> S]
      BY <1>6
    <2> HIDE DEF S
    <2>2. cs \in Seq(S)
      BY <2>1
    <2> QED
      BY <2>2
  <1>8. planFile' = [stamp |-> planFile.stamp + 1, reviewed |-> FALSE, cands |-> cs]
    BY <1>1, <1>3, <1>5
  <1>9. IsCandFile(planFile)'
    BY <1>7, <1>8 DEF IsCandFile
  <1>10. ApplyOK' /\ OutcomeStep
    BY <1>1, ApplyStands DEF WcInv
  <1>11. WcTypeOK' /\ RemovalStep /\ Reachable \subseteq Reachable' \cup late
    BY <1>1, TreesStand DEF WcInv, WcTypeOK
  <1> QED
    BY <1>9, <1>10, <1>11 DEF WcInv, WcStep

\* Reviewing the file, reporting, and stuttering.
LEMMA PlanReviewed ==
  ASSUME WcInv, review \/ UNCHANGED wcVars
  PROVE  WcInv' /\ WcStep
  <1>1. UNCHANGED <<wt, tips, onMain, atMain, ap, late>>
    BY DEF review, wcVars
  <1>2. IsCandFile(planFile)'
    <2>1. PICK p : p = planFile
      OBVIOUS
    <2>2. IsCandFile(p)
      BY <2>1 DEF WcInv
    <2>3. planFile' = p \/ planFile' = [p EXCEPT !.reviewed = TRUE]
      BY <2>1 DEF review, wcVars
    <2>4. [p EXCEPT !.reviewed = TRUE] = [stamp |-> p.stamp, reviewed |-> TRUE, cands |-> p.cands]
      <3>1. PICK a, b, c : p = [stamp |-> a, reviewed |-> b, cands |-> c]
        BY <2>2 DEF IsCandFile
      <3>2. p.stamp = a /\ p.cands = c
        BY <3>1
      <3>3. \A x : [p EXCEPT !.reviewed = x] = [stamp |-> a, reviewed |-> x, cands |-> c]
        BY <3>1
      <3> QED
        BY <3>2, <3>3
    <2>5. IsCandFile([stamp |-> p.stamp, reviewed |-> TRUE, cands |-> p.cands])
      BY <2>2 DEF IsCandFile
    <2> QED
      BY <2>2, <2>3, <2>4, <2>5 DEF IsCandFile
  <1>3. ApplyOK' /\ OutcomeStep
    BY <1>1, ApplyStands DEF WcInv
  <1>4. WcTypeOK' /\ RemovalStep /\ Reachable \subseteq Reachable' \cup late
    BY <1>1, TreesStand DEF WcInv, WcTypeOK
  <1> QED
    BY <1>2, <1>3, <1>4 DEF WcInv, WcStep

\* A selectable worktree is linked, and its commits are on the main branch.
LEMMA SelectedMerged ==
  ASSUME WcTypeOK, NEW w, Selectable(w)
  PROVE  /\ w \in Wt /\ wt[w].linked /\ _candidate_identity(w) \in Cand
         /\ _candidate_identity(w).path = w /\ _candidate_identity(w).head = wt[w].head
         /\ wt[w].head \subseteq onMain
  <1>1. w \in Wt /\ wt[w].linked
    BY DEF Selectable, worktree_hygiene_report
  <1>2. wt[w].head \in SUBSET NewCommit
    BY <1>1 DEF WcTypeOK, Tree
  <1>3. PICK r : r = worktree_hygiene_report[w]
    OBVIOUS
  <1>4. r.head = wt[w].head /\ r.merged = _is_ancestor(wt[w].head) /\ r.merged
    BY <1>1, <1>3 DEF worktree_hygiene_report, Selectable
  <1>5. wt[w].head \subseteq onMain
    BY <1>4 DEF _is_ancestor
  <1>6. r.merged \in BOOLEAN
    BY <1>4 DEF _is_ancestor
  <1>7. _candidate_identity(w) = [path |-> w, head |-> r.head, merged |-> r.merged]
    BY <1>3 DEF _candidate_identity
  <1>8. [path |-> w, head |-> r.head, merged |-> r.merged] \in Cand
    <2>1. \A h \in SUBSET NewCommit, m \in BOOLEAN : [path |-> w, head |-> h, merged |-> m] \in Cand
      BY <1>1 DEF Cand
    <2> QED
      BY <1>2, <1>4, <1>6, <2>1
  <1>9. PICK c : c = [path |-> w, head |-> r.head, merged |-> r.merged]
    OBVIOUS
  <1>10. c.path = w /\ c.head = r.head
    BY <1>9
  <1> QED
    BY <1>1, <1>4, <1>5, <1>7, <1>8, <1>9, <1>10

\* apply starts with the reviewed plan, after it selected every candidate again.
LEMMA ApplyLoads ==
  ASSUME WcInv, load_and_compare
  PROVE  WcInv' /\ WcStep
  <1>1. /\ UNCHANGED <<wt, tips, onMain, atMain, planFile, late>> /\ ap.pc = "idle" /\ planFile.reviewed
        /\ ap' = [Idle EXCEPT !.pc = "next", !.plan = planFile, !.todo = planFile.cands]
    BY DEF load_and_compare
  <1>2. PICK p, cs : p = planFile /\ cs = planFile.cands
    OBVIOUS
  <1>3. /\ \A i \in DOMAIN Paths(cs) : Selectable(Paths(cs)[i])
        /\ _select_candidates(Paths(cs)) = cs
    BY <1>2 DEF load_and_compare
  <1>4. Len(cs) \in Nat /\ cs = [i \in 1..Len(cs) |-> cs[i]]
    BY <1>2 DEF WcInv, IsCandFile
  <1>5. PICK n \in Nat : n = Len(cs) /\ DOMAIN cs = 1..n
    BY <1>4
  <1>6. ASSUME NEW i \in 1..n
        PROVE  cs[i] \in Cand
    <2>1. Paths(cs)[i] = cs[i].path /\ i \in DOMAIN Paths(cs)
      BY <1>5 DEF Paths
    <2>2. Selectable(cs[i].path)
      BY <1>3, <2>1
    <2>3. cs[i] = _candidate_identity(cs[i].path)
      <3>1. PICK paths : paths = Paths(cs)
        OBVIOUS
      <3>2. _select_candidates(paths)[i] = _candidate_identity(paths[i])
        BY <2>1, <3>1 DEF _select_candidates
      <3> QED
        BY <1>3, <2>1, <3>1, <3>2
    <2> QED
      BY <2>2, <2>3, SelectedMerged DEF WcInv
  <1>7. cs \in Seq(Cand)
    <2>1. cs \in [1..n -> Cand]
      BY <1>4, <1>5, <1>6
    <2> QED
      BY <2>1
  <1>8. ap' = [pc |-> "next", plan |-> p, todo |-> cs, gone |-> <<>>, undone |-> {}]
    BY <1>1, <1>2 DEF Idle
  <1>9. <<>> \in Seq(Cand) /\ cs = <<>> \o cs
    BY <1>7
  <1>10. p.reviewed /\ p.cands = cs
    BY <1>1, <1>2
  <1>11. ApplyOK'
    <2>1. /\ ap'.pc = "next" /\ ap'.plan = p /\ ap'.todo = cs /\ ap'.gone = <<>> /\ ap'.undone = {}
      BY <1>8
    <2> QED
      BY <1>7, <1>8, <1>9, <1>10, <2>1 DEF ApplyOK
  <1>12. OutcomeStep
    <2>1. ap'.pc = "next"
      BY <1>8
    <2> QED
      BY <2>1 DEF OutcomeStep
  <1>13. WcTypeOK' /\ RemovalStep /\ Reachable \subseteq Reachable' \cup late
    <2>1. ap'.pc = "next" /\ late' \in SUBSET NewCommit
      BY <1>1, <1>8 DEF WcInv, WcTypeOK
    <2> QED
      BY <1>1, <2>1, TreesStand
  <1>14. IsCandFile(planFile)'
    BY <1>1 DEF WcInv, IsCandFile
  <1> QED
    BY <1>11, <1>12, <1>13, <1>14 DEF WcInv, WcStep


\* Before each removal apply looks at the file and at the candidate.
LEMMA ApplyLooks ==
  ASSUME WcInv, look
  PROVE  WcInv' /\ WcStep
  <1>1. PICK c, x, a : c = Head(ap.todo) /\ a = ap
                       /\ x = IF planFile = ap.plan /\ unchanged_candidate(c) THEN "remove" ELSE "failed"
    OBVIOUS
  <1>2. /\ UNCHANGED <<wt, tips, onMain, atMain, planFile>> /\ a.pc = "next" /\ a.todo # <<>>
        /\ ap' = [a EXCEPT !.pc = x] /\ late' = late \ wt[c.path].head
    BY <1>1 DEF look
  <1>3. /\ a = [pc |-> a.pc, plan |-> a.plan, todo |-> a.todo, gone |-> a.gone, undone |-> a.undone]
        /\ a.gone \in Seq(Cand) /\ a.plan.reviewed /\ a.plan.cands \in Seq(Cand)
        /\ a.todo \in Seq(Cand) /\ a.plan.cands = a.gone \o a.todo
    BY <1>1, <1>2 DEF WcInv, ApplyOK
  <1>4. ap' = [pc |-> x, plan |-> a.plan, todo |-> a.todo, gone |-> a.gone, undone |-> a.undone]
    <2>1. PICK b, d, e, f, g : a = [pc |-> b, plan |-> d, todo |-> e, gone |-> f, undone |-> g]
      BY <1>3
    <2> QED
      BY <1>2, <2>1
  <1>5. /\ ap'.pc = x /\ ap'.plan = a.plan /\ ap'.todo = a.todo /\ ap'.gone = a.gone
        /\ ap'.undone = a.undone /\ x \in {"remove", "failed"}
    BY <1>1, <1>4
  <1>6. late' \in SUBSET NewCommit
    BY <1>2 DEF WcInv, WcTypeOK
  <1>7. ASSUME x = "remove"
        PROVE  Looked(Head(ap.todo))'
    <2>1. Selectable(c.path) /\ _candidate_identity(c.path) = c
      BY <1>1, <1>7 DEF unchanged_candidate
    <2>2. wt[c.path].linked /\ c.head = wt[c.path].head /\ wt[c.path].head \subseteq onMain
      BY <2>1, SelectedMerged DEF WcInv
    <2>3. Head(ap'.todo) = c
      BY <1>1, <1>5
    <2> QED
      BY <1>2, <2>2, <2>3 DEF Looked
  <1>8. ApplyOK'
    BY <1>2, <1>3, <1>4, <1>5, <1>7 DEF ApplyOK
  <1>9. OutcomeStep
    <2>1. ~(Len(a.gone) < Len(a.gone))
      BY <1>3
    <2> QED
      BY <1>1, <1>5, <2>1 DEF OutcomeStep
  <1>10. WcTypeOK' /\ RemovalStep /\ Reachable \subseteq Reachable' \cup late
    BY <1>2, <1>5, <1>6, TreesStand
  <1>11. IsCandFile(planFile)'
    BY <1>2 DEF WcInv, IsCandFile
  <1> QED
    BY <1>8, <1>9, <1>10, <1>11 DEF WcInv, WcStep

\* Removing a candidate takes it from the list and unlinks its worktree, which
\* holds no commit but those on the main branch and those made since the look.
LEMMA ApplyRemoves ==
  ASSUME WcInv, remove
  PROVE  WcInv' /\ WcStep
  <1>1. PICK c, w, a : c = Head(ap.todo) /\ w = c.path /\ a = ap
    OBVIOUS
  <1>2. /\ UNCHANGED <<tips, onMain, atMain, planFile, late>> /\ a.pc = "remove"
    BY <1>1 DEF remove
  <1>3. /\ a = [pc |-> a.pc, plan |-> a.plan, todo |-> a.todo, gone |-> a.gone, undone |-> a.undone]
        /\ a.gone \in Seq(Cand) /\ a.plan.reviewed /\ a.plan.cands \in Seq(Cand)
        /\ a.todo \in Seq(Cand) /\ a.plan.cands = a.gone \o a.todo /\ a.todo # <<>> /\ Looked(c)
    BY <1>1, <1>2 DEF WcInv, ApplyOK
  <1>4. c \in Cand /\ w \in Wt /\ wt[w].linked /\ wt[w].head \subseteq c.head \cup late
        /\ c.head \subseteq onMain
    <2>1. c \in Cand
      BY <1>1, <1>3
    <2> QED
      BY <1>1, <1>3, <2>1 DEF Cand, Looked
  <1>5. IsCandFile(planFile)'
    BY <1>2 DEF WcInv, IsCandFile
  <1>6. PICK b, d, e, f, g : a = [pc |-> b, plan |-> d, todo |-> e, gone |-> f, undone |-> g]
    BY <1>3
  <1>7. CASE git_removes(w)
    <2>1. /\ wt' = [wt EXCEPT ![w] = Removed(w)] /\ ~wt[w].dirty /\ ~wt[w].locked
          /\ ap' = [a EXCEPT !.pc = "next", !.todo = Tail(@), !.gone = Append(@, c)]
      BY <1>1, <1>7 DEF remove, git_removes
    <2>2. ap' = [pc |-> "next", plan |-> a.plan, todo |-> Tail(a.todo), gone |-> Append(a.gone, c),
                 undone |-> a.undone]
      BY <1>6, <2>1
    <2>3. /\ Tail(a.todo) \in Seq(Cand) /\ Append(a.gone, c) \in Seq(Cand)
          /\ Len(Append(a.gone, c)) = Len(a.gone) + 1 /\ Len(a.gone) \in Nat
          /\ a.gone \o a.todo = Append(a.gone, c) \o Tail(a.todo)
      BY <1>1, <1>3, <1>4
    <2>4. ap'.pc = "next" /\ ap'.plan = a.plan /\ ap'.todo = Tail(a.todo)
          /\ ap'.gone = Append(a.gone, c) /\ ap'.undone = a.undone
      BY <2>2
    <2>5. ApplyOK'
      BY <1>3, <2>2, <2>3, <2>4 DEF ApplyOK
    <2>6. OutcomeStep
      BY <2>4 DEF OutcomeStep
    <2>7. PICK x, t : x = wt[w] /\ t = Removed(w)
      OBVIOUS
    <2>8. t \in Tree /\ t.linked = FALSE
      <3>1. x \in Tree /\ t = [x EXCEPT !.linked = FALSE, !.dir = FALSE, !.dirty = FALSE, !.head = {}]
        BY <1>4, <2>7 DEF WcInv, WcTypeOK, Removed
      <3> QED
        BY <3>1 DEF Tree
    <2>9. wt' \in [Wt -> Tree] /\ wt'[w] = t /\ \A v \in Wt \ {w} : wt'[v] = wt[v]
      BY <1>4, <2>1, <2>7, <2>8 DEF WcInv, WcTypeOK
    <2>10. WcTypeOK'
      BY <1>2, <2>4, <2>9 DEF WcInv, WcTypeOK
    <2>11. RemovalStep
      <3>1. PICK i : i = Len(a.gone) + 1
        OBVIOUS
      <3>2. i \in DOMAIN a.plan.cands /\ a.plan.cands[i] = c
        BY <1>1, <1>3, <3>1
      <3>3. \E k \in DOMAIN ap.plan.cands :
              ap.plan.cands[k].path = w /\ wt[w].head \subseteq ap.plan.cands[k].head \cup late
        BY <1>1, <1>4, <3>2
      <3> QED
        BY ZenonT(100), <1>1, <1>2, <1>3, <2>1, <2>9, <3>3 DEF RemovalStep
    <2>12. Reachable \subseteq Reachable' \cup late
      <3>1. ASSUME NEW s \in Reachable
            PROVE  s \in Reachable' \cup late
        <4>1. CASE s \in onMain
          BY <1>2, <4>1 DEF Reachable
        <4>2. ASSUME NEW v \in Wt, s \in tips[v]
              PROVE  s \in Reachable'
          BY <1>2, <4>2 DEF Reachable
        <4>3. ASSUME NEW v \in Wt, v # w, wt[v].linked, s \in wt[v].head
              PROVE  s \in Reachable'
          <5>1. wt'[v] = wt[v]
            BY <2>9, <4>3
          <5> QED
            BY <4>3, <5>1 DEF Reachable
        <4>4. ASSUME s \in wt[w].head
              PROVE  s \in onMain \cup late
          BY <1>4, <4>4
        <4> QED
          BY <1>2, <4>1, <4>2, <4>3, <4>4 DEF Reachable
      <3> QED
        BY <3>1
    <2> QED
      BY <1>5, <2>5, <2>6, <2>10, <2>11, <2>12 DEF WcInv, WcStep
  <1>8. CASE ~git_removes(w)
    <2>1. ap' = [a EXCEPT !.pc = "failed"] /\ wt' = wt
      BY <1>1, <1>8 DEF remove
    <2>2. ap' = [pc |-> "failed", plan |-> a.plan, todo |-> a.todo, gone |-> a.gone, undone |-> a.undone]
      BY <1>6, <2>1
    <2>3. ap'.pc = "failed" /\ ap'.gone = a.gone /\ ap'.undone = a.undone /\ ap'.todo = a.todo
          /\ ap'.plan = a.plan
      BY <2>2
    <2>4. ApplyOK'
      BY <1>3, <2>2, <2>3 DEF ApplyOK
    <2>5. OutcomeStep
      <3>1. ~(Len(a.gone) < Len(a.gone))
        BY <1>3
      <3> QED
        BY <1>1, <2>3, <3>1 DEF OutcomeStep
    <2>6. WcTypeOK' /\ RemovalStep /\ Reachable \subseteq Reachable' \cup late
      <3>1. late' \in SUBSET NewCommit
        BY <1>2 DEF WcInv, WcTypeOK
      <3> QED
        BY <1>2, <2>1, <2>3, <3>1, TreesStand
    <2> QED
      BY <1>5, <2>4, <2>5, <2>6 DEF WcInv, WcStep
  <1> QED
    BY <1>7, <1>8


\* The end of apply, and its ends by exception and crash: nothing is removed.
LEMMA ApplyEnds ==
  ASSUME WcInv, post_gate \/ raise \/ again \/ crash
  PROVE  WcInv' /\ WcStep
  <1>1. PICK a : a = ap
    OBVIOUS
  <1>2. /\ UNCHANGED <<wt, tips, onMain, atMain, planFile, late>>
        /\ a = [pc |-> a.pc, plan |-> a.plan, todo |-> a.todo, gone |-> a.gone, undone |-> a.undone]
        /\ a.gone \in Seq(Cand) /\ late' \in SUBSET NewCommit
    BY <1>1 DEF post_gate, raise, again, crash, WcInv, ApplyOK, WcTypeOK
  <1>3. PICK b, d, e, f, g : a = [pc |-> b, plan |-> d, todo |-> e, gone |-> f, undone |-> g]
    BY <1>2
  <1>4. ASSUME ApplyOK', OutcomeStep,
               ap'.pc \in {"idle", "next", "remove", "failed", "applied", "refused", "incomplete"}
        PROVE  WcInv' /\ WcStep
    <2>1. WcTypeOK' /\ RemovalStep /\ Reachable \subseteq Reachable' \cup late
      BY <1>2, <1>4, TreesStand
    <2>2. IsCandFile(planFile)'
      BY <1>2 DEF WcInv, IsCandFile
    <2> QED
      BY <1>4, <2>1, <2>2 DEF WcInv, WcStep
  <1>5. ASSUME NEW x \in {"failed", "applied", "refused", "incomplete"}, ap' = [a EXCEPT !.pc = x],
               x = "refused" => a.undone = {},
               x = "applied" => /\ a.gone = a.plan.cands
                                /\ \A i \in DOMAIN a.gone : ~wt[a.gone[i].path].linked
        PROVE  WcInv' /\ WcStep
    <2>1. ap' = [pc |-> x, plan |-> a.plan, todo |-> a.todo, gone |-> a.gone, undone |-> a.undone]
      BY <1>3, <1>5
    <2>2. /\ ap'.pc = x /\ ap'.plan = a.plan /\ ap'.todo = a.todo /\ ap'.gone = a.gone
          /\ ap'.undone = a.undone
      BY <2>1
    <2>3. ApplyOK'
      BY <1>2, <1>5, <2>1, <2>2 DEF ApplyOK
    <2>4. OutcomeStep
      <3>1. ~(Len(a.gone) < Len(a.gone))
        BY <1>2
      <3> QED
        BY <1>1, <1>5, <2>2, <3>1 DEF OutcomeStep
    <2> QED
      BY <1>4, <1>5, <2>2, <2>3, <2>4
  <1>6. CASE post_gate
    <2>1. PICK x : x = IF /\ planFile = a.plan
                          /\ \A i \in DOMAIN a.gone : ~wt[a.gone[i].path].linked
                       THEN "applied" ELSE "failed"
      OBVIOUS
    <2>2. ap' = [a EXCEPT !.pc = x] /\ a.pc = "next" /\ a.todo = <<>>
      BY <1>1, <1>6, <2>1 DEF post_gate
    <2>3. a.plan.cands = a.gone \o <<>>
      BY <1>1, <2>2 DEF WcInv, ApplyOK
    <2>4. a.gone = a.plan.cands
      BY <1>2, <2>3
    <2> QED
      BY <1>5, <2>1, <2>2, <2>4
  <1>7. CASE raise
    BY <1>1, <1>5, <1>7 DEF raise
  <1>8. CASE again \/ crash
    <2>1. ap' = Idle
      BY <1>8 DEF again, crash
    <2>2. ap'.pc = "idle" /\ ap'.gone = <<>> /\ <<>> \in Seq(Cand)
      BY <2>1 DEF Idle
    <2>3. ap' = [pc |-> ap'.pc, plan |-> ap'.plan, todo |-> ap'.todo, gone |-> ap'.gone,
                 undone |-> ap'.undone]
      BY <2>1 DEF Idle
    <2>4. ApplyOK'
      BY <2>2, <2>3 DEF ApplyOK
    <2>5. OutcomeStep
      BY <2>2 DEF OutcomeStep
    <2> QED
      BY <1>4, <2>2, <2>4, <2>5
  <1> QED
    BY <1>6, <1>7, <1>8

\* A removed candidate is added again when its path is free.
LEMMA ApplyRestores ==
  ASSUME WcInv, _restore_removed_candidate
  PROVE  WcInv' /\ WcStep
  <1>1. PICK a, c, w : a = ap /\ c = ap.gone[Len(ap.gone)] /\ w = c.path
    OBVIOUS
  <1>2. PICK less : less = SubSeq(a.gone, 1, Len(a.gone) - 1)
    OBVIOUS
  <1>3. /\ UNCHANGED <<tips, onMain, atMain, planFile, late>> /\ a.pc = "failed" /\ a.gone # <<>>
        /\ a = [pc |-> a.pc, plan |-> a.plan, todo |-> a.todo, gone |-> a.gone, undone |-> a.undone]
        /\ a.gone \in Seq(Cand)
    BY <1>1 DEF _restore_removed_candidate, WcInv, ApplyOK
  <1>4. c \in Cand /\ less \in Seq(Cand)
    BY <1>1, <1>2, <1>3
  <1>5. w \in Wt /\ c.head \in SUBSET NewCommit
    BY <1>1, <1>4 DEF Cand
  <1>6. PICK b, d, e, f, g : a = [pc |-> b, plan |-> d, todo |-> e, gone |-> f, undone |-> g]
    BY <1>3
  <1>7. PICK rest : rest = [a EXCEPT !.gone = less]
    OBVIOUS
  <1>8. rest = [pc |-> a.pc, plan |-> a.plan, todo |-> a.todo, gone |-> less, undone |-> a.undone]
    BY <1>6, <1>7
  <1>9. PICK u : u = a.undone \cup {w}
    OBVIOUS
  <1>10. [rest EXCEPT !.undone = @ \cup {w}] =
           [pc |-> a.pc, plan |-> a.plan, todo |-> a.todo, gone |-> less, undone |-> u]
    BY <1>8, <1>9
  <1>11. ASSUME NEW un, ap' = [pc |-> a.pc, plan |-> a.plan, todo |-> a.todo, gone |-> less,
                               undone |-> un],
                wt'[w].dir \/ w \in un
         PROVE  ApplyOK' /\ OutcomeStep /\ ap'.pc = "failed"
    <2>1. ap'.pc = "failed" /\ ap'.gone = less /\ ap'.undone = un /\ ap'.plan = a.plan /\ ap'.todo = a.todo
      BY <1>3, <1>11
    <2>2. ApplyOK'
      BY <1>3, <1>4, <1>11, <2>1 DEF ApplyOK
    <2>3. OutcomeStep
      BY <1>1, <1>11, <2>1 DEF OutcomeStep
    <2> QED
      BY <2>1, <2>2, <2>3
  <1>12. IsCandFile(planFile)'
    BY <1>3 DEF WcInv, IsCandFile
  <1>13. CASE ap' = rest /\ wt' = wt /\ wt[w].dir
    <2>1. ApplyOK' /\ OutcomeStep /\ ap'.pc = "failed"
      BY <1>8, <1>11, <1>13
    <2>2. WcTypeOK' /\ RemovalStep /\ Reachable \subseteq Reachable' \cup late
      BY <1>3, <1>13, <2>1, TreesStand DEF WcInv, WcTypeOK
    <2> QED
      BY <1>12, <2>1, <2>2 DEF WcInv, WcStep
  <1>14. CASE ap' = [rest EXCEPT !.undone = @ \cup {w}] /\ wt' = wt
    <2>1. w \in u
      BY <1>9
    <2>2. ApplyOK' /\ OutcomeStep /\ ap'.pc = "failed"
      BY <1>10, <1>11, <1>14, <2>1
    <2>3. WcTypeOK' /\ RemovalStep /\ Reachable \subseteq Reachable' \cup late
      BY <1>3, <1>14, <2>2, TreesStand DEF WcInv, WcTypeOK
    <2> QED
      BY <1>12, <2>2, <2>3 DEF WcInv, WcStep
  <1>15. CASE ap' = rest /\ git_adds(w) /\ wt' = [wt EXCEPT ![w] = Added(c)]
    <2>1. PICK h, x, t : /\ h = (IF c.path \in Detached THEN c.head ELSE tips[c.path])
                         /\ x = wt[c.path].elsewhere
                         /\ t = Added(c)
      OBVIOUS
    <2>2. h \in SUBSET NewCommit /\ x \in BOOLEAN
      BY <1>1, <1>5, <2>1 DEF WcInv, WcTypeOK, Tree
    <2>3. t = [Fresh EXCEPT !.head = h, !.elsewhere = x]
      BY <2>1 DEF Added
    <2>4. t \in Tree /\ t.dir = TRUE
      BY <2>2, <2>3 DEF Fresh, Tree
    <2>5. wt' \in [Wt -> Tree] /\ wt'[w] = t /\ \A v \in Wt \ {w} : wt'[v] = wt[v]
      BY <1>5, <1>15, <2>1, <2>4 DEF WcInv, WcTypeOK
    <2>6. ApplyOK' /\ OutcomeStep /\ ap'.pc = "failed"
      <3>1. wt'[w].dir
        BY <2>4, <2>5
      <3> QED
        BY <1>8, <1>11, <1>15, <3>1
    <2>7. WcTypeOK'
      BY <1>3, <2>5, <2>6 DEF WcInv, WcTypeOK
    <2>8. \A v \in Wt : wt[v].linked => v # w
      BY <1>15 DEF git_adds
    <2>9. RemovalStep /\ Reachable \subseteq Reachable' \cup late
      BY <1>3, <2>5, <2>8, NothingRemoved
    <2> QED
      BY <1>12, <2>6, <2>7, <2>9 DEF WcInv, WcStep
  <1> QED
    BY <1>1, <1>2, <1>7, <1>13, <1>14, <1>15 DEF _restore_removed_candidate

\* Reviewed cleanup removes what was reviewed, loses no commit but one made after
\* apply's last look, and reports what it did, for every set of worktrees and
\* commits and any number of plans and steps of others (apply_worktree_cleanup_plan).
THEOREM RemovesAsReviewed == WcSpec => RemovedAsReviewed
  <1>1. WcInit => WcInv
    <2> SUFFICES ASSUME WcInit PROVE WcInv
      OBVIOUS
    <2>1. Fresh \in Tree
      BY DEF Fresh, Tree
    <2>2. WcTypeOK
      BY <2>1 DEF WcInit, WcTypeOK, Idle
    <2>3. IsCandFile(planFile)
      BY DEF WcInit, IsCandFile, NoPlan
    <2>4. ApplyOK
      BY DEF WcInit, ApplyOK, Idle
    <2> QED
      BY <2>2, <2>3, <2>4 DEF WcInv
  <1>2. WcInv /\ [WcNext]_wcVars => WcInv' /\ WcStep
    BY OthersKeep, PlanWritten, PlanReviewed, ApplyLoads, ApplyLooks, ApplyRemoves, ApplyEnds,
       ApplyRestores DEF WcNext, Apply, hygiene
  <1> QED
    BY <1>1, <1>2, PTL DEF WcSpec, RemovedAsReviewed, WcStep
=============================================================================
