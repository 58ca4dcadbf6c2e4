----------------------------- MODULE Workspaces -----------------------------
(***************************************************************************)
(* The Git worktrees of runs (create_workspace, cleanup_workspace,         *)
(* preserve_workspace and the workspace step of a checkout in v2.py).      *)
(* Each command alternates between Git, which no database lock protects,   *)
(* and transactions of the StateStore, and may die in between.  Agents     *)
(* edit and commit in the worktrees meanwhile, also after their run ended. *)
(***************************************************************************)
EXTENDS RunStore

CONSTANTS
    Proc,         \* processes that run workspace commands
    MaxCommits    \* bound on the commits of one branch

ASSUME WorkspacesAssumption ==
    /\ MaxCommits \in Nat
    /\ TRUE \in ClaimKinds   \* coordinated claims are among the claims of the run tables

VARIABLES
    bound,        \* bound[r]: runs.workspace_path is set
    ws,           \* ws[r]: the state in the table workspaces, or NULL
    tree,         \* tree[r]: the worktree, NULL, "clean" or "dirty"
    branch,       \* branch[r]: the tip of the branch, counted in commits, or NULL
    merged,       \* merged[r]: the newest tip contained in a remote main
    squashed,     \* squashed[r]: the tip whose pull request was squash-merged, or NULL
    forced, lost, \* history: a cleanup was forced; edits or commits were destroyed
    shared,       \* history: two creations of the workspace overlapped
    ppc, pjob     \* the local state of each process

gitVars == <<tree, branch, merged, squashed>>
rowVars == <<bound, ws>>
pastVars == <<forced, lost, shared>>
procVars == <<ppc, pjob>>
wsVars == <<rowVars, gitVars, pastVars, procVars>>
wsAllVars == <<runVars, wsVars>>

Tip == 0 .. MaxCommits

\* What workspace_status has read, and how the command was called.
Job ==
    [run : RunId, checkout : BOOLEAN, created : BOOLEAN,
     force : BOOLEAN, head : Tip \cup {NULL}, merged : BOOLEAN, seen : Nat]

ASSUME WorkspacesNullAssumption ==
    /\ NULL \notin Tip /\ NULL \notin Job
    /\ NULL \notin {"clean", "dirty", "active", "preserved", "removed"}

WsTypeOK ==
    /\ bound \in [RunId -> BOOLEAN]
    /\ ws \in [RunId -> {NULL, "active", "preserved", "removed"}]
    /\ tree \in [RunId -> {NULL, "clean", "dirty"}]
    /\ branch \in [RunId -> Tip \cup {NULL}] /\ merged \in [RunId -> Tip]
    /\ squashed \in [RunId -> Tip \cup {NULL}]
    /\ {forced, lost, shared} \subseteq [RunId -> BOOLEAN]
    /\ ppc \in [Proc -> {"idle", "adding", "recording", "failing", "missing", "proving",
                         "preserving", "removing", "unlisting"}]
    /\ pjob \in [Proc -> Job \cup {NULL}]

WsInit ==
    /\ Init
    /\ bound = [r \in RunId |-> FALSE] /\ ws = [r \in RunId |-> NULL]
    /\ tree = [r \in RunId |-> NULL] /\ branch = [r \in RunId |-> NULL]
    /\ merged = [r \in RunId |-> 0] /\ squashed = [r \in RunId |-> NULL]
    /\ forced = [r \in RunId |-> FALSE] /\ lost = [r \in RunId |-> FALSE]
    /\ shared = [r \in RunId |-> FALSE]
    /\ ppc = [p \in Proc |-> "idle"] /\ pjob = [p \in Proc |-> NULL]

Goto(p, l) == ppc' = [ppc EXCEPT ![p] = l] /\ UNCHANGED pjob
Done(p) == ppc' = [ppc EXCEPT ![p] = "idle"] /\ pjob' = [pjob EXCEPT ![p] = NULL]
Start(p, l, j) == ppc' = [ppc EXCEPT ![p] = l] /\ pjob' = [pjob EXCEPT ![p] = j]
NoJob(r) == [run |-> r, checkout |-> FALSE, created |-> FALSE,
             force |-> FALSE, head |-> NULL, merged |-> FALSE, seen |-> 0]

Creating(q, r) == ppc[q] \in {"adding", "recording"} /\ pjob[q].run = r

\* What the removal of a worktree, or of its branch, takes with it.
Loses(r) == lost' = [lost EXCEPT ![r] =
    @ \/ tree[r] = "dirty" \/ (branch[r] # branch'[r] /\ branch[r] > merged[r])]

-----------------------------------------------------------------------------

\* create_workspace, called by a checkout or by the operator: the run is read.
\* That it is still active is not asked; a run with a path is returned as it is.
create_workspace(p, r, checkout) ==
    /\ ppc[p] = "idle"
    /\ runs[r] # NULL /\ ~bound[r]
    /\ Start(p, "adding", [NoJob(r) EXCEPT !.checkout = checkout])
    /\ shared' = [shared EXCEPT ![r] = @ \/ \E q \in Proc : Creating(q, r)]
    /\ UNCHANGED <<runVars, rowVars, gitVars, forced, lost>>

\* git worktree add, on the branch if there is one; a registered worktree is
\* adopted.
add_worktree(p) ==
    LET r == pjob[p].run
    IN  /\ ppc[p] = "adding"
        /\ tree' = [tree EXCEPT ![r] = IF @ = NULL THEN "clean" ELSE @]
        /\ branch' = [branch EXCEPT ![r] = IF @ = NULL THEN 0 ELSE @]
        /\ Start(p, "recording", [pjob[p] EXCEPT !.created = (tree[r] = NULL)])
        /\ UNCHANGED <<runVars, rowVars, merged, squashed, pastVars>>

\* Mutant: recording the workspace also starts the run.
record_workspace_running(p) ==
    LET r == pjob[p].run
    IN  /\ ppc[p] = "recording"
        /\ bound' = [bound EXCEPT ![r] = TRUE] /\ ws' = [ws EXCEPT ![r] = "active"]
        /\ Done(p)
        /\ runs' = [runs EXCEPT ![r] = [@ EXCEPT !.state = "running"]]
        /\ UNCHANGED <<resv, status, receipts, life, gitVars, pastVars>>

\* The transaction.
record_workspace(p) ==
    LET r == pjob[p].run
    IN  /\ ppc[p] = "recording"
        /\ bound' = [bound EXCEPT ![r] = TRUE] /\ ws' = [ws EXCEPT ![r] = "active"]
        /\ Done(p)
        /\ UNCHANGED <<runVars, gitVars, pastVars>>

\* The transaction raises: a worktree of this call is removed with --force.
roll_back(p) ==
    LET r == pjob[p].run
    IN  /\ ppc[p] = "recording"
        /\ UNCHANGED branch
        /\ IF pjob[p].created
           THEN tree' = [tree EXCEPT ![r] = NULL] /\ Loses(r)
           ELSE UNCHANGED <<tree, lost>>
        /\ Goto(p, "failing")
        /\ UNCHANGED <<runVars, rowVars, merged, squashed, forced, shared>>

\* Git refuses: a missing repository or baseline, an unexpected branch, or the
\* destination of another creation.
refuse(p) ==
    /\ ppc[p] = "adding"
    /\ Goto(p, "failing")
    /\ UNCHANGED <<runVars, rowVars, gitVars, pastVars>>

\* The operator created the workspace before the checkout did, at another path.
identity_mismatch(p, r) ==
    /\ ppc[p] = "idle"
    /\ bound[r]
    /\ Start(p, "failing", [NoJob(r) EXCEPT !.checkout = TRUE])
    /\ UNCHANGED <<runVars, rowVars, gitVars, pastVars>>

\* A checkout fails the run it could give no workspace, if it is still active.
fail_checkout(p) ==
    LET r == pjob[p].run
    IN  /\ ppc[p] = "failing"
        /\ IF pjob[p].checkout /\ Active(r) THEN fail_run(r, "failed") ELSE UNCHANGED runVars
        /\ Done(p)
        /\ UNCHANGED <<rowVars, gitVars, pastVars>>

-----------------------------------------------------------------------------

cleanup_allowed(r) == ws[r] # NULL /\ ~Active(r)

\* cleanup_workspace: workspace_status is read and decides what follows.
cleanup_workspace(p, r, force) ==
    /\ ppc[p] = "idle"
    /\ cleanup_allowed(r)
    /\ LET contained == tree[r] # NULL /\ branch[r] <= merged[r]
           next == CASE tree[r] = NULL -> "missing"
                     [] tree[r] = "dirty" /\ ~force -> "preserving"
                     [] tree[r] # NULL /\ (force \/ (tree[r] = "clean" /\ contained)) -> "removing"
                     [] OTHER -> "proving"
       IN  Start(p, next, [NoJob(r) EXCEPT !.force = force, !.seen = Len(life[r]),
               !.head = IF next = "proving" THEN branch[r] ELSE NULL,
               !.merged = (next = "removing" /\ contained)])
    /\ forced' = [forced EXCEPT ![r] = @ \/ force]
    /\ UNCHANGED <<runVars, rowVars, gitVars, lost, shared>>

\* The row of a worktree that is gone.
record_missing(p) ==
    /\ ppc[p] = "missing"
    /\ ws' = [ws EXCEPT ![pjob[p].run] = "removed"]
    /\ Done(p)
    /\ UNCHANGED <<runVars, bound, gitVars, pastVars>>

\* _workspace_squash_merge_proof for the head that was read, then the status
\* again: head and worktree must not have changed.
prove_squash(p) ==
    LET r == pjob[p].run
    IN  /\ ppc[p] = "proving"
        /\ Start(p, IF /\ squashed[r] = pjob[p].head
                       /\ branch[r] = pjob[p].head /\ tree[r] = "clean"
                    THEN "removing" ELSE "preserving",
                 [pjob[p] EXCEPT !.head = NULL])
        /\ UNCHANGED <<runVars, rowVars, gitVars, pastVars>>

\* GitHub cannot be observed.
proof_unavailable(p) ==
    /\ ppc[p] = "proving"
    /\ Goto(p, "preserving")
    /\ UNCHANGED <<runVars, rowVars, gitVars, pastVars>>

preserve(p) ==
    /\ ppc[p] = "preserving"
    /\ ws' = [ws EXCEPT ![pjob[p].run] = "preserved"]
    /\ Done(p)
    /\ UNCHANGED <<runVars, bound, gitVars, pastVars>>

\* preserve_workspace called by the operator.
preserve_workspace(r) ==
    /\ ws[r] # NULL
    /\ ws' = [ws EXCEPT ![r] = "preserved"]
    /\ UNCHANGED <<runVars, bound, gitVars, pastVars, procVars>>

\* Mutant: git branch -D.
delete_branch_hard(r) == branch' = [branch EXCEPT ![r] = NULL]

\* git branch -d: refused unless Git itself finds the branch merged, and the
\* local main may lag behind.
delete_branch(r) ==
    \/ UNCHANGED branch
    \/ branch[r] # NULL /\ branch[r] <= merged[r] /\ branch' = [branch EXCEPT ![r] = NULL]

\* git worktree remove: without --force Git refuses a worktree that is dirty by
\* now.  The branch is deleted only after an ancestry proof.
remove_worktree(p) ==
    LET r == pjob[p].run
    IN  /\ ppc[p] = "removing"
        /\ tree[r] = "clean" \/ (tree[r] = "dirty" /\ pjob[p].force)
        /\ tree' = [tree EXCEPT ![r] = NULL]
        /\ IF pjob[p].merged THEN delete_branch(r) ELSE UNCHANGED branch
        /\ Loses(r)
        /\ Goto(p, "unlisting")
        /\ UNCHANGED <<runVars, rowVars, merged, squashed, forced, shared>>

record_removed(p) ==
    /\ ppc[p] = "unlisting"
    /\ ws' = [ws EXCEPT ![pjob[p].run] = "removed"]
    /\ Done(p)
    /\ UNCHANGED <<runVars, bound, gitVars, pastVars>>

\* The process dies, or Git or the database raises.
die(p) ==
    /\ ppc[p] # "idle"
    /\ Done(p)
    /\ UNCHANGED <<runVars, rowVars, gitVars, pastVars>>

-----------------------------------------------------------------------------

\* External: the agent works in the worktree it was given.
agent_edit(r) ==
    /\ bound[r] /\ tree[r] = "clean"
    /\ tree' = [tree EXCEPT ![r] = "dirty"]
    /\ UNCHANGED <<runVars, rowVars, branch, merged, squashed, pastVars, procVars>>

agent_commit(r) ==
    /\ tree[r] = "dirty" /\ branch[r] < MaxCommits
    /\ tree' = [tree EXCEPT ![r] = "clean"]
    /\ branch' = [branch EXCEPT ![r] = @ + 1]
    /\ UNCHANGED <<runVars, rowVars, merged, squashed, pastVars, procVars>>

\* External: GitHub merges the branch, with or without its commits.
merge_branch(r) ==
    /\ branch[r] # NULL /\ branch[r] > merged[r]
    /\ \/ merged' = [merged EXCEPT ![r] = branch[r]] /\ UNCHANGED squashed
       \/ squashed' = [squashed EXCEPT ![r] = branch[r]] /\ UNCHANGED merged
    /\ UNCHANGED <<runVars, rowVars, tree, branch, pastVars, procVars>>

\* resume_orphaned_run with its checks of the workspace.
resume_with_workspace(r) ==
    /\ bound[r] => ws[r] = "active" /\ tree[r] # NULL
    /\ resume_orphaned_run(r)
    /\ UNCHANGED wsVars

\* The rest of the run's life; to a workspace every end of a run is the same.
claim_run(r, t, w, s, pl) == claim(r, t, w, s, pl, TRUE) /\ UNCHANGED wsVars
end_run(r) == fail_run(r, "failed") /\ UNCHANGED wsVars
silence(r) == heartbeat_lapses(r) /\ UNCHANGED wsVars
reconcile_runs ==
    /\ reconcile([r \in active_runs |-> NULL], [r \in active_runs |-> "unobserved"])
    /\ UNCHANGED wsVars

WsNext ==
    \/ \E p \in Proc, r \in RunId, c \in BOOLEAN : create_workspace(p, r, c)
    \/ \E p \in Proc : add_worktree(p)
    \/ \E p \in Proc : record_workspace(p)
    \/ \E p \in Proc : roll_back(p)
    \/ \E p \in Proc : refuse(p)
    \/ \E p \in Proc, r \in RunId : identity_mismatch(p, r)
    \/ \E p \in Proc : fail_checkout(p)
    \/ \E p \in Proc, r \in RunId, f \in BOOLEAN : cleanup_workspace(p, r, f)
    \/ \E p \in Proc : record_missing(p)
    \/ \E p \in Proc : prove_squash(p)
    \/ \E p \in Proc : proof_unavailable(p)
    \/ \E p \in Proc : preserve(p)
    \/ \E r \in RunId : preserve_workspace(r)
    \/ \E p \in Proc : remove_worktree(p)
    \/ \E p \in Proc : record_removed(p)
    \/ \E p \in Proc : die(p)
    \/ \E r \in RunId : agent_edit(r)
    \/ \E r \in RunId : agent_commit(r)
    \/ \E r \in RunId : merge_branch(r)
    \/ \E r \in RunId : resume_with_workspace(r)
    \/ \E r \in RunId, t \in Task, w \in Worker, s \in Sha, pl \in Plan : claim_run(r, t, w, s, pl)
    \/ \E r \in RunId : end_run(r)
    \/ \E r \in RunId : silence(r)
    \/ reconcile_runs

WsSpec == WsInit /\ [][WsNext]_wsAllVars

-----------------------------------------------------------------------------

\* The variables have their types, and no edit and no commit of an agent is
\* destroyed by a cleanup that was not forced: an edit is still in the worktree,
\* and every commit is on its branch or in main.
NoWorkLost ==
    /\ WsTypeOK
    /\ \A r \in RunId : lost[r] => forced[r] \/ shared[r]

\* A workspace recorded as removed is gone, whichever commands died or ran
\* beside the cleanup, unless two creations of it overlapped.
RemovedStaysGone ==
    \A r \in RunId : ws[r] = "removed" => tree[r] = NULL \/ shared[r]

\* The worktree of an active run is removed by a cleanup only when the run was
\* resumed after the cleanup had read that it was terminal.
CleanupStep ==
    \A p \in Proc : (ppc[p] = "removing" /\ ppc'[p] = "unlisting" /\ Active(pjob[p].run)) =>
        Len(life[pjob[p].run]) > pjob[p].seen

\* A cleanup removes what it records, nothing that is in use and no work of an
\* agent, wherever edits and commits fall between its checks and the removal,
\* but for the resumption it cannot see and for overlapping creations, of which
\* the rollback of one can take the edits of the other with it.
CleanupExact == [][CleanupStep /\ RemovedStaysGone' /\ NoWorkLost']_wsAllVars

\* Workspace commands change a run only in ways the run tables allow.
WsImplementsRunStore == Spec
=============================================================================
