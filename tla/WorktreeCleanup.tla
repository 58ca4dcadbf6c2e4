-------------------------- MODULE WorktreeCleanup --------------------------
(***************************************************************************)
(* The reviewed removal of linked worktrees (worktree_hygiene.py): a plan  *)
(* file binds the identity of every candidate, a reviewer approves it, and *)
(* apply looks again before each removal.  Git removes no worktree that is *)
(* dirty or locked.  When a later candidate fails, the removed ones are    *)
(* added again.  People and agents work in the repository meanwhile.       *)
(***************************************************************************)
EXTENDS Naturals, Sequences, FiniteSets

CONSTANTS
  Wt,        \* linked worktrees, by path; the branch of a worktree bears its name
  WtOrder,   \* them in the order of their paths
  Detached,  \* the worktrees that are on no branch
  NewCommit,       \* commits that can be made in worktrees
  MaxPlans,  \* bound on the plans written
  MaxChurn   \* bound on what others do

ASSUME WtAssumption ==
  /\ IsFiniteSet(Wt) /\ Detached \subseteq Wt
  /\ {WtOrder[i] : i \in DOMAIN WtOrder} = Wt /\ Len(WtOrder) = Cardinality(Wt)

VARIABLES
  wt,        \* wt[w]: the linked worktree
  tips,      \* tips[w]: the commits on the branch of w
  onMain,    \* the commits on the main branch
  atMain,    \* the canonical worktree has the main branch checked out
  planFile,  \* the plan file; stamp 0 when there is none
  ap,        \* the apply command
  late,      \* history: commits made after apply last looked at their worktree
  churn

wcVars == <<wt, tips, onMain, atMain, planFile, ap, late, churn>>

Tree == [linked : BOOLEAN, dir : BOOLEAN, head : SUBSET NewCommit, dirty : BOOLEAN,
         locked : BOOLEAN, used : BOOLEAN, elsewhere : BOOLEAN]
Fresh == [linked |-> TRUE, dir |-> TRUE, head |-> {}, dirty |-> FALSE,
          locked |-> FALSE, used |-> FALSE, elsewhere |-> FALSE]

NoPlan == [stamp |-> 0, reviewed |-> FALSE, cands |-> <<>>]
Idle == [pc |-> "idle", plan |-> NoPlan, todo |-> <<>>, gone |-> <<>>, undone |-> {}]

WcInit ==
  /\ wt = [w \in Wt |-> Fresh] /\ tips = [w \in Wt |-> {}]
  /\ onMain = {} /\ atMain = TRUE
  /\ planFile = NoPlan /\ ap = Idle /\ late = {} /\ churn = 0

----------------------------------------------------------------------------
\* Reading the repository.

_is_ancestor(head) == head = {} \/ (atMain /\ head \subseteq onMain)

\* One entry for each linked worktree.
worktree_hygiene_report ==
  [w \in {v \in Wt : wt[v].linked} |->
     [path_exists |-> wt[w].dir, dirty |-> wt[w].dirty \/ ~wt[w].dir, locked |-> wt[w].locked,
      head |-> wt[w].head, merged |-> _is_ancestor(wt[w].head)]]

\* The fields that make no candidate, and those that vary among candidates.
_candidate_identity(w) ==
  LET r == worktree_hygiene_report[w] IN [path |-> w, head |-> r.head, merged |-> r.merged]

_process_references(w) == wt[w].used

\* _select_candidates accepts w: a linked worktree that is unlocked, there,
\* clean, merged into the current HEAD, and named by no process.
Selectable(w) ==
  LET report == worktree_hygiene_report
  IN  /\ w \in DOMAIN report
      /\ ~report[w].locked /\ report[w].path_exists /\ ~report[w].dirty /\ report[w].merged
      /\ ~_process_references(w)

_select_candidates(ws) == [i \in DOMAIN ws |-> _candidate_identity(ws[i])]

\* Sorted by path: the candidate at place i is the one with i of them up to it.
Place(w) == CHOOSE i \in DOMAIN WtOrder : WtOrder[i] = w
InOrder(C) ==
  LET upto(w) == Cardinality({v \in C : Place(v) <= Place(w)})
  IN  [i \in 1..Cardinality(C) |-> CHOOSE w \in C : upto(w) = i]
Paths(cands) == [i \in DOMAIN cands |-> cands[i].path]

write_worktree_cleanup_plan(C) ==
  /\ C # {} /\ \A w \in C : Selectable(w)
  /\ planFile.stamp < MaxPlans
  /\ planFile' = [stamp |-> planFile.stamp + 1, reviewed |-> FALSE,
                  cands |-> _select_candidates(InOrder(C))]
  /\ UNCHANGED <<wt, tips, onMain, atMain, ap, late, churn>>

\* The report on its own changes nothing.
hygiene == UNCHANGED wcVars

\* The reviewer copies the digests of the plan into its review object.
review ==
  /\ planFile.stamp > 0 /\ ~planFile.reviewed
  /\ planFile' = [planFile EXCEPT !.reviewed = TRUE]
  /\ UNCHANGED <<wt, tips, onMain, atMain, ap, late, churn>>

----------------------------------------------------------------------------
\* apply_worktree_cleanup_plan, one step for each look and each effect.

load_and_compare ==
  /\ ap.pc = "idle" /\ planFile.reviewed
  /\ LET ws == Paths(planFile.cands)
     IN  /\ \A i \in DOMAIN ws : Selectable(ws[i])
         /\ _select_candidates(ws) = planFile.cands
         /\ ap' = [Idle EXCEPT !.pc = "next", !.plan = planFile, !.todo = planFile.cands]
  /\ UNCHANGED <<wt, tips, onMain, atMain, planFile, late, churn>>

\* A check that does not compare the candidate with the reviewed one.
unchanged_candidate_selectable(c) == Selectable(c.path)

\* The look before an effect: the file is the reviewed one, and so is the candidate.
unchanged_candidate(c) == Selectable(c.path) /\ _candidate_identity(c.path) = c

look ==
  /\ ap.pc = "next" /\ ap.todo # <<>>
  /\ LET c == Head(ap.todo)
         same == planFile = ap.plan /\ unchanged_candidate(c)
     IN  /\ ap' = [ap EXCEPT !.pc = IF same THEN "remove" ELSE "failed"]
         /\ late' = late \ wt[c.path].head
  /\ UNCHANGED <<wt, tips, onMain, atMain, planFile, churn>>

\* git worktree remove, without --force.
git_removes(w) == wt[w].linked /\ ~wt[w].dirty /\ ~wt[w].locked

Removed(w) == [wt[w] EXCEPT !.linked = FALSE, !.dir = FALSE, !.dirty = FALSE, !.head = {}]

remove ==
  /\ ap.pc = "remove"
  /\ LET w == Head(ap.todo).path
     IN  IF git_removes(w)
         THEN /\ wt' = [wt EXCEPT ![w] = Removed(w)]
              /\ ap' = [ap EXCEPT !.pc = "next", !.todo = Tail(@), !.gone = Append(@, Head(ap.todo))]
         ELSE ap' = [ap EXCEPT !.pc = "failed"] /\ UNCHANGED wt
  /\ UNCHANGED <<tips, onMain, atMain, planFile, late, churn>>

post_gate ==
  /\ ap.pc = "next" /\ ap.todo = <<>>
  /\ LET clean == /\ planFile = ap.plan
                  /\ \A i \in DOMAIN ap.gone : ~wt[ap.gone[i].path].linked
     IN  ap' = [ap EXCEPT !.pc = IF clean THEN "applied" ELSE "failed"]
  /\ UNCHANGED <<wt, tips, onMain, atMain, planFile, late, churn>>

\* git worktree add: a branch that another worktree has checked out is refused,
\* and a branch brings its own tip.
git_adds(w) == ~wt[w].linked /\ (w \in Detached \/ ~wt[w].elsewhere)
Added(c) == [Fresh EXCEPT !.head = IF c.path \in Detached THEN c.head ELSE tips[c.path],
                          !.elsewhere = wt[c.path].elsewhere]

\* Removed candidates whose path is free again are restored, the last one first.
_restore_removed_candidate ==
  /\ ap.pc = "failed" /\ ap.gone # <<>>
  /\ LET c == ap.gone[Len(ap.gone)]
         rest == [ap EXCEPT !.gone = SubSeq(@, 1, Len(@) - 1)]
     IN  IF wt[c.path].dir THEN ap' = rest /\ UNCHANGED wt
         ELSE /\ ap' = IF git_adds(c.path) THEN rest ELSE [rest EXCEPT !.undone = @ \cup {c.path}]
              /\ wt' = IF git_adds(c.path) THEN [wt EXCEPT ![c.path] = Added(c)] ELSE wt
  /\ UNCHANGED <<tips, onMain, atMain, planFile, late, churn>>

\* The command raises; it says so when the rollback was incomplete.
raise ==
  /\ ap.pc = "failed" /\ ap.gone = <<>>
  /\ ap' = [ap EXCEPT !.pc = IF ap.undone = {} THEN "refused" ELSE "incomplete"]
  /\ UNCHANGED <<wt, tips, onMain, atMain, planFile, late, churn>>

again ==
  /\ ap.pc \in {"applied", "refused", "incomplete"}
  /\ ap' = Idle
  /\ UNCHANGED <<wt, tips, onMain, atMain, planFile, late, churn>>

crash ==
  /\ ap.pc \in {"next", "remove", "failed"}
  /\ ap' = Idle
  /\ UNCHANGED <<wt, tips, onMain, atMain, planFile, late, churn>>

----------------------------------------------------------------------------
\* What people and agents do to the repository.

Churns == churn < MaxChurn /\ churn' = churn + 1 /\ UNCHANGED <<planFile, ap>>
Sets(w, to) == wt' = [wt EXCEPT ![w] = to] /\ UNCHANGED <<tips, onMain, atMain, late>>

edits(w) == Churns /\ wt[w].dir /\ wt[w].linked /\ Sets(w, [wt[w] EXCEPT !.dirty = TRUE])
locks(w) == Churns /\ wt[w].linked /\ Sets(w, [wt[w] EXCEPT !.locked = ~@])
enters(w) == Churns /\ wt[w].dir /\ Sets(w, [wt[w] EXCEPT !.used = ~@])
deletes_directory(w) ==
  Churns /\ wt[w].dir /\ Sets(w, [wt[w] EXCEPT !.dir = FALSE, !.dirty = FALSE])
checks_branch_out(w) ==
  Churns /\ ~wt[w].linked /\ w \notin Detached /\ Sets(w, [wt[w] EXCEPT !.elsewhere = TRUE])
recreates(w) == Churns /\ git_adds(w) /\ ~wt[w].dir
                /\ Sets(w, [Fresh EXCEPT !.head = IF w \in Detached THEN {} ELSE tips[w]])

commits(w, s) ==
  /\ Churns /\ wt[w].dir /\ wt[w].linked
  /\ s \notin onMain \cup UNION {wt[v].head \cup tips[v] : v \in Wt} \cup late
  /\ wt' = [wt EXCEPT ![w].head = @ \cup {s}, ![w].dirty = FALSE]
  /\ tips' = IF w \in Detached THEN tips ELSE [tips EXCEPT ![w] = @ \cup {s}]
  /\ late' = late \cup (IF ap.pc = "remove" /\ Head(ap.todo).path = w THEN {s} ELSE {})
  /\ UNCHANGED <<onMain, atMain>>

merges(w) == /\ Churns /\ atMain /\ wt[w].linked /\ ~(wt[w].head \subseteq onMain)
             /\ onMain' = onMain \cup wt[w].head
             /\ UNCHANGED <<wt, tips, atMain, late>>
switches == Churns /\ atMain' = ~atMain /\ UNCHANGED <<wt, tips, onMain, late>>

Others == \/ switches
          \/ \E w \in Wt : \/ edits(w) \/ locks(w) \/ enters(w) \/ deletes_directory(w)
                           \/ checks_branch_out(w) \/ recreates(w) \/ merges(w)
                           \/ \E s \in NewCommit : commits(w, s)

Apply == \/ load_and_compare \/ look \/ remove \/ post_gate
         \/ _restore_removed_candidate \/ raise \/ again \/ crash

WcNext == \/ \E C \in SUBSET Wt : write_worktree_cleanup_plan(C)
          \/ hygiene \/ review \/ Apply \/ Others

WcSpec == WcInit /\ [][WcNext]_wcVars

----------------------------------------------------------------------------
WcTypeOK ==
  /\ wt \in [Wt -> Tree] /\ tips \in [Wt -> SUBSET NewCommit]
  /\ {onMain, late} \subseteq SUBSET NewCommit /\ atMain \in BOOLEAN
  /\ ap.pc \in {"idle", "next", "remove", "failed", "applied", "refused", "incomplete"}

\* The commits that some branch or some linked worktree holds.
Reachable == onMain \cup UNION {tips[w] \cup (IF wt[w].linked THEN wt[w].head ELSE {}) : w \in Wt}

\* A worktree is removed only when it is a candidate of the reviewed plan in
\* hand, clean and unlocked, with no commit the reviewer did not see.
RemovalStep ==
  \A w \in Wt : wt[w].linked /\ ~wt'[w].linked =>
    /\ ap.plan.reviewed /\ ~wt[w].dirty /\ ~wt[w].locked /\ tips' = tips
    /\ \E i \in DOMAIN ap.plan.cands :
         ap.plan.cands[i].path = w /\ wt[w].head \subseteq ap.plan.cands[i].head \cup late

\* "applied" means that every candidate was removed, by this command, and is
\* not linked now; "refused" that every removed path was occupied again.
OutcomeStep ==
  /\ ap.pc # "applied" /\ ap'.pc = "applied" =>
       /\ ap.gone = ap.plan.cands
       /\ \A i \in DOMAIN ap.gone : ~wt[ap.gone[i].path].linked
  /\ Len(ap'.gone) < Len(ap.gone) /\ ap'.pc = "failed" =>
       LET w == ap.gone[Len(ap.gone)].path IN wt'[w].dir \/ w \in ap'.undone
  /\ ap'.pc = "refused" => ap'.undone = {}

\* Reviewed cleanup takes nothing but what was reviewed and loses no commit: a
\* branch is never deleted, and a commit that only a removed worktree held was
\* made between apply's last look and Git's removal.  What apply reports is
\* what it did, also after a failure and its rollback (apply_worktree_cleanup_plan).
RemovedAsReviewed ==
  [][WcTypeOK' /\ RemovalStep /\ OutcomeStep /\ Reachable \subseteq Reachable' \cup late]_wcVars
=============================================================================
