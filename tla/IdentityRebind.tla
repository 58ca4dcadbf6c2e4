--------------------------- MODULE IdentityRebind ---------------------------
(***************************************************************************)
(* Moving the TaskSpecs of one repository identity to another              *)
(* (repository_identity_rebind.py).  A plan lists every open task that is  *)
(* bound to the old repository, with its revision and its document: those  *)
(* to rewrite, and those excluded because a run of theirs is active.  One  *)
(* transaction applies all items or none.  Meanwhile tasks are revised,    *)
(* closed, started and ended.                                              *)
(***************************************************************************)
EXTENDS Naturals, FiniteSets

CONSTANTS
  RTask,      \* tasks
  RDoc,       \* the documents callers put: what they bind where
  MaxRebinds, \* bound on the plans built
  MaxTurns    \* bound on what others do

VARIABLES
  spec,       \* spec[t]: revision, document, and the document the overlay closes, if any
  active,     \* active[t]: the active run of t by number and state; number 0 is none
  receipts,   \* the mutation receipts, by their idempotency keys
  plans,      \* the plan files
  stale,      \* the plans older than the limit
  applied,    \* history: the plans applied, with what became of them
  turns

rbVars == <<spec, active, receipts, plans, stale, applied, turns>>

Side == {"old", "new"}
\* claims: the claimed repositories; repo: working_repository; keys: the
\* repositories named in grabowski_resources; elsewhere: old names in other fields or forms.
Binding == [claims : SUBSET Side, repo : Side, keys : SUBSET Side,
            elsewhere : BOOLEAN, closed : BOOLEAN]

ASSUME RDocAssumption == RDoc \subseteq Binding

NoRun == [run |-> 0, state |-> "none"]

RbInit ==
  /\ spec \in [RTask -> {[rev |-> 1, doc |-> d, overlay |-> {}] : d \in RDoc}]
  /\ active = [t \in RTask |-> NoRun]
  /\ receipts = {} /\ plans = {} /\ stale = {} /\ applied = {} /\ turns = 0

----------------------------------------------------------------------------
\* An overlay closes a task only while it is bound to the current document.
EffectivelyClosed(t) == spec[t].doc.closed \/ spec[t].doc \in spec[t].overlay

_has_old_binding(d) == "old" \in d.claims \/ d.repo = "old" \/ "old" \in d.keys
_old_repository_binding_residue(d) == _has_old_binding(d) \/ d.elsewhere

\* Reading the candidates fails when a task is bound in unsupported places only.
Readable == \A t \in RTask : /\ ~EffectivelyClosed(t)
                             /\ _old_repository_binding_residue(spec[t].doc)
                               => _has_old_binding(spec[t].doc)
_candidates == {t \in RTask : ~EffectivelyClosed(t) /\ _has_old_binding(spec[t].doc)}
_active_runs == {t \in RTask : active[t].run # 0}

\* Exactly the old repository is claimed, and nothing old is left afterwards.
Previews(d) == d.claims = {"old"} /\ ~d.elsewhere
preview_repository_identity_rebind(d) ==
  [d EXCEPT !.claims = {"new"}, !.repo = "new", !.keys = IF @ = {} THEN {} ELSE {"new"}]

Item(t) == [task |-> t, rev |-> spec[t].rev, doc |-> spec[t].doc,
            result |-> preview_repository_identity_rebind(spec[t].doc)]
Exclusion(t) == [task |-> t, rev |-> spec[t].rev, doc |-> spec[t].doc, run |-> active[t]]
projection_root == [t \in RTask |-> [rev |-> spec[t].rev, doc |-> spec[t].doc]]

\* The caller names the active tasks to exclude, and names them exactly.
CanBuild(excluded) ==
  /\ Readable /\ excluded = _candidates \cap _active_runs
  /\ _candidates \ excluded # {} /\ \A t \in _candidates : Previews(spec[t].doc)

build_plan(excluded) ==
  /\ Cardinality(plans) < MaxRebinds /\ CanBuild(excluded)
  /\ plans' = plans \cup {[items |-> {Item(t) : t \in _candidates \ excluded},
                           excluded |-> {Exclusion(t) : t \in excluded},
                           root |-> projection_root]}
  /\ UNCHANGED <<spec, active, receipts, stale, applied, turns>>

build_refused(excluded) == ~CanBuild(excluded) /\ UNCHANGED rbVars

----------------------------------------------------------------------------
\* apply_plan, in one transaction.

TasksOf(xs) == {x.task : x \in xs}

ExclusionsHold(plan) ==
  \A x \in plan.excluded :
    /\ active[x.task].run # 0 /\ active[x.task] = x.run
    /\ x.task \in _candidates /\ spec[x.task].rev = x.rev /\ spec[x.task].doc = x.doc
    /\ Previews(spec[x.task].doc)

\* Nobody looks whether a task to rewrite has been started since the plan.
NoneStarted_unchecked(plan) == TRUE
NoneStarted(plan) == TasksOf(plan.items) \cap _active_runs = {}

\* No receipt of the plan exists yet, and the state is the planned one.
CanApply(plan) ==
  /\ plan.items \cap receipts = {} /\ plan \notin stale
  /\ Readable /\ ExclusionsHold(plan)
  /\ _candidates = TasksOf(plan.items) \cup TasksOf(plan.excluded)
  /\ NoneStarted(plan)
  /\ projection_root = plan.root
  /\ \A x \in plan.items : spec[x.task].rev = x.rev /\ spec[x.task].doc = x.doc

\* Every receipt of the plan exists: the call is a repetition.
CanRepeat(plan) ==
  /\ plan.items \subseteq receipts
  /\ Readable /\ ExclusionsHold(plan) /\ _candidates = TasksOf(plan.excluded)

apply_plan(plan) ==
  /\ CanApply(plan)
  /\ spec' = [t \in RTask |->
                IF t \notin TasksOf(plan.items) THEN spec[t]
                ELSE [spec[t] EXCEPT !.rev = @ + 1, !.doc = preview_repository_identity_rebind(@)]]
  /\ Readable' /\ _candidates' = TasksOf(plan.excluded)
  /\ receipts' = receipts \cup plan.items
  /\ applied' = applied \cup {[plan |-> plan, as |-> "applied"]}
  /\ UNCHANGED <<active, plans, stale, turns>>

apply_plan_again(plan) ==
  /\ CanRepeat(plan)
  /\ applied' = applied \cup {[plan |-> plan, as |-> "already-applied"]}
  /\ UNCHANGED <<spec, active, receipts, plans, stale, turns>>

apply_refused(plan) == ~CanApply(plan) /\ ~CanRepeat(plan) /\ UNCHANGED rbVars

grow_stale(plan) == plan \notin stale /\ stale' = stale \cup {plan}
                    /\ UNCHANGED <<spec, active, receipts, plans, applied, turns>>

----------------------------------------------------------------------------
Turns == turns < MaxTurns /\ turns' = turns + 1 /\ UNCHANGED <<receipts, plans, stale, applied>>

put_task_spec(t, d) == /\ Turns /\ d # spec[t].doc
                       /\ spec' = [spec EXCEPT ![t].rev = @ + 1, ![t].doc = d]
                       /\ UNCHANGED active
complete_task(t) == /\ Turns /\ active[t].run # 0
                    /\ spec' = [spec EXCEPT ![t].overlay = {spec[t].doc}]
                    /\ active' = [active EXCEPT ![t] = NoRun]
plan_changes(t) == /\ Turns /\ spec[t].overlay # {}
                   /\ spec' = [spec EXCEPT ![t].overlay = {}] /\ UNCHANGED active
start_run(t) == /\ Turns /\ active[t].run = 0 /\ ~EffectivelyClosed(t)
                /\ active' = [active EXCEPT ![t] = [run |-> turns + 1, state |-> "assigned"]]
                /\ UNCHANGED spec
run_moves(t) == /\ Turns /\ active[t].state = "assigned"
                /\ active' = [active EXCEPT ![t].state = "running"] /\ UNCHANGED spec
end_failed(t) == /\ Turns /\ active[t].run # 0
                 /\ active' = [active EXCEPT ![t] = NoRun] /\ UNCHANGED spec

RbNext ==
  \/ \E X \in SUBSET RTask : build_plan(X) \/ build_refused(X)
  \/ \E plan \in plans : \/ apply_plan(plan) \/ apply_plan_again(plan)
                          \/ apply_refused(plan) \/ grow_stale(plan)
  \/ \E t \in RTask : \/ complete_task(t) \/ plan_changes(t) \/ start_run(t) \/ run_moves(t)
                      \/ end_failed(t) \/ \E d \in RDoc : put_task_spec(t, d)

RbSpec == RbInit /\ [][RbNext]_rbVars
----------------------------------------------------------------------------
RbTypeOK ==
  /\ \A t \in RTask : spec[t].rev \in Nat /\ spec[t].overlay \subseteq Binding
                      /\ spec[t].doc \in Binding
  /\ stale \subseteq plans /\ {x.plan : x \in applied} \subseteq plans

\* The receipts are those of the plans that were applied, whole, and a plan that
\* answers "already-applied" was indeed carried out, item by item.
ReceiptsWhole ==
  /\ receipts = UNION {x.plan.items : x \in {y \in applied : y.as = "applied"}}
  /\ \A x \in applied : x.as = "already-applied" => x.plan.items \subseteq receipts

\* Applying a plan rewrites each of its items, which nobody is running, from the
\* planned revision to the previewed document; no other task changes, no active
\* task loses the repository it works in, and nothing open but the exclusions
\* is still bound to the old repository.
RebindStep ==
  \A x \in applied' \ applied : x.as = "applied" =>
    /\ \A t \in RTask : IF t \in TasksOf(x.plan.items)
         THEN /\ active[t].run = 0
              /\ \E i \in x.plan.items : /\ i.task = t /\ i.rev = spec[t].rev
                                         /\ spec'[t].rev = i.rev + 1 /\ spec'[t].doc = i.result
         ELSE spec'[t] = spec[t]
    /\ \A t \in RTask : _has_old_binding(spec'[t].doc) /\ ~(EffectivelyClosed(t))'
                          => t \in TasksOf(x.plan.excluded) /\ active[t].run # 0
    /\ x \notin applied /\ \A y \in applied : y.as = "applied" => y.plan.items \cap x.plan.items = {}

\* A repository identity moves as the plan says, at once, and once only, whatever
\* happens between the plan and its application (build_plan, apply_plan).
ReboundAsPlanned == [][RbTypeOK' /\ ReceiptsWhole' /\ RebindStep]_rbVars
=============================================================================
