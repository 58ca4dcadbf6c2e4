------------------------ MODULE InitiativeLifecycle ------------------------
(***************************************************************************)
(* The lifecycle of initiatives (v2.py): reconcile_initiative_lifecycle    *)
(* moves tasks and initiatives whose gates have opened or closed,          *)
(* close_ready_initiatives completes what is verified, first in the file   *)
(* of the Registry and then in the StateStore, and                         *)
(* legacy_verified_disposition records why an old verification is not      *)
(* repeated.  They read files that no lock protects, tasks and runs that   *)
(* other writers change, and act in a later transaction.                   *)
(***************************************************************************)
EXTENDS Naturals, FiniteSets, TLC

CONSTANTS Initiative, WorkItem,  \* initiatives and their tasks
          OwnerOf,               \* task -> initiative
          DependsOn, Children,   \* task -> set of tasks
          Bridge,                \* tasks the closure plan selects as its bridge
          Operator,              \* callers
          NoRow, Report,         \* no row; a reference to a report outside the TaskSpec
          MaxBody, MaxPlan, MaxEdit   \* bounds: task bodies, plans, edits by others

TERMINAL == {"verified", "cancelled", "superseded"}
OPEN == {"inbox", "planned", "ready", "blocked", "stale"}
SAFE_LIFECYCLE_RECONCILE_TRANSITIONS ==
  {<<"active", "waiting">>, <<"waiting", "active">>, <<"active", "completion-ready">>,
   <<"waiting", "completion-ready">>, <<"completion-ready", "active">>,
   <<"completion-ready", "waiting">>}

VARIABLES file,     \* initiative -> its file in the Registry: state and plan
          row,      \* initiative -> its state in the StateStore, or NoRow
          item,     \* task -> its TaskSpec: state, body, embedded verification
          retiring, \* tasks whose file in the Registry names a successor
          overlay,  \* task -> the verified row its last completion left
          claimed,  \* task -> the body and plan an active run was claimed for
          disposed, \* the dispositions in the journal
          writer,   \* the caller that holds the write transaction
          steps,    \* what each caller is doing
          edits

ilVars == <<file, row, item, retiring, overlay, claimed, disposed, writer, steps, edits>>
stored == <<row, item, overlay, claimed, disposed>>

Rest == [at |-> "rest"]
Unlocked == writer = NoRow

\* An initiative is active, or completed in Git before its row; a task is new, or
\* was verified under an earlier plan by a record it embeds.
IlInit ==
  /\ \E committed \in SUBSET Initiative :
       /\ file = [i \in Initiative |->
                    [state |-> IF i \in committed THEN "completed" ELSE "active", plan |-> 1]]
       /\ row = [i \in Initiative |-> IF i \in committed THEN "completion-ready" ELSE NoRow]
  /\ \E old \in SUBSET WorkItem :
       item = [t \in WorkItem |->
                 IF t \in old
                 THEN [state |-> "verified", body |-> 1, ver |-> [body |-> 1, plan |-> 0]]
                 ELSE [state |-> IF DependsOn[t] \cup Children[t] = {} THEN "ready" ELSE "planned",
                       body |-> 1, ver |-> NoRow]]
  /\ retiring = {} /\ disposed = {}
  /\ overlay = [t \in WorkItem |-> NoRow]
  /\ claimed = [t \in WorkItem |-> NoRow]
  /\ writer = NoRow /\ steps = [p \in Operator |-> Rest] /\ edits = 0

\* ------------------------------------------------------------- diagnostics

\* Everything is computed from a view: files, initiative rows and TaskSpecs, and
\* the overlay rows and claims read with them.
Now == [file |-> file, row |-> row, item |-> item, overlay |-> overlay,
        claimed |-> claimed, retiring |-> retiring]

Evidence(v, t) == [body |-> v.item[t].body, plan |-> v.file[OwnerOf[t]].plan]

\* overlays: what a task's state effectively is.
overlays(v, t) ==
  CASE v.item[t].state \in TERMINAL -> v.item[t].state
    [] v.item[t].state \notin TERMINAL /\ v.overlay[t] = NoRow -> v.item[t].state
    [] OTHER -> IF v.overlay[t] = Evidence(v, t) THEN "verified" ELSE "stale"

\* The verification of the overlay row, or one embedded in the TaskSpec.
_current_verification_stamp(v, t) == Evidence(v, t) \in {v.overlay[t], v.item[t].ver}

Declared(v, i) == IF v.row[i] = NoRow THEN v.file[i].state ELSE v.row[i]
TasksIn(i) == {t \in WorkItem : OwnerOf[t] = i}

\* The states of the tasks, with the tasks of a reconcile moved already.
States(v, i, moved) ==
  [t \in TasksIn(i) |-> IF \E c \in moved : c.task = t
                        THEN (CHOOSE c \in moved : c.task = t).to ELSE overlays(v, t)]
Unverified(v, states) ==
  {t \in DOMAIN states : states[t] = "verified" /\ ~_current_verification_stamp(v, t)}

_closure_bridge_contract_applies(v, t, state) ==
  /\ t \in Bridge /\ state = "planned"
  /\ Declared(v, OwnerOf[t]) \in {"completion-ready", "completed"}
  /\ v.file[OwnerOf[t]].state = "completed"

_lifecycle_recommendation(v, declared, states) ==
  LET all == {states[t] : t \in DOMAIN states}
      settled == all # {} /\ Unverified(v, states) = {}
  IN CASE declared = "completed" ->
            IF settled /\ all \subseteq TERMINAL THEN "completed" ELSE "reopen-required"
       [] declared # "completed" /\ settled /\ all = {"verified"} -> "completion-ready"
       [] OTHER -> IF "blocked" \in all /\ "ready" \notin all THEN "waiting"
                   ELSE IF all \cap OPEN # {} THEN "active" ELSE declared

\* A file completed before its row (the closing call died between the two) keeps
\* the initiative ready for completion.
Recommended(v, i, moved) ==
  LET states == States(v, i, moved)
  IN IF /\ Declared(v, i) = "completion-ready" /\ v.file[i].state = "completed"
        /\ \A t \in TasksIn(i) : \/ states[t] \in TERMINAL
                                 \/ _closure_bridge_contract_applies(v, t, states[t])
        /\ Unverified(v, states) = {}
     THEN "completion-ready"
     ELSE _lifecycle_recommendation(v, Declared(v, i), states)

\* A ready task that the Registry superseded and nobody works on, or a planned
\* one whose dependencies are verified and whose children have ended.
_structural_task_reconcile_candidates(v) ==
  {[task |-> t, from |-> "ready", to |-> "superseded", body |-> v.item[t].body] :
     t \in {u \in v.retiring : overlays(v, u) = "ready" /\ v.claimed[u] = NoRow}}
  \cup
  {[task |-> t, from |-> "planned", to |-> "ready", body |-> v.item[t].body] :
     t \in {u \in WorkItem \ v.retiring :
              /\ v.item[u].state = "planned" /\ overlays(v, u) = "planned"
              /\ ~_closure_bridge_contract_applies(v, u, "planned")
              /\ DependsOn[u] \cup Children[u] # {}
              /\ \A d \in DependsOn[u] : /\ overlays(v, d) = "verified"
                                         /\ _current_verification_stamp(v, d)
              /\ \A c \in Children[u] : /\ overlays(v, c) \in TERMINAL
                                        /\ overlays(v, c) = "verified" =>
                                             _current_verification_stamp(v, c)}}

\* scope: one task, one initiative, or everything.
Candidates(v, scope) ==
  LET tasks == {c \in _structural_task_reconcile_candidates(v) :
                  scope = "all" \/ scope = c.task}
      moves == {[initiative |-> i, from |-> Declared(v, i), to |-> Recommended(v, i, tasks),
                 states |-> States(v, i, tasks)] :
                  i \in {j \in Initiative : scope \in {"all", j}}}
  IN [tasks |-> tasks,
      initiatives |-> {m \in moves : <<m.from, m.to>> \in SAFE_LIFECYCLE_RECONCILE_TRANSITIONS}]

\* ---------------------------------------------------------------- reconcile

IlAt(p, at) == steps[p].at = at
IlGoes(p, to) == steps' = [steps EXCEPT ![p] = to]

\* The files are read, then TaskSpecs and initiative rows from one snapshot.
reconcile_load(p, scope) ==
  /\ IlAt(p, "rest")
  /\ IlGoes(p, [at |-> "loaded", scope |-> scope, file |-> file, retiring |-> retiring])
  /\ UNCHANGED <<file, retiring, stored, writer, edits>>

reconcile_project(p) ==
  /\ IlAt(p, "loaded")
  /\ IlGoes(p, [steps[p] EXCEPT !.at = "projected"] @@ [row |-> row, item |-> item])
  /\ UNCHANGED <<file, retiring, stored, writer, edits>>

\* Overlays, stamps and active runs come from a second snapshot; without a
\* candidate the call ends.
reconcile_assess(p) ==
  LET v == [file |-> steps[p].file, row |-> steps[p].row, item |-> steps[p].item,
            overlay |-> overlay, claimed |-> claimed, retiring |-> steps[p].retiring]
      found == Candidates(v, steps[p].scope)
  IN /\ IlAt(p, "projected")
     /\ IF found.tasks = {} /\ found.initiatives = {} THEN IlGoes(p, Rest)
        ELSE IlGoes(p, [at |-> "assessed", scope |-> steps[p].scope,
                      item |-> steps[p].item, found |-> found])
     /\ UNCHANGED <<file, retiring, stored, writer, edits>>

\* Mutant: the candidates found before are applied unless a TaskSpec changed.
GatesUnmoved(p) == item = steps[p].item

\* Under the write lock nothing has moved: not the TaskSpecs, and everything
\* computed again from files, rows and runs as they are now is the same.
GatesHold(p) == /\ item = steps[p].item
                /\ Candidates(Now, steps[p].scope) = steps[p].found

reconcile_apply(p) ==
  LET found == steps[p].found
      moved(t) == \E c \in found.tasks : c.task = t
      target(t) == (CHOOSE c \in found.tasks : c.task = t).to
  IN /\ IlAt(p, "assessed") /\ Unlocked /\ GatesHold(p)
     /\ item' = [t \in WorkItem |->
                   IF moved(t)
                   THEN [item[t] EXCEPT !.state = target(t),
                                        !.body = IF target(t) = "superseded" THEN 0 ELSE @]
                   ELSE item[t]]
     /\ row' = [i \in Initiative |->
                  IF \E m \in found.initiatives : m.initiative = i
                  THEN (CHOOSE m \in found.initiatives : m.initiative = i).to ELSE row[i]]
     /\ IlGoes(p, Rest)
     /\ UNCHANGED <<file, retiring, overlay, claimed, disposed, writer, edits>>

reconcile_refused(p) ==
  /\ IlAt(p, "assessed") /\ Unlocked /\ ~GatesHold(p)
  /\ IlGoes(p, Rest)
  /\ UNCHANGED <<file, retiring, stored, writer, edits>>

\* -------------------------------------------------------------------- close

\* close_ready_initiatives reads the TaskSpecs, opens its transaction, and
\* decides there from files and rows as they are now.
close_load(p) ==
  /\ IlAt(p, "rest")
  /\ IlGoes(p, [at |-> "ready-to-close", item |-> item])
  /\ UNCHANGED <<file, retiring, stored, writer, edits>>

Closable(v) ==
  {i \in Initiative : /\ Recommended(v, i, {}) = "completion-ready"
                      /\ Unverified(v, States(v, i, {})) = {}}

close_begin(p) ==
  /\ IlAt(p, "ready-to-close") /\ Unlocked
  /\ IF item = steps[p].item /\ Closable(Now) # {}
     THEN /\ IlGoes(p, [at |-> "closing", todo |-> Closable(Now), done |-> {}, judged |-> file])
          /\ writer' = p
     ELSE IlGoes(p, Rest) /\ UNCHANGED writer
  /\ UNCHANGED <<file, retiring, stored, edits>>

\* One file after the other is read, changed and replaced.
close_read(p, i) ==
  /\ IlAt(p, "closing") /\ i \in steps[p].todo
  /\ IlGoes(p, [steps[p] EXCEPT !.at = "writing", !.todo = @ \ {i}]
             @@ [raw |-> file[i], initiative |-> i])
  /\ UNCHANGED <<file, retiring, stored, writer, edits>>

close_write(p) ==
  /\ IlAt(p, "writing")
  /\ file' = [file EXCEPT ![steps[p].initiative] = [steps[p].raw EXCEPT !.state = "completed"]]
  /\ IlGoes(p, [at |-> "closing", todo |-> steps[p].todo, judged |-> steps[p].judged,
              done |-> steps[p].done \cup {steps[p].initiative}])
  /\ UNCHANGED <<retiring, stored, writer, edits>>

close_commit(p) ==
  /\ IlAt(p, "closing") /\ steps[p].todo = {}
  /\ row' = [i \in Initiative |-> IF i \in steps[p].done THEN "completed" ELSE row[i]]
  /\ writer' = NoRow /\ IlGoes(p, Rest)
  /\ UNCHANGED <<file, retiring, item, overlay, claimed, disposed, edits>>

\* The closing caller dies or a write fails: its transaction is rolled back, the
\* files it wrote stay.  Elsewhere a caller that dies takes no further step.
close_dies(p) ==
  /\ writer = p /\ writer' = NoRow /\ IlGoes(p, Rest)
  /\ UNCHANGED <<file, retiring, stored, edits>>

\* -------------------------------------------------------------- disposition

\* The references a TaskSpec itself backs.
_legacy_verified_disposition_evidence_refs(t) == {item[t].ver} \ {NoRow}
RefCurrent(t, ref) == ref = Report \/ ref \in _legacy_verified_disposition_evidence_refs(t)
Binding(t) == {d \in disposed : d.task = t /\ d.body = item[t].body /\ RefCurrent(t, d.ref)}

CanDispose(d) ==
  /\ item[d.task].state = "verified" /\ item[d.task].body = d.body
  /\ ~_current_verification_stamp(Now, d.task)
  /\ RefCurrent(d.task, d.ref)
  /\ Binding(d.task) \subseteq {d}

_legacy_verified_disposition_preview(p, d) ==
  /\ IlAt(p, "rest") /\ CanDispose(d)
  /\ IlGoes(p, [at |-> "previewed", record |-> d, existing |-> d \in disposed])
  /\ UNCHANGED <<file, retiring, stored, writer, edits>>

\* Applied only if the preview made again in the transaction, from the files as
\* the command finds them, is the one shown.
legacy_verified_disposition(p) ==
  LET d == steps[p].record
  IN /\ IlAt(p, "previewed") /\ Unlocked
     /\ disposed' = IF CanDispose(d) /\ (d \in disposed) = steps[p].existing
                    THEN disposed \cup {d} ELSE disposed
     /\ IlGoes(p, Rest)
     /\ UNCHANGED <<file, retiring, row, item, overlay, claimed, writer, edits>>

\* ------------------------------------------------------------- surroundings

Edit == edits < MaxEdit /\ edits' = edits + 1

\* A run is claimed, and ends with or without a verified overlay.
claim_run(t) ==
  /\ Unlocked /\ overlays(Now, t) = "ready" /\ claimed[t] = NoRow
  /\ claimed' = [claimed EXCEPT ![t] = Evidence(Now, t)]
  /\ UNCHANGED <<file, retiring, row, item, overlay, disposed, writer, steps, edits>>

end_run(t, verified) ==
  /\ Unlocked /\ claimed[t] # NoRow
  /\ verified => claimed[t] = Evidence(Now, t)
  /\ overlay' = IF verified THEN [overlay EXCEPT ![t] = claimed[t]] ELSE overlay
  /\ claimed' = [claimed EXCEPT ![t] = NoRow]
  /\ UNCHANGED <<file, retiring, row, item, disposed, writer, steps, edits>>

\* A TaskSpec is revised: a new body, blocked, cancelled, or verified with the
\* verification embedded.
Revised(t) ==
  {[item[t] EXCEPT !.body = @ + 1], [item[t] EXCEPT !.state = "blocked"],
   [item[t] EXCEPT !.state = "cancelled"],
   [item[t] EXCEPT !.state = "verified", !.ver = Evidence(Now, t)]} \ {item[t]}

put_item(t, new) ==
  /\ Unlocked /\ new.body <= MaxBody
  /\ item' = [item EXCEPT ![t] = new]
  /\ Edit
  /\ UNCHANGED <<file, retiring, row, overlay, claimed, disposed, writer, steps>>

\* Files of the Registry are edited at any time.
Edited(i) == {[file[i] EXCEPT !.plan = @ + 1], [file[i] EXCEPT !.state = "completed"]} \ {file[i]}

edit_initiative(i, new) ==
  /\ new.plan <= MaxPlan
  /\ file' = [file EXCEPT ![i] = new]
  /\ Edit
  /\ UNCHANGED <<retiring, stored, writer, steps>>

supersede_file(t) ==
  /\ t \notin retiring /\ retiring' = retiring \cup {t}
  /\ Edit
  /\ UNCHANGED <<file, stored, writer, steps>>

Disposition == [task : WorkItem, body : 1..MaxBody,
                ref : {Report} \cup [body : 1..MaxBody, plan : 0..MaxPlan]]

IlNext ==
  \/ \E t \in WorkItem :
       \/ claim_run(t) \/ supersede_file(t)
       \/ \E verified \in BOOLEAN : end_run(t, verified)
       \/ \E new \in Revised(t) : put_item(t, new)
  \/ \E i \in Initiative : \E new \in Edited(i) : edit_initiative(i, new)
  \/ \E p \in Operator :
       \/ \E scope \in {"all"} \cup WorkItem \cup Initiative : reconcile_load(p, scope)
       \/ reconcile_project(p) \/ reconcile_assess(p)
       \/ reconcile_apply(p) \/ reconcile_refused(p)
       \/ close_load(p) \/ close_begin(p) \/ close_write(p) \/ close_commit(p)
       \/ \E i \in Initiative : close_read(p, i)
       \/ \E d \in Disposition : _legacy_verified_disposition_preview(p, d)
       \/ legacy_verified_disposition(p)
       \/ close_dies(p)

IlSpec == IlInit /\ [][IlNext]_ilVars

\* --------------------------------------------------------------- properties

\* Every task of the initiative has ended, and what is verified is so under the
\* given files, by a receipt or an embedded verification and never by a
\* disposition.
Earned(v, i) ==
  /\ \A t \in TasksIn(i) : \/ overlays(v, t) \in TERMINAL
                           \/ _closure_bridge_contract_applies(v, t, overlays(v, t))
  /\ Unverified(v, States(v, i, {})) = {}

\* A row becomes completed only when it is earned under the files the closing
\* transaction judged, by then completed themselves unless edited since; any
\* other row moves along a safe transition to what its tasks then recommend.
RowStep ==
  \A i \in Initiative : row'[i] # row[i] =>
    IF row'[i] = "completed"
    THEN writer # NoRow /\ Earned([Now EXCEPT !.file = steps[writer].judged], i)
    ELSE /\ <<Declared(Now, i), row'[i]>> \in SAFE_LIFECYCLE_RECONCILE_TRANSITIONS
         /\ Recommended(Now', i, {}) = row'[i]

\* A reconcile releases a task only when its dependencies are verified and its
\* children ended, and supersedes one only while no run works on it.
TaskStep ==
  \A t \in WorkItem : edits' = edits /\ item'[t] # item[t] =>
    \/ /\ item[t].state = "planned" /\ item'[t].state = "ready"
       /\ \A d \in DependsOn[t] : overlays(Now, d) = "verified" /\ _current_verification_stamp(Now, d)
       /\ \A c \in Children[t] : overlays(Now, c) \in TERMINAL
    \/ t \in retiring /\ item'[t].state = "superseded" /\ claimed[t] = NoRow

\* A file is completed only by an edit or by a closing transaction that has
\* judged it earned.
FileStep ==
  \A i \in Initiative :
    file'[i].state = "completed" /\ file[i].state # "completed" /\ edits' = edits =>
      writer # NoRow /\ Earned([Now EXCEPT !.file = steps[writer].judged], i)

\* A disposition is written for a task without a current verification, and is
\* then the only one that speaks for it.
DispositionStep ==
  \A d \in disposed' \ disposed :
    ~_current_verification_stamp(Now, d.task) /\ Binding(d.task)' = {d}

\* Tasks and initiatives move, and dispositions are written, only on evidence
\* that is current at that moment, whatever runs, revisions, edits of the
\* Registry and other callers come between reading and writing.
LifecycleEarned == [][RowStep /\ TaskStep /\ FileStep /\ DispositionStep]_ilVars
=============================================================================
