---------------------------- MODULE NoRunCloseout ----------------------------
(***************************************************************************)
(* Closing a task whose work was done directly, without a Bureau run       *)
(* (task_closeout.py). A preview evaluates an evidence file against the    *)
(* task as it is; apply repeats the preview in one transaction and writes  *)
(* only when nothing the preview named has changed. Applying the same      *)
(* preview again is a replay; it may have to append the projection event   *)
(* an earlier version of the program did not write.                        *)
(***************************************************************************)
EXTENDS Acceptance

CONSTANTS NrTask, NrClient,
          NrReviewer,  \* who may review, producers included
          NrCriteria,  \* criterion id -> criterion, of every task
          NrBundles,   \* evidence files: [task, plan, evidence]
          NrTimes,     \* bound: the times of the clock
          MaxBody, MaxPlan \* bounds: revisions of a task, of its plan

VARIABLES tasks,    \* task -> [state, rev, body, stamp]
          planNow,  \* revision of the plan
          ran,      \* task -> a run of it exists
          rowOf,    \* task -> its task_status row
          replayed, \* task -> the row the journal replays to
          strange,  \* the journal disagrees about something else as well
          evidence, \* the evidence file
          nrNow,
          clients,  \* client -> the preview it holds
          shown     \* every preview a client was given

nrVars == <<tasks, planNow, ran, rowOf, replayed, strange, evidence, nrNow,
            clients, shown>>

NoRow == [state |-> "none"]
NoStamp == [kind |-> "none"]
NoPreview == [kind |-> "none"]

Row(t, stamp) == [state |-> "verified", task |-> stamp.basis.task,
                  plan |-> stamp.basis.plan, receipt |-> stamp]

\* _validate_bundle_binding: the file is for this task and plan revision and
\* holds exactly the criteria.
_validate_bundle_binding(b, task, plan) ==
  b.task = task /\ b.plan = plan /\ DOMAIN b.evidence = DOMAIN NrCriteria

\* _manual_authentications: every criterion is a manual observation with a
\* named producer other than the reviewer.
_manual_authentications(b, reviewer) ==
  \A c \in DOMAIN NrCriteria :
    /\ NrCriteria[c].verifier = "manual_observation"
    /\ b.evidence[c] # NoItem
    /\ b.evidence[c].facts.observer \notin {"", reviewer}

Passes(b, task, plan, now) ==
  evaluate_acceptance(NrCriteria, b.evidence, task, plan, now, DOMAIN NrCriteria) = PASSED

\* _receipt: what the closeout stores with the task.
_receipt(basis, at) == [kind |-> "stamp", basis |-> basis, at |-> at]

\* Tasks are ready; one may have been closed by a version that did not write
\* the projection event.
NrInit ==
  \E old \in SUBSET NrTask, b \in NrBundles, who \in NrReviewer :
    LET basis(t) == [kind |-> "preview", t |-> t, rev |-> 1, task |-> 1, plan |-> 1,
                     bundle |-> b, reviewer |-> who]
        stamp(t) == _receipt(basis(t), 0)
    IN /\ \A t \in old : _validate_bundle_binding(b, 1, 1) /\ _manual_authentications(b, who)
                      /\ Passes(b, 1, 1, 0)
       /\ tasks = [t \in NrTask |->
                     IF t \in old THEN [state |-> "verified", rev |-> 2, body |-> 1,
                                        stamp |-> stamp(t)]
                     ELSE [state |-> "ready", rev |-> 1, body |-> 1, stamp |-> NoStamp]]
       /\ rowOf = [t \in NrTask |-> IF t \in old THEN Row(t, stamp(t)) ELSE NoRow]
       /\ shown = {basis(t) : t \in old}
       /\ replayed = [t \in NrTask |-> NoRow]
       /\ strange \in BOOLEAN
       /\ evidence = b /\ planNow = 1 /\ nrNow = 0
       /\ ran = [t \in NrTask |-> FALSE]
       /\ clients = [c \in NrClient |-> NoPreview]

\* _load_bundle: the bytes of the file at one moment; a file that changes
\* while it is read is refused.
_load_bundle == evidence

\* A task this path has closed is previewed again as a replay.
Replaying(t) == tasks[t].state = "verified" /\ tasks[t].stamp # NoStamp

\* _preview_from_connection: what must hold for a preview of the task as it
\* is, and the basis it states. A replay states the basis of its receipt.
Previewable(t, reviewer) ==
  /\ tasks[t].state = "ready" \/ Replaying(t)
  /\ ~ran[t]
  /\ IF Replaying(t)
     THEN rowOf[t] = [Row(t, tasks[t].stamp) EXCEPT !.task = tasks[t].body, !.plan = planNow]
     ELSE rowOf[t] = NoRow
  /\ validate_acceptance_contract(NrCriteria)
  /\ _validate_bundle_binding(_load_bundle, tasks[t].body, planNow)
  /\ _manual_authentications(_load_bundle, reviewer)
  /\ Passes(_load_bundle, tasks[t].body, planNow, nrNow)

_preview_from_connection(t, reviewer) ==
  [kind |-> "preview", t |-> t,
   rev |-> IF Replaying(t) THEN tasks[t].stamp.basis.rev ELSE tasks[t].rev,
   task |-> tasks[t].body, plan |-> planNow, bundle |-> _load_bundle, reviewer |-> reviewer]

preview_task_no_run_closeout(c, t, reviewer) ==
  LET basis == _preview_from_connection(t, reviewer)
  IN /\ clients[c] = NoPreview
     /\ Previewable(t, reviewer)
     /\ clients' = [clients EXCEPT ![c] = basis]
     /\ shown' = shown \cup {basis}
     /\ UNCHANGED <<tasks, planNow, ran, rowOf, replayed, strange, evidence, nrNow>>

\* Apply accepts whatever it finds now.
SamePreview_unchecked(basis) == TRUE

\* The preview, made again inside the transaction, is the one that was shown.
SamePreview(basis) == _preview_from_connection(basis.t, basis.reviewer) = basis

\* apply_task_no_run_closeout, for a task still open: the new TaskSpec
\* revision, the status row and the projection event, or nothing.
apply_task_no_run_closeout(c) ==
  LET shownBasis == clients[c]
      t == shownBasis.t
      basis == _preview_from_connection(t, shownBasis.reviewer)
      stamp == _receipt(basis, nrNow)
  IN /\ clients[c] # NoPreview
     /\ Previewable(t, shownBasis.reviewer)
     /\ SamePreview(shownBasis)
     /\ ~Replaying(t)
     /\ tasks' = [tasks EXCEPT ![t].state = "verified", ![t].rev = @ + 1,
                               ![t].stamp = stamp]
     /\ rowOf' = [rowOf EXCEPT ![t] = Row(t, stamp)]
     /\ replayed' = [replayed EXCEPT ![t] = Row(t, stamp)]
     /\ UNCHANGED <<planNow, ran, strange, evidence, nrNow, clients, shown>>

Drifted == {t \in NrTask : replayed[t] # rowOf[t]}

\* _historical_no_run_task_projections: all that the journal misses are rows
\* of tasks closed by this path, as their receipts state them.
_historical_no_run_task_projections ==
  /\ ~strange
  /\ \A t \in Drifted : /\ replayed[t] = NoRow /\ Replaying(t) /\ ~ran[t]
                        /\ rowOf[t] = [Row(t, tasks[t].stamp)
                                          EXCEPT !.task = tasks[t].body, !.plan = planNow]

\* _validated_replay: the receipt the task already has is of this preview.
_validated_replay(basis) == Replaying(basis.t) /\ tasks[basis.t].stamp.basis = basis

\* apply_task_no_run_closeout, for a task closed before with this preview: at
\* most the missing projection events are appended.
_backfill_replayed_task_projection(c) ==
  LET t == clients[c].t
  IN /\ clients[c] # NoPreview
     /\ Previewable(t, clients[c].reviewer)
     /\ SamePreview(clients[c])
     /\ _validated_replay(clients[c])
     /\ t \in Drifted => _historical_no_run_task_projections
     /\ replayed' = IF t \in Drifted THEN rowOf ELSE replayed
     /\ UNCHANGED <<tasks, planNow, ran, rowOf, strange, evidence, nrNow, clients, shown>>

\* ------------------------------------------------------------- environment

\* A new revision of an open task, of the plan, or of the evidence file; a
\* run that claims a ready task; time.
revise_task(t) ==
  /\ tasks[t].state = "ready" /\ tasks[t].body < MaxBody
  /\ tasks' = [tasks EXCEPT ![t].rev = @ + 1, ![t].body = @ + 1]
  /\ UNCHANGED <<planNow, ran, rowOf, replayed, strange, evidence, nrNow, clients, shown>>

revise_plan ==
  /\ planNow < MaxPlan /\ planNow' = planNow + 1
  /\ UNCHANGED <<tasks, ran, rowOf, replayed, strange, evidence, nrNow, clients, shown>>

claim_task(t) ==
  /\ tasks[t].state = "ready" /\ ~ran[t]
  /\ ran' = [ran EXCEPT ![t] = TRUE]
  /\ UNCHANGED <<tasks, planNow, rowOf, replayed, strange, evidence, nrNow, clients, shown>>

write_evidence(b) ==
  /\ evidence' = b /\ evidence # b
  /\ UNCHANGED <<tasks, planNow, ran, rowOf, replayed, strange, nrNow, clients, shown>>

nr_time_passes ==
  /\ \E n \in NrTimes : n > nrNow /\ nrNow' = n
  /\ UNCHANGED <<tasks, planNow, ran, rowOf, replayed, strange, evidence, clients, shown>>

\* A client gives up, or its process ends.
client_ends(c) ==
  /\ clients[c] # NoPreview /\ clients' = [clients EXCEPT ![c] = NoPreview]
  /\ UNCHANGED <<tasks, planNow, ran, rowOf, replayed, strange, evidence, nrNow, shown>>

NrNext ==
  \/ \E c \in NrClient :
       \/ \E t \in NrTask, who \in NrReviewer : preview_task_no_run_closeout(c, t, who)
       \/ apply_task_no_run_closeout(c)
       \/ _backfill_replayed_task_projection(c)
       \/ client_ends(c)
  \/ \E t \in NrTask : revise_task(t) \/ claim_task(t)
  \/ \E b \in NrBundles : write_evidence(b)
  \/ revise_plan \/ nr_time_passes

\* -------------------------------------------------------------- properties

\* A task closed without a run by apply_task_no_run_closeout was closed on
\* exactly a preview somebody was shown, by a reviewer who produced none of
\* its evidence, on evidence that passed for the task and plan of that moment
\* and was fresh then; no run of it exists; its status row is the one its
\* receipt states; and the journal knows that row or no row at all.
ClosedAsShown ==
  \A t \in NrTask : Replaying(t) =>
    LET stamp == tasks[t].stamp
        basis == stamp.basis
    IN /\ basis \in shown /\ basis.t = t
       /\ basis.rev + 1 = tasks[t].rev /\ basis.task = tasks[t].body
       /\ _manual_authentications(basis.bundle, basis.reviewer)
       /\ Passes(basis.bundle, basis.task, basis.plan, stamp.at)
       /\ ~ran[t]
       /\ rowOf[t] = Row(t, stamp) /\ replayed[t] \in {rowOf[t], NoRow}
=============================================================================
