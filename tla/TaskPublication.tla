-------------------------- MODULE TaskPublication --------------------------
(***************************************************************************)
(* From a candidate to a task: operator_intake.py's task_propose,          *)
(* review_task_proposal, publish_task_proposal and promote_task_ready.     *)
(*                                                                         *)
(* A proposal is written once to a plan file and binds the candidate event *)
(* and the TaskSpec revision it was made for. Publication validates it     *)
(* against the live register and the StateStore, puts the TaskSpec in one  *)
(* transaction that validates everything again, releases its lease, binds  *)
(* the receipt to the mutation and writes the receipt file; the process    *)
(* may die between any two of these, and another one may try again.        *)
(* A TaskSpec stands for the candidate event it was written for (0 for a   *)
(* revision made elsewhere) and its state; a digest for what it digests.   *)
(***************************************************************************)
EXTENDS LiveRegister

CONSTANTS PTask,      \* tasks; they claim the same repository
          Path,       \* plan files, each with its receipt files
          Publisher,  \* processes that review, publish or promote
          MaxPRev,    \* bound: revisions of a task
          MaxGrant    \* bound: publication leases handed out

\* The task a candidate's record names explicitly, if any.
CONSTANT TaskOf

VARIABLES plans,      \* path -> [prop, review], NULL if absent
          revs,       \* task -> revisions of its TaskSpec
          muts,       \* mutations put by publications: [prop, rev, evid]
          regHead,    \* commit of the Registry checkout
          projected,  \* the Registry still projects a task's first revision
          kids,       \* tasks that some other task names as its parent
          grant,      \* the publication lease row: [prop, serial, fresh]
          granted,    \* leases handed out so far
          procs,      \* process -> what it is doing
          receiptAt,  \* path -> publication receipt, NULL if absent
          promotedAt  \* path -> promotion receipt, NULL if absent

storeSide == <<revs, muts, regHead, projected, kids>>
leaseSide == <<grant, granted>>
fileSide == <<receiptAt, promotedAt>>
tpVars == <<plans, procs, storeSide, leaseSide, fileSide>>

Free == [pc |-> "free", path |-> NULL, plan |-> NULL, lease |-> NULL, rev |-> 0,
         displaced |-> NULL]

TpInit ==
  /\ plans = [f \in Path |-> NULL]
  /\ \E S \in SUBSET PTask : revs = [t \in PTask |->
       IF t \in S THEN <<[body |-> 0, state |-> "planned"]>> ELSE <<>>]
  /\ muts = {} /\ regHead = 0 /\ projected \in BOOLEAN /\ kids = {}
  /\ grant = NULL /\ granted = 0
  /\ procs = [x \in Publisher |-> Free]
  /\ receiptAt = [f \in Path |-> NULL] /\ promotedAt = [f \in Path |-> NULL]

Known(t) == revs[t] # <<>>
Current(t) == revs[t][Len(revs[t])]
Spec_(prop) == [body |-> prop.event, state |-> "planned"]

\* --------------------------------------------------------------- proposals

\* _task_spec_proposal_binding: a new task, or a revision of an existing one
\* that the candidate names.
_task_spec_proposal_binding(i, t) ==
  IF ~Known(t) THEN [op |-> "register", expected |-> 0, changed |-> TRUE]
  ELSE [op |-> "revise", expected |-> Len(revs[t]),
        changed |-> Current(t) # [body |-> i, state |-> "planned"]]

\* _validate_task_revision_identity_continuity: a revision is of the task the
\* candidate names explicitly.
_validate_task_revision_identity_continuity(i, t) == TaskOf[journal[i].content] = t

\* _first_task_onboarding_authority: no task claims the repository yet.
_first_task_onboarding_authority(t) == \A u \in PTask : ~Known(u)

\* _candidate_assess, as far as it blocks a proposal: another open candidate
\* that names the same task.
_candidate_assess(i) ==
  \A j \in Events :
    /\ IsCurrent(j) /\ journal[j].id # journal[i].id
    /\ journal[j].status \notin {"closed", "promoted", "dropped"}
    => TaskOf[journal[i].content] = NULL
       \/ TaskOf[journal[j].content] # TaskOf[journal[i].content]

\* _validate_publication_contract_task_spec_mapping: the typed contract is for
\* new tasks of a known publisher, the reviewed one for everything else.
Typed(prop) == prop.op = "register" /\ ~prop.onboard

\* task_propose, for candidate event i, task t and publishing task u.
task_propose(f, i, t, u, unresolved) ==
  LET onboard == ~Known(u)
      binding == _task_spec_proposal_binding(i, t)
  IN /\ plans[f] = NULL
     /\ IsCurrent(i) /\ journal[i].status \in ACTIVE_LIVE_STATUSES
     /\ ~Known(u) => u = t
     /\ onboard => _first_task_onboarding_authority(t)
     /\ binding.op = "revise" => _validate_task_revision_identity_continuity(i, t)
     /\ _candidate_assess(i)
     /\ plans' = [plans EXCEPT ![f] =
          [prop |-> binding @@ [event |-> i, id |-> journal[i].id, task |-> t, pub |-> u,
                                pubrev |-> Len(revs[u]), onboard |-> onboard,
                                head |-> regHead, unresolved |-> unresolved],
           review |-> NULL]]
     /\ UNCHANGED <<procs, storeSide, leaseSide, fileSide>>

\* ------------------------------------------------------------------ review

In(x, pc) == procs[x].pc = pc
Becomes(x, rec) == procs' = [procs EXCEPT ![x] = rec]
Ends(x) == Becomes(x, Free)

\* review_task_proposal reads a pending plan of the reviewed contract.
review_task_proposal(x, f) ==
  /\ In(x, "free") /\ plans[f] # NULL
  /\ ~Typed(plans[f].prop) /\ ~plans[f].prop.unresolved
  /\ plans[f].review = NULL
  /\ Becomes(x, [Free EXCEPT !.pc = "reviewing", !.path = f, !.plan = plans[f]])
  /\ UNCHANGED <<plans, storeSide, leaseSide, fileSide>>

\* RENAME_EXCHANGE puts the reviewed bytes in place; what was displaced is
\* looked at afterwards.
_rename_exchange(x) ==
  LET f == procs[x].path
  IN /\ In(x, "reviewing")
     /\ plans' = [plans EXCEPT ![f] = [procs[x].plan EXCEPT !.review = x]]
     /\ Becomes(x, [procs[x] EXCEPT
          !.pc = IF plans[f] = procs[x].plan THEN "reviewed" ELSE "restore",
          !.displaced = plans[f]])
     /\ UNCHANGED <<storeSide, leaseSide, fileSide>>

\* Foreign bytes are put back and the review is refused.
restore_displaced(x) ==
  /\ In(x, "restore")
  /\ plans' = [plans EXCEPT ![procs[x].path] = procs[x].displaced]
  /\ Ends(x)
  /\ UNCHANGED <<storeSide, leaseSide, fileSide>>

\* The readback: exact reviewed bytes, or an ambiguous result.
review_readback(x) ==
  /\ In(x, "reviewed")
  /\ Ends(x)
  /\ UNCHANGED <<plans, storeSide, leaseSide, fileSide>>

\* ------------------------------------------------------------- publication

\* The revision a proposal leads to.
resulting_revision(prop) ==
  IF prop.changed THEN prop.expected + 1 ELSE prop.expected

MutationOf(prop) == {m \in muts : m.prop = prop}

\* _validate_task_spec_proposal_binding and
\* _validate_task_spec_publication_replay: the proposal's own revision is the
\* current one, with the mutation that put it.
IsReplay(prop) ==
  /\ Len(revs[prop.task]) = resulting_revision(prop)
  /\ Known(prop.task) /\ Current(prop.task) = Spec_(prop)
  /\ MutationOf(prop) # {}

\* The task is as the proposal found it, or as the proposal left it.
_validate_task_spec_proposal_binding(prop) ==
  ~IsReplay(prop) => Len(revs[prop.task]) = prop.expected

\* The publishing task's digest: the current revision's, or the one the
\* Registry projects.
PublisherUnchanged(prop) ==
  /\ Known(prop.pub)
  /\ prop.pubrev # Len(revs[prop.pub]) => projected /\ prop.pubrev = 1

\* The typed contract carries no review, the other one a review of exactly
\* this proposal.
ReviewBound(plan) == Typed(plan.prop) <=> plan.review = NULL

\* _validated_proposal.
_validated_proposal(plan) ==
  LET prop == plan.prop
  IN /\ ~prop.unresolved
     /\ ReviewBound(plan)
     /\ IsCurrent(prop.event)
     /\ _validate_task_spec_proposal_binding(prop)
     /\ IF prop.onboard
        THEN /\ journal[prop.event].status \in ACTIVE_LIVE_STATUSES
             /\ ~IsReplay(prop) => /\ prop.head = regHead
                                   /\ _first_task_onboarding_authority(prop.task)
        ELSE PublisherUnchanged(prop)

\* _validate_publication_leases, with the required lifetime left.
_validate_publication_leases(lease, prop) ==
  lease # NULL /\ lease = grant /\ lease.prop = prop /\ lease.fresh

\* publish_task_proposal up to the put: no receipt yet, preview, leases.
publish_task_proposal(x, f) ==
  /\ In(x, "free") /\ plans[f] # NULL /\ receiptAt[f] = NULL
  /\ _validated_proposal(plans[f])
  /\ _validate_publication_leases(grant, plans[f].prop)
  /\ Becomes(x, [Free EXCEPT !.pc = "put", !.path = f, !.plan = plans[f],
                             !.lease = grant])
  /\ UNCHANGED <<plans, storeSide, leaseSide, fileSide>>

\* A publication that validates only once, before its transaction.
_validate_pinned_authority_once(x) ==
  _validate_publication_leases(procs[x].lease, procs[x].plan.prop)

\* Inside the transaction everything is validated again, the plan's bytes too.
_validate_pinned_authority(x) ==
  /\ plans[procs[x].path] = procs[x].plan
  /\ _validated_proposal(procs[x].plan)
  /\ _validate_publication_leases(procs[x].lease, procs[x].plan.prop)

\* _publish_task_spec_with_pinned_authority and _publish_first_task_onboarding:
\* one transaction over the lease database and the StateStore. A key that was
\* used answers with its mutation; otherwise the expected revision is compared.
_publish_task_spec_with_pinned_authority(x) ==
  LET prop == procs[x].plan.prop
      rev == resulting_revision(prop)
      again == MutationOf(prop) # {}
  IN /\ In(x, "put")
     /\ _validate_pinned_authority(x)
     /\ ~again => prop.expected = Len(revs[prop.task])
     /\ rev <= MaxPRev
     /\ muts' = IF again THEN muts
                ELSE muts \cup {[prop |-> prop, rev |-> rev, evid |-> {}]}
     /\ revs' = IF again \/ ~prop.changed THEN revs
                ELSE [revs EXCEPT ![prop.task] = Append(@, Spec_(prop))]
     /\ Becomes(x, [procs[x] EXCEPT !.pc = "release", !.rev = rev])
     /\ UNCHANGED <<plans, regHead, projected, kids, leaseSide, fileSide>>

\* The StateStore still shows exactly the revision put.
StateReadback(x) ==
  LET prop == procs[x].plan.prop
  IN Len(revs[prop.task]) = procs[x].rev /\ Current(prop.task) = Spec_(prop)

\* The readback, then
\* _release_unchanged_publication_leases: the row is deleted only if it is
\* still the one the publication was given.
_release_unchanged_publication_leases(x) ==
  LET prop == procs[x].plan.prop
  IN /\ In(x, "release") /\ StateReadback(x)
     /\ grant # NULL /\ grant.serial = procs[x].lease.serial
     /\ grant' = NULL
     /\ Becomes(x, [procs[x] EXCEPT !.pc = IF Typed(prop) THEN "evidence" ELSE "receipt"])
     /\ UNCHANGED <<plans, storeSide, granted, fileSide>>

\* The receipt a process writes: its plan's bytes, the revision, its lease.
ReceiptOf(x) == [plan |-> procs[x].plan, rev |-> procs[x].rev,
                 lease |-> procs[x].lease.serial]

\* The commitments of earlier receipts are kept beside the new one.
_merge_publication_evidence(old, r) == old \cup {r}

\* _store_publication_mutation_evidence, in a transaction of its own.
_store_publication_mutation_evidence(x) ==
  LET prop == procs[x].plan.prop
  IN /\ In(x, "evidence")
     /\ \E m \in MutationOf(prop) :
          /\ m.rev = procs[x].rev
          /\ muts' = (muts \ {m}) \cup
                     {[m EXCEPT !.evid = _merge_publication_evidence(@, ReceiptOf(x))]}
     /\ Becomes(x, [procs[x] EXCEPT !.pc = "receipt"])
     /\ UNCHANGED <<plans, revs, regHead, projected, kids, leaseSide, fileSide>>

\* The mutation's evidence carries the commitment of a receipt.
Vouched(m, r) == r \in m.evid

\* _validate_publication_receipt_replay: an existing receipt answers a retry if
\* it is of this plan, its mutation is stored and, for the typed contract, the
\* mutation vouches for it.
_validate_publication_receipt_replay(r, plan) ==
  /\ r.plan = plan
  /\ r.rev = resulting_revision(plan.prop)
  /\ \E m \in MutationOf(plan.prop) :
       m.rev = r.rev /\ (Typed(plan.prop) => Vouched(m, r))

\* _write_create_only: the first receipt stays; a later writer either accepts
\* it as the answer or fails.
write_publication_receipt(x) ==
  LET f == procs[x].path
  IN /\ In(x, "receipt")
     /\ receiptAt' = [receiptAt EXCEPT ![f] = IF @ = NULL THEN ReceiptOf(x) ELSE @]
     /\ Ends(x)
     /\ UNCHANGED <<plans, storeSide, leaseSide, promotedAt>>

\* --------------------------------------------------------------- promotion

\* _task_promotion_binding: the receipt's planned revision is the current one
\* and the task stands alone.
_task_promotion_binding(r) ==
  LET prop == r.plan.prop
  IN /\ Len(revs[prop.task]) = r.rev /\ Current(prop.task) = Spec_(prop)
     /\ prop.task \notin kids

\* promote_task_ready up to its compare-and-swap.
promote_task_ready(x, f) ==
  /\ In(x, "free")
  /\ receiptAt[f] # NULL /\ promotedAt[f] = NULL
  /\ _task_promotion_binding(receiptAt[f])
  /\ Becomes(x, [Free EXCEPT !.pc = "ready", !.path = f, !.plan = receiptAt[f].plan,
                             !.rev = receiptAt[f].rev])
  /\ UNCHANGED <<plans, storeSide, leaseSide, fileSide>>

\* The put that makes the task ready; a replayed key is ambiguous and fails.
promote_put(x) ==
  LET t == procs[x].plan.prop.task
  IN /\ In(x, "ready")
     /\ Len(revs[t]) = procs[x].rev /\ Len(revs[t]) < MaxPRev
     /\ revs' = [revs EXCEPT ![t] = Append(@, [Current(t) EXCEPT !.state = "ready"])]
     /\ Becomes(x, [procs[x] EXCEPT !.pc = "promoted", !.rev = @ + 1])
     /\ UNCHANGED <<plans, muts, regHead, projected, kids, leaseSide, fileSide>>

\* Readback of the ready revision and the create-only promotion receipt.
write_promotion_receipt(x) ==
  LET f == procs[x].path
  IN /\ In(x, "promoted")
     /\ Len(revs[procs[x].plan.prop.task]) = procs[x].rev
     /\ promotedAt' = [promotedAt EXCEPT ![f] =
          IF @ = NULL THEN [task |-> procs[x].plan.prop.task, rev |-> procs[x].rev] ELSE @]
     /\ Ends(x)
     /\ UNCHANGED <<plans, storeSide, leaseSide, receiptAt>>

\* ------------------------------------------------------------- environment

\* A process dies, or one of its checks fails and it gives up: nothing it did
\* is undone.
publisher_ends(x) ==
  /\ ~In(x, "free")
  /\ Ends(x)
  /\ UNCHANGED <<plans, storeSide, leaseSide, fileSide>>

\* publication_preview validates a plan and names its lease; the operator
\* takes it.
publication_preview(f) ==
  /\ plans[f] # NULL /\ _validated_proposal(plans[f])
  /\ granted < MaxGrant
  /\ grant # NULL => ~grant.fresh
  /\ granted' = granted + 1
  /\ grant' = [prop |-> plans[f].prop, serial |-> granted + 1, fresh |-> TRUE]
  /\ UNCHANGED <<plans, procs, storeSide, fileSide>>

lease_ages ==
  /\ grant # NULL /\ grant.fresh
  /\ grant' = [grant EXCEPT !.fresh = FALSE]
  /\ UNCHANGED <<plans, procs, storeSide, granted, fileSide>>

\* A TaskSpec revision that does not come from a proposal.
other_revision(t) ==
  /\ Known(t) /\ Len(revs[t]) < MaxPRev
  /\ revs' = [revs EXCEPT ![t] = Append(@, [body |-> 0, state |-> "planned"])]
  /\ UNCHANGED <<plans, procs, muts, regHead, projected, kids, leaseSide, fileSide>>

\* A commit moves the Registry checkout, and may end a projection.
registry_moves ==
  /\ regHead = 0
  /\ regHead' = 1 /\ projected' \in {projected, FALSE}
  /\ UNCHANGED <<plans, procs, revs, muts, kids, leaseSide, fileSide>>

\* Another task names t as its parent.
child_registered(t) ==
  /\ Known(t) /\ t \notin kids
  /\ kids' = kids \cup {t}
  /\ UNCHANGED <<plans, procs, revs, muts, regHead, projected, leaseSide, fileSide>>

TpStep ==
  \/ \E f \in Path, i \in Events, t, u \in PTask, unresolved \in BOOLEAN :
       task_propose(f, i, t, u, unresolved)
  \/ \E x \in Publisher, f \in Path : \/ review_task_proposal(x, f)
                                      \/ publish_task_proposal(x, f)
                                      \/ promote_task_ready(x, f)
  \/ \E x \in Publisher : \/ _rename_exchange(x) \/ restore_displaced(x)
                          \/ review_readback(x)
                          \/ _publish_task_spec_with_pinned_authority(x)
                          \/ _release_unchanged_publication_leases(x)
                          \/ _store_publication_mutation_evidence(x)
                          \/ write_publication_receipt(x)
                          \/ promote_put(x) \/ write_promotion_receipt(x)
                          \/ publisher_ends(x)
  \/ \E f \in Path : publication_preview(f)
  \/ \E t \in PTask : other_revision(t) \/ child_registered(t)
  \/ lease_ages \/ registry_moves

\* -------------------------------------------------------------- properties

\* A publication can be accounted for after any crash or race of publishers:
\* a proposal was put at most once, its revision is in the task's history, and
\* the receipt file, whoever wrote it, answers a retry as long as the plan file
\* it was written for is unchanged. A promotion receipt names the ready
\* revision that directly follows the published one.
Accounted ==
  /\ \A m, n \in muts : m.prop = n.prop => m = n
  /\ \A m \in muts : m.rev \in DOMAIN revs[m.prop.task]
                     /\ revs[m.prop.task][m.rev] = Spec_(m.prop)
  /\ \A f \in Path : receiptAt[f] # NULL /\ plans[f] = receiptAt[f].plan =>
       _validate_publication_receipt_replay(receiptAt[f], plans[f])
  /\ \A f \in Path : promotedAt[f] # NULL =>
       /\ promotedAt[f].rev = receiptAt[f].rev + 1
       /\ revs[promotedAt[f].task][promotedAt[f].rev] =
            [Spec_(receiptAt[f].plan.prop) EXCEPT !.state = "ready"]

\* What a publication puts is what its candidate says now: in the state in
\* which publish_task_proposal stores a new TaskSpec revision, the plan file
\* still holds that proposal, the candidate's event has no successor, and the
\* task is at the revision the proposal was made for.
\* And whatever crashes or races, every publication stays accounted for.
PublicationAccounted ==
  [][/\ Accounted'
     /\ \A m \in muts' : (\A n \in muts : n.prop # m.prop) =>
          /\ \E f \in Path : plans[f] # NULL /\ plans[f].prop = m.prop
                             /\ (Typed(m.prop) \/ plans[f].review # NULL)
          /\ IsCurrent(m.prop.event)
          /\ Len(revs[m.prop.task]) = m.prop.expected]_tpVars
=============================================================================
