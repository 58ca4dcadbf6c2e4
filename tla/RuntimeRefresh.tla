--------------------------- MODULE RuntimeRefresh ---------------------------
(***************************************************************************)
(* Refreshing the installed runtime under single-use authority tasks       *)
(* (src/bureau/runtime_refresh.py, src/bureau/runtime_unclear_closeout.py).*)
(*                                                                         *)
(* An authority TaskSpec is adopted and activated, or registered ready; an *)
(* intent pins it to one observed deployment target; an executor holding   *)
(* the runtime leases applies the intent: bind the authority, open the     *)
(* attempt ledger of the target, check the source out, run the installer,  *)
(* write the result, consume the authority.  Executors crash at any of     *)
(* these points and leases run out under them.  Closeouts end an authority.*)
(*                                                                         *)
(* A commit is its position on main, a manifest is its commit and a        *)
(* generation number that no two installs share (the manifest digest), and *)
(* a target is the digest of everything _target_payload puts in it.        *)
(***************************************************************************)
EXTENDS Naturals

CONSTANTS NULL, Task, Protected, Intent, Proc, MaxMain, MaxLease

ASSUME RefreshAssumption ==
  /\ Protected \subseteq Task
  /\ MaxMain \in Nat /\ MaxLease \in Nat
  /\ NULL \notin Task \cup Intent \cup Proc

VARIABLES
  main,        \* GitHub main
  green,       \* main commits with one merged pull request and green checks
  published,   \* protected tasks whose publication is on main
  live,        \* the deployment manifest: [commit, gen]
  sched,       \* the user scheduler: "converged" or "drift"
  seen,        \* persisted deployable observations
  spec,        \* the authority TaskSpec of each task
  intents,     \* the intent files
  expired,     \* intents past their expiry
  attempts,    \* target -> [intent, status]: started.json and result.json
  noEffect,    \* intents with an already-current result
  workspaces,  \* source checkouts, one path per main commit
  lease,       \* the leased runtime resources: [holder, live, serial]
  closer,      \* the unused-authority closeout holding the intent lock
  records,     \* after-effect-unclear reconciliation records
  ex,          \* the executors: [pc, intent, serial]
  receipts,    \* installer receipts: [intent, gen, from]
  launched,    \* how often the installer ran past its boundary, per task
  overrun,     \* a lease ran out under a running installer
  verifier     \* generation the last healthy verifier run was launched from

mainVars == <<main, green, published>>
authVars == <<spec, intents, expired, seen, closer, records>>
ledgerVars == <<attempts, noEffect, workspaces>>
hostVars == <<live, sched, receipts, launched, overrun, verifier>>
rrVars == <<mainVars, lease, ex, authVars, ledgerVars, hostVars>>

Idle == [pc |-> "idle", intent |-> NULL, serial |-> 0]

Manifest == [commit : Nat, gen : Nat]

TargetPayload == [main : Nat, from : Manifest,
                  sched : {"converged", "drift", "source-not-current"}]

\* An authority TaskSpec: its revision and state, and what its metadata records.
Authority ==
  [rev : Nat, state : {"planned", "ready", "verified", "superseded"}, source : Nat,
   pin : TargetPayload \cup {NULL}, binding : Intent \cup {NULL},
   consumption : Intent \cup {NULL}, closeout : {NULL, "verified", "unused", "unclear"}]

ASSUME RefreshNullAssumption ==
  NULL \notin Authority /\ NULL \notin {"verified", "unused", "unclear"}

\* --------------------------------------------------------------- observing

load_manifest == live
lag_commits == main - load_manifest.commit

\* The one merged pull request of the head of main and its required checks.
summarize_required_checks == main \in green

\* readback_user_scheduler, asked only of a current runtime.
scheduler_target_state ==
  IF lag_commits = 0 THEN sched ELSE "source-not-current"

\* observe_runtime_refresh: the deployment status.
Status ==
  IF lag_commits # 0
  THEN IF summarize_required_checks THEN "candidate" ELSE "blocked"
  ELSE IF scheduler_target_state = "converged" THEN "already_current" ELSE "alert"

Deployable == Status \in {"candidate", "alert"}

_target_payload == [main |-> main, from |-> load_manifest, sched |-> scheduler_target_state]

observe ==
  /\ Deployable
  /\ seen' = seen \cup {_target_payload}
  /\ UNCHANGED <<mainVars, lease, ex, spec, intents, expired, closer, records,
                 ledgerVars, hostVars>>

\* --------------------------------------------------------------- authority

Fresh(state, source) ==
  [rev |-> 1, state |-> state, source |-> source, pin |-> NULL, binding |-> NULL,
   consumption |-> NULL, closeout |-> NULL]

\* put_task_spec under the compare-and-swap on the expected revision.
Put(t, s) == spec' = [spec EXCEPT ![t] = [s EXCEPT !.rev = spec[t].rev + 1]]

\* A task without the protected-publication bootstrap is registered ready.
register(t) ==
  /\ t \notin Protected
  /\ spec[t] = NULL
  /\ spec' = [spec EXCEPT ![t] = Fresh("ready", 0)]
  /\ UNCHANGED <<mainVars, lease, ex, intents, expired, seen, closer, records,
                 ledgerVars, hostVars>>

\* verify_runtime_refresh_authority_publication: the task file came to protected
\* main through a merged pull request with green checks and is still there.
verify_runtime_refresh_authority_publication(t) == t \in published

\* adopt_runtime_refresh_authority: seed the published task, missing only. Its
\* source precondition names the runtime source it was registered against.
adopt_runtime_refresh_authority(t, source) ==
  /\ t \in Protected
  /\ verify_runtime_refresh_authority_publication(t)
  /\ spec[t] = NULL
  /\ spec' = [spec EXCEPT ![t] = Fresh("planned", source)]
  /\ UNCHANGED <<mainVars, lease, ex, intents, expired, seen, closer, records,
                 ledgerVars, hostVars>>

\* Descent on main: by GitHub compare or a first-parent walk, and by git.
_registered_source_ancestry_proof(source, commit) == source <= commit
_prove_source_ancestry(ancestor, descendant) == ancestor <= descendant

\* The runtime to be replaced descends from the registered source.
_validate_candidate_source_precondition(t, target) ==
  _registered_source_ancestry_proof(spec[t].source, target.from.commit)

\* The receipt of adoption: revision 1 is the exact seeded publication.
_local_protected_publication_adoption_proof(t) == spec[t].rev = 1 /\ spec[t].pin = NULL

\* The activated TaskSpec: the planned one made ready, and the evidence that
\* binds it to the observation.
_expected_protected_publication_activation_spec(t) == [spec[t] EXCEPT !.state = "ready"]

_protected_publication_activation_evidence(s, target) == [s EXCEPT !.pin = target]

\* The observation the evidence carries is one of the two deployable ones: a
\* lagging runtime under green checks, or a current one whose scheduler drifted.
_validated_protected_publication_activation_observation_contract(target) ==
  IF target.main = target.from.commit THEN target.sched = "drift"
  ELSE /\ target.from.commit < target.main
       /\ target.main \in green
       /\ target.sched = "source-not-current"

\* A planned authority, still the published one, before a deployable runtime;
\* an activated one answers a repeated request from its receipt.
CanActivate(t) ==
  /\ spec[t] # NULL
  /\ spec[t].state = "planned"
  /\ verify_runtime_refresh_authority_publication(t)
  /\ _local_protected_publication_adoption_proof(t)
  /\ Deployable

\* activate_runtime_refresh_authority: revision 1 to 2, with the observation
\* that every later validation compares the target with.
activate_runtime_refresh_authority(t) ==
  /\ CanActivate(t)
  /\ _validated_protected_publication_activation_observation_contract(_target_payload)
  /\ _validate_candidate_source_precondition(t, _target_payload)
  /\ Put(t, _protected_publication_activation_evidence(
              _expected_protected_publication_activation_spec(t), _target_payload))
  /\ UNCHANGED <<mainVars, lease, ex, intents, expired, seen, closer, records,
                 ledgerVars, hostVars>>

\* The contract of an authority: not terminal, in an allowed state.
_validate_runtime_refresh_authority_contract(t) ==
  spec[t] # NULL /\ spec[t].state = "ready"

\* The evidence names this very target and a deployable observation of it.
_validated_protected_publication_activation_evidence(evidence, target) ==
  /\ evidence = target
  /\ _validated_protected_publication_activation_observation_contract(evidence)

\* The activation receipt: a second revision with that evidence.
_validate_protected_publication_activation_receipt(t, target) ==
  /\ spec[t].rev >= 2
  /\ _validated_protected_publication_activation_evidence(spec[t].pin, target)

\* A task whose first revision carries the protected bootstrap.
_historical_protected_publication_bootstrap(t) == t \in Protected

_validate_pre_effect_protected_publication_activation(t, target) ==
  _historical_protected_publication_bootstrap(t) =>
    _validate_protected_publication_activation_receipt(t, target)

_validated_authority_consumption(t) == spec[t].consumption
_validated_authority_target_binding(t) == spec[t].binding

\* _validate_authoritative_runtime_refresh_task: not terminal, the activation
\* evidence names this target, not consumed, not closed.
Usable(t, target) ==
  /\ _validate_runtime_refresh_authority_contract(t)
  /\ _validate_pre_effect_protected_publication_activation(t, target)
  /\ _validated_authority_consumption(t) = NULL
  /\ spec[t].closeout = NULL

\* The same, for a caller that does not allow a bound intent.
Unbound(t, target) ==
  Usable(t, target) /\ _validated_authority_target_binding(t) = NULL

\* What the intent pins of its authority.
_intent_authority_record(t) == [task |-> t, rev |-> spec[t].rev]

\* The file lock that intents and unused closeouts share is free.
_runtime_authority_intent_closeout_lock == closer = NULL

prepare_intent(i, t, target) ==
  /\ _runtime_authority_intent_closeout_lock
  /\ intents[i] = NULL
  /\ target \in seen
  /\ Unbound(t, target)
  /\ _validate_candidate_source_precondition(t, target)
  /\ LET pinned == _intent_authority_record(t)
     IN intents' = [intents EXCEPT ![i] =
          [task |-> pinned.task, rev |-> pinned.rev, target |-> target]]
  /\ UNCHANGED <<mainVars, lease, ex, spec, expired, seen, closer, records,
                 ledgerVars, hostVars>>

\* bind_runtime_refresh_authority: validate at the intent's exact revision,
\* then the compare-and-swap that records target and intent.
CanBind(i) ==
  LET t == intents[i].task
  IN Unbound(t, intents[i].target) /\ spec[t].rev = intents[i].rev

bind_runtime_refresh_authority(i) ==
  LET t == intents[i].task
  IN Put(t, [spec[t] EXCEPT !.binding = i])

\* consume_runtime_refresh_authority: an equal consumption is a replay, and a
\* first one needs the authority still bound to this intent and open.
Consumed(i) ==
  LET t == intents[i].task
  IN spec[t].consumption = i

CanConsume(i) ==
  LET t == intents[i].task
  IN Usable(t, intents[i].target) /\ spec[t].binding = i

consume_runtime_refresh_authority(i) ==
  LET t == intents[i].task
  IN Put(t, [spec[t] EXCEPT !.consumption = i])

\* ---------------------------------------------------------------- executor

Target(i) == intents[i].target

validate_runtime_refresh_intent(i) == intents[i] # NULL /\ i \notin expired

\* validate_live_lease_binding as apply begins.
validate_live_lease_binding(p) == lease.holder = p /\ lease.live

\* validate_live_lease_binding against the clock read when apply began: a row
\* that is still this executor's passes although it may have run out since.
HoldsRow(p) == lease.holder = p /\ lease.serial = ex[p].serial

At(p, pc) == ex[p].pc = pc
Goto(p, pc) == ex' = [ex EXCEPT ![p].pc = pc]
Done(p) == ex' = [ex EXCEPT ![p] = Idle]

ResultOf(target) ==
  IF target \in DOMAIN attempts /\ attempts[target].status # "started"
  THEN attempts[target].intent ELSE NULL

\* apply_runtime_refresh with a result already on disk: the intent's own
\* no-effect result, or a result of the target by an intent of the same task.
\* A success not yet consumed is consumed behind the lease guard.
apply_reused(p, i) ==
  LET j == IF i \in noEffect THEN i ELSE ResultOf(Target(i))
  IN /\ At(p, "idle")
     /\ validate_runtime_refresh_intent(i)
     /\ j # NULL
     /\ intents[j].task = intents[i].task
     /\ i \notin noEffect => attempts[Target(i)].status = "deployed"
     /\ validate_live_lease_binding(p)
     /\ CanConsume(j)
     /\ consume_runtime_refresh_authority(j)
     /\ UNCHANGED <<mainVars, lease, ex, intents, expired, seen, closer, records,
                    ledgerVars, hostVars>>

\* apply_runtime_refresh up to the authority compare-and-swap: no ledger entry
\* for the target, the authority unbound, leases live, main where the intent
\* has it; an already-current runtime takes the no-effect path, otherwise the
\* target and the deployed manifest must be exactly the intent's.
apply_check(p, i) ==
  /\ At(p, "idle")
  /\ validate_runtime_refresh_intent(i)
  /\ i \notin noEffect
  /\ Target(i) \notin DOMAIN attempts
  /\ CanBind(i)
  /\ validate_live_lease_binding(p)
  /\ Status # "blocked"
  /\ main = Target(i).main
  /\ Deployable => _target_payload = Target(i)
  /\ ex' = [ex EXCEPT ![p] =
       [pc |-> IF Deployable THEN "checked" ELSE "current",
        intent |-> i, serial |-> lease.serial]]
  /\ UNCHANGED <<mainVars, lease, authVars, ledgerVars, hostVars>>

\* The bind of either path; a lost compare-and-swap ends the attempt.
apply_bind(p) ==
  LET i == ex[p].intent
  IN /\ ex[p].pc \in {"checked", "current"}
     /\ IF CanBind(i)
        THEN /\ bind_runtime_refresh_authority(i)
             /\ Goto(p, IF At(p, "checked") THEN "bound" ELSE "boundCurrent")
        ELSE Done(p) /\ UNCHANGED spec
     /\ UNCHANGED <<mainVars, lease, intents, expired, seen, closer, records,
                    ledgerVars, hostVars>>

\* _write_attempt_result of the no-effect path.
apply_no_effect(p) ==
  /\ At(p, "boundCurrent")
  /\ noEffect' = noEffect \cup {ex[p].intent}
  /\ Goto(p, "success")
  /\ UNCHANGED <<mainVars, lease, authVars, attempts, workspaces, hostVars>>

\* started.json of the ledger of the intent's target.
StartRecord(i) ==
  attempts' = [x \in DOMAIN attempts \cup {Target(i)} |->
                 IF x = Target(i) THEN [intent |-> i, status |-> "started"] ELSE attempts[x]]

\* The start record replaces one that is there.
apply_start_overwrites(p) ==
  /\ At(p, "bound")
  /\ StartRecord(ex[p].intent)
  /\ Goto(p, "started")
  /\ UNCHANGED <<mainVars, lease, authVars, noEffect, workspaces, hostVars>>

\* create_only(started.json): when another authority opened the ledger of the
\* same target first, the attempt ends and its authority stays bound.
apply_start(p) ==
  LET i == ex[p].intent
  IN /\ At(p, "bound")
     /\ IF Target(i) \in DOMAIN attempts
        THEN Done(p) /\ UNCHANGED attempts
        ELSE StartRecord(i) /\ Goto(p, "started")
     /\ UNCHANGED <<mainVars, lease, authVars, noEffect, workspaces, hostVars>>

\* _write_attempt_result, create-only as well.
WriteResult(i, status) ==
  attempts' = [attempts EXCEPT ![Target(i)] =
                 [intent |-> i, status |-> status]]

validate_source_checkout(i) == main = Target(i).main

\* prepare_source_checkout: the workspace path must be free and main must not
\* have moved; the failed result keeps what is left of the checkout.
apply_prepare(p) ==
  LET i == ex[p].intent
      m == Target(i).main
      ok == m \notin workspaces /\ validate_source_checkout(i)
  IN /\ At(p, "started")
     /\ workspaces' = workspaces \cup {m}
     /\ IF ok THEN Goto(p, "prepared") /\ UNCHANGED attempts
              ELSE WriteResult(i, "failed") /\ Done(p)
     /\ UNCHANGED <<mainVars, lease, authVars, noEffect, hostVars>>

\* validate_runtime_install_authority, the installer's own boundary: intent
\* not expired, ledger and bound authority unchanged, and the very lease of the
\* start record still live.  A refusal is an unclear result without effect.
InstallAuthorised(p) ==
  LET i == ex[p].intent
      t == intents[i].task
  IN /\ i \notin expired
     /\ attempts[Target(i)].intent = i
     /\ spec[t].binding = i /\ Usable(t, Target(i))
     /\ HoldsRow(p) /\ lease.live

apply_boundary(p) ==
  LET i == ex[p].intent
  IN /\ At(p, "prepared")
     /\ IF InstallAuthorised(p)
        THEN /\ launched' = [launched EXCEPT ![intents[i].task] = @ + 1]
             /\ Goto(p, "installing")
             /\ UNCHANGED attempts
        ELSE WriteResult(i, "unclear") /\ Done(p) /\ UNCHANGED launched
     /\ UNCHANGED <<mainVars, lease, authVars, noEffect, workspaces, live, sched,
                    receipts, overrun, verifier>>

\* The installer switches the runtime and converges the scheduler, or fails
\* and rolls back (run_installer, converge_user_scheduler).
apply_install(p) ==
  LET i == ex[p].intent
      gen == live.gen + 1
  IN /\ At(p, "installing")
     /\ live' = [commit |-> Target(i).main, gen |-> gen]
     /\ sched' = "converged"
     /\ receipts' = receipts \cup
          {[intent |-> i, gen |-> gen, from |-> live]}
     /\ Goto(p, "installed")
     /\ UNCHANGED <<mainVars, lease, authVars, ledgerVars, launched, overrun, verifier>>

apply_install_failed(p) ==
  /\ ex[p].pc \in {"installing", "installed"}
  /\ WriteResult(ex[p].intent, "unclear")
  /\ Done(p)
  /\ UNCHANGED <<mainVars, lease, authVars, noEffect, workspaces, hostVars>>

\* readback_install against the installer's receipt, then the result.
ReceiptOf(i) == CHOOSE r \in receipts : r.intent = i

readback_user_scheduler == sched = "converged"

readback_install(i) == live.gen = ReceiptOf(i).gen /\ readback_user_scheduler

apply_result(p) ==
  LET i == ex[p].intent
  IN /\ At(p, "installed")
     /\ readback_install(i)
     /\ WriteResult(i, "deployed")
     /\ Goto(p, "success")
     /\ UNCHANGED <<mainVars, lease, authVars, noEffect, workspaces, hostVars>>

\* The consumption that ends both paths; only the installing one removes its
\* workspace, and only once the consumption went through.
apply_consume(p) ==
  LET i == ex[p].intent
      through == Consumed(i) \/ CanConsume(i)
  IN /\ At(p, "success")
     /\ IF CanConsume(i) THEN consume_runtime_refresh_authority(i)
                         ELSE UNCHANGED spec
     /\ workspaces' = IF through /\ i \notin noEffect
                      THEN workspaces \ {Target(i).main} ELSE workspaces
     /\ Done(p)
     /\ UNCHANGED <<mainVars, lease, intents, expired, seen, closer, records,
                    attempts, noEffect, hostVars>>

\* ---------------------------------------------------------------- closeouts

IntentsOf(t) == {i \in Intent : intents[i] # NULL /\ intents[i].task = t}

\* _runtime_authority_effect_history: results with the effect started,
\* attributed to the intent that produced them.
EffectHistory(t) ==
  {i \in IntentsOf(t) :
     /\ Target(i) \in DOMAIN attempts
     /\ attempts[Target(i)].intent = i
     /\ attempts[Target(i)].status \in {"deployed", "unclear"}}

Deployed(i) == /\ ResultOf(Target(i)) = i
               /\ attempts[Target(i)].status = "deployed"

\* The installer receipt of an intent, and the install it left behind.
_validate_historical_install_receipt(i) == \E r \in receipts : r.intent = i
readback_historical_install(i) == Deployed(i) /\ _validate_historical_install_receipt(i)

validate_released_lease_binding == lease.holder = NULL

\* _live_verifier_closeout_evidence, where the contract asks for it: the install
\* still serves, and a verifier was launched from it and ended healthy.
_live_verifier_closeout_evidence(i) ==
  Deployed(i) /\ readback_install(i) /\ verifier = live.gen

\* The protected publication is on main still, and the first revision was seeded
\* from it; its merge precedes every target observed after the adoption.
_prove_protected_publication_adoption(t) == t \in published

\* What the frozen acceptance criteria of an authority ask for: evidence classes,
\* and a live verifier where the contract of a protected authority wants one.
_validated_no_run_acceptance_contract(t) ==
  {"source-precondition"} \cup
    IF t \in Protected THEN {"protected-publication-adoption", "live-verifier"} ELSE {}

\* The classes a closeout of intent i can prove.
AvailableEvidence(i, t) ==
  {class \in {"source-precondition", "protected-publication-adoption", "live-verifier"} :
     /\ class = "source-precondition" => _validate_candidate_source_precondition(t, Target(i))
     /\ class = "protected-publication-adoption" => _prove_protected_publication_adoption(t)
     /\ class = "live-verifier" => _live_verifier_closeout_evidence(i)}

_build_no_run_acceptance_evidence(i, t) ==
  _validated_no_run_acceptance_contract(t) \subseteq AvailableEvidence(i, t)

\* The persisted result of the intent is a success, with or without effect.
SuccessfulResult(i) == Deployed(i) \/ i \in noEffect

\* A deployed result is the one effect of its authority; a result without
\* effect has none beside it.
SoleEffect(i) == EffectHistory(intents[i].task) = IF Deployed(i) THEN {i} ELSE {}

\* The attempt ledger of the target: opened by this intent, or never opened.
StartMatches(i) ==
  IF Deployed(i) THEN attempts[Target(i)].intent = i ELSE Target(i) \notin DOMAIN attempts

\* The result's own readback, repeated: the install that is left behind, or the
\* scheduler of a runtime that is at the target.
_install_closeout_readbacks_match(i) == readback_historical_install(i)

_scheduler_closeout_readbacks_match(i) ==
  live.commit = Target(i).main /\ readback_user_scheduler

ReadbackUnchanged(i) ==
  IF Deployed(i) THEN _install_closeout_readbacks_match(i)
                 ELSE _scheduler_closeout_readbacks_match(i)

\* What the authority already records of its use is this use.
RecordsAgree(i) ==
  LET t == intents[i].task
  IN spec[t].binding \in {NULL, i} /\ spec[t].consumption \in {NULL, i}

\* _closeout_runtime_refresh_authority: one success, no other effect, leases
\* gone from the store; it records the consumption itself when the executor
\* died before doing so.
closeout_runtime_refresh_authority(i) ==
  LET t == intents[i].task
  IN /\ intents[i] # NULL
     /\ SuccessfulResult(i) /\ SoleEffect(i) /\ StartMatches(i) /\ ReadbackUnchanged(i)
     /\ validate_released_lease_binding
     /\ _validate_runtime_refresh_authority_contract(t) /\ spec[t].closeout = NULL
     /\ RecordsAgree(i)
     /\ _validate_pre_effect_protected_publication_activation(t, Target(i))
     /\ _build_no_run_acceptance_evidence(i, t)
     /\ Put(t, [spec[t] EXCEPT !.state = "verified", !.binding = i, !.consumption = i,
                               !.closeout = "verified"])
     /\ UNCHANGED <<mainVars, lease, ex, intents, expired, seen, closer, records,
                    ledgerVars, hostVars>>

\* _unused_runtime_authority_history: every intent of the task is of this
\* revision, expired and without any trace.
_unused_runtime_authority_history(t) ==
  /\ IntentsOf(t) # {}
  /\ \A i \in IntentsOf(t) :
       /\ intents[i].rev = spec[t].rev
       /\ i \in expired /\ i \notin noEffect
       /\ Target(i) \in DOMAIN attempts => attempts[Target(i)].intent # i

\* The runtime has gone on from a commit, or is still there.
_current_runtime_continuity(commit) == _prove_source_ancestry(commit, live.commit)

\* The selected, last intent: no other one of the task names a newer main.
_validate_unused_authority_intent_ratchet(t, selected) ==
  \A i \in IntentsOf(t) : _prove_source_ancestry(Target(i).main, Target(selected).main)

\* Another, verified authority deployed the very target of the selected intent.
_equivalent_runtime_success_provenance(t, selected) ==
  LET j == ResultOf(Target(selected))
  IN /\ j # NULL /\ readback_historical_install(j)
     /\ intents[j].task # t
     /\ spec[intents[j].task].state = "verified"

UnusedEvidence(t) ==
  /\ _unused_runtime_authority_history(t)
  /\ \E i \in IntentsOf(t) :
       /\ _validate_unused_authority_intent_ratchet(t, i)
       /\ _equivalent_runtime_success_provenance(t, i)
       /\ _current_runtime_continuity(Target(i).main)

Unused(t) == /\ spec[t] # NULL
             /\ spec[t].state = "ready" /\ spec[t].binding = NULL
             /\ spec[t].consumption = NULL /\ spec[t].closeout = NULL

_live_leases_for_resource_keys == lease.holder # NULL /\ lease.live

_guard_unused_authority_foreign_activity == ~_live_leases_for_resource_keys

\* The compare-and-swap contract: the authority of the reviewed revision, still
\* unused, with the same evidence.
_validate_unused_authority_closeout_cas_contract(t, rev) ==
  spec[t].rev = rev /\ Unused(t) /\ UnusedEvidence(t)

\* The compare-and-swap runs under the file lock and the lease-store barrier.
_validate_unused_authority_closeout_cas_guard ==
  ~_runtime_authority_intent_closeout_lock /\ _guard_unused_authority_foreign_activity

\* closeout_unused_runtime_refresh_authority takes the file lock and gathers
\* the evidence; its compare-and-swap runs behind the lease-store barrier and
\* after the same checks.
closeout_unused_begin(t) ==
  /\ _runtime_authority_intent_closeout_lock
  /\ Unused(t) /\ _guard_unused_authority_foreign_activity /\ UnusedEvidence(t)
  /\ closer' = [task |-> t, rev |-> spec[t].rev]
  /\ UNCHANGED <<mainVars, lease, ex, spec, intents, expired, seen, records,
                 ledgerVars, hostVars>>

\* The evidence of closeout_unused_begin is not looked at again.
closeout_unused_commit_stale ==
  /\ closer # NULL
  /\ Put(closer.task, [spec[closer.task] EXCEPT !.state = "superseded",
                                              !.closeout = "unused"])
  /\ closer' = NULL
  /\ UNCHANGED <<mainVars, lease, ex, intents, expired, seen, records,
                 ledgerVars, hostVars>>

closeout_unused_commit ==
  LET t == closer.task
  IN /\ closer # NULL
     /\ IF /\ _validate_unused_authority_closeout_cas_guard
           /\ _validate_unused_authority_closeout_cas_contract(t, closer.rev)
        THEN Put(t, [spec[t] EXCEPT !.state = "superseded",
                                    !.closeout = "unused"])
        ELSE UNCHANGED spec
     /\ closer' = NULL
     /\ UNCHANGED <<mainVars, lease, ex, intents, expired, seen, records,
                    ledgerVars, hostVars>>

\* The persisted result of the intent: unclear, with the effect started.
UnclearResult(i) ==
  ResultOf(Target(i)) = i /\ attempts[Target(i)].status = "unclear"

\* The authority as the attempt left it: open, and bound to this intent.
OriginalAuthority(i) ==
  LET t == intents[i].task
  IN Usable(t, Target(i)) /\ spec[t].binding = i

\* That one effect left its installer receipt and its snapshot, and the runtime
\* is at its commit or has gone on from there.
OriginalInstall(i) ==
  /\ EffectHistory(intents[i].task) = {i}
  /\ _validate_historical_install_receipt(i)
  /\ _current_runtime_continuity(Target(i).main)

\* reconcile_after_effect_unclear_runtime_refresh_authority: the one unclear
\* result whose installer receipt proves that the install happened.
reconcile_after_effect_unclear(i) ==
  /\ intents[i] # NULL /\ i \notin records
  /\ UnclearResult(i) /\ OriginalAuthority(i) /\ OriginalInstall(i)
  /\ records' = records \cup {i}
  /\ UNCHANGED <<mainVars, lease, ex, spec, intents, expired, seen, closer,
                 ledgerVars, hostVars>>

\* runtime_unclear_closeout: a verified successor, serving right now from a
\* newer commit, supersedes the authority of a reconciled effect.
_healthy_retained_verifier == verifier = live.gen

_verified_successor(j) ==
  LET u == intents[j].task
  IN /\ spec[u].state = "verified" /\ spec[u].binding = j
     /\ Deployed(j) /\ readback_install(j)
     /\ _healthy_retained_verifier

\* The record is on disk and a new reconciliation gives the same one.
_historical_proof(i) ==
  i \in records /\ UnclearResult(i) /\ OriginalAuthority(i) /\ OriginalInstall(i)

preview(i, j) ==
  /\ intents[j] # NULL /\ intents[j].task # intents[i].task
  /\ _historical_proof(i)
  /\ _verified_successor(j)
  /\ Target(j).main # Target(i).main
  /\ _prove_source_ancestry(Target(i).main, Target(j).main)

_build_candidate_from_preview(s) ==
  [s EXCEPT !.state = "superseded", !.closeout = "unclear"]

\* apply: the reviewed preview repeated, then the compare-and-swap.
supersede_unclear(i, j) ==
  LET t == intents[i].task
  IN /\ intents[i] # NULL
     /\ preview(i, j)
     /\ Put(t, _build_candidate_from_preview(spec[t]))
     /\ UNCHANGED <<mainVars, lease, ex, intents, expired, seen, closer, records,
                    ledgerVars, hostVars>>

\* -------------------------------------------------------------- environment

advance_main(ts) ==
  /\ main < MaxMain
  /\ main' = main + 1
  /\ published' = published \cup ts
  /\ UNCHANGED <<green, lease, ex, authVars, ledgerVars, hostVars>>

checks_pass ==
  /\ main \notin green
  /\ green' = green \cup {main}
  /\ UNCHANGED <<main, published, lease, ex, authVars, ledgerVars, hostVars>>

verifier_runs ==
  /\ verifier # live.gen
  /\ verifier' = live.gen
  /\ UNCHANGED <<mainVars, lease, ex, authVars, ledgerVars, live, sched, receipts,
                 launched, overrun>>

expire(i) ==
  /\ intents[i] # NULL /\ i \notin expired
  /\ expired' = expired \cup {i}
  /\ UNCHANGED <<mainVars, lease, ex, spec, intents, seen, closer, records,
                 ledgerVars, hostVars>>

\* Someone stops, edits or restores a timer or a unit by hand.
scheduler_touched ==
  /\ sched' = IF sched = "converged" THEN "drift" ELSE "converged"
  /\ UNCHANGED <<mainVars, lease, ex, authVars, ledgerVars, live, receipts,
                 launched, overrun, verifier>>

\* The Grabowski lease store: a row can be taken over once it has run out, and
\* nobody takes one while the unused closeout holds its write barrier.
acquire_lease(p) ==
  /\ lease.serial < MaxLease
  /\ lease.holder = NULL \/ ~lease.live
  /\ lease' = [holder |-> p, live |-> TRUE, serial |-> lease.serial + 1]
  /\ UNCHANGED <<mainVars, ex, authVars, ledgerVars, hostVars>>

lease_runs_out ==
  /\ lease.holder # NULL /\ lease.live
  /\ lease' = [lease EXCEPT !.live = FALSE]
  /\ overrun' = (overrun \/ \E p \in Proc :
                   At(p, "installing") /\ HoldsRow(p))
  /\ UNCHANGED <<mainVars, ex, authVars, ledgerVars, live, sched, receipts,
                 launched, verifier>>

release_lease(p) ==
  /\ lease.holder = p /\ At(p, "idle")
  /\ lease' = [lease EXCEPT !.holder = NULL, !.live = FALSE]
  /\ UNCHANGED <<mainVars, ex, authVars, ledgerVars, hostVars>>

\* The executor dies; files, leases and TaskSpecs stay as they are.
crash(p) ==
  /\ ~At(p, "idle")
  /\ Done(p)
  /\ UNCHANGED <<mainVars, lease, authVars, ledgerVars, hostVars>>

\* ------------------------------------------------------------ specification

RRInit ==
  /\ main = 1 /\ green \in SUBSET {1} /\ published \in SUBSET Protected
  /\ live = [commit |-> 0, gen |-> 0]
  /\ sched = "converged"
  /\ seen = {}
  /\ spec = [t \in Task |-> NULL]
  /\ intents = [i \in Intent |-> NULL]
  /\ expired = {}
  /\ attempts = [x \in {} |-> NULL]
  /\ noEffect = {}
  /\ workspaces = {}
  /\ lease = [holder |-> NULL, live |-> FALSE, serial |-> 0]
  /\ closer = NULL
  /\ records = {}
  /\ ex = [p \in Proc |-> Idle]
  /\ receipts = {}
  /\ launched = [t \in Task |-> 0]
  /\ overrun = FALSE
  /\ verifier = 0

apply_step(p) ==
  \/ apply_bind(p) \/ apply_no_effect(p) \/ apply_start(p)
  \/ apply_prepare(p) \/ apply_boundary(p)
  \/ apply_install(p) \/ apply_install_failed(p)
  \/ apply_result(p) \/ apply_consume(p)

RRNext ==
  \/ observe \/ checks_pass \/ verifier_runs \/ scheduler_touched \/ lease_runs_out
  \/ closeout_unused_commit
  \/ \E ts \in SUBSET Protected : advance_main(ts)
  \/ \E t \in Task :
       \/ register(t)
       \/ \E source \in 0..MaxMain : adopt_runtime_refresh_authority(t, source)
       \/ activate_runtime_refresh_authority(t) \/ closeout_unused_begin(t)
  \/ \E i \in Intent :
       \/ expire(i) \/ closeout_runtime_refresh_authority(i)
       \/ reconcile_after_effect_unclear(i)
       \/ \E t \in Task, target \in seen : prepare_intent(i, t, target)
       \/ \E j \in Intent : supersede_unclear(i, j)
  \/ \E p \in Proc :
       \/ acquire_lease(p) \/ release_lease(p) \/ crash(p) \/ apply_step(p)
       \/ \E i \in Intent : apply_reused(p, i) \/ apply_check(p, i)

RRSpec == RRInit /\ [][RRNext]_rrVars

\* --------------------------------------------------------------- properties

AuthorityStage(t) ==
  IF spec[t] = NULL THEN "none"
  ELSE CASE spec[t].closeout = "unused" -> "retired"
         [] spec[t].closeout = "unclear" -> "superseded"
         [] spec[t].state \in {"planned", "verified"} -> spec[t].state
         [] OTHER -> IF spec[t].consumption # NULL THEN "consumed"
                     ELSE IF spec[t].binding # NULL THEN "bound" ELSE "ready"

SU == INSTANCE SingleUse WITH stage <- [t \in Task |-> AuthorityStage(t)],
                              effects <- launched

\* Executors, crashes, replays and the three closeouts together give every
\* authority the life SingleUse promises: one binding, one installer run, one
\* end, and a retired authority was never used.
AuthoritySingleUse == SU!SUSpec

\* Without an overrun an install replaces the manifest its intent was prepared
\* against, one that descends from the source the authority was registered
\* for, by a commit of main with green checks.
InstallsInOrder ==
  ~overrun => \A r \in receipts :
    LET i == r.intent
    IN /\ r.from = Target(i).from
       /\ spec[intents[i].task].source <= r.from.commit
       /\ Target(i).main \in green

\* A deployed result and the authority it came from never part: the authority
\* is bound to that very intent, has no second effect, and is either still
\* open for its closeout or verified.  A consumption always rests on such a
\* result, or on an already-current one, and no target is installed twice.
\* And as long as no lease ran out under a running installer, every install
\* replaced exactly the manifest its intent had been prepared against.
SuccessAccounted ==
  /\ InstallsInOrder
  /\ \A i \in Intent :
       intents[i] # NULL /\ Deployed(i) =>
         LET s == spec[intents[i].task]
         IN /\ s.binding = i /\ s.consumption \in {NULL, i}
            /\ s.state \in {"ready", "verified"}
            /\ EffectHistory(intents[i].task) = {i}
  /\ \A t \in Task :
       spec[t] # NULL /\ spec[t].consumption # NULL =>
         LET i == spec[t].consumption
         IN /\ spec[t].binding = i
            /\ \/ i \in noEffect /\ launched[t] = 0
               \/ Deployed(i) /\ \E r \in receipts : r.intent = i
  /\ \A r, s \in receipts : Target(r.intent) = Target(s.intent) => r = s

=============================================================================
