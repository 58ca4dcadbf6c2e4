----------------------------- MODULE Acceptance -----------------------------
(***************************************************************************)
(* What acceptance evidence establishes (acceptance.py). A criterion names *)
(* a verifier and is frozen to a target; an evidence item claims facts     *)
(* about that target, observed at some time, for a task and plan revision. *)
(* Digests, commits and revisions are values that are equal or not; ages   *)
(* are counted in quarters of an hour, the shortest age a contract allows. *)
(***************************************************************************)
EXTENDS Naturals, FiniteSets

PASSED == "passed"
FAILED == "failed"
UNKNOWN == "unknown"

Contract(authorities, age) == [authorities |-> authorities, max_age |-> age]

VERIFIER_CONTRACTS ==
  [code_merged             |-> Contract({"github"}, 96),
   required_ci_green       |-> Contract({"github"}, 24),
   deployment_complete     |-> Contract({"grabowski", "target-runtime"}, 96),
   runtime_commit_contains |-> Contract({"grabowski", "target-runtime"}, 4),
   live_probe_passed       |-> Contract({"grabowski", "target-runtime"}, 1),
   manual_observation      |-> Contract({"manual"}, 96),
   duration_soak_completed |-> Contract({"grabowski", "target-runtime", "manual"}, 96),
   no_effect_verified      |-> Contract({"bureau", "grabowski"}, 4),
   artifact_hash_matches   |-> Contract({"artifact-store", "bureau", "grabowski"}, 96)]

\* The evidence item of a criterion nobody claimed.
NoItem == [kind |-> "none"]

\* An answer of yes, no or neither, as a state.
Said(answer) == CASE answer = "yes" -> PASSED [] answer = "no" -> FAILED
                  [] OTHER -> UNKNOWN

_PASS_CHECK_STATES == {"success", "passed", "neutral", "skipped"}
_FAIL_CHECK_STATES == {"failure", "failed", "error", "cancelled", "timed_out"}

\* required_ci_green: rows <<name, state>>. Two states of one check, a missing
\* one or one that is still running leave it open; a failed one decides.
_checks_state(facts, config) ==
  LET required == {row \in facts.checks : row[1] \in config.required_checks}
  IN IF \/ ~facts.complete \/ facts.checks = {}
        \/ \E a, b \in facts.checks : a[1] = b[1] /\ a # b
        \/ \E n \in config.required_checks : \A row \in required : row[1] # n
     THEN UNKNOWN
     ELSE IF \E row \in required : row[2] \in _FAIL_CHECK_STATES THEN FAILED
     ELSE IF \A row \in required : row[2] \in _PASS_CHECK_STATES THEN PASSED
     ELSE UNKNOWN

\* duration_soak_completed: what is required comes from the criterion.
_soak_state(facts, config) ==
  IF facts.required_seconds # config.required_seconds THEN UNKNOWN
  ELSE IF facts.failed THEN FAILED
  ELSE IF ~facts.completed THEN UNKNOWN
  ELSE IF facts.observed_seconds < config.required_seconds THEN FAILED
  ELSE PASSED

\* A deployment that failed has failed, whatever else it says.
_deployment_state(facts) ==
  IF facts.failed THEN FAILED ELSE IF facts.completed THEN PASSED ELSE UNKNOWN

\* _fact_state: the state follows from the facts; nothing is taken from the
\* producer's word.
_fact_state(verifier, facts, config) ==
  CASE verifier = "code_merged" -> Said(facts.merged)
    [] verifier = "required_ci_green" -> _checks_state(facts, config)
    [] verifier = "deployment_complete" -> _deployment_state(facts)
    [] verifier = "runtime_commit_contains" -> Said(facts.contains_required_commit)
    [] verifier = "live_probe_passed" -> Said(facts.result)
    [] verifier = "manual_observation" ->
         IF facts.observer = "" \/ ~facts.observed THEN UNKNOWN ELSE Said(facts.accepted)
    [] verifier = "duration_soak_completed" -> _soak_state(facts, config)
    [] verifier = "no_effect_verified" ->
         IF ~facts.counted THEN UNKNOWN
         ELSE IF facts.effect_count = 0 THEN PASSED ELSE FAILED
    [] verifier = "artifact_hash_matches" ->
         IF facts.observed_sha256 = "" THEN UNKNOWN
         ELSE IF facts.observed_sha256 = facts.target THEN PASSED ELSE FAILED

\* _revision_valid: the item is for this task and plan revision and for the
\* target the criterion was frozen to.
_revision_valid(criterion, item, task, plan) ==
  /\ item.task = task /\ item.plan = plan
  /\ item.target = criterion.target

_facts_match_revision(item) == item.facts.target = item.target

\* evaluate_criterion: everything that does not bind the item to the criterion,
\* to an authenticated source, to the present and to the revision leaves it
\* open, and so does a claim that contradicts the item's own facts.
evaluate_criterion(criterion, item, task, plan, now, authenticated) ==
  IF \/ item = NoItem
     \/ item.verifier # criterion.verifier
     \/ item.authority \notin VERIFIER_CONTRACTS[criterion.verifier].authorities
     \/ ~authenticated
     \/ item.observed_at > now
     \/ now - item.observed_at > VERIFIER_CONTRACTS[criterion.verifier].max_age
     \/ item.not_after # 0 /\ now > item.not_after
     \/ ~_revision_valid(criterion, item, task, plan)
     \/ ~_facts_match_revision(item)
     \/ item.status \notin {"", _fact_state(criterion.verifier, item.facts, criterion)}
  THEN UNKNOWN
  ELSE _fact_state(criterion.verifier, item.facts, criterion)

\* _shared_revision_scope: GitHub criteria of one pull request.
_shared_revision_scope(criterion) ==
  IF criterion.verifier \in {"code_merged", "required_ci_green"}
  THEN {criterion.pull_request} ELSE {}

\* Criteria that passed agree on the head of the pull request they share.
_cross_criterion_revision_consistency(criteria, evidence, passed) ==
  \A c, d \in passed :
    _shared_revision_scope(criteria[c]) \cap _shared_revision_scope(criteria[d]) # {}
      => evidence[c].target = evidence[d].target

\* evaluate_acceptance: one failed criterion fails the whole, and it passes
\* only when all do; no criteria establish nothing.
evaluate_acceptance(criteria, evidence, task, plan, now, authenticated) ==
  LET result == [c \in DOMAIN criteria |->
                   evaluate_criterion(criteria[c], evidence[c], task, plan, now,
                                      c \in authenticated)]
      In(state) == {c \in DOMAIN criteria : result[c] = state}
  IN IF In(FAILED) # {} THEN FAILED
     ELSE IF /\ DOMAIN criteria # {} /\ In(PASSED) = DOMAIN criteria
             /\ _cross_criterion_revision_consistency(criteria, evidence, In(PASSED))
     THEN PASSED
     ELSE UNKNOWN

\* criterion_contract: a verifier that exists, with its configuration.
criterion_contract(criterion) == criterion.verifier \in DOMAIN VERIFIER_CONTRACTS

\* validate_acceptance_contract: at least one criterion, and all executable.
validate_acceptance_contract(criteria) ==
  DOMAIN criteria # {} /\ \A c \in DOMAIN criteria : criterion_contract(criteria[c])
=============================================================================
