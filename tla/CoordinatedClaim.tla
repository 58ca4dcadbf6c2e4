-------------------------- MODULE CoordinatedClaim --------------------------
(***************************************************************************)
(* Coordinated claims (claim-intent, claim-commit, orphan-resume in v2.py):*)
(* a caller first has an intent issued, an event that fixes the run id,    *)
(* the task revision, the plan and the attempt; the agent then leases the  *)
(* external resources under that run id; a commit turns the intent into a  *)
(* run if nothing it was issued for has changed.  Only issuing, committing *)
(* and resuming are transactions.  TaskSpecs are read once when a          *)
(* Dispatcher is constructed, leases live in a database of their own.      *)
(***************************************************************************)
EXTENDS RunStore

CONSTANTS
    Caller,       \* processes that run claim-intent or claim-commit
    Request,      \* claim-intent requests, as their request_sha256 tells them apart
    RequestWorker, RequestTasks,   \* the worker and the candidate tasks of a request
    ExplicitKey,  \* ExplicitKey[q]: the idempotency key given with q, or NULL
    LeaseKey, KeysOf,   \* KeysOf[t]: the resource keys a claim of t needs leased
    Scenario,     \* the bounds an instance chooses from, see Scenarios
    MaxRenewal    \* bound on the renewals of an automatic key

\* Which requests are made, by how many callers at a time, and how often the
\* TaskSpecs and the plan are revised meanwhile.
Scenarios == [requests : SUBSET Request, busy : Nat, edits : Nat, plans : Nat]

ASSUME CoordinatedAssumption ==
    /\ RequestWorker \in [Request -> Worker]
    /\ RequestTasks \in [Request -> SUBSET Task]
    /\ KeysOf \in [Task -> SUBSET LeaseKey]
    /\ NULL \notin Request
    /\ Sha # {} /\ Plan # {}
    /\ TRUE \in ClaimKinds   \* coordinated claims are among the claims of the run tables
    /\ Scenario \subseteq Scenarios /\ MaxRenewal \in Nat

VARIABLES
    spec,         \* spec[t]: the current TaskSpec, its revision and digest
    plan,         \* the plan of the initiative
    scenario,     \* the bounds of this behaviour
    edits, plans, \* revisions of TaskSpecs and of the plan so far
    issued,       \* issued[r]: the issuance event of run id r, or NULL
    expired,      \* run ids whose intent is older than 300 seconds
    leases,       \* leases[k]: the lease row of k, or NULL (external)
    lapsed,       \* history: runs that lost a lease by expiry while active
    cpc, cjob     \* the local state of each caller

docVars == <<scenario, spec, plan, edits, plans>>
coordVars == <<docVars, issued, expired, leases, lapsed, cpc, cjob>>
coordAllVars == <<runVars, coordVars>>

Key == {ExplicitKey[q] : q \in Request} \cup (Request \X (0 .. MaxRenewal))
SpecRow == [rev : Nat \ {0}, sha : Sha]
EffectiveState == {"ready", "verified", "stale"}

\* The intent with its mutation contract.
Issuance ==
    [key : Key, request : Request, task : Task, worker : Worker, sha : Sha, plan : Plan,
     rev : Nat \ {0}, state : EffectiveState, attempt : Nat]
Lease == [owner : RunId, left : {"enough", "short"}]

\* What a caller remembers between two steps; NULL where it is of no more use.
Job == [view : [spec : [Task -> SpecRow], plan : Plan] \cup {NULL},
        run : RunId \cup {NULL}, seen : Nat, request : Request \cup {NULL},
        key : Key \cup {NULL}, draft : Issuance \cup {NULL}]

ASSUME CoordinatedNullAssumption ==
    NULL \notin Issuance /\ NULL \notin Lease /\ NULL \notin Job

CoordTypeOK ==
    /\ spec \in [Task -> SpecRow] /\ plan \in Plan /\ scenario \in Scenario
    /\ edits \in 0 .. scenario.edits /\ plans \in 0 .. scenario.plans
    /\ issued \in [RunId -> Issuance \cup {NULL}]
    /\ expired \subseteq RunId /\ lapsed \subseteq RunId
    /\ leases \in [LeaseKey -> Lease \cup {NULL}]
    /\ cpc \in [Caller -> {"idle", "selecting", "drafted", "checked", "committed", "resuming"}]
    /\ cjob \in [Caller -> Job \cup {NULL}]

CoordInit ==
    /\ Init
    /\ spec = [t \in Task |-> [rev |-> 1, sha |-> CHOOSE s \in Sha : TRUE]]
    /\ plan = (CHOOSE p \in Plan : TRUE) /\ scenario \in Scenario /\ edits = 0 /\ plans = 0
    /\ issued = [r \in RunId |-> NULL]
    /\ expired = {} /\ lapsed = {}
    /\ leases = [k \in LeaseKey |-> NULL]
    /\ cpc = [c \in Caller |-> "idle"]
    /\ cjob = [c \in Caller |-> NULL]

-----------------------------------------------------------------------------

\* StateStore.overlays, from the documents a Dispatcher read and the committed
\* overlay rows; every TaskSpec of an instance is ready.
effective_state(view, t) ==
    LET sha == view.spec[t].sha
    IN  IF status[t] = NULL THEN "ready"
        ELSE IF /\ status[t].task_sha256 = sha /\ status[t].plan_sha256 = view.plan
                /\ receipts[status[t].receipt].verified_task_sha256 = sha
        THEN "verified" ELSE "stale"

\* Dispatcher.reasons without the reasons that Dispatch models: a ready task
\* supersedes its own stale overlay.
claimable(view, t) ==
    /\ \/ effective_state(view, t) = "ready"
       \/ /\ effective_state(view, t) = "stale"
          /\ status[t].task_sha256 # view.spec[t].sha /\ status[t].plan_sha256 = plan
    /\ ~TaskBusy(t)
    /\ ~claims_conflict(Claims[t, view.spec[t].sha], NULL)

issuances(k) == {r \in RunId : issued[r] # NULL /\ issued[r].key = k}

\* claim_intent, the loop over automatic keys: a key whose intent expired
\* without a run is given up for the next one.
given_up(k) == \E r \in issuances(k) : runs[r] = NULL /\ r \in expired
effective_key(q) ==
    IF ExplicitKey[q] # NULL THEN ExplicitKey[q]
    ELSE LET free == {n \in 0 .. MaxRenewal : ~given_up(<<q, n>>)}
         IN  IF free = {} THEN NULL
             ELSE <<q, CHOOSE n \in free : \A m \in free : n <= m>>

\* validate_live_lease_binding: every key is leased under this run id, with
\* the metadata of this intent, for at least another 60 seconds.
validate_live_lease_binding(r, t) ==
    \A k \in KeysOf[t] :
        /\ leases[k] # NULL
        /\ leases[k].owner = r
        /\ leases[k].left = "enough"

Start(c, l, j) == cpc' = [cpc EXCEPT ![c] = l] /\ cjob' = [cjob EXCEPT ![c] = j]
Done(c) == Start(c, "idle", NULL)
Idle(c) == cpc[c] = "idle" /\ Cardinality({d \in Caller : cpc[d] # "idle"}) < scenario.busy
Read == [view |-> [spec |-> spec, plan |-> plan], run |-> NULL, seen |-> 0, request |-> NULL, key |-> NULL, draft |-> NULL]

-----------------------------------------------------------------------------

\* The Dispatcher is constructed and the key is looked up.  An issuance that is
\* found is answered without any effect; otherwise the call goes on.
look_up(c, q) ==
    LET k == effective_key(q)
    IN  /\ Idle(c) /\ q \in scenario.requests
        /\ k # NULL /\ issuances(k) = {}
        /\ Start(c, "selecting", [Read EXCEPT !.request = q, !.key = k])
        /\ UNCHANGED <<runVars, docVars, issued, expired, leases, lapsed>>

\* A task is selected and the intent is drafted from one read of the database.
draft_intent(c, r, t) ==
    LET j == cjob[c]
        w == RequestWorker[j.request]
    IN  /\ cpc[c] = "selecting"
        /\ ~WorkerBusy(w)
        /\ t \in RequestTasks[j.request] /\ claimable(j.view, t)
        /\ issued[r] = NULL /\ \A d \in Caller : cjob[d] # NULL => cjob[d].run # r
        /\ Start(c, "drafted", [j EXCEPT !.view = NULL, !.request = NULL, !.run = r, !.draft =
               [key |-> j.key, request |-> j.request, task |-> t, worker |-> w,
                sha |-> j.view.spec[t].sha, plan |-> plan, rev |-> j.view.spec[t].rev,
                state |-> effective_state(j.view, t), attempt |-> next_attempt(t)]])
        /\ UNCHANGED <<runVars, docVars, issued, expired, leases, lapsed>>

\* issue_claim_intent: a key that was issued meanwhile is answered with that
\* issuance, or refused when it belongs to another request.
issue_claim_intent(c) ==
    LET j == cjob[c]
    IN  /\ cpc[c] = "drafted"
        /\ issued' = IF issuances(j.key) # {} THEN issued
                     ELSE [issued EXCEPT ![j.run] = j.draft]
        /\ Done(c)
        /\ UNCHANGED <<runVars, docVars, expired, leases, lapsed>>

\* commit_claim_intent before its transaction: the intent is no run yet, is not
\* expired, and its task is the one this Dispatcher has read.
check_intent(c, r) ==
    /\ Idle(c)
    /\ issued[r] # NULL
    /\ runs[r] = NULL
    /\ r \notin expired
    /\ spec[issued[r].task].sha = issued[r].sha
    /\ Start(c, "checked", [Read EXCEPT !.run = r])
    /\ UNCHANGED <<runVars, docVars, issued, expired, leases, lapsed>>

\* Mutant: the TaskSpec is compared by its digest only.
still_current_digest(i, view) ==
    /\ plan = i.plan
    /\ spec[i.task].sha = i.sha
    /\ effective_state(view, i.task) = i.state
    /\ next_attempt(i.task) = i.attempt

\* The comparisons inside the transaction: plan, TaskSpec revision and digest,
\* prior state and attempt.
still_current(i, view) ==
    /\ plan = i.plan
    /\ spec[i.task] = [rev |-> i.rev, sha |-> i.sha]
    /\ effective_state(view, i.task) = i.state
    /\ next_attempt(i.task) = i.attempt

\* The transaction: it inserts the run and its reservations, or raises, or
\* finds the run another commit of the same intent has inserted.
commit_claim_intent(c) ==
    LET j == cjob[c]
        r == j.run
        i == issued[r]
        admitted == /\ runs[r] = NULL
                    /\ ~WorkerBusy(i.worker)
                    /\ still_current(i, j.view)
                    /\ claimable(j.view, i.task)
                    /\ validate_live_lease_binding(r, i.task)
    IN  /\ cpc[c] = "checked"
        /\ IF admitted
           THEN /\ claim(r, i.task, i.worker, i.sha, plan, TRUE)
                /\ Start(c, "committed", [j EXCEPT !.view = NULL])
           ELSE /\ UNCHANGED runVars
                /\ Done(c)
        /\ UNCHANGED <<docVars, issued, expired, leases, lapsed>>

\* Mutant: a run that has ended meanwhile is failed as well.
write_envelope_forced(c) ==
    /\ cpc[c] = "committed"
    /\ \/ UNCHANGED runVars
       \/ /\ runs' = [runs EXCEPT ![cjob[c].run] = [@ EXCEPT !.state = "failed"]]
          /\ resv' = [resv EXCEPT ![cjob[c].run] = {}]
          /\ UNCHANGED <<status, receipts, life>>
    /\ Done(c)
    /\ UNCHANGED <<docVars, issued, expired, leases, lapsed>>

\* The envelope file is written, or the run is failed if it is still active.
write_claim_envelope(c) ==
    /\ cpc[c] = "committed"
    /\ \/ UNCHANGED runVars
       \/ IF Active(cjob[c].run) THEN fail_run(cjob[c].run, "failed") ELSE UNCHANGED runVars
    /\ Done(c)
    /\ UNCHANGED <<docVars, issued, expired, leases, lapsed>>

\* The call raises at one of its other checks, stops at the runtime gate, or dies.
give_up(c) ==
    /\ cpc[c] # "idle"
    /\ Done(c)
    /\ UNCHANGED <<runVars, docVars, issued, expired, leases, lapsed>>

\* The operator has read the row of an orphan and the Dispatcher is constructed.
open_resume(c, r) ==
    /\ Idle(c)
    /\ runs[r] # NULL /\ runs[r].state = "orphaned"
    /\ Start(c, "resuming", [Read EXCEPT !.run = r, !.seen = Len(life[r])])
    /\ UNCHANGED <<runVars, docVars, issued, expired, leases, lapsed>>

\* Mutant: the leases are not validated again.
resumable_unleased(r, j) ==
    /\ Len(life[r]) = j.seen
    /\ spec[runs[r].task].sha = runs[r].task_sha256
    /\ plan = runs[r].plan_sha256
    /\ claimable(j.view, runs[r].task)

\* The checks of the resume that need the row as the operator read it, the
\* documents and the leases; RunStore has the others.
resumable(r, j) ==
    /\ Len(life[r]) = j.seen
    /\ spec[runs[r].task].sha = runs[r].task_sha256
    /\ plan = runs[r].plan_sha256
    /\ claimable(j.view, runs[r].task)
    /\ validate_live_lease_binding(r, runs[r].task)

resume_claim(c) ==
    /\ cpc[c] = "resuming"
    /\ resumable(cjob[c].run, cjob[c])
    /\ resume_orphaned_run(cjob[c].run)
    /\ Done(c)
    /\ UNCHANGED <<docVars, issued, expired, leases, lapsed>>

-----------------------------------------------------------------------------

\* External, the lease service: a key is leased to one owner at a time; the
\* owner may renew it.
lease_acquire(r, k) ==
    /\ issued[r] # NULL /\ k \in KeysOf[issued[r].task]
    /\ leases[k] # NULL => leases[k].owner = r
    /\ leases' = [leases EXCEPT ![k] = [owner |-> r, left |-> "enough"]]
    /\ UNCHANGED <<runVars, docVars, issued, expired, lapsed, cpc, cjob>>

\* A lease is released after the terminal readback, or before there is a run.
lease_release(k) ==
    /\ leases[k] # NULL /\ ~Active(leases[k].owner)
    /\ leases' = [leases EXCEPT ![k] = NULL]
    /\ UNCHANGED <<runVars, docVars, issued, expired, lapsed, cpc, cjob>>

\* Time passes; an expired lease counts as no lease.
lease_ages(k) ==
    /\ leases[k] # NULL
    /\ leases' = [leases EXCEPT ![k] =
           IF @.left = "enough" THEN [@ EXCEPT !.left = "short"] ELSE NULL]
    /\ lapsed' = IF leases[k].left = "short" /\ Active(leases[k].owner)
                 THEN lapsed \cup {leases[k].owner} ELSE lapsed
    /\ UNCHANGED <<runVars, docVars, issued, expired, cpc, cjob>>

\* The expiry of an intent that has become a run is never looked at.
intent_expires(r) ==
    /\ issued[r] # NULL /\ runs[r] = NULL /\ r \notin expired
    /\ expired' = expired \cup {r}
    /\ UNCHANGED <<runVars, docVars, issued, leases, lapsed, cpc, cjob>>

revise_spec(t) ==
    /\ edits < scenario.edits /\ edits' = edits + 1
    /\ \E s \in Sha \ {spec[t].sha} : spec' = [spec EXCEPT ![t] = [rev |-> @.rev + 1, sha |-> s]]
    /\ UNCHANGED <<runVars, scenario, plan, plans, issued, expired, leases, lapsed, cpc, cjob>>

revise_plan ==
    /\ plans < scenario.plans /\ plans' = plans + 1
    /\ plan' \in Plan \ {plan}
    /\ UNCHANGED <<runVars, scenario, spec, edits, issued, expired, leases, lapsed, cpc, cjob>>

\* The run ends: closed at its revision, failed, or orphaned by reconcile.
close_claimed(r) ==
    /\ Active(r)
    /\ spec[runs[r].task].sha = runs[r].task_sha256 /\ plan = runs[r].plan_sha256
    /\ complete(r)
    /\ UNCHANGED coordVars

fail_claimed(r) == fail_run(r, "failed") /\ UNCHANGED coordVars

silence(r) == heartbeat_lapses(r) /\ UNCHANGED coordVars

reconcile_claimed ==
    /\ reconcile([r \in active_runs |-> NULL], [r \in active_runs |-> "unobserved"])
    /\ UNCHANGED coordVars

CoordNext ==
    \/ \E c \in Caller, q \in Request : look_up(c, q)
    \/ \E c \in Caller, r \in RunId, t \in Task : draft_intent(c, r, t)
    \/ \E c \in Caller : issue_claim_intent(c)
    \/ \E c \in Caller, r \in RunId : check_intent(c, r)
    \/ \E c \in Caller : commit_claim_intent(c)
    \/ \E c \in Caller : write_claim_envelope(c)
    \/ \E c \in Caller : give_up(c)
    \/ \E c \in Caller, r \in RunId : open_resume(c, r)
    \/ \E c \in Caller : resume_claim(c)
    \/ \E r \in RunId, k \in LeaseKey : lease_acquire(r, k)
    \/ \E k \in LeaseKey : lease_release(k)
    \/ \E k \in LeaseKey : lease_ages(k)
    \/ \E r \in RunId : intent_expires(r)
    \/ \E t \in Task : revise_spec(t)
    \/ revise_plan
    \/ \E r \in RunId : close_claimed(r)
    \/ \E r \in RunId : fail_claimed(r)
    \/ \E r \in RunId : silence(r)
    \/ reconcile_claimed

CoordSpec == CoordInit /\ [][CoordNext]_coordAllVars

-----------------------------------------------------------------------------

\* Callers that race with the same idempotency key, or retry it, are all given
\* one intent: issue_claim_intent looks the key up again in its transaction.
OneIntentPerKey ==
    \A r, q \in RunId :
        (issued[r] # NULL /\ issued[q] # NULL /\ issued[r].key = issued[q].key) => r = q

\* Of the intents issued for one attempt of a task, by renewed keys or by other
\* requests, at most one ever becomes a run, also after that run has ended.
OneRunPerAttempt ==
    \A r, q \in RunId :
        (/\ runs[r] # NULL /\ runs[q] # NULL
         /\ issued[r].task = issued[q].task /\ issued[r].attempt = issued[q].attempt) => r = q

\* An intent becomes a run only under the very TaskSpec revision and plan it was
\* issued for, whatever was read before the transaction: a TaskSpec revised and
\* revised back refuses it.
CommitStep ==
    \A r \in RunId : (runs[r] = NULL /\ runs'[r] # NULL) =>
        LET i == issued[r]
        IN  /\ spec[i.task] = [rev |-> i.rev, sha |-> i.sha]
            /\ plan = i.plan
            /\ runs'[r].task_sha256 = i.sha /\ runs'[r].attempt = i.attempt
CommitsAreCurrent == [][CommitStep]_coordAllVars

\* Two active runs need the same leased key only if one of them let its lease
\* expire while it was active: neither a commit nor a resume gets past the
\* lease of another run.
LeaseExclusion ==
    \A r, q \in active_runs :
        (r # q /\ KeysOf[runs[r].task] \cap KeysOf[runs[q].task] # {}) =>
            r \in lapsed \/ q \in lapsed

\* Whoever races, retries, renews, expires or resumes: the variables have their
\* types, a key names one intent, an attempt becomes one run, and an unexpired
\* lease serves one active run.
ClaimsExclusive == CoordTypeOK /\ OneIntentPerKey /\ OneRunPerAttempt /\ LeaseExclusion

\* Every step of the coordinated claim is a step the run tables allow.
CoordImplementsRunStore == Spec
=============================================================================
