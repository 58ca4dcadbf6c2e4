-------------------------- MODULE RunClientsProofs --------------------------
(***************************************************************************)
(* Machine-checked proofs about the two components that write the run      *)
(* tables of RunStore from outside the store.                              *)
(*                                                                         *)
(* CoordinatedClaim, for every set of callers, requests, tasks, runs and   *)
(* lease keys: the coordinated claim implements the run tables, an intent  *)
(* becomes a run only under the documents it was issued for, and keys,     *)
(* attempts and leases are exclusive.                                      *)
(*                                                                         *)
(* ClosePath, for every set of closers, tasks and runs and any number of   *)
(* edits: closing implements the run tables, and what a first close        *)
(* certifies is current when it commits, up to the window the registry     *)
(* files leave open.                                                       *)
(***************************************************************************)
EXTENDS CoordinatedClaim, ClosePath, RunStoreProofs, WellFoundedInduction, FiniteSetTheorems

\* Time for each leaf: the provers are given more than their default.
USE ZenonT(60), SMTT(60)

-----------------------------------------------------------------------------
\* The coordinated claim (CoordinatedClaim).

View == [spec : [Task -> SpecRow], plan : Plan]
Pc == {"idle", "selecting", "drafted", "checked", "committed", "resuming"}

\* What a caller at l has in its job: the fields the next step reads.  An intent
\* that is only drafted has a run id nobody has been issued.
JobShape(l, j) ==
    /\ l # "idle" => j \in Job
    /\ l = "selecting" => j.view \in View /\ j.request \in Request /\ j.key \in Key
    /\ l \in {"drafted", "checked", "committed", "resuming"} => j.run \in RunId
    /\ l = "drafted" =>
         j.draft \in Issuance /\ j.draft.key = j.key /\ issued[j.run] = NULL
    /\ l = "checked" => issued[j.run] # NULL

Jobs == \A c \in Caller : JobShape(cpc[c], cjob[c])

\* Two drafts never carry the same run id.
DraftsApart ==
    \A c, d \in Caller :
        (c # d /\ cpc[c] = "drafted" /\ cpc[d] = "drafted") => cjob[c].run # cjob[d].run

\* A run is the run of its intent.
RunsIssued ==
    \A r \in RunId : runs[r] # NULL =>
        /\ issued[r] # NULL
        /\ issued[r].task = runs[r].task /\ issued[r].attempt = runs[r].attempt

\* The attempts of a task are numbered below the next one, each once.
AttemptsNumbered ==
    /\ \A t \in Task, r \in RunId :
           (runs[r] # NULL /\ runs[r].task = t) => runs[r].attempt < next_attempt(t)
    /\ \A r, q \in RunId :
           (/\ runs[r] # NULL /\ runs[q] # NULL
            /\ runs[r].task = runs[q].task /\ runs[r].attempt = runs[q].attempt) => r = q

\* An active run holds the lease of every key it needs until one has expired.
LeasesHeld ==
    \A r \in active_runs \ lapsed : \A k \in KeysOf[runs[r].task] :
        leases[k] # NULL /\ leases[k].owner = r

\* The inductive invariant.
CoordInv ==
    /\ IInv /\ CoordTypeOK
    /\ Jobs /\ DraftsApart /\ OneIntentPerKey
    /\ RunsIssued /\ AttemptsNumbered
    /\ LeasesHeld

-----------------------------------------------------------------------------

\* The commit that inserts a run, with what its transaction has compared.
Admitted(c) ==
    LET r == cjob[c].run
        i == issued[r]
    IN  /\ cpc[c] = "checked"
        /\ still_current(i, cjob[c].view)
        /\ validate_live_lease_binding(r, i.task)
        /\ claim(r, i.task, i.worker, i.sha, plan, TRUE)
        /\ Start(c, "committed", [cjob[c] EXCEPT !.view = NULL])
        /\ UNCHANGED <<docVars, issued, expired, leases, lapsed>>

\* The transaction of commit_claim_intent inserts the run or changes no table.
LEMMA CommitCases ==
    ASSUME NEW c \in Caller, commit_claim_intent(c)
    PROVE  \/ Admitted(c)
           \/ UNCHANGED runVars /\ Done(c)
  BY DEF commit_claim_intent, Admitted

\* The run ends or rests: the steps of other commands on a claimed run.
RunGoesOn(r) ==
    \/ fail_run(r, "failed")
    \/ complete(r)
    \/ heartbeat_lapses(r)

\* What the steps of the coordinated claim do to the run tables.
LEMMA TableEffect ==
    ASSUME CoordInv, [CoordNext]_coordAllVars
    PROVE  \/ UNCHANGED runVars
           \/ \E c \in Caller : Admitted(c)
           \/ \E r \in RunId : RunGoesOn(r)
           \/ \E c \in Caller : resume_claim(c)
           \/ reconcile_claimed
  <1>1. CASE UNCHANGED coordAllVars
    BY <1>1 DEF coordAllVars
  <1>2. CASE \E c \in Caller : commit_claim_intent(c)
    BY <1>2, CommitCases
  <1>3. CASE \E c \in Caller : write_claim_envelope(c)
    BY <1>3 DEF write_claim_envelope, RunGoesOn, CoordInv, Jobs, JobShape
  <1>4. CASE \E r \in RunId : close_claimed(r) \/ fail_claimed(r) \/ silence(r)
    BY <1>4 DEF close_claimed, fail_claimed, silence, RunGoesOn
  <1>5. CASE \/ \E c \in Caller, q \in Request : look_up(c, q)
             \/ \E c \in Caller, r \in RunId, t \in Task : draft_intent(c, r, t)
             \/ \E c \in Caller : issue_claim_intent(c)
             \/ \E c \in Caller, r \in RunId : check_intent(c, r)
             \/ \E c \in Caller : give_up(c)
             \/ \E c \in Caller, r \in RunId : open_resume(c, r)
    BY <1>5 DEF look_up, draft_intent, issue_claim_intent, check_intent, give_up, open_resume
  <1>6. CASE \/ \E r \in RunId, k \in LeaseKey : lease_acquire(r, k)
             \/ \E k \in LeaseKey : lease_release(k)
             \/ \E k \in LeaseKey : lease_ages(k)
             \/ \E r \in RunId : intent_expires(r)
             \/ \E t \in Task : revise_spec(t)
             \/ revise_plan
    BY <1>6 DEF lease_acquire, lease_release, lease_ages, intent_expires, revise_spec,
       revise_plan
  <1> QED
    BY <1>1, <1>2, <1>3, <1>4, <1>5, <1>6 DEF CoordNext

\* An admitted commit is a claim of the run tables, with the values of its intent.
LEMMA AdmittedClaims ==
    ASSUME CoordInv, NEW c \in Caller, Admitted(c)
    PROVE  LET r == cjob[c].run
               i == issued[r]
           IN  /\ r \in RunId /\ i \in Issuance
               /\ i.task \in Task /\ i.worker \in Worker /\ i.sha \in Sha /\ plan \in Plan
               /\ claim(r, i.task, i.worker, i.sha, plan, TRUE)
  <1>1. cjob[c].run \in RunId /\ issued[cjob[c].run] # NULL
    BY DEF CoordInv, Jobs, JobShape, Admitted
  <1>2. issued[cjob[c].run] \in Issuance /\ plan \in Plan
    BY <1>1 DEF CoordInv, CoordTypeOK
  <1> QED
    BY <1>1, <1>2 DEF Admitted, Issuance

\* Every step of the coordinated claim is a step of the run tables or leaves
\* them alone.
LEMMA StepRefines ==
    ASSUME CoordInv, [CoordNext]_coordAllVars
    PROVE  [Next]_runVars
  <1>1. CASE \E c \in Caller : Admitted(c)
    <2>1. PICK c \in Caller : Admitted(c)
      BY <1>1
    <2> QED
      BY <2>1, AdmittedClaims, CoordinatedAssumption DEF Next
  <1>2. CASE \E r \in RunId : RunGoesOn(r)
    BY <1>2 DEF RunGoesOn, Next
  <1>3. CASE \E c \in Caller : resume_claim(c)
    BY <1>3 DEF resume_claim, CoordInv, Jobs, JobShape, Next
  <1>4. CASE reconcile_claimed
    <2>1. /\ [r \in active_runs |-> NULL] \in [active_runs -> ExtId \cup {NULL}]
          /\ [r \in active_runs |-> "unobserved"] \in [active_runs -> Observation]
      BY DEF Observation
    <2> QED
      BY <1>4, <2>1 DEF reconcile_claimed, Reconcile, Next
  <1> QED
    BY <1>1, <1>2, <1>3, <1>4, TableEffect

-----------------------------------------------------------------------------

\* The runs of a task, as next_attempt counts them.
RunsOf(t) == {r \in RunId : runs[r] # NULL /\ runs[r].task = t}

\* A step that claims nothing: the same runs exist, for the same attempts.
RunsKept ==
    \A r \in RunId :
        /\ runs'[r] = NULL <=> runs[r] = NULL
        /\ runs[r] # NULL => runs'[r].task = runs[r].task /\ runs'[r].attempt = runs[r].attempt

\* Such a step leaves the next attempt of every task as it is.
LEMMA AttemptKept ==
    ASSUME RunsKept, NEW t \in Task
    PROVE  next_attempt(t)' = next_attempt(t)
  <1>1. RunsOf(t)' = RunsOf(t)
    BY DEF RunsKept, RunsOf
  <1> QED
    BY <1>1 DEF next_attempt, RunsOf

\* A claim raises the next attempt of its task by one and of no other task.
LEMMA AttemptRaised ==
    ASSUME TypeOK, NEW r \in RunId, NEW t \in Task, NEW w \in Worker, NEW s \in Sha,
           NEW p \in Plan, claim(r, t, w, s, p, TRUE)
    PROVE  /\ next_attempt(t)' = next_attempt(t) + 1
           /\ \A u \in Task \ {t} : next_attempt(u)' = next_attempt(u)
  <1>0. /\ runs'[r].task = t /\ runs'[r] \in RunRow /\ runs[r] = NULL
        /\ \A q \in RunId \ {r} : runs'[q] = runs[q]
    BY ZenonT(100), AttemptType DEF claim, TypeOK, RunRow, ACTIVE_STATES
  <1>1. /\ runs'[r].task = t /\ runs'[r] # NULL /\ runs[r] = NULL
        /\ \A q \in RunId \ {r} : runs'[q] = runs[q]
    BY <1>0, NullAssumption
  <1>2. RunsOf(t)' = RunsOf(t) \cup {r} /\ r \notin RunsOf(t)
    BY <1>1 DEF RunsOf
  <1>3. IsFiniteSet(RunsOf(t))
    BY RunStoreAssumption, FS_Subset DEF RunsOf
  <1>4. Cardinality(RunsOf(t)') = Cardinality(RunsOf(t)) + 1
    BY <1>2, <1>3, FS_AddElement
  <1>5. Cardinality(RunsOf(t)) \in Nat
    BY <1>3, FS_CardinalityType
  <1>6. next_attempt(t)' = next_attempt(t) + 1
    BY <1>4, <1>5 DEF next_attempt, RunsOf
  <1>7. ASSUME NEW u \in Task, u # t
        PROVE  next_attempt(u)' = next_attempt(u)
    <2>1. RunsOf(u)' = RunsOf(u)
      BY SMTT(60), <1>1, <1>7 DEF RunsOf
    <2> QED
      BY <2>1 DEF next_attempt, RunsOf
  <1> QED
    BY <1>6, <1>7

\* Every step but an admitted commit keeps the runs, and lets no run become
\* active but the one a resume was validated for.
LEMMA KeptOrClaimed ==
    ASSUME CoordInv, [CoordNext]_coordAllVars, ~\E c \in Caller : Admitted(c)
    PROVE  /\ RunsKept
           /\ \A r \in RunId : Active(r)' =>
                \/ Active(r)
                \/ \E c \in Caller : resume_claim(c) /\ cjob[c].run = r
  <1>1. TypeOK /\ BindingStep
    BY StepRefines, BindingPreserved DEF CoordInv, IInv
  <1>2. ASSUME NEW q \in RunId, NEW row, runs' = [runs EXCEPT ![q] = row], runs[q] # NULL
        PROVE  \A r \in RunId : runs[r] = NULL => runs'[r] = NULL
    BY <1>1, <1>2 DEF TypeOK
  <1>3. \A r \in RunId : runs[r] = NULL => runs'[r] = NULL
    <2>1. CASE UNCHANGED runVars
      BY <2>1 DEF runVars
    <2>2. CASE \E r \in RunId : RunGoesOn(r)
      BY <1>2, <2>2 DEF RunGoesOn, fail_run, complete, heartbeat_lapses, Active
    <2>3. CASE \E c \in Caller : resume_claim(c)
      BY ZenonT(100), <1>2, <2>3 DEF resume_claim, resume_orphaned_run, CoordInv, Jobs, JobShape
    <2>4. CASE reconcile_claimed
      BY <2>4 DEF reconcile_claimed, reconcile, active_runs, Active
    <2> QED
      BY <2>1, <2>2, <2>3, <2>4, TableEffect
  <1>4. RunsKept
    BY <1>1, <1>3 DEF RunsKept, BindingStep
  <1>5. ASSUME NEW r \in RunId, Active(r)'
        PROVE  Active(r) \/ \E c \in Caller : resume_claim(c) /\ cjob[c].run = r
    <2>1. CASE UNCHANGED runVars
      BY <1>5, <2>1 DEF runVars, Active
    <2>2. CASE \E q \in RunId : RunGoesOn(q)
      <3>1. PICK q \in RunId : RunGoesOn(q)
        BY <2>2
      <3>2. Active(q) /\ \A p \in RunId \ {q} : runs'[p] = runs[p]
        BY <1>1, <3>1 DEF RunGoesOn, fail_run, complete, heartbeat_lapses, TypeOK
      <3> QED
        BY <1>5, <3>2 DEF Active
    <2>3. CASE \E c \in Caller : resume_claim(c)
      <3>1. PICK c \in Caller : resume_claim(c)
        BY <2>3
      <3>2. \A p \in RunId \ {cjob[c].run} : runs'[p] = runs[p]
        BY <1>1, <3>1 DEF resume_claim, resume_orphaned_run, TypeOK
      <3> QED
        BY <1>5, <3>1, <3>2 DEF Active
    <2>4. CASE reconcile_claimed
      BY <1>5, <2>4 DEF reconcile_claimed, reconcile, active_runs, Active
    <2> QED
      BY <2>1, <2>2, <2>3, <2>4, TableEffect
  <1> QED
    BY <1>4, <1>5

-----------------------------------------------------------------------------

\* A caller that goes to l with job j: the local states stay well formed.
LEMMA CallerStep ==
    ASSUME CoordInv, NEW c \in Caller, NEW l \in Pc, NEW j \in Job \cup {NULL},
           Start(c, l, j), issued' = issued, JobShape(l, j),
           l = "drafted" =>
               \A d \in Caller : (d # c /\ cpc[d] = "drafted") => cjob[d].run # j.run
    PROVE  /\ cpc' \in [Caller -> Pc] /\ cjob' \in [Caller -> Job \cup {NULL}]
           /\ Jobs' /\ DraftsApart'
  <1>1. cpc \in [Caller -> Pc] /\ cjob \in [Caller -> Job \cup {NULL}]
    BY DEF CoordInv, CoordTypeOK, Pc
  <1>2. /\ cpc' \in [Caller -> Pc] /\ cjob' \in [Caller -> Job \cup {NULL}]
        /\ cpc'[c] = l /\ cjob'[c] = j
        /\ \A d \in Caller \ {c} : cpc'[d] = cpc[d] /\ cjob'[d] = cjob[d]
    BY <1>1 DEF Start
  <1>3. Jobs'
    BY SMTT(60), <1>2 DEF CoordInv, Jobs, JobShape
  <1>4. DraftsApart'
    BY SMTT(60), <1>2 DEF CoordInv, DraftsApart
  <1> QED
    BY <1>2, <1>3, <1>4

\* So it is for a caller that returns, raises or dies.
LEMMA DoneStep ==
    ASSUME CoordInv, NEW c \in Caller, Done(c), issued' = issued
    PROVE  /\ cpc' \in [Caller -> Pc] /\ cjob' \in [Caller -> Job \cup {NULL}]
           /\ Jobs' /\ DraftsApart'
  BY CallerStep DEF Done, JobShape, Pc

\* The local state of every caller, and the issuances, are well formed after
\* every step.
LocalOK ==
    /\ issued \in [RunId -> Issuance \cup {NULL}]
    /\ cpc \in [Caller -> Pc] /\ cjob \in [Caller -> Job \cup {NULL}]
    /\ Jobs /\ DraftsApart

\* A caller that has just constructed its Dispatcher, for a request.
LEMMA ReadRequestType ==
    ASSUME CoordInv, NEW q \in Request, NEW k \in Key
    PROVE  /\ [Read EXCEPT !.request = q, !.key = k] \in Job
           /\ [Read EXCEPT !.request = q, !.key = k].view \in View
           /\ [Read EXCEPT !.request = q, !.key = k].request = q
           /\ [Read EXCEPT !.request = q, !.key = k].key = k
  <1>1. [spec |-> spec, plan |-> plan] \in View
    BY DEF CoordInv, CoordTypeOK, View
  <1> QED
    BY <1>1 DEF Read, Job, View

\* The same for the commit or the resume of a run.
LEMMA ReadRunType ==
    ASSUME CoordInv, NEW r \in RunId, NEW n \in Nat
    PROVE  /\ [Read EXCEPT !.run = r] \in Job /\ [Read EXCEPT !.run = r].run = r
           /\ [Read EXCEPT !.run = r, !.seen = n] \in Job
           /\ [Read EXCEPT !.run = r, !.seen = n].run = r
  <1>1. [spec |-> spec, plan |-> plan] \in View
    BY DEF CoordInv, CoordTypeOK, View
  <1> QED
    BY <1>1 DEF Read, Job, View

\* A set of natural numbers has a least element.
LEMMA LeastNat ==
    ASSUME NEW S \in SUBSET Nat, S # {}
    PROVE  \E n \in S : \A m \in S : n <= m
  <1> DEFINE R == OpToRel(<, Nat)
  <1>1. IsWellFoundedOn(R, Nat)
    BY NatLessThanWellFounded
  <1>2. \A a, b \in Nat : a < b => <<a, b>> \in R
    BY DEF OpToRel
  <1> HIDE DEF R
  <1>3. PICK n \in S : \A m \in S : ~(<<m, n>> \in R)
    BY <1>1, WFMin
  <1>4. \A m \in S : m \in Nat /\ ~(m < n)
    BY <1>2, <1>3
  <1>5. \A a, b \in Nat : ~(a < b) => b <= a
    OBVIOUS
  <1> QED
    BY <1>4, <1>5

\* The key of a request is the given one or the first automatic key in use.
LEMMA KeyType ==
    ASSUME NEW q \in Request, effective_key(q) # NULL
    PROVE  effective_key(q) \in Key
  <1>1. CASE ExplicitKey[q] # NULL
    BY <1>1 DEF effective_key, Key
  <1>2. CASE ExplicitKey[q] = NULL
    <2> DEFINE free == {n \in 0 .. MaxRenewal : ~given_up(<<q, n>>)}
               first == CHOOSE n \in free : \A m \in free : n <= m
    <2>1. effective_key(q) = <<q, first>> /\ free # {}
      BY <1>2 DEF effective_key
    <2>2. free \in SUBSET Nat
      BY SMTT(60), CoordinatedAssumption
    <2> HIDE DEF free
    <2>3. \E n \in free : \A m \in free : n <= m
      BY <2>1, <2>2, LeastNat
    <2>4. first \in free
      BY <2>3
    <2>5. first \in 0 .. MaxRenewal
      BY <2>4 DEF free
    <2> HIDE DEF first
    <2> QED
      BY <2>1, <2>5 DEF Key
  <1> QED
    BY <1>1, <1>2

\* The draft is an intent for the task and the documents the caller has read.
LEMMA DraftType ==
    ASSUME CoordInv, NEW c \in Caller, NEW r \in RunId, NEW t \in Task, draft_intent(c, r, t)
    PROVE  /\ cjob'[c] \in Job /\ cjob'[c].run = r
           /\ cjob'[c].draft \in Issuance /\ cjob'[c].draft.key = cjob'[c].key
           /\ Start(c, "drafted", cjob'[c])
  <1> DEFINE j == cjob[c]
             i == [key |-> j.key, request |-> j.request, task |-> t,
                   worker |-> RequestWorker[j.request],
                   sha |-> j.view.spec[t].sha, plan |-> plan, rev |-> j.view.spec[t].rev,
                   state |-> effective_state(j.view, t), attempt |-> next_attempt(t)]
             new == [j EXCEPT !.view = NULL, !.request = NULL, !.run = r, !.draft = i]
  <1>1. j \in Job /\ j.view \in View /\ j.request \in Request /\ j.key \in Key
    BY DEF draft_intent, CoordInv, Jobs, JobShape
  <1>2. j.view.spec[t] \in SpecRow
    BY <1>1 DEF View
  <1>3. effective_state(j.view, t) \in EffectiveState
    BY DEF effective_state, EffectiveState
  <1>4. plan \in Plan /\ RequestWorker[j.request] \in Worker
    BY <1>1, CoordinatedAssumption DEF CoordInv, CoordTypeOK
  <1>5. i \in Issuance /\ i.key = j.key
    BY <1>1, <1>2, <1>3, <1>4, AttemptType DEF Issuance, SpecRow
  <1>6. Start(c, "drafted", new)
    BY DEF draft_intent
  <1> HIDE DEF i
  <1>7. new \in Job /\ new.run = r /\ new.draft = i /\ new.key = j.key
    BY <1>1, <1>5 DEF Job
  <1> HIDE DEF new
  <1>8. cjob'[c] = new
    BY <1>6 DEF Start, CoordInv, CoordTypeOK
  <1> QED
    BY <1>5, <1>6, <1>7, <1>8

\* Issuing fixes the run id of a draft once and for all: no other draft and no
\* issued intent carries it.
LEMMA IssueLocal ==
    ASSUME CoordInv, NEW c \in Caller, issue_claim_intent(c)
    PROVE  LocalOK' /\ OneIntentPerKey'
           /\ \A r \in RunId : issued[r] # NULL => issued'[r] = issued[r]
  <1> DEFINE j == cjob[c]
  <1>1. /\ cpc[c] = "drafted" /\ j \in Job /\ j.run \in RunId /\ j.draft \in Issuance
        /\ j.draft.key = j.key /\ issued[j.run] = NULL
    BY DEF issue_claim_intent, CoordInv, Jobs, JobShape
  <1>2. issued \in [RunId -> Issuance \cup {NULL}]
    BY DEF CoordInv, CoordTypeOK
  <1>3. CASE issued' = issued
    BY <1>2, <1>3, DoneStep DEF issue_claim_intent, LocalOK, CoordInv, OneIntentPerKey
  <1>4. CASE issuances(j.key) = {} /\ issued' = [issued EXCEPT ![j.run] = j.draft]
    <2>1. /\ issued' \in [RunId -> Issuance \cup {NULL}]
          /\ issued'[j.run] = j.draft /\ j.draft # NULL
          /\ \A r \in RunId \ {j.run} : issued'[r] = issued[r]
      BY <1>1, <1>2, <1>4, CoordinatedNullAssumption
    <2>2. \A r \in RunId : issued[r] # NULL => issued'[r] = issued[r]
      BY <1>1, <2>1
    <2>3. OneIntentPerKey'
      <3>1. \A r \in RunId : issued[r] # NULL => issued[r].key # j.key
        BY <1>4 DEF issuances
      <3> QED
        BY SMTT(60), <1>1, <2>1, <3>1 DEF CoordInv, OneIntentPerKey
    <2>4. /\ cpc \in [Caller -> Pc] /\ cjob \in [Caller -> Job \cup {NULL}]
          /\ cpc' = [cpc EXCEPT ![c] = "idle"] /\ cjob' = [cjob EXCEPT ![c] = NULL]
      BY DEF CoordInv, CoordTypeOK, Pc, issue_claim_intent, Done, Start
    <2>5. /\ cpc' \in [Caller -> Pc] /\ cjob' \in [Caller -> Job \cup {NULL}]
          /\ cpc'[c] = "idle"
          /\ \A d \in Caller \ {c} : cpc'[d] = cpc[d] /\ cjob'[d] = cjob[d]
      BY <2>4 DEF Pc
    <2>6. DraftsApart'
      BY ZenonT(100), <2>5 DEF CoordInv, DraftsApart
    <2>7. ASSUME NEW d \in Caller
          PROVE  JobShape(cpc[d], cjob[d])'
      <3>1. CASE d = c
        BY <2>5, <3>1 DEF JobShape
      <3>2. CASE d # c
        <4>1. JobShape(cpc[d], cjob[d])
          BY DEF CoordInv, Jobs
        <4>2. cpc[d] = "drafted" => cjob[d].run # j.run
          BY <1>1, <3>2 DEF CoordInv, DraftsApart
        <4>3. cpc'[d] = cpc[d] /\ cjob'[d] = cjob[d]
          BY <2>5, <3>2
        <4> QED
          BY <2>1, <2>2, <4>1, <4>2, <4>3 DEF JobShape
      <3> QED
        BY <3>1, <3>2
    <2> QED
      BY <2>1, <2>2, <2>3, <2>5, <2>6, <2>7 DEF LocalOK, Jobs
  <1> QED
    BY <1>3, <1>4 DEF issue_claim_intent

\* Every other step issues nothing and keeps the local states well formed.
LEMMA LocalStep ==
    ASSUME CoordInv, [CoordNext]_coordAllVars, ~\E c \in Caller : issue_claim_intent(c)
    PROVE  LocalOK' /\ issued' = issued
  <1> USE DEF LocalOK
  <1>0. issued \in [RunId -> Issuance \cup {NULL}]
    BY DEF CoordInv, CoordTypeOK
  <1>1. ASSUME UNCHANGED <<issued, cpc, cjob>>
        PROVE  LocalOK' /\ issued' = issued
    BY <1>1 DEF CoordInv, CoordTypeOK, Jobs, JobShape, DraftsApart, Pc
  <1>2. CASE UNCHANGED coordAllVars
    BY <1>1, <1>2 DEF coordAllVars, coordVars
  <1>3. ASSUME NEW c \in Caller, NEW q \in Request, look_up(c, q)
        PROVE  LocalOK' /\ issued' = issued
    <2> DEFINE j == [Read EXCEPT !.request = q, !.key = effective_key(q)]
    <2>1. effective_key(q) \in Key
      BY <1>3, KeyType DEF look_up
    <2>2. j \in Job /\ j.view \in View /\ j.request = q /\ j.key \in Key
      BY <2>1, ReadRequestType
    <2>3. Start(c, "selecting", j) /\ issued' = issued
      BY <1>3 DEF look_up
    <2> HIDE DEF j
    <2>4. JobShape("selecting", j)
      BY <2>2 DEF JobShape
    <2> QED
      BY <1>0, <2>2, <2>3, <2>4, CallerStep DEF Pc
  <1>4. ASSUME NEW c \in Caller, NEW r \in RunId, NEW t \in Task, draft_intent(c, r, t)
        PROVE  LocalOK' /\ issued' = issued
    <2> DEFINE j == cjob'[c]
    <2>1. /\ j \in Job /\ j.run = r /\ j.draft \in Issuance /\ j.draft.key = j.key
          /\ Start(c, "drafted", j)
      BY <1>4, DraftType
    <2>2. issued' = issued /\ issued[r] = NULL
      BY <1>4 DEF draft_intent
    <2>3. ASSUME NEW d \in Caller, cpc[d] = "drafted"
          PROVE  cjob[d].run # r
      <3>1. cjob[d] \in Job
        BY <2>3 DEF CoordInv, Jobs, JobShape
      <3> QED
        BY <1>4, <3>1, CoordinatedNullAssumption DEF draft_intent
    <2> HIDE DEF j
    <2>4. JobShape("drafted", j)
      BY <2>1, <2>2 DEF JobShape
    <2> QED
      BY <1>0, <2>1, <2>2, <2>3, <2>4, CallerStep DEF Pc
  <1>5. ASSUME NEW c \in Caller, NEW r \in RunId, check_intent(c, r)
        PROVE  LocalOK' /\ issued' = issued
    <2> DEFINE j == [Read EXCEPT !.run = r]
    <2>1. j \in Job /\ j.run = r
      BY ReadRunType
    <2>2. Start(c, "checked", j) /\ issued' = issued /\ issued[r] # NULL
      BY <1>5 DEF check_intent
    <2> HIDE DEF j
    <2>3. JobShape("checked", j)
      BY <2>1, <2>2 DEF JobShape
    <2> QED
      BY <1>0, <2>1, <2>2, <2>3, CallerStep DEF Pc
  <1>6. ASSUME NEW c \in Caller, commit_claim_intent(c)
        PROVE  LocalOK' /\ issued' = issued
    <2>1. issued' = issued
      BY <1>6 DEF commit_claim_intent
    <2>2. CASE Done(c)
      BY <1>0, <2>1, <2>2, DoneStep
    <2>3. CASE Admitted(c)
      <3> DEFINE j == [cjob[c] EXCEPT !.view = NULL]
      <3>1. cjob[c] \in Job /\ cjob[c].run \in RunId
        BY <2>3 DEF Admitted, CoordInv, Jobs, JobShape
      <3>2. j \in Job /\ j.run \in RunId
        BY <3>1 DEF Job
      <3>3. Start(c, "committed", j)
        BY <2>3 DEF Admitted
      <3> HIDE DEF j
      <3>4. JobShape("committed", j)
        BY <3>2 DEF JobShape
      <3> QED
        BY <1>0, <2>1, <3>2, <3>3, <3>4, CallerStep DEF Pc
    <2> QED
      BY <1>6, <2>2, <2>3, CommitCases
  <1>7. ASSUME NEW c \in Caller, write_claim_envelope(c) \/ give_up(c) \/ resume_claim(c)
        PROVE  LocalOK' /\ issued' = issued
    BY <1>0, <1>7, DoneStep DEF write_claim_envelope, give_up, resume_claim
  <1>8. ASSUME NEW c \in Caller, NEW r \in RunId, open_resume(c, r)
        PROVE  LocalOK' /\ issued' = issued
    <2> DEFINE j == [Read EXCEPT !.run = r, !.seen = Len(life[r])]
    <2>1. Len(life[r]) \in Nat
      BY SMTT(60) DEF CoordInv, IInv, TypeOK
    <2>2. j \in Job /\ j.run = r
      BY <2>1, ReadRunType
    <2>3. Start(c, "resuming", j) /\ issued' = issued
      BY <1>8 DEF open_resume
    <2> HIDE DEF j
    <2>4. JobShape("resuming", j)
      BY <2>2 DEF JobShape
    <2> QED
      BY <1>0, <2>2, <2>3, <2>4, CallerStep DEF Pc
  <1>9. CASE \/ \E r \in RunId, k \in LeaseKey : lease_acquire(r, k)
             \/ \E k \in LeaseKey : lease_release(k) \/ lease_ages(k)
             \/ \E r \in RunId : intent_expires(r)
             \/ \E t \in Task : revise_spec(t)
             \/ revise_plan
    BY <1>1, <1>9 DEF lease_acquire, lease_release, lease_ages, intent_expires, revise_spec,
       revise_plan
  <1>10. CASE \/ \E r \in RunId : close_claimed(r) \/ fail_claimed(r) \/ silence(r)
              \/ reconcile_claimed
    BY <1>1, <1>10 DEF close_claimed, fail_claimed, silence, reconcile_claimed, coordVars
  <1> QED
    BY <1>2, <1>3, <1>4, <1>5, <1>6, <1>7, <1>8, <1>9, <1>10 DEF CoordNext

\* Issuances only ever come to be.
LEMMA IssuedStep ==
    ASSUME CoordInv, [CoordNext]_coordAllVars
    PROVE  /\ LocalOK' /\ OneIntentPerKey'
           /\ \A r \in RunId : issued[r] # NULL => issued'[r] = issued[r]
  <1>1. CASE \E c \in Caller : issue_claim_intent(c)
    BY <1>1, IssueLocal
  <1>2. CASE ~\E c \in Caller : issue_claim_intent(c)
    BY <1>2, LocalStep DEF CoordInv, OneIntentPerKey
  <1> QED
    BY <1>1, <1>2

-----------------------------------------------------------------------------

\* The documents, the expiries and the leases have their types after every step.
LEMMA DocStep ==
    ASSUME CoordInv, [CoordNext]_coordAllVars
    PROVE  /\ spec' \in [Task -> SpecRow] /\ plan' \in Plan /\ scenario' \in Scenario
           /\ edits' \in 0 .. scenario'.edits /\ plans' \in 0 .. scenario'.plans
           /\ expired' \subseteq RunId /\ lapsed' \subseteq RunId
           /\ leases' \in [LeaseKey -> Lease \cup {NULL}]
  <1> USE DEF CoordInv, CoordTypeOK
  <1>0. scenario.edits \in Nat /\ scenario.plans \in Nat
    BY CoordinatedAssumption DEF Scenarios
  <1>1. CASE UNCHANGED <<docVars, expired, leases, lapsed>>
    BY <1>1 DEF docVars
  <1>2. ASSUME NEW r \in RunId, NEW k \in LeaseKey, lease_acquire(r, k)
        PROVE  leases' \in [LeaseKey -> Lease \cup {NULL}]
    BY <1>2 DEF lease_acquire, Lease
  <1>3. ASSUME NEW k \in LeaseKey, lease_release(k)
        PROVE  leases' \in [LeaseKey -> Lease \cup {NULL}]
    BY <1>3 DEF lease_release
  <1>4. ASSUME NEW k \in LeaseKey, lease_ages(k)
        PROVE  leases' \in [LeaseKey -> Lease \cup {NULL}] /\ lapsed' \subseteq RunId
    <2>1. leases[k] \in Lease
      BY <1>4 DEF lease_ages
    <2> QED
      BY <1>4, <2>1 DEF lease_ages, Lease
  <1>5. ASSUME NEW t \in Task, revise_spec(t)
        PROVE  spec' \in [Task -> SpecRow] /\ edits' \in 0 .. scenario.edits
    <2>1. edits' \in 0 .. scenario.edits
      BY SMTT(60), <1>0, <1>5 DEF revise_spec
    <2>2. PICK s \in Sha : spec' = [spec EXCEPT ![t] = [rev |-> spec[t].rev + 1, sha |-> s]]
      BY <1>5 DEF revise_spec
    <2>3. [rev |-> spec[t].rev + 1, sha |-> s] \in SpecRow
      BY SMTT(60) DEF SpecRow
    <2> QED
      BY <2>1, <2>2, <2>3
  <1>6. CASE \E r \in RunId, k \in LeaseKey : lease_acquire(r, k)
    BY <1>2, <1>6 DEF lease_acquire, docVars
  <1>7. CASE \E k \in LeaseKey : lease_release(k)
    BY <1>3, <1>7 DEF lease_release, docVars
  <1>8. CASE \E k \in LeaseKey : lease_ages(k)
    BY <1>4, <1>8 DEF lease_ages, docVars
  <1>9. CASE \E r \in RunId : intent_expires(r)
    BY <1>9 DEF intent_expires, docVars
  <1>10. CASE \E t \in Task : revise_spec(t)
    BY <1>5, <1>10 DEF revise_spec
  <1>11. CASE revise_plan
    BY SMTT(60), <1>0, <1>11 DEF revise_plan
  <1>12. CASE \/ UNCHANGED coordAllVars
              \/ \E c \in Caller, q \in Request : look_up(c, q)
              \/ \E c \in Caller, r \in RunId, t \in Task : draft_intent(c, r, t)
              \/ \E c \in Caller : issue_claim_intent(c) \/ commit_claim_intent(c)
                                   \/ write_claim_envelope(c) \/ give_up(c) \/ resume_claim(c)
              \/ \E c \in Caller, r \in RunId : check_intent(c, r) \/ open_resume(c, r)
              \/ \E r \in RunId : close_claimed(r) \/ fail_claimed(r) \/ silence(r)
              \/ reconcile_claimed
    <2>1. UNCHANGED <<docVars, expired, leases, lapsed>>
      BY <1>12 DEF coordAllVars, coordVars, look_up, draft_intent, issue_claim_intent,
         commit_claim_intent, write_claim_envelope, give_up, resume_claim, check_intent,
         open_resume, close_claimed, fail_claimed, silence, reconcile_claimed
    <2> QED
      BY <1>1, <2>1
  <1> QED
    BY <1>6, <1>7, <1>8, <1>9, <1>10, <1>11, <1>12 DEF CoordNext

\* An admitted commit gives its run the attempt the intent was issued for, one
\* no run of the task has.
LEMMA AttemptsAdmitted ==
    ASSUME CoordInv, NEW c \in Caller, Admitted(c)
    PROVE  RunsIssued' /\ AttemptsNumbered'
  <1>0. PICK r \in RunId, i \in Issuance : r = cjob[c].run /\ i = issued[r]
    BY AdmittedClaims
  <1>1. /\ i.task \in Task /\ i.worker \in Worker /\ i.sha \in Sha /\ plan \in Plan
        /\ claim(r, i.task, i.worker, i.sha, plan, TRUE)
    BY <1>0, AdmittedClaims
  <1>2. i # NULL /\ issued' = issued /\ next_attempt(i.task) = i.attempt
    BY <1>0, CoordinatedNullAssumption DEF Admitted, still_current
  <1>3. TypeOK
    BY DEF CoordInv, IInv
  <1>4. /\ runs'[r].task = i.task /\ runs'[r].attempt = next_attempt(i.task)
        /\ runs[r] = NULL
        /\ \A q \in RunId \ {r} : runs'[q] = runs[q]
    BY <1>1, <1>3 DEF claim, TypeOK
  <1>5. \A q \in RunId : runs[q] # NULL => runs[q].task \in Task /\ runs[q].attempt \in Nat
    BY <1>3 DEF TypeOK, RunRow
  <1>6. /\ next_attempt(i.task)' = next_attempt(i.task) + 1
        /\ \A u \in Task \ {i.task} : next_attempt(u)' = next_attempt(u)
        /\ next_attempt(i.task) \in Nat
    BY <1>1, <1>3, AttemptRaised, AttemptType
  <1>7. RunsIssued'
    BY ZenonT(100), <1>0, <1>2, <1>4 DEF CoordInv, RunsIssued
  <1>8. ASSUME NEW t \in Task, NEW q \in RunId, runs'[q] # NULL, runs'[q].task = t
        PROVE  runs'[q].attempt < next_attempt(t)'
    <2>1. next_attempt(t) \in Nat
      BY AttemptType
    <2>2. next_attempt(t)' \in {next_attempt(t), next_attempt(t) + 1}
      BY <1>6
    <2>3. CASE q = r
      BY <1>4, <1>6, <1>8, <2>3
    <2>4. CASE q # r
      <3>1. runs[q].attempt < next_attempt(t) /\ runs[q].attempt \in Nat
        BY <1>4, <1>5, <1>8, <2>4 DEF CoordInv, AttemptsNumbered
      <3> QED
        BY <1>4, <2>1, <2>2, <2>4, <3>1
    <2> QED
      BY <2>3, <2>4
  <1>9. ASSUME NEW p \in RunId, NEW q \in RunId, runs'[p] # NULL, runs'[q] # NULL,
               runs'[p].task = runs'[q].task, runs'[p].attempt = runs'[q].attempt
        PROVE  p = q
    <2>1. ASSUME NEW o \in RunId, o # r, runs[o] # NULL, runs[o].task = i.task
          PROVE  runs[o].attempt < next_attempt(i.task)
      BY <1>1, <2>1 DEF CoordInv, AttemptsNumbered
    <2>2. CASE p # r /\ q # r
      BY <1>4, <1>9, <2>2 DEF CoordInv, AttemptsNumbered
    <2>3. CASE p = r /\ q # r
      BY SMTT(60), <1>4, <1>5, <1>6, <1>9, <2>1, <2>3
    <2>4. CASE p # r /\ q = r
      BY <1>4, <1>5, <1>6, <1>9, <2>1, <2>4
    <2> QED
      BY <2>2, <2>3, <2>4
  <1> QED
    BY <1>7, <1>8, <1>9 DEF AttemptsNumbered

\* No step gives an attempt away twice.
LEMMA AttemptStep ==
    ASSUME CoordInv, [CoordNext]_coordAllVars
    PROVE  RunsIssued' /\ AttemptsNumbered'
  <1>1. CASE \E c \in Caller : Admitted(c)
    BY <1>1, AttemptsAdmitted
  <1>2. CASE ~\E c \in Caller : Admitted(c)
    <2>1. RunsKept
      BY <1>2, KeptOrClaimed
    <2>2. \A r \in RunId : issued[r] # NULL => issued'[r] = issued[r]
      BY IssuedStep
    <2>3. RunsIssued'
      BY <2>1, <2>2 DEF CoordInv, RunsIssued, RunsKept
    <2>4. \A t \in Task : next_attempt(t)' = next_attempt(t)
      BY <2>1, AttemptKept
    <2>5. \A t \in Task, r \in RunId : (runs'[r] # NULL /\ runs'[r].task = t) =>
              runs'[r].attempt < next_attempt(t)'
      BY <2>1, <2>4 DEF RunsKept, CoordInv, AttemptsNumbered
    <2> QED
      BY <2>1, <2>3, <2>5 DEF RunsKept, CoordInv, AttemptsNumbered
  <1> QED
    BY <1>1, <1>2

\* A lease leaves its active owner only by expiring, and nothing becomes active
\* without the leases it needs.
LEMMA LeaseStep ==
    ASSUME CoordInv, [CoordNext]_coordAllVars
    PROVE  LeasesHeld'
  <1> SUFFICES ASSUME NEW r \in RunId, Active(r)', r \notin lapsed',
                      NEW k \in LeaseKey, k \in KeysOf[runs'[r].task]
               PROVE  leases'[k] # NULL /\ leases'[k].owner = r
    <2>1. TypeOK'
      BY StepRefines, StepInv DEF CoordInv, IInv
    <2>2. \A q \in RunId : Active(q)' => runs'[q].task \in Task
      BY <2>1 DEF TypeOK, Active, RunRow
    <2> QED
      BY <2>2, CoordinatedAssumption DEF LeasesHeld, active_runs
  <1>1. leases \in [LeaseKey -> Lease \cup {NULL}]
    BY DEF CoordInv, CoordTypeOK
  <1>2. CASE \E c \in Caller : Admitted(c)
    <2>1. PICK c \in Caller : Admitted(c)
      BY <1>2
    <2>2. leases' = leases /\ lapsed' = lapsed
      BY <2>1 DEF Admitted
    <2>3. CASE r = cjob[c].run
      <3>1. runs'[r].task = issued[r].task
        BY <2>1, <2>3 DEF Admitted, claim, CoordInv, IInv, TypeOK
      <3> QED
        BY <2>1, <2>2, <2>3, <3>1 DEF Admitted, validate_live_lease_binding
    <2>4. CASE r # cjob[c].run
      <3>1. runs'[r] = runs[r]
        BY <2>1, <2>4 DEF Admitted, claim, CoordInv, IInv, TypeOK
      <3> QED
        BY <2>2, <3>1 DEF CoordInv, LeasesHeld, active_runs, Active
    <2> QED
      BY <2>3, <2>4
  <1>3. CASE ~\E c \in Caller : Admitted(c)
    <2>1. Active(r) \/ \E c \in Caller : resume_claim(c) /\ cjob[c].run = r
      BY <1>3, KeptOrClaimed
    <2>2. runs[r] # NULL /\ runs'[r].task = runs[r].task
      BY <1>3, KeptOrClaimed DEF RunsKept, Active
    <2>3. CASE \E c \in Caller : resume_claim(c) /\ cjob[c].run = r
      BY <2>2, <2>3 DEF resume_claim, resumable, validate_live_lease_binding
    <2>4. CASE Active(r) /\ UNCHANGED <<leases, lapsed>>
      BY <2>2, <2>4 DEF CoordInv, LeasesHeld, active_runs
    <2>5. ASSUME Active(r), r \notin lapsed
          PROVE  leases[k] # NULL /\ leases[k].owner = r
      BY <2>2, <2>5 DEF CoordInv, LeasesHeld, active_runs
    <2>6. CASE Active(r) /\ \E q \in RunId, l \in LeaseKey : lease_acquire(q, l)
      BY SMTT(60), <1>1, <2>5, <2>6, CoordinatedNullAssumption DEF lease_acquire, Lease
    <2>7. CASE Active(r) /\ \E l \in LeaseKey : lease_release(l)
      BY <1>1, <2>5, <2>7 DEF lease_release
    <2>8. CASE Active(r) /\ \E l \in LeaseKey : lease_ages(l)
      <3>1. PICK l \in LeaseKey : lease_ages(l)
        BY <2>8
      <3>2. r \notin lapsed /\ leases[k] # NULL /\ leases[k].owner = r
        BY <2>5, <2>8, <3>1 DEF lease_ages
      <3>3. CASE l # k
        BY <1>1, <3>1, <3>2, <3>3 DEF lease_ages
      <3>4. CASE l = k
        <4>1. leases[k] \in Lease /\ leases[k].left = "enough"
          BY <1>1, <2>8, <3>1, <3>2, <3>4 DEF lease_ages, Lease
        <4>2. leases'[k] = [leases[k] EXCEPT !.left = "short"]
          BY <1>1, <3>1, <3>4, <4>1 DEF lease_ages
        <4>3. leases'[k] \in Lease /\ leases'[k].owner = leases[k].owner
          BY <4>1, <4>2 DEF Lease
        <4> QED
          BY <3>2, <4>3, CoordinatedNullAssumption
      <3> QED
        BY <3>3, <3>4
    <2>9. \/ UNCHANGED <<leases, lapsed>>
          \/ \E q \in RunId, l \in LeaseKey : lease_acquire(q, l)
          \/ \E l \in LeaseKey : lease_release(l) \/ lease_ages(l)
      BY ZenonT(100) DEF CoordNext, coordAllVars, coordVars, look_up, draft_intent, issue_claim_intent,
         commit_claim_intent, write_claim_envelope, give_up, resume_claim, check_intent,
         open_resume, close_claimed, fail_claimed, silence, reconcile_claimed, intent_expires,
         revise_spec, revise_plan
    <2> QED
      BY <2>1, <2>3, <2>4, <2>6, <2>7, <2>8, <2>9
  <1> QED
    BY <1>2, <1>3

-----------------------------------------------------------------------------

\* The initial state satisfies the invariant.
LEMMA CoordInitInv ==
    ASSUME CoordInit
    PROVE  CoordInv
  <1> USE DEF CoordInit
  <1>1. IInv
    BY InitInv
  <1>2. CoordTypeOK
    <2>1. (CHOOSE s \in Sha : TRUE) \in Sha /\ (CHOOSE p \in Plan : TRUE) \in Plan
      BY CoordinatedAssumption
    <2>2. scenario.edits \in Nat /\ scenario.plans \in Nat
      BY CoordinatedAssumption DEF Scenarios
    <2>3. spec \in [Task -> SpecRow]
      BY SMTT(60), <2>1 DEF SpecRow
    <2> QED
      BY SMTT(60), <2>1, <2>2, <2>3 DEF CoordTypeOK
  <1>3. Jobs /\ DraftsApart
    BY DEF Jobs, JobShape, DraftsApart
  <1>4. OneIntentPerKey
    BY DEF OneIntentPerKey
  <1>5. \A r \in RunId : runs[r] = NULL
    BY DEF Init
  <1>6. RunsIssued /\ AttemptsNumbered /\ LeasesHeld
    BY <1>5 DEF RunsIssued, AttemptsNumbered, LeasesHeld, active_runs, Active
  <1> QED
    BY <1>1, <1>2, <1>3, <1>4, <1>6 DEF CoordInv

\* Every step keeps the invariant.
LEMMA CoordStepInv ==
    ASSUME CoordInv, [CoordNext]_coordAllVars
    PROVE  CoordInv'
  <1>1. IInv'
    BY StepRefines, StepInv DEF CoordInv
  <1>2. LocalOK' /\ OneIntentPerKey'
    BY IssuedStep
  <1>3. CoordTypeOK'
    BY <1>2, DocStep DEF LocalOK, CoordTypeOK, Pc
  <1>4. RunsIssued' /\ AttemptsNumbered' /\ LeasesHeld'
    BY AttemptStep, LeaseStep
  <1> QED
    BY <1>1, <1>2, <1>3, <1>4 DEF CoordInv, LocalOK

\* The invariant holds in every reachable state.
THEOREM CoordSafe == CoordSpec => []CoordInv
  <1>1. CoordInit => CoordInv
    BY CoordInitInv
  <1>2. CoordInv /\ [CoordNext]_coordAllVars => CoordInv'
    BY CoordStepInv
  <1> QED
    BY <1>1, <1>2, PTL DEF CoordSpec

\* Whoever races, retries, renews, expires or resumes: a key names one intent, an
\* attempt of a task becomes one run, and two active runs never rest on the same
\* unexpired lease.
THEOREM ClaimsExclusiveHolds == CoordSpec => []ClaimsExclusive
  <1>1. ASSUME CoordInv
        PROVE  ClaimsExclusive
    <2>1. OneRunPerAttempt
      BY <1>1 DEF CoordInv, RunsIssued, AttemptsNumbered, OneRunPerAttempt
    <2>2. LeaseExclusion
      BY SMTT(60), <1>1 DEF CoordInv, LeasesHeld, LeaseExclusion
    <2> QED
      BY <1>1, <2>1, <2>2 DEF CoordInv, ClaimsExclusive
  <1> QED
    BY <1>1, CoordSafe, PTL

\* commit_claim_intent turns an intent into a run only under the TaskSpec
\* revision, the plan and the attempt it was issued for, whatever the caller had
\* read before its transaction.
THEOREM CommitsCurrent == CoordSpec => CommitsAreCurrent
  <1>1. ASSUME CoordInv, [CoordNext]_coordAllVars
        PROVE  CommitStep
    <2> SUFFICES ASSUME NEW r \in RunId, runs[r] = NULL, runs'[r] # NULL
                 PROVE  /\ spec[issued[r].task] = [rev |-> issued[r].rev, sha |-> issued[r].sha]
                        /\ plan = issued[r].plan
                        /\ runs'[r].task_sha256 = issued[r].sha
                        /\ runs'[r].attempt = issued[r].attempt
      BY DEF CommitStep
    <2>1. PICK c \in Caller : Admitted(c)
      BY <1>1, KeptOrClaimed DEF RunsKept
    <2>2. runs \in [RunId -> RunRow \cup {NULL}]
      BY <1>1 DEF CoordInv, IInv, TypeOK
    <2>3. r = cjob[c].run
      BY <2>1, <2>2 DEF Admitted, claim
    <2>4. still_current(issued[r], cjob[c].view)
      BY <2>1, <2>3 DEF Admitted
    <2>5. /\ runs'[r].task_sha256 = issued[r].sha
          /\ runs'[r].attempt = next_attempt(issued[r].task)
      BY <2>1, <2>2, <2>3 DEF Admitted, claim
    <2> QED
      BY <2>4, <2>5 DEF still_current
  <1> QED
    BY <1>1, CoordSafe, PTL DEF CoordSpec, CommitsAreCurrent

\* Every behaviour of the coordinated claim is one of the run tables, so what is
\* proved of RunStore holds for it.
THEOREM CoordRefinesRunStore == CoordSpec => CoordImplementsRunStore
  <1>1. CoordInit => Init
    BY DEF CoordInit
  <1>2. CoordInv /\ [CoordNext]_coordAllVars => [Next]_runVars
    BY StepRefines
  <1> QED
    BY <1>1, <1>2, CoordSafe, PTL DEF CoordSpec, Spec, CoordImplementsRunStore

-----------------------------------------------------------------------------
\* Closing a run (ClosePath).

ClosePc == {"idle", "opened", "read", "guarded", "committed", "replaying", "replayed"}
Open == {"opened", "read", "guarded"}

\* What the first read has established for job j with revision v.  It stays true
\* until the commit, because the writer reservation keeps TaskSpecs away and no
\* run changes its baseline.
ReadSnapshot(j, v) ==
    /\ v \in CloseRevision
    /\ v.plan = runs[j.run].plan_sha256
    /\ IF specs[runs[j.run].task] = <<>> THEN j.kind = "typed" /\ v.revision = 0
       ELSE v.task = get_current(runs[j.run].task).sha
    /\ j.kind = "typed" =>
           \/ v.task = runs[j.run].task_sha256
           \/ v.revision # 0 /\ refresh_evolution(runs[j.run].task, runs[j.run].task_sha256)

\* What a closer at l with job j, revision v and guard g knows.
CloserShape(l, j, v, g) ==
    /\ l # "idle" => j \in CloseJob
    /\ l \in Open => j.kind \in {"typed", "historical"} /\ runs[j.run] # NULL
    /\ l \in {"read", "guarded"} => ReadSnapshot(j, v)
    /\ l = "guarded" =>
           g <= gitEdits /\ (g = gitEdits => v = close_revision(runs[j.run].task))
    /\ l \in {"committed", "replaying", "replayed"} => receipts[j.run] # NULL
    /\ l = "replayed" => j.run \in files

Closers == \A c \in Closer : CloserShape(pc[c], job[c], rev[c], guarded[c])

\* The inductive invariant.
CloserInv == IInv /\ Closers /\ ReceiptFilesSound

-----------------------------------------------------------------------------

\* What _close_revision returns.
LEMMA CloseRevisionRead ==
    ASSUME CloseTypeOK, NEW t \in Task, NEW v, v = close_revision(t)
    PROVE  /\ v \in CloseRevision \cup {NULL}
           /\ v # NULL => /\ v.plan = gitPlan
                          /\ IF specs[t] = <<>> THEN v.revision = 0 /\ v.task = gitTask[t]
                             ELSE v.task = get_current(t).sha
  <1>1. specs[t] \in Seq(SpecRevision) /\ gitTask[t] \in Sha \cup {NULL} /\ gitPlan \in Plan
    BY DEF CloseTypeOK
  <1>2. CASE specs[t] # <<>>
    <2>1. Len(specs[t]) \in Nat /\ Len(specs[t]) # 0
      BY SMTT(60), <1>1, <1>2
    <2>2. get_current(t) \in SpecRevision
      BY SMTT(60), <1>1, <2>1 DEF get_current
    <2>3. get_current(t).sha \in Sha
      BY <2>2 DEF SpecRevision
    <2>4. v = [task |-> get_current(t).sha, plan |-> gitPlan, revision |-> Len(specs[t])]
      BY <1>2 DEF close_revision
    <2> QED
      BY SMTT(60), <1>1, <1>2, <2>1, <2>3, <2>4 DEF CloseRevision
  <1>3. CASE specs[t] = <<>>
    <2>1. v = NULL \/ v = authoritative_close_revision(t)
      BY <1>3 DEF close_revision
    <2>2. v = NULL \/ (gitTask[t] # NULL
                       /\ v = [task |-> gitTask[t], plan |-> gitPlan, revision |-> 0])
      BY <2>1 DEF authoritative_close_revision
    <2> QED
      BY SMTT(60), <1>1, <1>3, <2>2 DEF CloseRevision
  <1> QED
    BY <1>2, <1>3

\* The other transactions on the run tables.
CloseOther ==
    \/ \E r \in RunId, t \in Task, w \in Worker, k \in ClaimKinds : claim_current(r, t, w, k)
    \/ \E r \in RunId : close_fails(r)
    \/ \E r \in RunId : close_time(r)
    \/ close_reconcile

\* The steps of the close path that leave the run tables alone.
CloseQuiet ==
    \/ \E c \in Closer, r \in RunId : begin_replay(c, r)
    \/ \E c \in Closer, r \in RunId, k \in {"typed", "historical"} : begin_close(c, r, k)
    \/ \E c \in Closer : first_read(c) \/ second_read(c) \/ materialize_first(c)
                         \/ materialize_replay(c) \/ derive_current(c) \/ close_crash(c)
    \/ \E t \in Task, s \in Sha, k \in Source : put(t, s, k)
    \/ git_edit
    \/ UNCHANGED closeAllVars

\* Every step leaves the run tables alone, is one of their transactions, or commits a close.
LEMMA StepKinds ==
    ASSUME [ClosePathNext]_closeAllVars
    PROVE  CloseQuiet \/ CloseOther \/ \E c \in Closer : commit(c)
  BY DEF ClosePathNext, CloseQuiet, CloseOther

\* The quiet steps, the two reads and the writing of files included, change no row.
LEMMA QuietTables ==
    ASSUME CloseQuiet
    PROVE  UNCHANGED runVars
  BY ZenonT(100) DEF CloseQuiet, begin_replay, begin_close, first_read, second_read, materialize_first,
     materialize_replay, derive_current, close_crash, put, git_edit, Rollback, closeAllVars

\* Every step is a step of the run tables or leaves them alone.
LEMMA CloseStepRefines ==
    ASSUME CloserInv, [ClosePathNext]_closeAllVars
    PROVE  [Next]_runVars
  <1>0. CloseTypeOK
    BY DEF CloserInv, ReceiptFilesSound
  <1>1. CASE CloseQuiet
    BY <1>1, QuietTables
  <1>2. ASSUME NEW c \in Closer, commit(c)
        PROVE  [Next]_runVars
    <2>1. job[c] \in CloseJob /\ job[c].run \in RunId /\ rev[c] \in CloseRevision /\ rev[c].task \in Sha
      BY <1>2 DEF commit, CloserInv, Closers, CloserShape, ReadSnapshot, CloseJob, CloseRevision
    <2> QED
      BY <1>2, <2>1 DEF commit, Next
  <1>3. ASSUME NEW r \in RunId, NEW t \in Task, NEW w \in Worker, NEW k \in ClaimKinds,
               claim_current(r, t, w, k)
        PROVE  [Next]_runVars
    <2>1. PICK v : v = close_revision(t)
      OBVIOUS
    <2>2. v \in CloseRevision
      BY SMTT(60), <1>0, <1>3, <2>1, CloseRevisionRead DEF claim_current
    <2>3. v.task \in Sha /\ gitPlan \in Plan
      BY <1>0, <2>2 DEF CloseRevision, CloseTypeOK
    <2> QED
      BY <1>3, <2>1, <2>3 DEF claim_current, Next
  <1>4. CASE \E r \in RunId : close_fails(r) \/ close_time(r)
    BY <1>4 DEF close_fails, close_time, Next
  <1>5. CASE close_reconcile
    <2>1. /\ [r \in active_runs |-> NULL] \in [active_runs -> ExtId \cup {NULL}]
          /\ [r \in active_runs |-> "unobserved"] \in [active_runs -> Observation]
      BY DEF Observation
    <2> QED
      BY <1>5, <2>1 DEF close_reconcile, Reconcile, Next
  <1> QED
    BY <1>1, <1>2, <1>3, <1>4, <1>5, StepKinds DEF CloseOther

\* What no step takes back: the baseline of a run, receipts and their files; the
\* registry changes only with a counted edit, and a TaskSpec only while nobody
\* holds the writer reservation.
CloseMono ==
    /\ \A r \in RunId :
        /\ runs[r] # NULL => /\ runs'[r] # NULL
                             /\ runs'[r].task = runs[r].task
                             /\ runs'[r].task_sha256 = runs[r].task_sha256
                             /\ runs'[r].plan_sha256 = runs[r].plan_sha256
        /\ receipts[r] # NULL => receipts'[r] = receipts[r]
    /\ files \subseteq files'
    /\ lock # NULL => specs' = specs
    /\ \/ gitEdits' = gitEdits /\ gitTask' = gitTask /\ gitPlan' = gitPlan
       \/ gitEdits' = gitEdits + 1

\* No step undoes what the closers rely on.
LEMMA CloseMonoStep ==
    ASSUME CloserInv, [ClosePathNext]_closeAllVars
    PROVE  CloseMono
  <1>1. BindingStep /\ EvidenceStep
    BY CloseStepRefines, BindingPreserved, EvidencePreserved DEF CloserInv, IInv
  <1>2. \A r \in RunId :
        /\ runs[r] # NULL => /\ runs'[r] # NULL
                             /\ runs'[r].task = runs[r].task
                             /\ runs'[r].task_sha256 = runs[r].task_sha256
                             /\ runs'[r].plan_sha256 = runs[r].plan_sha256
        /\ receipts[r] # NULL => receipts'[r] = receipts[r]
    BY <1>1 DEF BindingStep, EvidenceStep
  <1>3. \/ gitEdits' = gitEdits /\ gitTask' = gitTask /\ gitPlan' = gitPlan
        \/ gitEdits' = gitEdits + 1
    BY ZenonT(100), StepKinds DEF CloseQuiet, CloseOther, commit, begin_replay, begin_close, first_read,
       second_read, materialize_first, materialize_replay, derive_current, close_crash, put,
       git_edit, claim_current, close_fails, close_time, close_reconcile, closeVars,
       closeAllVars, git
  <1>4. files \subseteq files'
    BY ZenonT(100), StepKinds DEF CloseQuiet, CloseOther, commit, begin_replay, begin_close, first_read,
       second_read, materialize_first, materialize_replay, derive_current, close_crash, put,
       git_edit, claim_current, close_fails, close_time, close_reconcile, closeVars,
       closeAllVars
  <1>5. lock # NULL => specs' = specs
    BY ZenonT(100), StepKinds DEF CloseQuiet, CloseOther, commit, begin_replay, begin_close, first_read,
       second_read, materialize_first, materialize_replay, derive_current, close_crash, put,
       git_edit, claim_current, close_fails, close_time, close_reconcile, closeVars,
       closeAllVars
  <1> QED
    BY <1>2, <1>3, <1>4, <1>5 DEF CloseMono

\* A closer that does not move keeps what it knows.
LEMMA CloserKept ==
    ASSUME CloserInv, [ClosePathNext]_closeAllVars, NEW q \in Closer,
           UNCHANGED <<pc[q], job[q], rev[q], guarded[q]>>
    PROVE  CloserShape(pc[q], job[q], rev[q], guarded[q])'
  <1>0. CloseTypeOK
    BY DEF CloserInv, ReceiptFilesSound
  <1>1. PICK l, j, v, g : l = pc[q] /\ j = job[q] /\ v = rev[q] /\ g = guarded[q]
    OBVIOUS
  <1>2. CloserShape(l, j, v, g)
    BY <1>1 DEF CloserInv, Closers
  <1> SUFFICES CloserShape(l, j, v, g)'
    BY <1>1 DEF CloserShape
  <1>3. CASE l = "idle"
    BY <1>3 DEF CloserShape, Open
  <1>4. CASE l # "idle"
    <2>1. PICK r \in RunId : j \in CloseJob /\ r = j.run
      BY <1>2, <1>4 DEF CloserShape, CloseJob
    <2>2. CloseMono
      BY CloseMonoStep
    <2>3. CASE l \in Open
      <3>1. lock # NULL
        BY <1>0, <1>1, <2>3, ClosePathAssumption DEF CloseTypeOK, Open
      <3>2. /\ specs' = specs /\ runs[r] # NULL /\ runs'[r] # NULL
            /\ runs'[r].task = runs[r].task /\ runs'[r].task_sha256 = runs[r].task_sha256
            /\ runs'[r].plan_sha256 = runs[r].plan_sha256
        BY <1>2, <2>1, <2>2, <2>3, <3>1 DEF CloseMono, CloserShape
      <3>3. l \in {"read", "guarded"} => ReadSnapshot(j, v)'
        BY ZenonT(100), <1>2, <2>1, <3>2 DEF CloserShape, ReadSnapshot, refresh_evolution, get_current
      <3>4. l = "guarded" =>
               g <= gitEdits' /\ (g = gitEdits' => v = close_revision(runs[j.run].task)')
        <4> SUFFICES ASSUME l = "guarded"
                     PROVE  g <= gitEdits' /\ (g = gitEdits' => v = close_revision(runs[j.run].task)')
          OBVIOUS
        <4>1. g \in Nat /\ gitEdits \in Nat
          BY SMTT(60), <1>0, <1>1, ClosePathAssumption DEF CloseTypeOK
        <4>2. g <= gitEdits /\ (g = gitEdits => v = close_revision(runs[r].task))
          BY <1>2, <2>1 DEF CloserShape
        <4>3. CASE gitEdits' = gitEdits /\ gitTask' = gitTask /\ gitPlan' = gitPlan
          BY <2>1, <3>2, <4>2, <4>3 DEF close_revision, authoritative_close_revision,
             get_current
        <4>4. CASE gitEdits' = gitEdits + 1
          BY <4>1, <4>2, <4>4
        <4> QED
          BY <2>2, <4>3, <4>4 DEF CloseMono
      <3> QED
        BY <1>2, <2>1, <2>3, <3>2, <3>3, <3>4 DEF CloserShape, Open
    <2>4. CASE l \notin Open
      BY <1>2, <2>1, <2>2, <2>4 DEF CloserShape, CloseMono, Open
    <2> QED
      BY <2>3, <2>4
  <1> QED
    BY <1>3, <1>4

-----------------------------------------------------------------------------

\* What every step must keep, but for the run tables.
Kept == Closers /\ ReceiptFilesSound

Locals ==
    /\ pc \in [Closer -> ClosePc] /\ job \in [Closer -> CloseJob \cup {NULL}]
    /\ rev \in [Closer -> CloseRevision \cup {NULL}] /\ guarded \in [Closer -> 0..MaxGit]
Papers ==
    /\ files \subseteq RunId /\ reply \in [Closer -> Reply \cup {NULL}]
    /\ \A r \in files : receipts[r] # NULL
    /\ \A c \in Closer : reply[c] # NULL => reply[c].run \in files

\* One closer moves, and only its own reservation changes hands.
LEMMA MoverKept ==
    ASSUME CloserInv, [ClosePathNext]_closeAllVars, NEW c \in Closer,
           Locals', Papers',
           \A q \in Closer \ {c} : /\ pc'[q] = pc[q] /\ job'[q] = job[q]
                                   /\ rev'[q] = rev[q] /\ guarded'[q] = guarded[q],
           CloserShape(pc[c], job[c], rev[c], guarded[c])',
           lock' = c <=> pc'[c] \in Open,
           lock' = lock \/ (lock \in {c, NULL} /\ lock' \in {c, NULL}),
           UNCHANGED <<specs, gitTask, gitPlan, gitEdits>>
    PROVE  Kept'
  <1>0. CloseTypeOK
    BY DEF CloserInv, ReceiptFilesSound
  <1>1. Closers'
    <2> SUFFICES ASSUME NEW q \in Closer
                 PROVE  CloserShape(pc[q], job[q], rev[q], guarded[q])'
      BY DEF Closers
    <2>1. CASE q = c
      BY <2>1
    <2>2. CASE q # c
      BY <2>2, CloserKept
    <2> QED
      BY <2>1, <2>2
  <1>2. \A q \in Closer : (lock' = q) <=> (pc'[q] \in Open)
    BY SMTT(60), <1>0, ClosePathAssumption DEF CloseTypeOK, Open
  <1>3. lock' \in Closer \cup {NULL}
    BY <1>0 DEF CloseTypeOK
  <1>4. CloseTypeOK'
    BY <1>0, <1>2, <1>3 DEF CloseTypeOK, Locals, Papers, ClosePc, Open
  <1> QED
    BY <1>1, <1>4 DEF Kept, ReceiptFilesSound, Papers

\* The receipt files and the results as they were.
LEMMA PapersKept ==
    ASSUME CloserInv, [ClosePathNext]_closeAllVars
    PROVE  /\ Locals
           /\ \A r \in files : r \in RunId /\ receipts'[r] # NULL
           /\ UNCHANGED <<files, reply>> => Papers'
  <1>1. CloseMono
    BY CloseMonoStep
  <1>2. CloseTypeOK /\ \A r \in files : r \in RunId /\ receipts'[r] # NULL
    BY <1>1 DEF CloserInv, ReceiptFilesSound, CloseTypeOK, CloseMono
  <1> QED
    BY <1>2 DEF CloserInv, ReceiptFilesSound, CloseTypeOK, Papers, Locals, ClosePc

\* A closer returns, raises or dies, and its transaction, if any, ends.
LEMMA EndKept ==
    ASSUME CloserInv, [ClosePathNext]_closeAllVars, NEW c \in Closer, EndJob(c), Papers',
           lock' = IF lock = c THEN NULL ELSE lock,
           UNCHANGED <<specs, gitTask, gitPlan, gitEdits>>
    PROVE  Kept'
  <1>1. Locals
    BY PapersKept
  <1>2. Locals' /\ pc'[c] = "idle"
    BY SMTT(60), <1>1, ClosePathAssumption DEF Locals, EndJob, ClosePc
  <1>3. \A q \in Closer \ {c} : /\ pc'[q] = pc[q] /\ job'[q] = job[q]
                                /\ rev'[q] = rev[q] /\ guarded'[q] = guarded[q]
    BY <1>1 DEF Locals, EndJob
  <1>4. CloserShape(pc[c], job[c], rev[c], guarded[c])'
    BY <1>2 DEF CloserShape, Open
  <1>5. lock' # c
    BY ClosePathAssumption
  <1> QED
    BY ZenonT(100), <1>2, <1>3, <1>4, <1>5, MoverKept DEF Open

\* A closer reads a receipt back.
LEMMA BeginReplayKept ==
    ASSUME CloserInv, [ClosePathNext]_closeAllVars, NEW c \in Closer, NEW r \in RunId,
           begin_replay(c, r)
    PROVE  Kept'
  <1>1. Locals /\ Papers'
    BY PapersKept DEF begin_replay
  <1>2. PICK j \in CloseJob : j = [run |-> r, kind |-> "replay"] /\ j.run = r
    <2>1. [run |-> r, kind |-> "replay"] \in CloseJob /\ [run |-> r, kind |-> "replay"].run = r
      BY DEF CloseJob, Kind
    <2> QED
      BY <2>1
  <1>3. Locals' /\ pc'[c] = "replaying" /\ job'[c] = j
    BY <1>1, <1>2 DEF begin_replay, Locals, ClosePc
  <1>4. /\ UNCHANGED <<receipts, specs, gitTask, gitPlan, gitEdits, lock>>
        /\ receipts[r] # NULL /\ lock = NULL
        /\ \A q \in Closer \ {c} : /\ pc'[q] = pc[q] /\ job'[q] = job[q]
                                   /\ rev'[q] = rev[q] /\ guarded'[q] = guarded[q]
    BY <1>1 DEF begin_replay, runVars, git, Locals
  <1>5. CloserShape(pc[c], job[c], rev[c], guarded[c])'
    BY ZenonT(100), <1>2, <1>3, <1>4 DEF CloserShape, Open
  <1>6. lock' # c
    BY <1>4, ClosePathAssumption
  <1> QED
    BY <1>1, <1>3, <1>4, <1>5, <1>6, MoverKept DEF Open

\* A first close takes the writer reservation.
LEMMA BeginCloseKept ==
    ASSUME CloserInv, [ClosePathNext]_closeAllVars, NEW c \in Closer, NEW r \in RunId,
           NEW k \in {"typed", "historical"}, begin_close(c, r, k)
    PROVE  Kept'
  <1>1. Locals /\ Papers'
    BY ZenonT(100), PapersKept DEF begin_close
  <1>2. PICK j \in CloseJob : j = [run |-> r, kind |-> k] /\ j.run = r /\ j.kind = k
    <2>1. [run |-> r, kind |-> k] \in CloseJob
      BY DEF CloseJob, Kind
    <2>2. [run |-> r, kind |-> k].run = r /\ [run |-> r, kind |-> k].kind = k
      OBVIOUS
    <2> QED
      BY <2>1, <2>2
  <1>3. Locals' /\ pc'[c] = "opened" /\ job'[c] = j
    BY <1>1, <1>2 DEF begin_close, Locals, ClosePc
  <1>4. /\ UNCHANGED <<runs, specs, gitTask, gitPlan, gitEdits>>
        /\ lock = NULL /\ lock' = c
        /\ \A q \in Closer \ {c} : /\ pc'[q] = pc[q] /\ job'[q] = job[q]
                                   /\ rev'[q] = rev[q] /\ guarded'[q] = guarded[q]
    BY <1>1 DEF begin_close, runVars, git, Locals
  <1>5. runs[r] # NULL
    BY DEF begin_close, HistoricallyClosable, Active
  <1>6. CloserShape(pc[c], job[c], rev[c], guarded[c])'
    BY <1>2, <1>3, <1>4, <1>5 DEF CloserShape, Open
  <1> QED
    BY ZenonT(100), <1>1, <1>3, <1>4, <1>6, MoverKept DEF Open

\* The first read, or the rollback it leads to.
LEMMA FirstReadKept ==
    ASSUME CloserInv, [ClosePathNext]_closeAllVars, NEW c \in Closer, first_read(c)
    PROVE  Kept'
  <1>0. CloseTypeOK /\ pc[c] = "opened" /\ lock = c
    BY DEF CloserInv, ReceiptFilesSound, CloseTypeOK, first_read
  <1>1. Locals /\ Papers'
    BY PapersKept DEF first_read
  <1>2. PICK j \in CloseJob, r \in RunId :
          j = job[c] /\ r = j.run /\ j.kind \in {"typed", "historical"} /\ runs[r] # NULL
    BY SMTT(60), <1>0 DEF CloserInv, Closers, CloserShape, Open, CloseJob
  <1>3. PICK t \in Task : t = runs[r].task
    BY <1>2 DEF CloserInv, IInv, TypeOK, RunRow
  <1>4. PICK v : v = close_revision(t)
    OBVIOUS
  <1>5. UNCHANGED <<specs, gitTask, gitPlan, gitEdits>>
    BY ZenonT(100) DEF first_read, git
  <1>6. CASE ~baseline_matches(c, v)
    <2>1. EndJob(c) /\ lock' = NULL
      BY <1>2, <1>3, <1>4, <1>6 DEF first_read, Rollback
    <2> QED
      BY <1>0, <1>1, <1>5, <2>1, EndKept
  <1>7. CASE baseline_matches(c, v)
    <2>1. /\ rev' = [rev EXCEPT ![c] = v] /\ pc' = [pc EXCEPT ![c] = "read"]
          /\ UNCHANGED <<runs, lock, job, guarded>>
      BY ZenonT(100), <1>2, <1>3, <1>4, <1>7 DEF first_read, runVars
    <2>2. v # NULL /\ v \in CloseRevision
      BY <1>0, <1>4, <1>7, CloseRevisionRead DEF baseline_matches
    <2>3. v.plan = runs[r].plan_sha256
      BY <1>2, <1>7 DEF baseline_matches
    <2>4. IF specs[t] = <<>> THEN v.revision = 0 ELSE v.task = get_current(t).sha
      BY <1>0, <1>4, <2>2, CloseRevisionRead
    <2>5. j.kind = "typed" =>
            \/ v.task = runs[r].task_sha256
            \/ v.revision # 0 /\ refresh_evolution(runs[r].task, runs[r].task_sha256)
      BY <1>2, <1>7 DEF baseline_matches, task_matches_claim_baseline
    <2>6. specs[t] = <<>> => j.kind = "typed"
      <3> SUFFICES ASSUME specs[t] = <<>>, j.kind = "historical"
                   PROVE  FALSE
        BY <1>2
      <3>1. repository_rebind_matches(r, v)
        BY <1>2, <1>7 DEF baseline_matches
      <3>2. {i \in 1 .. (Len(specs[t]) - 1) : specs[t][i].sha = runs[r].task_sha256} = {}
        OBVIOUS
      <3>3. Cardinality({}) = 1
        BY ZenonT(100), <1>3, <3>1, <3>2 DEF repository_rebind_matches
      <3> QED
        BY SMTT(60), <3>3, FS_EmptySet
    <2>7. ReadSnapshot(j, v)
      BY ZenonT(100), <1>2, <1>3, <2>2, <2>3, <2>4, <2>5, <2>6 DEF ReadSnapshot
    <2>8. Locals' /\ pc'[c] = "read" /\ job'[c] = j /\ rev'[c] = v
      BY <1>1, <1>2, <2>1, <2>2 DEF Locals, ClosePc
    <2>9. \A q \in Closer \ {c} : /\ pc'[q] = pc[q] /\ job'[q] = job[q]
                                  /\ rev'[q] = rev[q] /\ guarded'[q] = guarded[q]
      BY <1>1, <2>1 DEF Locals
    <2>10. ReadSnapshot(j, v)'
      BY ZenonT(100), <1>5, <2>1, <2>7 DEF ReadSnapshot, refresh_evolution, get_current
    <2>11. CloserShape(pc[c], job[c], rev[c], guarded[c])'
      <3>1. CloserShape("read", j, v, guarded[c])'
        BY ZenonT(100), <1>2, <2>1, <2>10 DEF CloserShape, Open
      <3> QED
        BY ZenonT(100), <2>8, <3>1 DEF CloserShape
    <2>12. lock' = c
      BY <1>0, <2>1
    <2> QED
      BY <1>0, <1>1, <1>5, <2>8, <2>9, <2>11, <2>12, MoverKept DEF Open
  <1> QED
    BY <1>6, <1>7

\* The second read, or the rollback it leads to.
LEMMA SecondReadKept ==
    ASSUME CloserInv, [ClosePathNext]_closeAllVars, NEW c \in Closer, second_read(c)
    PROVE  Kept'
  <1>0. CloseTypeOK /\ pc[c] = "read" /\ lock = c
    BY DEF CloserInv, ReceiptFilesSound, CloseTypeOK, second_read
  <1>1. Locals /\ Papers'
    BY ZenonT(100), PapersKept DEF second_read
  <1>2. PICK j, v : /\ j \in CloseJob /\ j = job[c] /\ v = rev[c]
                    /\ CloserShape("read", j, v, guarded[c])
    BY ZenonT(100), <1>0 DEF CloserInv, Closers, CloserShape
  <1>3. UNCHANGED <<specs, gitTask, gitPlan, gitEdits>>
    BY ZenonT(100) DEF second_read, git
  <1>4. CASE close_revision(runs[j.run].task) # v
    <2>1. EndJob(c) /\ lock' = NULL
      BY <1>2, <1>4 DEF second_read, Rollback
    <2> QED
      BY <1>0, <1>1, <1>3, <2>1, EndKept
  <1>5. CASE close_revision(runs[j.run].task) = v
    <2>1. /\ guarded' = [guarded EXCEPT ![c] = gitEdits] /\ pc' = [pc EXCEPT ![c] = "guarded"]
          /\ UNCHANGED <<runs, lock, job, rev>>
      BY <1>2, <1>5 DEF second_read, runVars
    <2>2. /\ Locals' /\ pc'[c] = "guarded" /\ job'[c] = j /\ rev'[c] = v
          /\ guarded'[c] = gitEdits /\ gitEdits \in Nat
      BY SMTT(60), <1>0, <1>1, <1>2, <2>1, ClosePathAssumption DEF Locals, ClosePc, CloseTypeOK
    <2>3. \A q \in Closer \ {c} : /\ pc'[q] = pc[q] /\ job'[q] = job[q]
                                  /\ rev'[q] = rev[q] /\ guarded'[q] = guarded[q]
      BY <1>1, <2>1 DEF Locals
    <2>4. ReadSnapshot(j, v)'
      BY ZenonT(100), <1>2, <1>3, <2>1 DEF CloserShape, ReadSnapshot, refresh_evolution, get_current
    <2>5. v = close_revision(runs[j.run].task)'
      BY ZenonT(100), <1>3, <1>5, <2>1 DEF close_revision, authoritative_close_revision, get_current
    <2>6. CloserShape("guarded", j, v, gitEdits)'
      <3>1. j \in CloseJob /\ j.kind \in {"typed", "historical"} /\ runs'[j.run] # NULL
        BY <1>2, <2>1 DEF CloserShape, Open
      <3>2. gitEdits' \in Nat /\ gitEdits' = gitEdits /\ gitEdits' <= gitEdits'
        BY SMTT(60), <1>3, <2>2
      <3> QED
        BY <2>4, <2>5, <3>1, <3>2 DEF CloserShape, Open
    <2>7. CloserShape(pc[c], job[c], rev[c], guarded[c])'
      BY <1>3, <2>2, <2>6 DEF CloserShape
    <2>8. lock' = c
      BY <1>0, <2>1
    <2> QED
      BY <1>0, <1>1, <1>3, <2>2, <2>3, <2>7, <2>8, MoverKept DEF Open
  <1> QED
    BY <1>4, <1>5

\* The commit writes the receipt of the run.
LEMMA CommitWrites ==
    ASSUME CloserInv, NEW c \in Closer, commit(c)
    PROVE  \E r \in RunId, j \in CloseJob, v \in CloseRevision, s \in Sha :
             /\ j = job[c] /\ r = j.run /\ v = rev[c] /\ ReadSnapshot(j, v)
             /\ j.kind \in {"typed", "historical"} /\ runs[r] # NULL
             /\ s = IF j.kind = "historical" THEN v.task ELSE runs[r].task_sha256
             /\ write_receipt(r, s)
  <1>1. PICK j \in CloseJob, r \in RunId, v \in CloseRevision :
           /\ j = job[c] /\ r = j.run /\ v = rev[c] /\ ReadSnapshot(j, v)
           /\ j.kind \in {"typed", "historical"} /\ runs[r] # NULL
    <2>1. pc[c] = "guarded"
      BY DEF commit
    <2>2. CloserShape("guarded", job[c], rev[c], guarded[c])
      BY <2>1 DEF CloserInv, Closers
    <2>3. job[c] \in CloseJob /\ job[c].run \in RunId
      BY <2>2 DEF CloserShape, CloseJob
    <2>4. rev[c] \in CloseRevision /\ ReadSnapshot(job[c], rev[c])
      BY ZenonT(100), <2>2 DEF CloserShape, ReadSnapshot
    <2> QED
      BY <2>2, <2>3, <2>4 DEF CloserShape, Open
  <1>2. v.task \in Sha /\ runs[r].task_sha256 \in Sha
    BY <1>1 DEF CloseRevision, CloserInv, IInv, TypeOK, RunRow
  <1>3. CASE j.kind = "historical"
    BY <1>1, <1>2, <1>3 DEF commit, complete_historical
  <1>4. CASE j.kind = "typed"
    BY <1>1, <1>2, <1>4 DEF commit, complete
  <1> QED
    BY <1>1, <1>3, <1>4

\* What write_receipt leaves in the table.
LEMMA ReceiptWritten ==
    ASSUME TypeOK, NEW r \in RunId, NEW s \in Sha, runs[r] # NULL, write_receipt(r, s)
    PROVE  /\ receipts'[r] # NULL
           /\ receipts'[r].task = runs[r].task
           /\ receipts'[r].task_sha256 = runs[r].task_sha256
           /\ receipts'[r].plan_sha256 = runs[r].plan_sha256
           /\ receipts'[r].verified_task_sha256 = s
           /\ \A q \in RunId \ {r} : receipts'[q] = receipts[q]
  <1> DEFINE new == [task |-> runs[r].task, task_sha256 |-> runs[r].task_sha256,
                     plan_sha256 |-> runs[r].plan_sha256, verified_task_sha256 |-> s]
  <1>1. new \in Receipt
    BY DEF TypeOK, RunRow, Receipt
  <1>2. receipts' = [receipts EXCEPT ![r] = new]
    BY DEF write_receipt
  <1>3. /\ new.task = runs[r].task /\ new.task_sha256 = runs[r].task_sha256
        /\ new.plan_sha256 = runs[r].plan_sha256 /\ new.verified_task_sha256 = s
    OBVIOUS
  <1> HIDE DEF new
  <1>4. receipts'[r] = new /\ \A q \in RunId \ {r} : receipts'[q] = receipts[q]
    BY <1>2 DEF TypeOK
  <1> QED
    BY <1>1, <1>3, <1>4, NullAssumption

\* The commit of a close or of a replay keeps what every closer knows and the files sound.
LEMMA CommitKept ==
    ASSUME CloserInv, [ClosePathNext]_closeAllVars, NEW c \in Closer, commit(c)
    PROVE  Kept'
  <1>0. CloseTypeOK /\ pc[c] = "guarded" /\ lock = c
    BY ZenonT(100) DEF CloserInv, ReceiptFilesSound, CloseTypeOK, commit
  <1>1. Locals /\ Papers'
    BY ZenonT(100), PapersKept DEF commit
  <1>2. PICK r \in RunId, j \in CloseJob, s \in Sha :
          j = job[c] /\ r = j.run /\ runs[r] # NULL /\ write_receipt(r, s)
    BY ZenonT(100), CommitWrites
  <1>3. receipts'[r] # NULL
    BY <1>2, ReceiptWritten DEF CloserInv, IInv
  <1>4. /\ lock' = NULL /\ pc' = [pc EXCEPT ![c] = "committed"]
        /\ UNCHANGED <<specs, gitTask, gitPlan, gitEdits, job, rev, guarded>>
    BY DEF commit, git
  <1>5. Locals' /\ pc'[c] = "committed" /\ job'[c] = j
    BY <1>1, <1>2, <1>4 DEF Locals, ClosePc
  <1>6. \A q \in Closer \ {c} : /\ pc'[q] = pc[q] /\ job'[q] = job[q]
                                /\ rev'[q] = rev[q] /\ guarded'[q] = guarded[q]
    BY <1>1, <1>4 DEF Locals
  <1>7. CloserShape(pc[c], job[c], rev[c], guarded[c])'
    BY <1>2, <1>3, <1>5 DEF CloserShape, Open
  <1>8. lock' # c /\ lock' \in {c, NULL}
    BY <1>4, ClosePathAssumption
  <1> QED
    BY <1>0, <1>1, <1>4, <1>5, <1>6, <1>7, <1>8, MoverKept DEF Open

\* The receipt file is written, the result derived or returned, or a closer dies.
LEMMA AfterCommitKept ==
    ASSUME CloserInv, [ClosePathNext]_closeAllVars, NEW c \in Closer,
           materialize_first(c) \/ materialize_replay(c) \/ derive_current(c) \/ close_crash(c)
    PROVE  Kept'
  <1>0. CloseTypeOK /\ Locals
    BY PapersKept DEF CloserInv, ReceiptFilesSound
  <1>1. PICK j : j = job[c]
    OBVIOUS
  <1>2. CloserShape(pc[c], j, rev[c], guarded[c])
    BY <1>1 DEF CloserInv, Closers
  <1>3. /\ UNCHANGED <<runs, receipts, specs, gitTask, gitPlan, gitEdits>>
    BY ZenonT(100) DEF materialize_first, materialize_replay, derive_current, close_crash, runVars, git
  <1>4. ASSUME NEW b \in BOOLEAN, NEW d \in BOOLEAN, j \in CloseJob, receipts[j.run] # NULL,
               files' = files \cup {j.run},
               reply' = [reply EXCEPT ![c] = [run |-> j.run, idempotent |-> b, current |-> d]]
        PROVE  Papers'
    <2>1. j.run \in RunId
      BY <1>4 DEF CloseJob
    <2> DEFINE new == [run |-> j.run, idempotent |-> b, current |-> d]
    <2>2. new \in Reply /\ new.run = j.run
      BY <2>1 DEF Reply
    <2> HIDE DEF new
    <2>3. /\ reply' \in [Closer -> Reply \cup {NULL}] /\ reply'[c] = new
          /\ \A q \in Closer \ {c} : reply'[q] = reply[q]
      BY ZenonT(100), <1>0, <1>4, <2>2 DEF CloseTypeOK, new
    <2> QED
      BY ZenonT(100), <1>0, <1>3, <1>4, <2>1, <2>2, <2>3
         DEF Papers, CloseTypeOK, CloserInv, ReceiptFilesSound
  <1>5. CASE materialize_first(c)
    <2>1. j \in CloseJob /\ receipts[j.run] # NULL
      BY <1>2, <1>5 DEF materialize_first, CloserShape
    <2>2. Papers'
      BY ZenonT(100), <1>1, <1>4, <1>5, <2>1 DEF materialize_first
    <2>3. lock # c
      BY ZenonT(100), <1>0, <1>5 DEF CloseTypeOK, materialize_first
    <2> QED
      BY ZenonT(100), <1>3, <1>5, <2>2, <2>3, EndKept DEF materialize_first
  <1>6. CASE derive_current(c)
    <2>1. j \in CloseJob /\ receipts[j.run] # NULL /\ j.run \in files
      BY ZenonT(100), <1>2, <1>6 DEF derive_current, CloserShape
    <2>2. PICK d \in BOOLEAN : d = receipt_binds_current_revision(j.run)
      BY ZenonT(100) DEF receipt_binds_current_revision
    <2>3. /\ files' = files \cup {j.run}
          /\ reply' = [reply EXCEPT ![c] = [run |-> j.run, idempotent |-> TRUE, current |-> d]]
      BY ZenonT(100), <1>1, <1>6, <2>1, <2>2 DEF derive_current
    <2>4. Papers'
      BY ZenonT(100), <1>4, <2>1, <2>3
    <2>5. lock # c
      BY ZenonT(100), <1>0, <1>6 DEF CloseTypeOK, derive_current
    <2> QED
      BY <1>3, <1>6, <2>4, <2>5, EndKept DEF derive_current
  <1>7. CASE close_crash(c)
    BY ZenonT(100), <1>3, <1>7, PapersKept, EndKept DEF close_crash
  <1>8. CASE materialize_replay(c)
    <2>1. j \in CloseJob /\ receipts[j.run] # NULL /\ j.run \in RunId
      BY ZenonT(100), <1>2, <1>8 DEF materialize_replay, CloserShape, CloseJob
    <2>2. /\ pc' = [pc EXCEPT ![c] = "replayed"] /\ UNCHANGED <<lock, job, rev, guarded, reply>>
          /\ files' = files \cup {j.run} /\ pc[c] = "replaying"
      BY <1>1, <1>8 DEF materialize_replay
    <2>3. Papers'
      BY ZenonT(100), <1>0, <1>3, <2>1, <2>2 DEF Papers, CloseTypeOK, CloserInv, ReceiptFilesSound
    <2>4. Locals' /\ pc'[c] = "replayed" /\ job'[c] = j
      BY ZenonT(100), <1>0, <1>1, <2>2 DEF Locals, ClosePc
    <2>5. \A q \in Closer \ {c} : /\ pc'[q] = pc[q] /\ job'[q] = job[q]
                                  /\ rev'[q] = rev[q] /\ guarded'[q] = guarded[q]
      BY <1>0, <2>2 DEF Locals
    <2>6. CloserShape(pc[c], job[c], rev[c], guarded[c])'
      BY ZenonT(100), <1>3, <2>1, <2>2, <2>4 DEF CloserShape, Open
    <2>7. lock' # c
      BY ZenonT(100), <1>0, <2>2 DEF CloseTypeOK
    <2> QED
      BY ZenonT(100), <1>3, <2>2, <2>3, <2>4, <2>5, <2>6, <2>7, MoverKept DEF Open
  <1> QED
    BY <1>5, <1>6, <1>7, <1>8

\* A TaskSpec is revised, the registry is edited, or another transaction on the
\* run tables commits: no closer moves.
LEMMA OutsideKept ==
    ASSUME CloserInv, [ClosePathNext]_closeAllVars,
           \/ \E t \in Task, s \in Sha, k \in Source : put(t, s, k)
           \/ git_edit \/ CloseOther \/ UNCHANGED closeAllVars
    PROVE  Kept'
  <1>0. CloseTypeOK /\ Locals
    BY ZenonT(100), PapersKept DEF CloserInv, ReceiptFilesSound
  <1>1. UNCHANGED <<lock, pc, job, rev, guarded, files, reply>>
    BY ZenonT(100) DEF put, git_edit, CloseOther, claim_current, close_fails, close_time, close_reconcile,
       closeVars, closeAllVars, local
  <1>2. Papers'
    BY <1>1, PapersKept
  <1>3. Closers'
    BY <1>1, CloserKept DEF Closers
  <1>4. /\ specs' \in [Task -> Seq(SpecRevision)] /\ gitTask' \in [Task -> Sha \cup {NULL}]
        /\ gitPlan' \in Plan /\ gitEdits' \in 0..MaxGit
    <2>1. ASSUME NEW t \in Task, NEW s \in Sha, NEW k \in Source, put(t, s, k)
          PROVE  /\ specs' \in [Task -> Seq(SpecRevision)] /\ gitTask' \in [Task -> Sha \cup {NULL}]
                 /\ gitPlan' \in Plan /\ gitEdits' \in 0..MaxGit
      <3> DEFINE seen == {r \in RunId : "run-orphaned" \in Range(life[r])}
                 new == [sha |-> s, source |-> k, orphaned |-> seen]
      <3>1. seen \in SUBSET RunId
        OBVIOUS
      <3> HIDE DEF seen
      <3>2. new \in SpecRevision
        BY <3>1 DEF SpecRevision
      <3> HIDE DEF new
      <3>3. Append(specs[t], new) \in Seq(SpecRevision)
        BY SMTT(60), <1>0, <3>2 DEF CloseTypeOK
      <3>4. specs' = [specs EXCEPT ![t] = Append(specs[t], new)]
        BY <2>1 DEF put, new, seen
      <3> QED
        BY ZenonT(100), <1>0, <2>1, <3>3, <3>4 DEF put, git, CloseTypeOK
    <2>2. CASE git_edit
      BY SMTT(60), <1>0, <2>2, ClosePathAssumption DEF git_edit, CloseTypeOK
    <2>3. CASE CloseOther \/ UNCHANGED closeAllVars
      BY ZenonT(100), <1>0, <2>3 DEF CloseOther, claim_current, close_fails, close_time, close_reconcile,
         closeVars, closeAllVars, CloseTypeOK
    <2> QED
      BY <2>1, <2>2, <2>3
  <1>5. CloseTypeOK'
    BY ZenonT(100), <1>0, <1>1, <1>2, <1>4 DEF CloseTypeOK, Papers
  <1> QED
    BY <1>2, <1>3, <1>5 DEF Kept, ReceiptFilesSound, Papers

-----------------------------------------------------------------------------

\* The invariant holds before anyone closes anything.
LEMMA CloseInitInv ==
    ASSUME ClosePathInit
    PROVE  CloserInv
  <1>1. IInv
    BY InitInv DEF ClosePathInit
  <1>2. Closers
    BY ZenonT(100) DEF ClosePathInit, Closers, CloserShape, Open
  <1>3. PICK s \in Sha : /\ gitTask = [t \in Task |-> s]
                         /\ \/ specs = [t \in Task |-> <<>>]
                            \/ specs = [t \in Task |->
                                   <<[sha |-> s, source |-> "put", orphaned |-> {}]>>]
    BY DEF ClosePathInit
  <1>4. <<>> \in Seq(SpecRevision)
        /\ <<[sha |-> s, source |-> "put", orphaned |-> {}]>> \in Seq(SpecRevision)
    <2>1. [sha |-> s, source |-> "put", orphaned |-> {}] \in SpecRevision
      BY DEF SpecRevision, Source
    <2> QED
      BY SMTT(60), <2>1
  <1>5. specs \in [Task -> Seq(SpecRevision)] /\ gitTask \in [Task -> Sha \cup {NULL}]
    BY ZenonT(100), <1>3, <1>4
  <1>6. CloseTypeOK
    BY SMTT(60), <1>5, ClosePathAssumption DEF ClosePathInit, CloseTypeOK
  <1>7. ReceiptFilesSound
    BY ZenonT(100), <1>6 DEF ClosePathInit, ReceiptFilesSound
  <1> QED
    BY <1>1, <1>2, <1>7 DEF CloserInv

\* Every step preserves the invariant.
LEMMA CloseStepInv ==
    ASSUME CloserInv, [ClosePathNext]_closeAllVars
    PROVE  CloserInv'
  <1>1. IInv'
    BY CloseStepRefines, StepInv DEF CloserInv
  <1>2. Kept'
    BY StepKinds, BeginReplayKept, BeginCloseKept, FirstReadKept, SecondReadKept, CommitKept,
       AfterCommitKept, OutsideKept DEF CloseQuiet
  <1> QED
    BY <1>1, <1>2 DEF CloserInv, Kept

\* In every reachable state the close path satisfies its inductive invariant.
THEOREM ClosePathSafe == ClosePathSpec => []CloserInv
  <1>1. ClosePathInit => CloserInv
    BY CloseInitInv
  <1>2. CloserInv /\ [ClosePathNext]_closeAllVars => CloserInv'
    BY CloseStepInv
  <1> QED
    BY <1>1, <1>2, PTL DEF ClosePathSpec

\* Only a commit of a closer writes a receipt.
LEMMA OnlyCommitCloses ==
    ASSUME CloserInv, [ClosePathNext]_closeAllVars, NEW r \in RunId, Closed(r)
    PROVE  \E c \in Closer : commit(c)
  <1>1. CASE CloseQuiet
    BY <1>1, QuietTables DEF Closed, runVars
  <1>2. CASE CloseOther
    BY ZenonT(100), <1>2 DEF CloseOther, claim_current, claim, close_fails, fail_run, close_time,
       heartbeat_lapses, close_reconcile, reconcile, Closed
  <1> QED
    BY <1>1, <1>2, StepKinds

\* What a first close certifies is current when it commits: the TaskSpec revision
\* exactly, because the transaction holds the writer reservation since its first
\* read, and the registry files up to the edits that fall between the second read
\* of the revision and the commit.  A receipt file never exists without its
\* committed receipt, whoever crashes in between.
THEOREM CloseCertifiesCurrent == ClosePathSpec => CertifiesCurrent
  <1>1. ASSUME CloserInv, [ClosePathNext]_closeAllVars
        PROVE  TaskSpecExactStep
    <2> SUFFICES ASSUME NEW r \in RunId, Closed(r), specs[receipts'[r].task] # <<>>
                 PROVE  \/ receipts'[r].verified_task_sha256 = get_current(receipts'[r].task).sha
                        \/ refresh_evolution(receipts'[r].task, receipts'[r].verified_task_sha256)
      BY ZenonT(100) DEF TaskSpecExactStep
    <2>1. PICK c \in Closer : commit(c)
      BY ZenonT(100), <1>1, OnlyCommitCloses
    <2>2. PICK q \in RunId, j \in CloseJob, v \in CloseRevision, s \in Sha :
             /\ j = job[c] /\ q = j.run /\ v = rev[c] /\ ReadSnapshot(j, v)
             /\ j.kind \in {"typed", "historical"} /\ runs[q] # NULL
             /\ s = IF j.kind = "historical" THEN v.task ELSE runs[q].task_sha256
             /\ write_receipt(q, s)
      BY <1>1, <2>1, CommitWrites
    <2>3. /\ receipts'[q].task = runs[q].task /\ receipts'[q].verified_task_sha256 = s
          /\ \A o \in RunId \ {q} : receipts'[o] = receipts[o]
      BY ZenonT(100), <1>1, <2>2, ReceiptWritten DEF CloserInv, IInv
    <2>4. q = r
      BY <2>3 DEF Closed
    <2> QED
      BY ZenonT(100), <2>2, <2>3, <2>4 DEF ReadSnapshot
  <1>2. ASSUME CloserInv, [ClosePathNext]_closeAllVars
        PROVE  ResidualWindowStep
    <2> SUFFICES ASSUME NEW c \in Closer, pc[c] = "guarded", pc'[c] = "committed",
                        guarded[c] = gitEdits
                 PROVE  /\ gitPlan = receipts'[job[c].run].plan_sha256
                        /\ specs[receipts'[job[c].run].task] = <<>> =>
                              gitTask[receipts'[job[c].run].task]
                                = receipts'[job[c].run].task_sha256
      BY ZenonT(100) DEF ResidualWindowStep
    <2>0. CloseTypeOK /\ TypeOK
      BY <1>2 DEF CloserInv, ReceiptFilesSound, IInv
    <2>1. commit(c)
      <3>1. pc'[c] # pc[c]
        OBVIOUS
      <3>2. CASE CloseOther \/ git_edit \/ UNCHANGED closeAllVars
                 \/ \E t \in Task, s \in Sha, k \in Source : put(t, s, k)
        BY ZenonT(100), <3>1, <3>2 DEF CloseOther, claim_current, close_fails, close_time, close_reconcile,
           closeVars, closeAllVars, git_edit, put, local
      <3>3. ASSUME NEW d \in Closer,
                   \/ first_read(d) \/ second_read(d) \/ materialize_first(d)
                   \/ materialize_replay(d) \/ derive_current(d) \/ close_crash(d)
                   \/ \E r \in RunId : begin_replay(d, r)
                   \/ \E r \in RunId, k \in {"typed", "historical"} : begin_close(d, r, k)
            PROVE  FALSE
        <4>1. pc' \in {[pc EXCEPT ![d] = l] : l \in ClosePc \ {"committed"}}
          BY ZenonT(100), <3>3 DEF first_read, second_read, materialize_first, materialize_replay,
             derive_current, close_crash, begin_replay, begin_close, Rollback, EndJob, ClosePc
        <4> QED
          BY <2>0, <4>1 DEF CloseTypeOK
      <3>4. PICK d \in Closer : commit(d)
        BY ZenonT(100), <1>2, <3>2, <3>3, StepKinds DEF CloseQuiet
      <3>5. d = c
        BY <2>0, <3>1, <3>4 DEF commit, CloseTypeOK
      <3> QED
        BY <3>4, <3>5
    <2>2. PICK r \in RunId, j \in CloseJob, v \in CloseRevision, s \in Sha :
             /\ j = job[c] /\ r = j.run /\ v = rev[c] /\ ReadSnapshot(j, v)
             /\ runs[r] # NULL /\ write_receipt(r, s)
      BY <1>2, <2>1, CommitWrites
    <2>3. PICK t \in Task : t = runs[r].task
      BY <2>0, <2>2 DEF TypeOK, RunRow
    <2>4. v = close_revision(t)
      BY ZenonT(100), <1>2, <2>2, <2>3 DEF CloserInv, Closers, CloserShape
    <2>5. /\ receipts'[r].task = t /\ receipts'[r].task_sha256 = runs[r].task_sha256
          /\ receipts'[r].plan_sha256 = runs[r].plan_sha256
      BY ZenonT(100), <2>0, <2>2, <2>3, ReceiptWritten
    <2>6. v # NULL
      BY ZenonT(100), <2>2, CloseNullAssumption
    <2>7. v.plan = gitPlan /\ (specs[t] = <<>> => v.revision = 0 /\ v.task = gitTask[t])
      BY ZenonT(100), <2>0, <2>4, <2>6, CloseRevisionRead
    <2>8. specs[t] = <<>> => v.task = runs[r].task_sha256
      BY ZenonT(100), <2>2, <2>3, <2>7 DEF ReadSnapshot
    <2> QED
      BY ZenonT(100), <2>2, <2>5, <2>7, <2>8 DEF ReadSnapshot
  <1>3. ASSUME CloserInv, [ClosePathNext]_closeAllVars
        PROVE  ReceiptFilesSound'
    BY <1>3, CloseStepInv DEF CloserInv
  <1> QED
    BY <1>1, <1>2, <1>3, ClosePathSafe, PTL DEF ClosePathSpec, CertifiesCurrent

\* Every behaviour of closing and replaying is one of the run tables, so what is
\* proved of RunStore holds with it.
THEOREM ClosePathRefinesRunStore == ClosePathSpec => ClosePathImplementsRunStore
  <1>1. ClosePathInit => Init
    BY DEF ClosePathInit
  <1>2. CloserInv /\ [ClosePathNext]_closeAllVars => [Next]_runVars
    BY CloseStepRefines
  <1> QED
    BY <1>1, <1>2, ClosePathSafe, PTL DEF ClosePathSpec, Spec, ClosePathImplementsRunStore
=============================================================================
