------------------------------ MODULE TaskSpecs ------------------------------
(***************************************************************************)
(* The TaskSpec tables of the StateStore (task_specs.py): revisions, the   *)
(* mutations that made them, keyed by an idempotency key, and the events   *)
(* from which the tables can be replayed.  Every entry is one BEGIN        *)
(* IMMEDIATE transaction over the three tables; it is written as a         *)
(* function from the tables to the new tables, or NULL when it raises and  *)
(* the transaction is rolled back.                                         *)
(***************************************************************************)
EXTENDS Naturals, Sequences, FiniteSets

CONSTANTS
    Task,
    TaskOrder,    \* the tasks sorted by id
    Body,         \* operational material: everything but state and audit metadata
    Executable,   \* the bodies with a valid executable acceptance contract
    CallerKey,    \* idempotency keys outside the reserved namespaces
    Result,       \* digests of runtime-refresh results
    Observation,  \* runtime observations, as activation evidence
    Doc,          \* the documents that occur
    NULL,
    MaxRev,       \* bound on the revisions of one task
    MaxGit        \* bound on the edits of the Git registry

TERMINAL_TASK_STATES == {"verified", "cancelled", "superseded"}
LEGACY_TERMINAL_REVISION_STATES == {"cancelled", "superseded"}

\* closeout: the runtime closeout in the metadata, if there is one.
Closeout == [kind : {"no-run", "unused"}, result : Result]
Document ==
    [body : Body, state : {"planned", "ready"} \cup TERMINAL_TASK_STATES,
     closeout : Closeout \cup {NULL}]

\* The reserved keys name their task and what they are derived from.
ReservedKey ==
    ({"legacy-import", "legacy-seed", "legacy-seed-exact", "activation"} \X Task \X Doc)
        \cup ({"no-run", "unused"} \X Task \X Result)
Key == CallerKey \cup ReservedKey

Entry == {"put", "no-run", "unused", "activation"}
SourceName == Entry \cup {"legacy-import", "legacy-seed", "legacy-seed-exact"}

\* expected is 0 for None.
Request ==
    [via : Entry, key : Key, task : Task, doc : Doc, expected : Nat,
     evidence : Observation \cup {NULL}]

ASSUME TaskSpecsAssumption ==
    /\ TaskOrder \in Seq(Task)
    /\ Executable \subseteq Body
    /\ Doc \subseteq Document
    /\ NULL \notin Doc \cup Closeout \cup Observation \cup Key
    /\ CallerKey \cap ReservedKey = {}
    /\ MaxRev \in Nat /\ MaxGit \in Nat

VARIABLES
    store,        \* the tables [revs, muts, events]
    git,          \* git[t]: the task document in Git, or NULL
    gitEdits,
    aged,         \* observations older than 300 seconds
    reserved,     \* a run holds a conflicting runtime resource
    told          \* history: which requests were answered with which revision

specVars == <<store, git, gitEdits, aged, reserved, told>>

Revision == [doc : Doc, source : SourceName]
Mutation ==
    [key : Key, task : Task, expected : Nat, doc : Doc, result : Nat,
     evidence : Observation \cup {NULL}]
Event ==
    [task : Task, revision : Nat, doc : Doc, source : SourceName, key : Key]
Store ==
    [revs : [Task -> Seq(Revision)], muts : SUBSET Mutation, events : Seq(Event)]

SpecTypeOK ==
    /\ store \in Store
    /\ git \in [Task -> Doc \cup {NULL}] /\ gitEdits \in Nat
    /\ aged \subseteq Observation
    /\ reserved \in BOOLEAN
    /\ told \subseteq [request : Request, revision : Nat]

SpecInit ==
    /\ store = [revs |-> [t \in Task |-> <<>>], muts |-> {}, events |-> <<>>]
    /\ git \in [Task -> Doc \cup {NULL}] /\ gitEdits = 0
    /\ aged = {}
    /\ reserved = FALSE
    /\ told = {}

-----------------------------------------------------------------------------

current_revision(s, t) == Len(s.revs[t])
get_current(s, t) == s.revs[t][current_revision(s, t)]
bound(s, k) == {m \in s.muts : m.key = k}

mutation(q, revision) ==
    [key |-> q.key, task |-> q.task, expected |-> q.expected, doc |-> q.doc,
     result |-> revision, evidence |-> q.evidence]

\* The request is the one the key is bound to.
matches(m, q) ==
    m.task = q.task /\ m.expected = q.expected /\ m.doc = q.doc /\ m.evidence = q.evidence

\* The four INSERTs of a new revision.
revise(s, q, source) ==
    LET n == current_revision(s, q.task) + 1
    IN  [revs |-> [s.revs EXCEPT ![q.task] = Append(@, [doc |-> q.doc, source |-> source])],
         muts |-> s.muts \cup {mutation(q, n)},
         events |-> Append(s.events, [task |-> q.task, revision |-> n, doc |-> q.doc,
                                      source |-> source, key |-> q.key])]

unchanged(s, q) ==
    /\ current_revision(s, q.task) # 0
    /\ get_current(s, q.task).doc = q.doc

\* Mutant: the baseline is compared before the key.
put_validated_material_cas_first(s, q, source) ==
    CASE current_revision(s, q.task) # q.expected -> NULL
      [] bound(s, q.key) # {} ->
             IF \E m \in bound(s, q.key) : matches(m, q) THEN s ELSE NULL
      [] unchanged(s, q) ->
             [s EXCEPT !.muts = @ \cup {mutation(q, q.expected)}]
      [] OTHER -> revise(s, q, source)

\* Mutant: a put that changes nothing is journaled as well.
put_validated_material_touch(s, q, source) ==
    CASE bound(s, q.key) # {} ->
             IF \E m \in bound(s, q.key) : matches(m, q) THEN s ELSE NULL
      [] bound(s, q.key) = {} /\ current_revision(s, q.task) # q.expected -> NULL
      [] bound(s, q.key) = {} /\ current_revision(s, q.task) = q.expected
             /\ unchanged(s, q) ->
             [s EXCEPT !.muts = @ \cup {mutation(q, q.expected)},
                       !.events = revise(s, q, source).events]
      [] OTHER -> revise(s, q, source)

\* A known key is a replay; otherwise the expected revision must be current.
put_validated_material(s, q, source) ==
    CASE bound(s, q.key) # {} ->
             IF \E m \in bound(s, q.key) : matches(m, q) THEN s ELSE NULL
      [] bound(s, q.key) = {} /\ current_revision(s, q.task) # q.expected -> NULL
      [] bound(s, q.key) = {} /\ current_revision(s, q.task) = q.expected
             /\ unchanged(s, q) ->
             [s EXCEPT !.muts = @ \cup {mutation(q, q.expected)}]
      [] OTHER -> revise(s, q, source)

-----------------------------------------------------------------------------

validate_task_write(doc) == doc.body \in Executable

\* A task without an executable contract may still be cancelled or superseded,
\* with its operational material exactly as it is.
is_legacy_terminal_only_revision(current, proposed) ==
    /\ proposed.state \in LEGACY_TERMINAL_REVISION_STATES
    /\ ~validate_task_write(current)
    /\ current.state \notin TERMINAL_TASK_STATES
    /\ current.body = proposed.body /\ current.closeout = proposed.closeout

\* put: no reserved key; a replay skips the validation.
put_admits(s, q) ==
    /\ q.key \in CallerKey /\ q.evidence = NULL
    /\ \/ bound(s, q.key) # {}
       \/ validate_task_write(q.doc)
       \/ /\ current_revision(s, q.task) # 0
          /\ is_legacy_terminal_only_revision(get_current(s, q.task).doc, q.doc)

\* Mutant: a closeout may find its document already there.
closeout_admits_unchanged(s, q, kind) ==
    /\ q.doc.closeout # NULL /\ q.doc.closeout.kind = kind
    /\ q.key = <<kind, q.task, q.doc.closeout.result>> /\ q.evidence = NULL
    /\ validate_task_write(q.doc)

\* A closeout key is derived from the task and the result it closes with; a
\* first closeout must create a revision.
closeout_admits(s, q, kind) ==
    /\ q.doc.closeout # NULL /\ q.doc.closeout.kind = kind
    /\ q.key = <<kind, q.task, q.doc.closeout.result>> /\ q.evidence = NULL
    /\ validate_task_write(q.doc)
    /\ bound(s, q.key) = {} => ~unchanged(s, q)

no_run_closeout_admits(s, q) == closeout_admits(s, q, "no-run")

\* The StateStore wrapper checks the reservations again, also for a replay.
unused_authority_closeout_admits(s, q, busy) ==
    /\ q.doc.state = "superseded"
    /\ ~busy
    /\ closeout_admits(s, q, "unused")

\* The evidence names the task, key, expected revision, document and
\* observation of this request, and all its digests agree.
activation_evidence_binds(q) == q.evidence # NULL

\* The key is derived from the planned baseline, the document is exactly its
\* ready form, and the observation is fresh unless this is a replay.
activation_admits(s, q, old) ==
    /\ activation_evidence_binds(q)
    /\ q.expected \in 1 .. current_revision(s, q.task)
    /\ LET baseline == s.revs[q.task][q.expected].doc
       IN  /\ baseline.state = "planned"
           /\ q.doc = [baseline EXCEPT !.state = "ready"]
           /\ q.key = <<"activation", q.task, baseline>>
    /\ validate_task_write(q.doc)
    /\ bound(s, q.key) # {} \/ q.evidence \notin old

admits(s, q, old, busy) ==
    CASE q.via = "put" -> put_admits(s, q)
      [] q.via = "no-run" -> no_run_closeout_admits(s, q)
      [] q.via = "unused" -> unused_authority_closeout_admits(s, q, busy)
      [] q.via = "activation" -> activation_admits(s, q, old)

\* The whole entry: NULL when it raises.
answered(s, q, old, busy) ==
    IF admits(s, q, old, busy) THEN put_validated_material(s, q, q.via) ELSE NULL

-----------------------------------------------------------------------------

seed_request(ns, t) ==
    [via |-> "put", key |-> <<ns, t, git[t]>>, task |-> t, doc |-> git[t],
     expected |-> 0, evidence |-> NULL]

Missing(s) == {t \in Task : git[t] # NULL /\ s.revs[t] = <<>>}
Divergent(s) ==
    {t \in Task : git[t] # NULL /\ s.revs[t] # <<>> /\ get_current(s, t).doc # git[t]}

\* The loop over the missing TaskSpecs in the order of their ids: each of them
\* gets its first revision.
seeded(s, ns, tasks) ==
    LET order == SelectSeq(TaskOrder, LAMBDA t : t \in tasks)
    IN  [revs |-> [t \in Task |-> IF t \in tasks
                       THEN <<[doc |-> git[t], source |-> ns]>> ELSE s.revs[t]],
         muts |-> s.muts \cup {mutation(seed_request(ns, t), 1) : t \in tasks},
         events |-> s.events \o [i \in DOMAIN order |->
                       [task |-> order[i], revision |-> 1, doc |-> git[order[i]],
                        source |-> ns, key |-> <<ns, order[i], git[order[i]]>>]]]

Bounded(s) == \A t \in Task : Len(s.revs[t]) <= MaxRev

Commit(s) == s # NULL /\ Bounded(s) /\ store' = s

\* The revision an entry answers with.
Tell(q, s) == \E m \in bound(s, q.key) :
    told' = told \cup {[request |-> q, revision |-> m.result]}

\* put_task_spec and the three runtime-refresh entries.
request(q) ==
    /\ Commit(answered(store, q, aged, reserved))
    /\ Tell(q, store')
    /\ UNCHANGED <<git, gitEdits, aged, reserved>>

import_registry_task_specs ==
    /\ Divergent(store) = {}
    /\ Missing(store) # {}
    /\ Commit(seeded(store, "legacy-import", Missing(store)))
    /\ UNCHANGED <<git, gitEdits, aged, reserved, told>>

seed_missing_registry_task_spec(t) ==
    /\ t \in Missing(store)
    /\ Commit(seeded(store, "legacy-seed-exact", {t}))
    /\ UNCHANGED <<git, gitEdits, aged, reserved, told>>

\* Mutant: the missing TaskSpecs are determined first and inserted last.
register_seeding_last(q) ==
    LET s == answered(store, q, aged, reserved)
        t == q.task
        n == current_revision(s, t) + 1
    IN  /\ q.via = "put"
        /\ Missing(store) = {t} /\ s # NULL
        /\ Commit([revs |-> [s.revs EXCEPT ![t] =
                                Append(@, [doc |-> git[t], source |-> "legacy-seed"])],
                   muts |-> s.muts \cup {mutation(seed_request("legacy-seed", t), n)},
                   events |-> Append(s.events,
                       [task |-> t, revision |-> n, doc |-> git[t], source |-> "legacy-seed",
                        key |-> <<"legacy-seed", t, git[t]>>])])
        /\ Tell(q, store')
        /\ UNCHANGED <<git, gitEdits, aged, reserved>>

\* The missing TaskSpecs and one reviewed revision, in one transaction.
register_task_spec_with_legacy_import(q) ==
    /\ q.via = "put"
    /\ Missing(store) # {}
    /\ Commit(answered(seeded(store, "legacy-seed", Missing(store)), q, aged, reserved))
    /\ Tell(q, store')
    /\ UNCHANGED <<git, gitEdits, aged, reserved>>

git_edit ==
    /\ gitEdits < MaxGit /\ gitEdits' = gitEdits + 1
    /\ \E t \in Task, d \in Doc : git' = [git EXCEPT ![t] = d]
    /\ UNCHANGED <<store, aged, reserved, told>>

observation_ages(o) ==
    /\ o \notin aged
    /\ aged' = aged \cup {o}
    /\ UNCHANGED <<store, git, gitEdits, reserved, told>>

runtime_reserved_or_released ==
    /\ reserved' = ~reserved
    /\ UNCHANGED <<store, git, gitEdits, aged, told>>

\* The requests whose key belongs to their entry; others raise at once.
SpecRequest ==
    {[via |-> "put", key |-> k, task |-> t, doc |-> d, expected |-> n, evidence |-> NULL] :
        k \in CallerKey, t \in Task, d \in Doc, n \in 0 .. MaxRev}
    \cup
    {[via |-> d.closeout.kind, key |-> <<d.closeout.kind, t, d.closeout.result>>, task |-> t,
      doc |-> d, expected |-> n, evidence |-> NULL] :
        t \in Task, d \in {d \in Doc : d.closeout # NULL}, n \in 0 .. MaxRev}
    \cup
    {[via |-> "activation", key |-> <<"activation", t, b>>, task |-> t,
      doc |-> d, expected |-> n, evidence |-> o] :
        t \in Task, b \in Doc, d \in Doc, n \in 1 .. MaxRev, o \in Observation}

SpecNext ==
    \/ \E q \in SpecRequest : request(q)
    \/ import_registry_task_specs
    \/ \E t \in Task : seed_missing_registry_task_spec(t)
    \/ \E q \in SpecRequest : register_task_spec_with_legacy_import(q)
    \/ git_edit
    \/ \E o \in Observation : observation_ages(o)
    \/ runtime_reserved_or_released

TaskSpecsSpec == SpecInit /\ [][SpecNext]_specVars

-----------------------------------------------------------------------------

\* A request that was answered once is answered with the same revision, and
\* with the document it asked for, however often and however late it is
\* repeated: neither later revisions nor an aged observation refuse it.  Only
\* the unused-authority closeout looks at the reservations again.
RetrySucceeds ==
    \A a \in told :
        LET q == a.request
        IN  /\ (q.via = "unused" => ~reserved) => answered(store, q, aged, reserved) = store
            /\ \E m \in bound(store, q.key) : m.result = a.revision
            /\ a.revision \in 1 .. current_revision(store, q.task)
            /\ store.revs[q.task][a.revision].doc = q.doc

\* Git is a source of first revisions only: no import or seed, in whatever
\* order with puts and edits of the Git registry, replaces a StateStore revision.
GitNeverOverwrites ==
    \A t \in Task : \A i \in DOMAIN store.revs[t] :
        store.revs[t][i].source \in {"legacy-import", "legacy-seed", "legacy-seed-exact"} => i = 1

\* The compatibility path of put cannot be used to revise a task that has no
\* executable contract: such a document is an import, or the final closing of
\* the document before it.
BypassOnlyCloses ==
    \A t \in Task : \A i \in DOMAIN store.revs[t] :
        LET rev == store.revs[t][i]
        IN  (i > 1 /\ ~validate_task_write(rev.doc)) =>
                /\ rev.doc.state \in LEGACY_TERMINAL_REVISION_STATES
                /\ rev.doc.body = store.revs[t][i - 1].doc.body
                /\ store.revs[t][i - 1].doc.state \notin TERMINAL_TASK_STATES

\* No revision enters the history beside its authority, Git or the compatibility
\* path.
RevisionsAuthorised == GitNeverOverwrites /\ BypassOnlyCloses

\* A receipt in a namespace of runtime refresh is trusted by its readers: it
\* always names a revision which that entry itself created from the revision
\* before, and for an activation the evidence it was admitted with.
ReceiptsAuthenticated ==
    \A m \in store.muts : \A ns \in {"no-run", "unused", "activation"} :
        (m.key \in ReservedKey /\ m.key[1] = ns) =>
            /\ m.result = m.expected + 1
            /\ store.revs[m.task][m.result] = [doc |-> m.doc, source |-> ns]
            /\ ns = "activation" =>
                   /\ m.evidence # NULL
                   /\ store.revs[m.task][m.expected].doc.state = "planned"
=============================================================================
