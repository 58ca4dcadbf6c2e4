-------------------------- MODULE TaskSpecsProofs ---------------------------
(***************************************************************************)
(* Machine-checked proofs about TaskSpecs, for any number of tasks,        *)
(* documents, keys and observations: answers are kept, reserved receipts   *)
(* are genuine, and no revision enters the history beside its authority.   *)
(* The second part is about IdentityRebind, for every set of tasks and     *)
(* documents: a repository identity is rebound as planned, and once.  The  *)
(* third is about LeaseMigration, for every set of tasks, batch size and   *)
(* number of edits: a batch is migrated as reviewed, or left alone.        *)
(***************************************************************************)
EXTENDS TaskSpecs, IdentityRebind, LeaseMigration, FiniteSetTheorems, TLAPS

\* Time for each leaf: the provers are given more than their default.
USE ZenonT(15), SMTT(20), Z3T(20)

Legacy == {"legacy-import", "legacy-seed", "legacy-seed-exact"}

\* The rows of the tables, apart from the journal.
Rows(s) ==
    /\ s = [revs |-> s.revs, muts |-> s.muts, events |-> s.events]
    /\ s.revs \in [Task -> Seq(Revision)]
    /\ s.muts \subseteq Mutation

\* A key is bound once, to a revision with the document it asked for, and a
\* reserved key to the task it names.
Bindings(s) ==
    /\ \A m, n \in s.muts : m.key = n.key => m = n
    /\ \A m \in s.muts : /\ m.result \in 1 .. Len(s.revs[m.task])
                         /\ s.revs[m.task][m.result].doc = m.doc
                         /\ m.key \in ReservedKey => m.key[2] = m.task

\* The properties, of any tables.
AuthorisedRow(s, t, i) ==
    /\ s.revs[t][i].source \in Legacy => i = 1
    /\ (i > 1 /\ ~validate_task_write(s.revs[t][i].doc)) =>
           /\ s.revs[t][i].doc.state \in LEGACY_TERMINAL_REVISION_STATES
           /\ s.revs[t][i].doc.body = s.revs[t][i - 1].doc.body
           /\ s.revs[t][i - 1].doc.state \notin TERMINAL_TASK_STATES
Authorised(s) == \A t \in Task : \A i \in DOMAIN s.revs[t] : AuthorisedRow(s, t, i)

GenuineRow(s, m) ==
    \A ns \in {"no-run", "unused", "activation"} :
        (m.key \in ReservedKey /\ m.key[1] = ns) =>
            /\ m.result = m.expected + 1
            /\ s.revs[m.task][m.result] = [doc |-> m.doc, source |-> ns]
            /\ ns = "activation" =>
                   /\ m.evidence # NULL
                   /\ m.expected \in 1 .. Len(s.revs[m.task])
                   /\ s.revs[m.task][m.expected].doc.state = "planned"

Genuine(s) == \A m \in s.muts : GenuineRow(s, m)

Sound(s) == Rows(s) /\ Bindings(s) /\ Authorised(s) /\ Genuine(s)

\* Revisions and bindings are only ever added.
Grows(s, z) ==
    /\ s.muts \subseteq z.muts
    /\ \A t \in Task : \A i \in DOMAIN s.revs[t] :
           i \in DOMAIN z.revs[t] /\ z.revs[t][i] = s.revs[t][i]

\* What of an admission does not change any more once the key is bound.
Standing(s, q) ==
    /\ q.via \in {"no-run", "unused"} =>
           /\ q.doc.closeout # NULL /\ q.doc.closeout.kind = q.via
           /\ q.key = <<q.via, q.task, q.doc.closeout.result>>
           /\ validate_task_write(q.doc)
           /\ q.via = "unused" => q.doc.state = "superseded"
    /\ q.via = "activation" =>
           /\ q.expected \in 1 .. Len(s.revs[q.task])
           /\ s.revs[q.task][q.expected].doc.state = "planned"
           /\ q.doc = [s.revs[q.task][q.expected].doc EXCEPT !.state = "ready"]
           /\ q.key = <<"activation", q.task, s.revs[q.task][q.expected].doc>>
           /\ validate_task_write(q.doc)

Answers(s) ==
    \A a \in told : /\ a.request \in SpecRequest /\ a.revision \in Nat
                    /\ mutation(a.request, a.revision) \in s.muts
                    /\ Standing(s, a.request)

SpecInv == git \in [Task -> Doc \cup {NULL}] /\ Sound(store) /\ Answers(store)

-----------------------------------------------------------------------------

\* The requests the entries are called with are typed, and an entry is only
\* called with a key of its own namespace.
LEMMA RequestType ==
    ASSUME NEW q \in SpecRequest
    PROVE  /\ q.via \in Entry /\ q.key \in Key /\ q.task \in Task /\ q.doc \in Doc
           /\ q.expected \in Nat /\ q.evidence \in Observation \cup {NULL}
           /\ q.via = "put" => q.key \in CallerKey /\ q.evidence = NULL
           /\ q.via \in {"no-run", "unused"} => q.evidence = NULL
           /\ q.via = "activation" => q.evidence # NULL
           /\ q.via # "put" =>
                 q.key \in ReservedKey /\ q.key[1] = q.via /\ q.key[2] = q.task
  <1>1. CASE \E k \in CallerKey, t \in Task, d \in Doc, n \in 0 .. MaxRev :
                q = [via |-> "put", key |-> k, task |-> t, doc |-> d, expected |-> n,
                     evidence |-> NULL]
    BY <1>1, TaskSpecsAssumption DEF Entry, Key
  <1>2. CASE \E t \in Task, d \in {d \in Doc : d.closeout # NULL}, n \in 0 .. MaxRev :
                q = [via |-> d.closeout.kind, key |-> <<d.closeout.kind, t, d.closeout.result>>,
                     task |-> t, doc |-> d, expected |-> n, evidence |-> NULL]
    <2>1. PICK t \in Task, d \in {d \in Doc : d.closeout # NULL}, n \in 0 .. MaxRev :
                q = [via |-> d.closeout.kind, key |-> <<d.closeout.kind, t, d.closeout.result>>,
                     task |-> t, doc |-> d, expected |-> n, evidence |-> NULL]
      BY <1>2
    <2>2. d \in Doc /\ d.closeout \in Closeout
      BY TaskSpecsAssumption DEF Document
    <2>3. d.closeout.kind \in {"no-run", "unused"} /\ d.closeout.result \in Result
      BY <2>2 DEF Closeout
    <2>4. q.key \in ReservedKey /\ q.key[1] = q.via /\ q.key[2] = q.task
      BY <2>1, <2>3 DEF ReservedKey
    <2> QED
      BY <2>1, <2>2, <2>3, <2>4, TaskSpecsAssumption DEF Entry, Key
  <1>3. CASE \E t \in Task, b \in Doc, d \in Doc, n \in 1 .. MaxRev, o \in Observation :
                q = [via |-> "activation", key |-> <<"activation", t, b>>, task |-> t,
                     doc |-> d, expected |-> n, evidence |-> o]
    <2>1. PICK t \in Task, b \in Doc, d \in Doc, n \in 1 .. MaxRev, o \in Observation :
                q = [via |-> "activation", key |-> <<"activation", t, b>>, task |-> t,
                     doc |-> d, expected |-> n, evidence |-> o]
      BY <1>3
    <2>2. q.key \in ReservedKey /\ q.key[1] = q.via /\ q.key[2] = q.task
      BY <2>1 DEF ReservedKey
    <2> QED
      BY <2>1, <2>2, TaskSpecsAssumption DEF Entry, Key
  <1> QED
    BY <1>1, <1>2, <1>3 DEF SpecRequest

\* What an admitted request satisfies, now and, apart from the last two facts,
\* for ever.
LEMMA AdmitsFacts ==
    ASSUME NEW s, NEW q \in SpecRequest, NEW old, NEW busy, admits(s, q, old, busy)
    PROVE  /\ Standing(s, q)
           /\ (bound(s, q.key) = {} /\ q.via \in {"no-run", "unused"}) => ~unchanged(s, q)
           /\ (bound(s, q.key) = {} /\ q.via = "put") =>
                 \/ validate_task_write(q.doc)
                 \/ /\ current_revision(s, q.task) # 0
                    /\ is_legacy_terminal_only_revision(get_current(s, q.task).doc, q.doc)
           /\ q.via # "put" => validate_task_write(q.doc)
  <1> q.via \in {"put", "no-run", "unused", "activation"}
    BY RequestType DEF Entry
  <1>1. CASE q.via = "put"
    BY <1>1 DEF admits, put_admits, Standing
  <1>2. CASE q.via = "no-run"
    BY <1>2 DEF admits, no_run_closeout_admits, closeout_admits, Standing
  <1>3. CASE q.via = "unused"
    BY <1>3 DEF admits, unused_authority_closeout_admits, closeout_admits, Standing
  <1>4. CASE q.via = "activation"
    BY <1>4 DEF admits, activation_admits, Standing, current_revision
  <1> QED
    BY <1>1, <1>2, <1>3, <1>4

\* A request that was admitted once and whose key is bound is admitted again.
LEMMA StandingAdmits ==
    ASSUME NEW s, NEW q \in SpecRequest, NEW old, NEW busy,
           Standing(s, q), bound(s, q.key) # {}, q.via = "unused" => ~busy
    PROVE  admits(s, q, old, busy)
  <1> q.via \in {"put", "no-run", "unused", "activation"}
    BY RequestType DEF Entry
  <1>1. CASE q.via = "put"
    BY <1>1, RequestType DEF admits, put_admits
  <1>2. CASE q.via = "no-run"
    BY <1>2, RequestType DEF admits, no_run_closeout_admits, closeout_admits, Standing
  <1>3. CASE q.via = "unused"
    BY <1>3, RequestType DEF admits, unused_authority_closeout_admits, closeout_admits, Standing
  <1>4. CASE q.via = "activation"
    BY <1>4, RequestType
       DEF admits, activation_admits, activation_evidence_binds, Standing, current_revision
  <1> QED
    BY <1>1, <1>2, <1>3, <1>4

\* The three outcomes of an entry that does not raise (put_validated_material).
LEMMA Outcomes ==
    ASSUME NEW s, NEW q \in SpecRequest, NEW old, NEW busy,
           answered(s, q, old, busy) # NULL
    PROVE  /\ admits(s, q, old, busy)
           /\ \/ /\ answered(s, q, old, busy) = s
                 /\ \E m \in bound(s, q.key) : matches(m, q)
              \/ /\ bound(s, q.key) = {} /\ current_revision(s, q.task) = q.expected
                 /\ unchanged(s, q)
                 /\ answered(s, q, old, busy) =
                        [s EXCEPT !.muts = @ \cup {mutation(q, q.expected)}]
              \/ /\ bound(s, q.key) = {} /\ current_revision(s, q.task) = q.expected
                 /\ ~unchanged(s, q)
                 /\ answered(s, q, old, busy) = revise(s, q, q.via)
  BY DEF answered, put_validated_material

-----------------------------------------------------------------------------

\* What a mutation row says of the tables survives every addition to them.
LEMMA GrowsKeeps ==
    ASSUME NEW s, NEW z, Sound(s), Rows(z), Grows(s, z)
    PROVE  /\ \A m \in s.muts : /\ GenuineRow(z, m)
                                /\ m.result \in 1 .. Len(z.revs[m.task])
                                /\ z.revs[m.task][m.result].doc = m.doc
           /\ \A q \in SpecRequest : Standing(s, q) => Standing(z, q)
  <1>1. \A t \in Task : /\ DOMAIN s.revs[t] = 1 .. Len(s.revs[t])
                        /\ DOMAIN z.revs[t] = 1 .. Len(z.revs[t])
    BY DEF Sound, Rows
  <1>2. ASSUME NEW m \in s.muts
        PROVE  /\ m.result \in 1 .. Len(z.revs[m.task])
               /\ z.revs[m.task][m.result] = s.revs[m.task][m.result]
    <2>1. m.task \in Task /\ m.result \in 1 .. Len(s.revs[m.task])
      BY DEF Sound, Rows, Bindings, Mutation
    <2> QED
      BY <1>1, <2>1 DEF Grows
  <1>3. ASSUME NEW m \in s.muts
        PROVE  GenuineRow(z, m)
    <2>1. m.task \in Task /\ GenuineRow(s, m)
      BY DEF Sound, Rows, Genuine, Mutation
    <2>2. \A i \in 1 .. Len(s.revs[m.task]) :
              i \in 1 .. Len(z.revs[m.task]) /\ z.revs[m.task][i] = s.revs[m.task][i]
      BY <1>1, <2>1 DEF Grows
    <2> QED
      BY <1>2, <2>1, <2>2 DEF GenuineRow
  <1>4. ASSUME NEW q \in SpecRequest, Standing(s, q)
        PROVE  Standing(z, q)
    <2>1. q.task \in Task
      BY RequestType
    <2>2. \A i \in 1 .. Len(s.revs[q.task]) :
              i \in 1 .. Len(z.revs[q.task]) /\ z.revs[q.task][i] = s.revs[q.task][i]
      BY <1>1, <2>1 DEF Grows
    <2> QED
      BY <1>4, <2>2 DEF Standing
  <1>5. \A m \in s.muts : s.revs[m.task][m.result].doc = m.doc
    BY DEF Sound, Bindings
  <1> QED
    BY <1>2, <1>3, <1>4, <1>5

\* New mutation rows with fresh keys that are sound themselves keep the tables
\* sound.
LEMMA RowsAdded ==
    ASSUME NEW s, NEW z, NEW N, Sound(s), Rows(z), Grows(s, z), z.muts = s.muts \cup N,
           \A m, n \in N : m.key = n.key => m = n,
           \A n \in N : /\ bound(s, n.key) = {}
                        /\ n.result \in 1 .. Len(z.revs[n.task])
                        /\ z.revs[n.task][n.result].doc = n.doc
                        /\ n.key \in ReservedKey => n.key[2] = n.task
                        /\ GenuineRow(z, n)
    PROVE  Bindings(z) /\ Genuine(z)
  <1>1. \A m \in s.muts, n \in N : m.key # n.key
    BY DEF bound
  <1>2. \A m, n \in z.muts : m.key = n.key => m = n
    BY <1>1 DEF Sound, Bindings
  <1>3. \A m \in s.muts : /\ m.result \in 1 .. Len(z.revs[m.task])
                          /\ z.revs[m.task][m.result].doc = m.doc
                          /\ GenuineRow(z, m)
    BY GrowsKeeps
  <1>4. \A m \in s.muts : m.key \in ReservedKey => m.key[2] = m.task
    BY DEF Sound, Bindings
  <1>5. Bindings(z)
    BY <1>2, <1>3, <1>4 DEF Bindings
  <1>6. Genuine(z)
    BY <1>3 DEF Genuine
  <1> QED
    BY <1>5, <1>6

\* A put that changes nothing binds its key to the current revision.
LEMMA TouchSound ==
    ASSUME NEW s, NEW q \in SpecRequest, NEW old, NEW busy, Sound(s),
           admits(s, q, old, busy), bound(s, q.key) = {},
           current_revision(s, q.task) = q.expected, unchanged(s, q),
           NEW z, z = [s EXCEPT !.muts = @ \cup {mutation(q, q.expected)}]
    PROVE  /\ Sound(z) /\ Grows(s, z) /\ Standing(z, q)
           /\ \A m \in bound(z, q.key) : m = mutation(q, m.result)
  <1> DEFINE new == mutation(q, q.expected)
  <1>1. /\ q.via \in Entry /\ q.key \in Key /\ q.task \in Task /\ q.doc \in Doc
        /\ q.expected \in Nat /\ q.evidence \in Observation \cup {NULL}
        /\ q.via # "put" => q.key \in ReservedKey /\ q.key[1] = q.via /\ q.key[2] = q.task
        /\ q.via = "put" => q.key \notin ReservedKey
    BY RequestType, TaskSpecsAssumption
  <1>2. /\ new \in Mutation /\ new.key = q.key /\ new.task = q.task /\ new.doc = q.doc
        /\ new.result = q.expected /\ new.expected = q.expected
    BY <1>1 DEF mutation, Mutation
  <1>3. z.revs = s.revs /\ z.muts = s.muts \cup {new} /\ z.events = s.events
        /\ z = [revs |-> z.revs, muts |-> z.muts, events |-> z.events]
    BY DEF Sound, Rows
  <1> HIDE DEF new
  <1>4. Rows(z) /\ Grows(s, z)
    BY <1>2, <1>3 DEF Sound, Rows, Grows
  <1>5. new.result \in 1 .. Len(z.revs[new.task]) /\ z.revs[new.task][new.result].doc = new.doc
    <2>1. s.revs[q.task] \in Seq(Revision)
      BY <1>1 DEF Sound, Rows
    <2>2. Len(s.revs[q.task]) = q.expected /\ q.expected # 0
          /\ s.revs[q.task][q.expected].doc = q.doc
      BY DEF current_revision, unchanged, get_current
    <2> QED
      BY <1>1, <1>2, <1>3, <2>1, <2>2
  <1>7. GenuineRow(z, new)
    <2>1. CASE q.via = "put"
      BY <1>1, <1>2, <2>1 DEF GenuineRow
    <2>2. CASE q.via \in {"no-run", "unused"}
      BY <2>2, AdmitsFacts
    <2>3. CASE q.via = "activation"
      <3>1. Standing(s, q)
        BY AdmitsFacts
      <3>2. /\ s.revs[q.task][q.expected].doc.state = "planned"
            /\ q.doc = [s.revs[q.task][q.expected].doc EXCEPT !.state = "ready"]
        BY <2>3, <3>1 DEF Standing
      <3>3. s.revs[q.task][q.expected].doc = q.doc
        BY <1>2, <1>3, <1>5
      <3>4. q.doc \in Document
        BY <1>1, TaskSpecsAssumption
      <3>5. q.doc.state = "ready"
        BY <3>2, <3>3, <3>4 DEF Document
      <3> QED
        BY <3>2, <3>3, <3>5
    <2> QED
      BY <1>1, <2>1, <2>2, <2>3 DEF Entry
  <1>8. Bindings(z) /\ Genuine(z)
    <2>1. new.key \in ReservedKey => new.key[2] = new.task
      BY <1>1, <1>2
    <2>2. bound(s, new.key) = {}
      BY <1>2
    <2> DEFINE N == {new}
    <2>3. /\ z.muts = s.muts \cup N
          /\ \A m, n \in N : m.key = n.key => m = n
          /\ \A n \in N : /\ bound(s, n.key) = {}
                          /\ n.result \in 1 .. Len(z.revs[n.task])
                          /\ z.revs[n.task][n.result].doc = n.doc
                          /\ n.key \in ReservedKey => n.key[2] = n.task
                          /\ GenuineRow(z, n)
      BY <1>3, <1>5, <1>7, <2>1, <2>2
    <2> HIDE DEF N
    <2> QED
      BY <1>4, <2>3, RowsAdded
  <1>9. Authorised(z)
    BY <1>3 DEF Sound, Authorised, AuthorisedRow
  <1>10. Standing(z, q)
    BY <1>4, AdmitsFacts, GrowsKeeps
  <1>11. \A m \in bound(z, q.key) : m = mutation(q, m.result)
    BY <1>2, <1>3 DEF bound, new
  <1> QED
    BY <1>4, <1>8, <1>9, <1>10, <1>11 DEF Sound

\* A new revision is appended, under the key of its request.
LEMMA ReviseSound ==
    ASSUME NEW s, NEW q \in SpecRequest, NEW old, NEW busy, Sound(s),
           admits(s, q, old, busy), bound(s, q.key) = {},
           current_revision(s, q.task) = q.expected,
           NEW z, z = revise(s, q, q.via)
    PROVE  /\ Sound(z) /\ Grows(s, z) /\ Standing(z, q)
           /\ \A m \in bound(z, q.key) : m = mutation(q, m.result)
  <1> DEFINE k == Len(s.revs[q.task]) + 1
             rev == [doc |-> q.doc, source |-> q.via]
             new == mutation(q, k)
  <1>1. /\ q.via \in Entry /\ q.key \in Key /\ q.task \in Task /\ q.doc \in Doc
        /\ q.expected \in Nat /\ q.evidence \in Observation \cup {NULL}
        /\ q.via = "activation" => q.evidence # NULL
        /\ q.via # "put" => q.key \in ReservedKey /\ q.key[1] = q.via /\ q.key[2] = q.task
        /\ q.via = "put" => q.key \notin ReservedKey
    BY RequestType, TaskSpecsAssumption
  <1>2. s.revs[q.task] \in Seq(Revision) /\ k \in Nat /\ k = q.expected + 1
    BY <1>1 DEF Sound, Rows, current_revision
  <1>3. /\ new \in Mutation /\ new.key = q.key /\ new.task = q.task /\ new.doc = q.doc
        /\ new.result = k /\ new.expected = q.expected /\ new.evidence = q.evidence
    BY <1>1, <1>2 DEF mutation, Mutation
  <1>4. rev \in Revision /\ rev.doc = q.doc /\ rev.source = q.via
    BY <1>1 DEF Revision, SourceName
  <1>5. /\ z.revs = [s.revs EXCEPT ![q.task] = Append(s.revs[q.task], rev)]
        /\ z.muts = s.muts \cup {new}
        /\ z = [revs |-> z.revs, muts |-> z.muts, events |-> z.events]
    BY DEF revise, current_revision
  <1> HIDE DEF new, rev, k
  <1>6. /\ z.revs[q.task] = Append(s.revs[q.task], rev)
        /\ \A t \in Task \ {q.task} : z.revs[t] = s.revs[t]
        /\ z.revs \in [Task -> Seq(Revision)]
    BY <1>1, <1>2, <1>4, <1>5 DEF Sound, Rows
  <1>7. /\ Len(z.revs[q.task]) = k /\ z.revs[q.task][k] = rev
        /\ \A i \in 1 .. (k - 1) : z.revs[q.task][i] = s.revs[q.task][i]
        /\ DOMAIN z.revs[q.task] = 1 .. k /\ DOMAIN s.revs[q.task] = 1 .. (k - 1)
    BY <1>2, <1>4, <1>6 DEF k
  <1>8. Rows(z)
    BY <1>3, <1>5, <1>6 DEF Sound, Rows
  <1>9. Grows(s, z)
    BY <1>2, <1>5, <1>6, <1>7 DEF Grows
  <1>10. Standing(s, q) /\ Standing(z, q)
    <2>1. Standing(s, q)
      BY AdmitsFacts
    <2> QED
      BY <1>8, <1>9, <2>1, GrowsKeeps
  <1>11. GenuineRow(z, new)
    <2>1. CASE q.via = "put"
      BY <1>1, <1>3, <2>1 DEF GenuineRow
    <2>2. CASE q.via # "put"
      <3>1. new.key[1] = q.via /\ new.result = new.expected + 1
        BY <1>1, <1>2, <1>3, <2>2
      <3>2. z.revs[new.task][new.result] = [doc |-> new.doc, source |-> q.via]
        BY <1>3, <1>7 DEF rev
      <3>3. q.via = "activation" =>
                /\ new.evidence # NULL
                /\ new.expected \in 1 .. Len(z.revs[new.task])
                /\ z.revs[new.task][new.expected].doc.state = "planned"
        BY <1>1, <1>3, <1>10 DEF Standing
      <3> QED
        BY <3>1, <3>2, <3>3 DEF GenuineRow
    <2> QED
      BY <2>1, <2>2
  <1>12. Bindings(z) /\ Genuine(z)
    <2> DEFINE N == {new}
    <2>1. new.key \in ReservedKey => new.key[2] = new.task
      BY <1>1, <1>3
    <2>2. new.result \in 1 .. Len(z.revs[new.task]) /\ z.revs[new.task][new.result].doc = new.doc
      BY <1>1, <1>2, <1>3, <1>4, <1>7
    <2>3. /\ z.muts = s.muts \cup N
          /\ \A m, n \in N : m.key = n.key => m = n
          /\ \A n \in N : /\ bound(s, n.key) = {}
                          /\ n.result \in 1 .. Len(z.revs[n.task])
                          /\ z.revs[n.task][n.result].doc = n.doc
                          /\ n.key \in ReservedKey => n.key[2] = n.task
                          /\ GenuineRow(z, n)
      BY <1>3, <1>5, <1>11, <2>1, <2>2
    <2> HIDE DEF N
    <2> QED
      BY <1>8, <1>9, <2>3, RowsAdded
  <1>13. Authorised(z)
    <2>1. ASSUME NEW t \in Task, t # q.task
          PROVE  z.revs[t] = s.revs[t]
      BY <1>6, <2>1
    <2>2. ASSUME NEW i \in 1 .. (k - 1), i > 1
          PROVE  z.revs[q.task][i - 1] = s.revs[q.task][i - 1]
      <3>1. k \in Nat
        BY <1>2
      <3>2. i - 1 \in 1 .. (k - 1)
        BY <2>2, <3>1
      <3> QED
        BY <1>7, <3>2
    <2>3. q.via \notin Legacy
      BY <1>1 DEF Entry, Legacy
    <2>4. ASSUME k > 1, ~validate_task_write(q.doc)
          PROVE  /\ q.doc.state \in LEGACY_TERMINAL_REVISION_STATES
                 /\ q.doc.body = z.revs[q.task][k - 1].doc.body
                 /\ z.revs[q.task][k - 1].doc.state \notin TERMINAL_TASK_STATES
      <3>1. is_legacy_terminal_only_revision(get_current(s, q.task).doc, q.doc)
        BY <1>1, <2>4, AdmitsFacts DEF Entry
      <3>2. get_current(s, q.task) = s.revs[q.task][k - 1]
        BY <1>2 DEF get_current, current_revision, k
      <3>3. z.revs[q.task][k - 1] = s.revs[q.task][k - 1]
        <4>1. k \in Nat
          BY <1>2
        <4>2. k - 1 \in 1 .. (k - 1)
          BY <2>4, <4>1
        <4> QED
          BY <1>7, <4>2
      <3> QED
        BY <3>1, <3>2, <3>3 DEF is_legacy_terminal_only_revision
    <2>5. ASSUME NEW i \in 1 .. k
          PROVE  AuthorisedRow(z, q.task, i)
      <3>1. CASE i = k
        BY <1>4, <1>7, <2>3, <2>4, <3>1 DEF AuthorisedRow
      <3>2. CASE i # k
        <4>1. i \in 1 .. (k - 1)
          BY <1>1, <1>2, <3>2
        <4>2. z.revs[q.task][i] = s.revs[q.task][i] /\ AuthorisedRow(s, q.task, i)
          BY <1>1, <1>7, <4>1 DEF Sound, Authorised
        <4> QED
          BY <2>2, <4>1, <4>2 DEF AuthorisedRow
      <3> QED
        BY <3>1, <3>2
    <2>6. ASSUME NEW t \in Task, t # q.task, NEW i \in DOMAIN z.revs[t]
          PROVE  AuthorisedRow(z, t, i)
      <3>1. z.revs[t] = s.revs[t] /\ AuthorisedRow(s, t, i)
        BY <2>1, <2>6 DEF Sound, Authorised
      <3> QED
        BY <3>1 DEF AuthorisedRow
    <2> QED
      BY <1>7, <2>5, <2>6 DEF Authorised
  <1>14. \A m \in bound(z, q.key) : m = mutation(q, m.result)
    BY <1>3, <1>5 DEF bound, new
  <1> QED
    BY <1>8, <1>9, <1>10, <1>12, <1>13, <1>14 DEF Sound

\* An import gives first revisions to tasks that have none.
LEMMA SeededSound ==
    ASSUME NEW s, NEW ns \in Legacy, NEW tasks, Sound(s), tasks \subseteq Missing(s),
           git \in [Task -> Doc \cup {NULL}],
           NEW z, z = seeded(s, ns, tasks)
    PROVE  Sound(z) /\ Grows(s, z)
  <1> DEFINE Row(t) == mutation(seed_request(ns, t), 1)
             First(t) == [doc |-> git[t], source |-> ns]
             N == {Row(t) : t \in tasks}
  <1>1. /\ z.revs = [t \in Task |-> IF t \in tasks THEN <<First(t)>> ELSE s.revs[t]]
        /\ z.muts = s.muts \cup N
        /\ z = [revs |-> z.revs, muts |-> z.muts, events |-> z.events]
    BY DEF seeded
  <1>2. ASSUME NEW t \in tasks
        PROVE  /\ t \in Task /\ git[t] \in Doc /\ s.revs[t] = <<>>
               /\ First(t) \in Revision /\ First(t).doc = git[t] /\ First(t).source = ns
    BY DEF Missing, Revision, SourceName, Legacy
  <1>3. ASSUME NEW t \in tasks
        PROVE  /\ Row(t) \in Mutation /\ Row(t).task = t /\ Row(t).result = 1
               /\ Row(t).doc = git[t]
               /\ Row(t).key \in ReservedKey /\ Row(t).key[1] = ns /\ Row(t).key[2] = t
    <2>1. <<ns, t, git[t]>> \in ReservedKey
      BY <1>2 DEF ReservedKey, Legacy
    <2>2. <<ns, t, git[t]>>[1] = ns /\ <<ns, t, git[t]>>[2] = t
      OBVIOUS
    <2>3. /\ Row(t).key = <<ns, t, git[t]>> /\ Row(t).task = t /\ Row(t).result = 1
          /\ Row(t).doc = git[t]
      BY DEF mutation, seed_request
    <2>4. Row(t) \in Mutation
      BY <1>2, <2>1 DEF mutation, seed_request, Mutation, Key
    <2> QED
      BY <2>1, <2>2, <2>3, <2>4
  <1> HIDE DEF Row, First
  <1>4. /\ \A t \in tasks : z.revs[t] = <<First(t)>> /\ Len(z.revs[t]) = 1
                           /\ DOMAIN z.revs[t] = {1} /\ z.revs[t][1] = First(t)
        /\ \A t \in Task \ tasks : z.revs[t] = s.revs[t]
    BY <1>1, <1>2
  <1>5. Rows(z)
    <2>1. z.revs \in [Task -> Seq(Revision)]
      BY <1>1, <1>2 DEF Sound, Rows
    <2>2. z.muts \subseteq Mutation
      BY <1>1, <1>3 DEF Sound, Rows
    <2> QED
      BY <1>1, <2>1, <2>2 DEF Rows
  <1>6. Grows(s, z)
    <2>1. ASSUME NEW t \in Task, NEW i \in DOMAIN s.revs[t]
          PROVE  z.revs[t] = s.revs[t]
      <3>1. t \notin tasks
        BY <1>2
      <3> QED
        BY <1>4, <3>1
    <2> QED
      BY <1>1, <2>1 DEF Grows
  <1>7. ASSUME NEW t \in tasks
        PROVE  bound(s, Row(t).key) = {}
    <2> SUFFICES ASSUME NEW m \in s.muts, m.key = Row(t).key
                 PROVE  FALSE
      BY DEF bound
    <2>1. m.task = t /\ m.result \in 1 .. Len(s.revs[m.task])
      BY <1>3 DEF Sound, Bindings
    <2>2. Len(s.revs[t]) = 0
      BY <1>2
    <2> QED
      BY <2>1, <2>2
  <1>8. Bindings(z) /\ Genuine(z)
    <2>1. \A m, n \in N : m.key = n.key => m = n
      <3> SUFFICES ASSUME NEW t \in tasks, NEW u \in tasks, Row(t).key = Row(u).key
                   PROVE  Row(t) = Row(u)
        OBVIOUS
      <3>1. t = u
        BY <1>3
      <3> QED
        BY <3>1
    <2>2. ASSUME NEW t \in tasks
          PROVE  /\ Row(t).result \in 1 .. Len(z.revs[Row(t).task])
                 /\ z.revs[Row(t).task][Row(t).result].doc = Row(t).doc
                 /\ GenuineRow(z, Row(t))
      <3>1. Row(t).result \in 1 .. Len(z.revs[Row(t).task])
            /\ z.revs[Row(t).task][Row(t).result].doc = Row(t).doc
        BY <1>2, <1>3, <1>4
      <3>2. GenuineRow(z, Row(t))
        BY <1>3 DEF GenuineRow, Legacy
      <3> QED
        BY <3>1, <3>2
    <2>3. \A n \in N : /\ bound(s, n.key) = {}
                       /\ n.result \in 1 .. Len(z.revs[n.task])
                       /\ z.revs[n.task][n.result].doc = n.doc
                       /\ n.key \in ReservedKey => n.key[2] = n.task
                       /\ GenuineRow(z, n)
      <3>1. ASSUME NEW t \in tasks
            PROVE  /\ bound(s, Row(t).key) = {} /\ GenuineRow(z, Row(t))
                   /\ Row(t).result \in 1 .. Len(z.revs[Row(t).task])
                   /\ z.revs[Row(t).task][Row(t).result].doc = Row(t).doc
                   /\ Row(t).key \in ReservedKey => Row(t).key[2] = Row(t).task
        BY <1>3, <1>7, <2>2
      <3> QED
        BY <3>1
    <2>4. z.muts = s.muts \cup N
      BY <1>1
    <2> HIDE DEF N
    <2> QED
      BY <1>5, <1>6, <2>1, <2>3, <2>4, RowsAdded
  <1>9. Authorised(z)
    <2>1. ASSUME NEW t \in tasks, NEW i \in DOMAIN z.revs[t]
          PROVE  AuthorisedRow(z, t, i)
      BY <1>4, <2>1 DEF AuthorisedRow
    <2>2. ASSUME NEW t \in Task \ tasks, NEW i \in DOMAIN z.revs[t]
          PROVE  AuthorisedRow(z, t, i)
      <3>1. z.revs[t] = s.revs[t] /\ AuthorisedRow(s, t, i)
        BY <1>4, <2>2 DEF Sound, Authorised
      <3> QED
        BY <3>1 DEF AuthorisedRow
    <2> QED
      BY <2>1, <2>2 DEF Authorised
  <1> QED
    BY <1>5, <1>6, <1>8, <1>9 DEF Sound

\* An entry that does not raise keeps the tables sound and binds its key to
\* exactly this request.
LEMMA AnsweredSound ==
    ASSUME NEW s, NEW q \in SpecRequest, NEW old, NEW busy, Sound(s),
           answered(s, q, old, busy) # NULL, NEW z, z = answered(s, q, old, busy)
    PROVE  /\ Sound(z) /\ Grows(s, z) /\ Standing(z, q)
           /\ \A m \in bound(z, q.key) : m = mutation(q, m.result)
  <1>1. admits(s, q, old, busy)
    BY Outcomes
  <1>2. CASE z = s /\ \E m \in bound(s, q.key) : matches(m, q)
    <2>1. PICK n \in bound(s, q.key) : matches(n, q)
      BY <1>2
    <2>2. n \in s.muts /\ n \in Mutation /\ n.key = q.key
      BY <2>1 DEF bound, Sound, Rows
    <2>3. n = mutation(q, n.result)
      BY <2>1, <2>2 DEF mutation, matches, Mutation
    <2>4. \A m \in bound(s, q.key) : m = n
      BY <2>2 DEF bound, Sound, Bindings
    <2>5. Grows(s, z) /\ Standing(z, q)
      BY <1>1, <1>2, AdmitsFacts DEF Grows
    <2> QED
      BY <1>2, <2>3, <2>4, <2>5
  <1>3. CASE /\ bound(s, q.key) = {} /\ current_revision(s, q.task) = q.expected
             /\ unchanged(s, q)
             /\ z = [s EXCEPT !.muts = @ \cup {mutation(q, q.expected)}]
    BY <1>1, <1>3, TouchSound
  <1>4. CASE /\ bound(s, q.key) = {} /\ current_revision(s, q.task) = q.expected
             /\ z = revise(s, q, q.via)
    BY <1>1, <1>4, ReviseSound
  <1> QED
    BY <1>2, <1>3, <1>4, Outcomes

\* What was answered stays answered when the tables grow.
LEMMA AnswersKept ==
    ASSUME Sound(store), Answers(store), Sound(store'), Grows(store, store')
    PROVE  \A a \in told : /\ a.request \in SpecRequest /\ a.revision \in Nat
                           /\ mutation(a.request, a.revision) \in store'.muts
                           /\ Standing(store', a.request)
  <1>1. \A q \in SpecRequest : Standing(store, q) => Standing(store', q)
    BY GrowsKeeps DEF Sound
  <1> QED
    BY <1>1 DEF Answers, Grows

\* The answer an entry gives is recorded with the request it was given to.
LEMMA AnswerAdded ==
    ASSUME Sound(store), Answers(store), Sound(store'), Grows(store, store'),
           NEW q \in SpecRequest, Standing(store', q),
           \A m \in bound(store', q.key) : m = mutation(q, m.result),
           Tell(q, store')
    PROVE  Answers(store)'
  <1>1. PICK m \in bound(store', q.key) :
            told' = told \cup {[request |-> q, revision |-> m.result]}
    BY DEF Tell
  <1>2. m \in store'.muts /\ m.result \in Nat /\ m = mutation(q, m.result)
    BY <1>1 DEF bound, Sound, Rows, Mutation
  <1>3. ASSUME NEW a \in told'
        PROVE  /\ a.request \in SpecRequest /\ a.revision \in Nat
               /\ mutation(a.request, a.revision) \in store'.muts
               /\ Standing(store', a.request)
    <2>1. CASE a \in told
      BY <2>1, AnswersKept
    <2>2. CASE a = [request |-> q, revision |-> m.result]
      BY <1>2, <2>2
    <2> QED
      BY <1>1, <2>1, <2>2
  <1>4. \A q1 \in SpecRequest : Standing(store, q1)' <=> Standing(store', q1)
    BY DEF Standing
  <1> QED
    BY <1>3, <1>4 DEF Answers

-----------------------------------------------------------------------------

\* Empty tables are sound.
LEMMA SpecInitInv == SpecInit => SpecInv
  BY DEF SpecInit, SpecInv, Sound, Rows, Bindings, Authorised, Genuine, Answers

\* Every transaction, and everything that happens beside them, keeps the tables
\* sound and every answer standing.
LEMMA SpecStepInv ==
    ASSUME SpecInv, [SpecNext]_specVars
    PROVE  SpecInv'
  <1> USE DEF SpecInv
  <1>1. ASSUME Sound(store'), Grows(store, store'), told' = told, git' = git
        PROVE  SpecInv'
    <2>1. \A q \in SpecRequest : Standing(store, q)' <=> Standing(store', q)
      BY DEF Standing
    <2>2. Answers(store)'
      BY <1>1, <2>1, AnswersKept DEF Answers
    <2>3. Sound(store)'
      BY <1>1 DEF Sound, Rows, Bindings, Authorised, AuthorisedRow, Genuine, GenuineRow
    <2> QED
      BY <1>1, <2>2, <2>3
  <1>2. ASSUME store' = store, told' = told, git' \in [Task -> Doc \cup {NULL}]
        PROVE  SpecInv'
    <2>3. Sound(store')
      BY <1>2
    <2>1. Sound(store)'
      BY <2>3 DEF Sound, Rows, Bindings, Authorised, AuthorisedRow, Genuine, GenuineRow
    <2>2. Answers(store)'
      BY <1>2 DEF Answers, Standing
    <2> QED
      BY <1>2, <2>1, <2>2
  <1>3. ASSUME NEW q \in SpecRequest, NEW s, Sound(s), Grows(store, s), git' = git,
               Commit(answered(s, q, aged, reserved)), Tell(q, store')
        PROVE  SpecInv'
    <2>1. answered(s, q, aged, reserved) # NULL /\ store' = answered(s, q, aged, reserved)
      BY <1>3 DEF Commit
    <2>2. /\ Sound(store') /\ Grows(s, store') /\ Standing(store', q)
          /\ \A m \in bound(store', q.key) : m = mutation(q, m.result)
      BY <1>3, <2>1, AnsweredSound
    <2>3. Grows(store, store')
      <3>1. store.muts \subseteq store'.muts
        BY <1>3, <2>2 DEF Grows
      <3>2. ASSUME NEW t \in Task, NEW i \in DOMAIN store.revs[t]
            PROVE  i \in DOMAIN store'.revs[t] /\ store'.revs[t][i] = store.revs[t][i]
        <4>1. i \in DOMAIN s.revs[t] /\ s.revs[t][i] = store.revs[t][i]
          BY <1>3 DEF Grows
        <4> QED
          BY <2>2, <4>1 DEF Grows
      <3> QED
        BY <3>1, <3>2 DEF Grows
    <2>4. Answers(store)'
      BY <1>3, <2>2, <2>3, AnswerAdded
    <2>5. Sound(store)'
      BY <2>2 DEF Sound, Rows, Bindings, Authorised, AuthorisedRow, Genuine, GenuineRow
    <2> QED
      BY <1>3, <2>4, <2>5
  <1>4. ASSUME NEW q \in SpecRequest, request(q)
        PROVE  SpecInv'
    <2>1. Grows(store, store)
      BY DEF Grows
    <2> QED
      BY <1>3, <1>4, <2>1 DEF request
  <1>5. ASSUME import_registry_task_specs
        PROVE  SpecInv'
    <2>1. Sound(store') /\ Grows(store, store')
      BY <1>5, SeededSound DEF import_registry_task_specs, Commit, Legacy
    <2> QED
      BY <1>1, <1>5, <2>1 DEF import_registry_task_specs
  <1>6. ASSUME NEW t \in Task, seed_missing_registry_task_spec(t)
        PROVE  SpecInv'
    <2>1. {t} \subseteq Missing(store) /\ "legacy-seed-exact" \in Legacy
          /\ store' = seeded(store, "legacy-seed-exact", {t})
      BY <1>6 DEF seed_missing_registry_task_spec, Commit, Legacy
    <2>2. Sound(store') /\ Grows(store, store')
      BY <2>1, SeededSound
    <2> QED
      BY <1>1, <1>6, <2>2 DEF seed_missing_registry_task_spec
  <1>7. ASSUME NEW q \in SpecRequest, register_task_spec_with_legacy_import(q)
        PROVE  SpecInv'
    <2> DEFINE s == seeded(store, "legacy-seed", Missing(store))
    <2>1. Sound(s) /\ Grows(store, s)
      BY SeededSound DEF Legacy
    <2>2. /\ Commit(answered(s, q, aged, reserved)) /\ Tell(q, store') /\ git' = git
      BY <1>7 DEF register_task_spec_with_legacy_import
    <2> HIDE DEF s
    <2> QED
      BY <1>3, <2>1, <2>2
  <1>8. CASE git_edit
    BY <1>2, <1>8 DEF git_edit
  <1>9. CASE \E o \in Observation : observation_ages(o)
    BY <1>2, <1>9 DEF observation_ages
  <1>10. CASE runtime_reserved_or_released
    BY <1>2, <1>10 DEF runtime_reserved_or_released
  <1>11. CASE UNCHANGED specVars
    BY <1>2, <1>11 DEF specVars
  <1> QED
    BY <1>4, <1>5, <1>6, <1>7, <1>8, <1>9, <1>10, <1>11 DEF SpecNext

\* The tables are sound and the answers stand in every reachable state.
THEOREM TaskSpecTablesSafe == TaskSpecsSpec => []SpecInv
  BY SpecInitInv, SpecStepInv, PTL DEF TaskSpecsSpec

\* A request that was answered is answered the same way for ever, for any
\* number of later revisions and of repetitions (put and the runtime entries).
THEOREM RetriesAnswered == TaskSpecsSpec => []RetrySucceeds
  <1>1. SpecInv => RetrySucceeds
    <2> SUFFICES ASSUME SpecInv, NEW a \in told
                 PROVE  /\ (a.request.via = "unused" => ~reserved) =>
                              answered(store, a.request, aged, reserved) = store
                        /\ \E m \in bound(store, a.request.key) : m.result = a.revision
                        /\ a.revision \in 1 .. current_revision(store, a.request.task)
                        /\ store.revs[a.request.task][a.revision].doc = a.request.doc
      BY DEF RetrySucceeds
    <2> DEFINE q == a.request
               m == mutation(q, a.revision)
    <2>1. q \in SpecRequest /\ m \in store.muts /\ Standing(store, q)
      BY DEF SpecInv, Answers
    <2>2. /\ m.key = q.key /\ m.task = q.task /\ m.doc = q.doc /\ m.result = a.revision
          /\ matches(m, q)
      BY DEF mutation, matches
    <2> HIDE DEF m, q
    <2>3. m \in bound(store, q.key)
      BY <2>1, <2>2 DEF bound
    <2>4. ASSUME q.via = "unused" => ~reserved
          PROVE  answered(store, q, aged, reserved) = store
      <3>1. admits(store, q, aged, reserved)
        BY <2>1, <2>3, <2>4, StandingAdmits
      <3> QED
        BY <2>2, <2>3, <3>1 DEF answered, put_validated_material
    <2>5. m.result \in 1 .. Len(store.revs[m.task]) /\ store.revs[m.task][m.result].doc = m.doc
      BY <2>1 DEF SpecInv, Sound, Bindings
    <2> QED
      BY <2>2, <2>3, <2>4, <2>5 DEF current_revision, q
  <1> QED
    BY <1>1, TaskSpecTablesSafe, PTL

\* A receipt in a namespace of runtime refresh names a revision its own entry
\* created, whatever puts, imports and retries surround it.
THEOREM ReceiptsGenuine == TaskSpecsSpec => []ReceiptsAuthenticated
  <1>1. SpecInv => ReceiptsAuthenticated
    BY DEF SpecInv, Sound, Genuine, GenuineRow, ReceiptsAuthenticated
  <1> QED
    BY <1>1, TaskSpecTablesSafe, PTL

\* No import from Git replaces a revision, and the compatibility path of put only
\* ever closes a task.
THEOREM HistoryAuthorised == TaskSpecsSpec => []RevisionsAuthorised
  <1>1. SpecInv => RevisionsAuthorised
    BY DEF SpecInv, Sound, Authorised, AuthorisedRow, Legacy, RevisionsAuthorised,
           GitNeverOverwrites, BypassOnlyCloses
  <1> QED
    BY <1>1, TaskSpecTablesSafe, PTL

-----------------------------------------------------------------------------
\* Rebinding a repository identity (IdentityRebind).

RbRow == [rev : Nat, doc : Binding, overlay : SUBSET Binding]

\* The inductive invariant: build_plan previews what it lists, and the receipts are
\* those of the plans applied, so that no item is applied twice.
RebindInv ==
  /\ RbTypeOK /\ ReceiptsWhole /\ spec \in [RTask -> RbRow]
  /\ \A plan \in plans : \A i \in plan.items : i.result = preview_repository_identity_rebind(i.doc)

\* A rewritten document is bound like any document.
LEMMA PreviewBinds ==
  ASSUME NEW d \in Binding
  PROVE  preview_repository_identity_rebind(d) \in Binding
  <1>1. \A S \in SUBSET Side : (IF S = {} THEN {} ELSE {"new"}) \in SUBSET Side
    BY DEF Side
  <1>2. d.keys \in SUBSET Side /\ {"new"} \in SUBSET Side /\ "new" \in Side
    BY DEF Binding, Side
  <1> QED
    BY <1>1, <1>2 DEF preview_repository_identity_rebind, Binding

\* The rows give RbTypeOK its part about tasks.
LEMMA RowsTyped ==
  ASSUME spec \in [RTask -> RbRow], stale \subseteq plans, {x.plan : x \in applied} \subseteq plans
  PROVE  RbTypeOK
  <1>1. \A t \in RTask : spec[t] \in RbRow
    OBVIOUS
  <1>2. \A r \in RbRow : r.rev \in Nat /\ r.overlay \subseteq Binding /\ r.doc \in Binding
    BY DEF RbRow
  <1> QED
    BY <1>1, <1>2 DEF RbTypeOK

\* At the start nothing is planned and no receipt exists.
LEMMA RebindInitial == RbInit => RebindInv
  <1> SUFFICES ASSUME RbInit PROVE RebindInv
    OBVIOUS
  <1>1. \A d \in RDoc : [rev |-> 1, doc |-> d, overlay |-> {}] \in RbRow
    BY RDocAssumption DEF RbRow
  <1>2. spec \in [RTask -> RbRow]
    BY <1>1 DEF RbInit
  <1>3. RbTypeOK
    BY <1>2, RowsTyped DEF RbInit
  <1>4. ReceiptsWhole /\ plans = {}
    BY DEF RbInit, ReceiptsWhole
  <1> QED
    BY <1>2, <1>3, <1>4 DEF RebindInv

\* A plan lists items with their previews.
LEMMA BuildStep ==
  ASSUME RebindInv, NEW X \in SUBSET RTask, build_plan(X)
  PROVE  RebindInv'
  <1>1. UNCHANGED <<spec, receipts, stale, applied>>
    BY DEF build_plan
  <1>0. PICK plan : plan = [items |-> {Item(t) : t \in _candidates \ X},
                            excluded |-> {Exclusion(t) : t \in X}, root |-> projection_root]
    OBVIOUS
  <1>2. plans' = plans \cup {plan} /\ plan.items = {Item(t) : t \in _candidates \ X}
    BY <1>0 DEF build_plan
  <1>3. \A i \in plan.items : i.result = preview_repository_identity_rebind(i.doc)
    BY <1>2 DEF Item
  <1>4. RbTypeOK'
    BY <1>1, <1>2 DEF RebindInv, RbTypeOK
  <1>5. ReceiptsWhole'
    BY <1>1 DEF RebindInv, ReceiptsWhole
  <1> QED
    BY <1>1, <1>2, <1>3, <1>4, <1>5 DEF RebindInv

\* The rows after a plan.
LEMMA AppliedRows ==
  ASSUME RebindInv, NEW plan \in plans, apply_plan(plan)
  PROVE  /\ spec' \in [RTask -> RbRow]
         /\ \A t \in RTask :
              IF t \in TasksOf(plan.items)
              THEN /\ spec'[t].rev = spec[t].rev + 1
                   /\ spec'[t].doc = preview_repository_identity_rebind(spec[t].doc)
              ELSE spec'[t] = spec[t]
  <1>1. ASSUME NEW t \in RTask, t \in TasksOf(plan.items)
        PROVE  /\ spec'[t] \in RbRow /\ spec'[t].rev = spec[t].rev + 1
               /\ spec'[t].doc = preview_repository_identity_rebind(spec[t].doc)
    <2>1. PICK r \in RbRow : r = spec[t]
      BY DEF RebindInv
    <2>2. PICK d : d = preview_repository_identity_rebind(r.doc)
      OBVIOUS
    <2>3. d \in Binding /\ r.rev + 1 \in Nat
      BY <2>1, <2>2, PreviewBinds DEF RbRow
    <2>4. PICK n : n = [r EXCEPT !.rev = r.rev + 1, !.doc = d]
      OBVIOUS
    <2>5. n \in RbRow /\ n.rev = r.rev + 1 /\ n.doc = d
      BY <2>1, <2>3, <2>4 DEF RbRow
    <2>6. spec'[t] = n
      BY <1>1, <2>1, <2>2, <2>4 DEF apply_plan
    <2> QED
      BY <2>1, <2>2, <2>5, <2>6
  <1>2. ASSUME NEW t \in RTask, t \notin TasksOf(plan.items)
        PROVE  spec'[t] \in RbRow /\ spec'[t] = spec[t]
    BY <1>2 DEF apply_plan, RebindInv
  <1>3. spec' = [t \in RTask |-> spec'[t]]
    BY DEF apply_plan
  <1> QED
    BY <1>1, <1>2, <1>3

\* Applying a plan adds its receipts with its entry in the history.
LEMMA ApplyStep ==
  ASSUME RebindInv, NEW plan \in plans, apply_plan(plan)
  PROVE  RebindInv'
  <1>1. spec' \in [RTask -> RbRow]
    BY AppliedRows
  <1>0. PICK e : e = [plan |-> plan, as |-> "applied"]
    OBVIOUS
  <1>2. /\ receipts' = receipts \cup plan.items /\ UNCHANGED <<plans, stale>>
        /\ applied' = applied \cup {e} /\ e.plan = plan /\ e.as = "applied"
    BY <1>0 DEF apply_plan
  <1>3. stale' \subseteq plans' /\ {x.plan : x \in applied'} \subseteq plans'
    BY <1>2 DEF RebindInv, RbTypeOK
  <1>4. RbTypeOK'
    BY <1>1, <1>3 DEF RbTypeOK, RbRow
  <1>5. receipts' = UNION {x.plan.items : x \in {y \in applied' : y.as = "applied"}}
    <2>1. ASSUME NEW i PROVE i \in receipts' <=> \E x \in applied' : x.as = "applied" /\ i \in x.plan.items
      <3>1. i \in receipts <=> \E x \in applied : x.as = "applied" /\ i \in x.plan.items
        BY DEF RebindInv, ReceiptsWhole
      <3> QED
        BY <1>2, <3>1
    <2> QED
      BY <2>1
  <1>6. \A x \in applied' : x.as = "already-applied" => x.plan.items \subseteq receipts'
    BY <1>2 DEF RebindInv, ReceiptsWhole
  <1> QED
    BY <1>1, <1>2, <1>4, <1>5, <1>6 DEF RebindInv, ReceiptsWhole

\* A repetition is recorded only when all receipts are there.
LEMMA RepeatStep ==
  ASSUME RebindInv, NEW plan \in plans, apply_plan_again(plan)
  PROVE  RebindInv'
  <1>1. /\ plan.items \subseteq receipts /\ UNCHANGED <<spec, receipts, plans, stale>>
        /\ applied' = applied \cup {[plan |-> plan, as |-> "already-applied"]}
    BY DEF apply_plan_again, CanRepeat
  <1>2. RbTypeOK'
    BY <1>1 DEF RebindInv, RbTypeOK
  <1>3. {y \in applied' : y.as = "applied"} = {y \in applied : y.as = "applied"}
    BY <1>1
  <1>4. receipts' = UNION {x.plan.items : x \in {y \in applied' : y.as = "applied"}}
    BY <1>1, <1>3 DEF RebindInv, ReceiptsWhole
  <1>5. \A x \in applied' : x.as = "already-applied" => x.plan.items \subseteq receipts'
    BY <1>1 DEF RebindInv, ReceiptsWhole
  <1> QED
    BY <1>1, <1>2, <1>4, <1>5 DEF RebindInv, ReceiptsWhole

\* What others do to tasks and runs keeps the rows typed.
LEMMA TurnStep ==
  ASSUME RebindInv, NEW t \in RTask,
         \/ complete_task(t) \/ plan_changes(t) \/ start_run(t) \/ run_moves(t)
         \/ end_failed(t) \/ \E d \in RDoc : put_task_spec(t, d)
  PROVE  RebindInv'
  <1>1. UNCHANGED <<receipts, plans, stale, applied>>
    BY DEF complete_task, plan_changes, start_run, run_moves, end_failed, put_task_spec, Turns
  <1>2. PICK r \in RbRow : r = spec[t]
    BY DEF RebindInv
  <1>3. \/ spec' = spec
        \/ \E o \in SUBSET Binding : spec' = [spec EXCEPT ![t] = [r EXCEPT !.overlay = o]]
        \/ \E d \in RDoc : spec' = [spec EXCEPT ![t] = [r EXCEPT !.rev = r.rev + 1, !.doc = d]]
    <2>1. CASE complete_task(t)
      BY <1>2, <2>1 DEF complete_task, RbRow
    <2>2. CASE plan_changes(t)
      BY <1>2, <2>2 DEF plan_changes
    <2>3. CASE start_run(t) \/ run_moves(t) \/ end_failed(t)
      BY <2>3 DEF start_run, run_moves, end_failed
    <2>4. CASE \E d \in RDoc : put_task_spec(t, d)
      <3>1. PICK d \in RDoc : spec' = [spec EXCEPT ![t].rev = @ + 1, ![t].doc = d]
        BY <2>4 DEF put_task_spec
      <3>2. spec' = [spec EXCEPT ![t] = [r EXCEPT !.rev = r.rev + 1, !.doc = d]]
        BY <1>2, <3>1 DEF RebindInv, RbRow
      <3> QED
        BY <3>2
    <2> QED
      BY <2>1, <2>2, <2>3, <2>4
  <1>4. \A o \in SUBSET Binding : [r EXCEPT !.overlay = o] \in RbRow
    BY DEF RbRow
  <1>5. ASSUME NEW d \in RDoc PROVE [r EXCEPT !.rev = r.rev + 1, !.doc = d] \in RbRow
    <2>1. d \in Binding /\ r.rev + 1 \in Nat
      BY RDocAssumption DEF RbRow
    <2> QED
      BY <2>1 DEF RbRow
  <1>6. spec' \in [RTask -> RbRow]
    BY <1>3, <1>4, <1>5 DEF RebindInv
  <1>7. RbTypeOK'
    BY <1>1, <1>6 DEF RebindInv, RbTypeOK, RbRow
  <1> QED
    BY <1>1, <1>6, <1>7 DEF RebindInv, ReceiptsWhole

\* Every step of IdentityRebind keeps the invariant.
LEMMA RebindKeeps == RebindInv /\ [RbNext]_rbVars => RebindInv'
  <1> SUFFICES ASSUME RebindInv, [RbNext]_rbVars PROVE RebindInv'
    OBVIOUS
  <1>1. CASE UNCHANGED rbVars
    BY <1>1 DEF rbVars, RebindInv, RbTypeOK, ReceiptsWhole
  <1>2. ASSUME NEW X \in SUBSET RTask, build_plan(X) \/ build_refused(X) PROVE RebindInv'
    BY <1>1, <1>2, BuildStep DEF build_refused
  <1>3. ASSUME NEW plan \in plans, \/ apply_plan(plan) \/ apply_plan_again(plan)
                                   \/ apply_refused(plan) \/ grow_stale(plan)
        PROVE  RebindInv'
    <2>1. CASE grow_stale(plan)
      BY <1>3, <2>1 DEF grow_stale, RebindInv, RbTypeOK, ReceiptsWhole
    <2> QED
      BY <1>1, <1>3, <2>1, ApplyStep, RepeatStep DEF apply_refused
  <1> QED
    BY <1>1, <1>2, <1>3, TurnStep DEF RbNext

\* A new entry of the history is that of the plan just applied.
LEMMA AppliedNow ==
  ASSUME RebindInv, RbNext, NEW x \in applied' \ applied, x.as = "applied"
  PROVE  x.plan \in plans /\ apply_plan(x.plan)
  <1>0. \A plan, how : LET e == [plan |-> plan, as |-> how] IN e.plan = plan /\ e.as = how
    OBVIOUS
  <1>1. ASSUME NEW plan \in plans, apply_plan(plan) PROVE x.plan = plan
    <2>1. x = [plan |-> plan, as |-> "applied"]
      BY <1>1 DEF apply_plan
    <2> QED
      BY <1>0, <2>1
  <1>2. ASSUME NEW plan \in plans, apply_plan_again(plan) PROVE FALSE
    <2>1. x = [plan |-> plan, as |-> "already-applied"]
      BY <1>2 DEF apply_plan_again
    <2> QED
      BY <1>0, <2>1
  <1>3. ASSUME applied' = applied PROVE FALSE
    BY <1>3
  <1>4. ASSUME NEW t \in RTask,
               \/ complete_task(t) \/ plan_changes(t) \/ start_run(t) \/ run_moves(t)
               \/ end_failed(t) \/ \E d \in RDoc : put_task_spec(t, d)
        PROVE  FALSE
    BY <1>3, <1>4 DEF complete_task, plan_changes, start_run, run_moves, end_failed,
       put_task_spec, Turns
  <1>5. ASSUME NEW X \in SUBSET RTask, build_plan(X) \/ build_refused(X) PROVE FALSE
    BY <1>3, <1>5 DEF build_plan, build_refused, rbVars
  <1>6. ASSUME NEW plan \in plans, apply_refused(plan) \/ grow_stale(plan) PROVE FALSE
    BY <1>3, <1>6 DEF apply_refused, grow_stale, rbVars
  <1> QED
    BY <1>1, <1>2, <1>4, <1>5, <1>6 DEF RbNext

\* Applying a plan does what the plan says, once.
LEMMA RebindsAsPlanned == RebindInv /\ RbNext => RebindStep
  <1> SUFFICES ASSUME RebindInv, RbNext, NEW x \in applied' \ applied, x.as = "applied"
               PROVE  /\ \A t \in RTask : IF t \in TasksOf(x.plan.items)
                           THEN /\ active[t].run = 0
                                /\ \E i \in x.plan.items :
                                     /\ i.task = t /\ i.rev = spec[t].rev
                                     /\ spec'[t].rev = i.rev + 1 /\ spec'[t].doc = i.result
                           ELSE spec'[t] = spec[t]
                      /\ \A t \in RTask : _has_old_binding(spec'[t].doc) /\ ~(EffectivelyClosed(t))'
                           => t \in TasksOf(x.plan.excluded) /\ active[t].run # 0
                      /\ x \notin applied
                      /\ \A y \in applied : y.as = "applied" => y.plan.items \cap x.plan.items = {}
    BY DEF RebindStep
  <1>1. PICK plan \in plans : plan = x.plan /\ apply_plan(plan)
    BY AppliedNow
  <1>2. CanApply(plan)
    BY <1>1 DEF apply_plan
  <1>3. ASSUME NEW t \in RTask, t \in TasksOf(plan.items)
        PROVE  /\ active[t].run = 0
               /\ \E i \in plan.items : /\ i.task = t /\ i.rev = spec[t].rev
                                        /\ spec'[t].rev = i.rev + 1 /\ spec'[t].doc = i.result
    <2>1. active[t].run = 0
      BY <1>2, <1>3 DEF CanApply, NoneStarted, _active_runs
    <2>2. PICK i \in plan.items : i.task = t
      BY <1>3 DEF TasksOf
    <2>3. i.rev = spec[t].rev /\ i.doc = spec[t].doc
      BY <1>2, <2>2 DEF CanApply
    <2>4. i.result = preview_repository_identity_rebind(i.doc)
      BY <2>2 DEF RebindInv
    <2>5. spec'[t].rev = spec[t].rev + 1 /\ spec'[t].doc = preview_repository_identity_rebind(spec[t].doc)
      BY <1>1, <1>3, AppliedRows
    <2> QED
      BY <2>1, <2>2, <2>3, <2>4, <2>5
  <1>4. ASSUME NEW t \in RTask, t \notin TasksOf(plan.items) PROVE spec'[t] = spec[t]
    BY <1>1, <1>4, AppliedRows
  <1>5. ASSUME NEW t \in RTask, _has_old_binding(spec'[t].doc), ~(EffectivelyClosed(t))'
        PROVE  t \in TasksOf(plan.excluded) /\ active[t].run # 0
    <2>1. t \in _candidates'
      BY <1>5 DEF _candidates, EffectivelyClosed, _has_old_binding
    <2>2. t \in TasksOf(plan.excluded)
      BY <1>1, <2>1 DEF apply_plan
    <2> QED
      BY <1>2, <2>2 DEF TasksOf, CanApply, ExclusionsHold
  <1>6. ASSUME NEW y \in applied, y.as = "applied" PROVE y.plan.items \cap plan.items = {}
    <2>1. y.plan.items \subseteq receipts
      BY <1>6 DEF RebindInv, ReceiptsWhole
    <2> QED
      BY <1>2, <2>1 DEF CanApply
  <1> QED
    BY <1>1, <1>3, <1>4, <1>5, <1>6

\* A repository identity moves as the plan says, at once, and once only, whatever is
\* revised, closed, started or ended between build_plan and apply_plan.
THEOREM RebindsOnceAsPlanned == RbSpec => ReboundAsPlanned
  <1>1. RebindInv => RbTypeOK /\ ReceiptsWhole
    BY DEF RebindInv
  <1>2. RebindInv /\ [RbNext]_rbVars => [RebindStep]_rbVars
    BY RebindsAsPlanned
  <1> QED
    BY <1>1, <1>2, RebindInitial, RebindKeeps, PTL DEF RbSpec, ReboundAsPlanned
-----------------------------------------------------------------------------
\* The migration of broad leases (LeaseMigration).

Proposal == {c \in [task : LTask, source : TaskFile, text : TaskFile] : c.source = c.text}
Before == [task : LTask, text : TaskFile]

Among(t, list) == \E k \in DOMAIN list : list[k].task = t

\* A file nobody else wrote, by where apply is: as loaded until it is migrated, and
\* migrated only with its old text at hand.
FileOK(t) ==
  CASE lm.pc = "loaded" -> file[t] = lm.registry[t]
    [] lm.pc \in {"read", "write"} ->
         \/ file[t] = lm.registry[t] /\ (t \in Planned(lm.plan) => Among(t, lm.todo))
         \/ /\ file[t] = _migrate_task_raw(lm.registry[t]) /\ t \in Planned(lm.plan)
            /\ Among(t, lm.old)
    [] lm.pc = "failed" -> file[t] = lm.registry[t] \/ Among(t, lm.old)
    [] OTHER -> TRUE

\* What apply has in hand: proposals of its plan for tasks as they were loaded, and
\* the old texts of what it has written.
MigrationHand ==
  /\ lm = [pc |-> lm.pc, registry |-> lm.registry, plan |-> lm.plan, todo |-> lm.todo, old |-> lm.old]
  /\ lm.pc # "idle" => lm.registry \in [LTask -> TaskFile]
  /\ lm.old \in Seq(Before)
  /\ \A k \in DOMAIN lm.old : lm.old[k].text = lm.registry[lm.old[k].task]
  /\ lm.pc \in {"read", "write"} =>
       /\ Planned(lm.plan) \subseteq LTask /\ lm.todo \in Seq(Proposal)
       /\ \A k \in DOMAIN lm.todo : /\ lm.todo[k].task \in Planned(lm.plan)
                                    /\ lm.todo[k].source = lm.registry[lm.todo[k].task]
  /\ lm.pc = "write" =>
       /\ lm.todo # <<>> /\ lm.old # <<>> /\ lm.old[Len(lm.old)].task = Head(lm.todo).task
       /\ \/ file[Head(lm.todo).task] = lm.old[Len(lm.old)].text
          \/ Head(lm.todo).task \in theirs

\* The plan file: every proposal is made from the text its task was loaded from.
PlanFileOK ==
  /\ leasePlan = [on |-> leasePlan.on, reviewed |-> leasePlan.reviewed, head |-> leasePlan.head,
                  queue |-> leasePlan.queue, catalog |-> leasePlan.catalog,
                  size |-> leasePlan.size, cands |-> leasePlan.cands]
  /\ leasePlan.cands \in Seq(Proposal)

\* The inductive invariant.
MigrationInv ==
  /\ LmTypeOK /\ edits \in Nat /\ PlanFileOK /\ MigrationHand /\ AllOrNothing
  /\ \A t \in LTask \ theirs : FileOK(t)

\* Tasks have different places.
LEMMA PlacesDiffer ==
  ASSUME NEW t \in LTask, NEW u \in LTask
  PROVE  /\ PlaceOf(t) \in Nat
         /\ PlaceOf(t) = PlaceOf(u) => t = u
  <1>1. ASSUME NEW v \in LTask
        PROVE  PlaceOf(v) \in DOMAIN LTaskOrder /\ LTaskOrder[PlaceOf(v)] = v
    <2>1. \E i \in DOMAIN LTaskOrder : LTaskOrder[i] = v
      BY LTaskAssumption
    <2> QED
      BY <2>1 DEF PlaceOf
  <1>2. DOMAIN LTaskOrder \subseteq Nat
    BY LTaskAssumption
  <1> QED
    BY <1>1, <1>2

\* Every place among the tasks F is taken.
LEMMA PlacesTaken ==
  ASSUME NEW F \in SUBSET LTask, NEW i \in 1..Cardinality(F)
  PROVE  \E t \in F : PlaceIn(F, t) = i
  <1> DEFINE upto(t) == {u \in F : PlaceOf(u) <= PlaceOf(t)}
             n == Cardinality(F)
             f == [t \in F |-> Cardinality(upto(t))]
  <1>1. IsFiniteSet(F) /\ n \in Nat
    BY LTaskAssumption, FS_Subset, FS_CardinalityType
  <1>2. ASSUME NEW t \in F
        PROVE  IsFiniteSet(upto(t)) /\ Cardinality(upto(t)) \in 1..n
    <2>1. PlaceOf(t) <= PlaceOf(t)
      BY PlacesDiffer
    <2>2. upto(t) \in SUBSET F /\ t \in upto(t)
      BY <2>1
    <2> HIDE DEF upto
    <2>3. IsFiniteSet(upto(t)) /\ Cardinality(upto(t)) <= n
      BY <1>1, <2>2, FS_Subset
    <2>4. Cardinality(upto(t)) \in Nat /\ Cardinality(upto(t)) # 0
      BY <2>2, <2>3, FS_CardinalityType, FS_EmptySet
    <2> QED
      BY <1>1, <2>3, <2>4
  <1>3. ASSUME NEW t \in F, NEW u \in F, PlaceOf(t) < PlaceOf(u)
        PROVE  Cardinality(upto(t)) # Cardinality(upto(u))
    <2>1. PlaceOf(t) \in Nat /\ PlaceOf(u) \in Nat /\ \A v \in F : PlaceOf(v) \in Nat
      BY PlacesDiffer
    <2>2. upto(t) \in SUBSET upto(u) /\ u \in upto(u) /\ u \notin upto(t)
      BY <1>3, <2>1
    <2>3. IsFiniteSet(upto(u))
      BY <1>2
    <2> HIDE DEF upto
    <2> QED
      BY <2>2, <2>3, FS_Subset
  <1>4. f \in [F -> 1..n]
    BY <1>2
  <1>5. \A t, u \in F : f[t] = f[u] => t = u
    <2> SUFFICES ASSUME NEW t \in F, NEW u \in F, t # u
                 PROVE  f[t] # f[u]
      OBVIOUS
    <2>1. PlaceOf(t) < PlaceOf(u) \/ PlaceOf(u) < PlaceOf(t)
      BY PlacesDiffer
    <2> HIDE DEF upto
    <2> QED
      BY <1>3, <2>1
  <1> HIDE DEF f
  <1>6. f \in Injection(F, 1..n)
    BY <1>4, <1>5 DEF Injection, IsInjective
  <1>7. IsFiniteSet(1..n) /\ Cardinality(1..n) = n
    BY <1>1, FS_Interval
  <1>8. f \in Surjection(F, 1..n)
    BY <1>6, <1>7, FS_Injection
  <1>9. \E t \in F : f[t] = i
    BY <1>8 DEF Surjection
  <1> QED
    BY <1>9 DEF f, PlaceIn

\* A batch lists tasks.
LEMMA BatchOfTasks ==
  ASSUME NEW registry, NEW size \in Nat
  PROVE  Selected(registry, size) \in Seq(LTask)
  <1> DEFINE F == Findings(registry)
             n == IF Cardinality(F) < size THEN Cardinality(F) ELSE size
  <1>1. F \in SUBSET LTask
    BY DEF Findings
  <1> HIDE DEF F
  <1>2. Cardinality(F) \in Nat
    BY <1>1, LTaskAssumption, FS_Subset, FS_CardinalityType
  <1>3. n \in Nat /\ \A i \in 1..n : i \in 1..Cardinality(F)
    BY <1>2
  <1>4. ASSUME NEW i \in 1..n
        PROVE  (CHOOSE t \in F : PlaceIn(F, t) = i) \in LTask
    <2>1. \E t \in F : PlaceIn(F, t) = i
      BY <1>1, <1>3, PlacesTaken
    <2> QED
      BY <1>1, <2>1
  <1> HIDE DEF n
  <1>5. PICK s : s = [i \in 1..n |-> CHOOSE t \in F : PlaceIn(F, t) = i]
    OBVIOUS
  <1>6. s \in [1..n -> LTask]
    BY <1>4, <1>5
  <1>7. s \in Seq(LTask)
    BY <1>3, <1>6
  <1>8. Selected(registry, size) = <<>> \/ Selected(registry, size) = s
    BY <1>5 DEF Selected, F, n
  <1>9. <<>> \in Seq(LTask)
    OBVIOUS
  <1> QED
    BY <1>7, <1>8, <1>9

\* The record of the command after each of the ways apply changes it.
LEMMA CommandFields ==
  ASSUME MigrationHand
  PROVE  /\ \A x : [lm EXCEPT !.pc = x] =
              [pc |-> x, registry |-> lm.registry, plan |-> lm.plan, todo |-> lm.todo, old |-> lm.old]
         /\ \A x, y, z : [lm EXCEPT !.pc = x, !.plan = y, !.todo = z] =
              [pc |-> x, registry |-> lm.registry, plan |-> y, todo |-> z, old |-> lm.old]
         /\ \A x, y : [lm EXCEPT !.pc = x, !.todo = y] =
              [pc |-> x, registry |-> lm.registry, plan |-> lm.plan, todo |-> y, old |-> lm.old]
         /\ \A x, y : [lm EXCEPT !.pc = x, !.old = y] =
              [pc |-> x, registry |-> lm.registry, plan |-> lm.plan, todo |-> lm.todo, old |-> y]
         /\ \A x : [lm EXCEPT !.old = x] =
              [pc |-> lm.pc, registry |-> lm.registry, plan |-> lm.plan, todo |-> lm.todo, old |-> x]
  <1>1. PICK p, r, l, d, o : lm = [pc |-> p, registry |-> r, plan |-> l, todo |-> d, old |-> o]
    BY Zenon DEF MigrationHand
  <1>2. lm.pc = p /\ lm.registry = r /\ lm.plan = l /\ lm.todo = d /\ lm.old = o
    BY <1>1
  <1>3. ASSUME NEW x
        PROVE  [lm EXCEPT !.pc = x] =
                 [pc |-> x, registry |-> lm.registry, plan |-> lm.plan, todo |-> lm.todo, old |-> lm.old]
    <2>1. [lm EXCEPT !.pc = x] = [pc |-> x, registry |-> r, plan |-> l, todo |-> d, old |-> o]
      BY <1>1
    <2> QED
      BY <1>2, <2>1
  <1>4. ASSUME NEW x, NEW y, NEW z
        PROVE  [lm EXCEPT !.pc = x, !.plan = y, !.todo = z] =
                 [pc |-> x, registry |-> lm.registry, plan |-> y, todo |-> z, old |-> lm.old]
    <2>1. PICK q1 : q1 = [lm EXCEPT !.pc = x]
      OBVIOUS
    <2>2. q1 = [pc |-> x, registry |-> r, plan |-> l, todo |-> d, old |-> o]
      BY <1>1, <2>1
    <2>3. PICK q2 : q2 = [q1 EXCEPT !.plan = y]
      OBVIOUS
    <2>4. q2 = [pc |-> x, registry |-> r, plan |-> y, todo |-> d, old |-> o]
      BY <2>2, <2>3
    <2>5. [q2 EXCEPT !.todo = z] = [pc |-> x, registry |-> r, plan |-> y, todo |-> z, old |-> o]
      BY <2>4
    <2>6. [lm EXCEPT !.pc = x, !.plan = y, !.todo = z] = [q2 EXCEPT !.todo = z]
      BY <1>1, <2>1, <2>3
    <2> QED
      BY <1>2, <2>5, <2>6
  <1>5. ASSUME NEW x, NEW y
        PROVE  [lm EXCEPT !.pc = x, !.todo = y] =
                 [pc |-> x, registry |-> lm.registry, plan |-> lm.plan, todo |-> y, old |-> lm.old]
    <2>1. PICK q : q = [lm EXCEPT !.pc = x]
      OBVIOUS
    <2>2. q = [pc |-> x, registry |-> r, plan |-> l, todo |-> d, old |-> o]
      BY <1>1, <2>1
    <2>3. [q EXCEPT !.todo = y] = [pc |-> x, registry |-> r, plan |-> l, todo |-> y, old |-> o]
      BY <2>2
    <2>4. [lm EXCEPT !.pc = x, !.todo = y] = [q EXCEPT !.todo = y]
      BY <1>1, <2>1
    <2> QED
      BY <1>2, <2>3, <2>4
  <1>6. ASSUME NEW x, NEW y
        PROVE  [lm EXCEPT !.pc = x, !.old = y] =
                 [pc |-> x, registry |-> lm.registry, plan |-> lm.plan, todo |-> lm.todo, old |-> y]
    <2>1. PICK q : q = [lm EXCEPT !.pc = x]
      OBVIOUS
    <2>2. q = [pc |-> x, registry |-> r, plan |-> l, todo |-> d, old |-> o]
      BY <1>1, <2>1
    <2>3. [q EXCEPT !.old = y] = [pc |-> x, registry |-> r, plan |-> l, todo |-> d, old |-> y]
      BY <2>2
    <2>4. [lm EXCEPT !.pc = x, !.old = y] = [q EXCEPT !.old = y]
      BY <1>1, <2>1
    <2> QED
      BY <1>2, <2>3, <2>4
  <1>7. ASSUME NEW x
        PROVE  [lm EXCEPT !.old = x] =
                 [pc |-> lm.pc, registry |-> lm.registry, plan |-> lm.plan, todo |-> lm.todo, old |-> x]
    <2>1. [lm EXCEPT !.old = x] = [pc |-> p, registry |-> r, plan |-> l, todo |-> d, old |-> x]
      BY <1>1
    <2> QED
      BY <1>2, <2>1
  <1> QED
    BY <1>3, <1>4, <1>5, <1>6, <1>7

\* A command that is not under way has nothing in hand.
LEMMA IdleHand ==
  ASSUME lm' = NoApply
  PROVE  MigrationHand' /\ AllOrNothing' /\ \A t \in LTask : FileOK(t)'
  <1>1. /\ lm'.pc = "idle" /\ lm'.old = <<>>
        /\ lm' = [pc |-> lm'.pc, registry |-> lm'.registry, plan |-> lm'.plan,
                  todo |-> lm'.todo, old |-> lm'.old]
    BY DEF NoApply
  <1>2. lm'.old \in Seq(Before) /\ DOMAIN lm'.old = {}
    BY <1>1
  <1>3. MigrationHand'
    BY <1>1, <1>2 DEF MigrationHand
  <1>4. AllOrNothing' /\ \A t \in LTask : FileOK(t)'
    BY <1>1 DEF AllOrNothing, FileOK
  <1> QED
    BY <1>3, <1>4

\* What the invariant says of the command depends on the worktree, the command and
\* the files that others wrote only.
LEMMA SameCommand ==
  ASSUME MigrationInv, UNCHANGED <<file, lm, theirs>>
  PROVE  /\ MigrationHand' /\ AllOrNothing' /\ (\A t \in LTask \ theirs : FileOK(t))'
         /\ SuccessStep /\ OverwriteStep
  <1>1. MigrationHand'
    BY DEF MigrationInv, MigrationHand, Planned
  <1>2. AllOrNothing'
    <2>1. AllOrNothing
      BY DEF MigrationInv
    <2>2. Planned(lm.plan)' = Planned(lm.plan) /\ LTask \ theirs' = LTask \ theirs
      BY DEF Planned
    <2>3. ASSUME NEW t
          PROVE  _migrate_task_raw(lm.registry[t])' = _migrate_task_raw(lm.registry[t])
      BY DEF _migrate_task_raw
    <2> QED
      BY <2>1, <2>2, <2>3 DEF AllOrNothing
  <1>3. (\A t \in LTask \ theirs : FileOK(t))'
    BY DEF MigrationInv, FileOK, Planned, _migrate_task_raw, Among
  <1>4. SuccessStep /\ OverwriteStep
    BY DEF SuccessStep, OverwriteStep
  <1> QED
    BY <1>1, <1>2, <1>3, <1>4

\* Before the first plan the invariant holds.
LEMMA MigrationInit ==
  LmInit => MigrationInv
  <1> SUFFICES ASSUME LmInit PROVE MigrationInv
    OBVIOUS
  <1>1. \A v \in BOOLEAN : [broad |-> v, open |-> v, ver |-> 0] \in TaskFile
    <2>1. 0 \in 0 .. MaxEdits
      BY LTaskAssumption
    <2> QED
      BY <2>1 DEF TaskFile
  <1>2. file \in [LTask -> TaskFile] /\ base = file
    BY <1>1 DEF LmInit
  <1>3. catalog \in SUBSET LTask
    <2>1. LTaskOrder[1] \in LTask
      BY LTaskAssumption
    <2> QED
      BY <2>1 DEF LmInit
  <1>4. lm = NoApply /\ leasePlan = NoLeasePlan /\ theirs = {} /\ edits = 0
    BY DEF LmInit
  <1>5. LmTypeOK
    BY <1>2, <1>3, <1>4 DEF LmTypeOK, NoApply
  <1>6. PlanFileOK
    BY <1>4 DEF PlanFileOK, NoLeasePlan
  <1>7. /\ lm.pc = "idle" /\ lm.old = <<>>
        /\ lm = [pc |-> lm.pc, registry |-> lm.registry, plan |-> lm.plan,
                 todo |-> lm.todo, old |-> lm.old]
    BY <1>4 DEF NoApply
  <1>8. lm.old \in Seq(Before) /\ DOMAIN lm.old = {}
    BY <1>7
  <1>9. MigrationHand
    BY <1>7, <1>8 DEF MigrationHand
  <1>10. AllOrNothing /\ \A t \in LTask : FileOK(t)
    BY <1>7 DEF AllOrNothing, FileOK
  <1> QED
    BY <1>4, <1>5, <1>6, <1>9, <1>10 DEF MigrationInv

\* A plan is written from the texts of the files.
LEMMA MigrationPlanned ==
  ASSUME MigrationInv, NEW n \in 1 .. MaxBatch, write_lease_migration_plan(n)
  PROVE  MigrationInv' /\ SuccessStep /\ OverwriteStep
  <1>1. UNCHANGED <<file, base, catalog, lm, theirs, edits>>
    BY DEF write_lease_migration_plan, fileVars, catVars
  <1>2. LmTypeOK' /\ edits' \in Nat
    BY <1>1 DEF MigrationInv, LmTypeOK
  <1>3. PICK s : s = Selected(file, n)
    OBVIOUS
  <1>4. s \in Seq(LTask)
    BY <1>3, BatchOfTasks
  <1>5. PICK cs : cs = [i \in DOMAIN s |-> [task |-> s[i], source |-> file[s[i]], text |-> file[s[i]]]]
    OBVIOUS
  <1>6. leasePlan' = [on |-> TRUE, reviewed |-> FALSE, head |-> gitHead, queue |-> queue,
                      catalog |-> catalog, size |-> n, cands |-> cs]
    BY <1>3, <1>5 DEF write_lease_migration_plan, lease_migration_plan
  <1>7. cs \in Seq(Proposal)
    <2>1. PICK l \in Nat : DOMAIN s = 1..l /\ \A i \in 1..l : s[i] \in LTask
      BY <1>4
    <2>2. \A i \in 1..l : [task |-> s[i], source |-> file[s[i]], text |-> file[s[i]]] \in Proposal
      BY <2>1 DEF Proposal, MigrationInv, LmTypeOK
    <2> HIDE DEF Proposal
    <2>3. cs \in [1..l -> Proposal]
      BY <1>5, <2>1, <2>2
    <2> QED
      BY <2>3
  <1>8. PlanFileOK'
    BY <1>6, <1>7 DEF PlanFileOK
  <1>9. /\ MigrationHand' /\ AllOrNothing' /\ (\A t \in LTask \ theirs : FileOK(t))'
        /\ SuccessStep /\ OverwriteStep
    BY <1>1, SameCommand
  <1> QED
    BY <1>2, <1>8, <1>9 DEF MigrationInv

\* The review marks the plan and changes nothing else of it.
LEMMA MigrationReviewed ==
  ASSUME MigrationInv, review_lease_plan
  PROVE  MigrationInv' /\ SuccessStep /\ OverwriteStep
  <1>1. UNCHANGED <<file, base, catalog, lm, theirs, edits>>
    BY DEF review_lease_plan, fileVars, catVars
  <1>2. LmTypeOK' /\ edits' \in Nat
    BY <1>1 DEF MigrationInv, LmTypeOK
  <1>3. PICK o, r, h, q, c, z, cs :
          leasePlan = [on |-> o, reviewed |-> r, head |-> h, queue |-> q, catalog |-> c,
                       size |-> z, cands |-> cs]
    BY Zenon DEF MigrationInv, PlanFileOK
  <1>4. \A x : [leasePlan EXCEPT !.reviewed = x] =
                 [on |-> o, reviewed |-> x, head |-> h, queue |-> q, catalog |-> c,
                  size |-> z, cands |-> cs]
    BY <1>3
  <1>5. leasePlan' = [on |-> o, reviewed |-> TRUE, head |-> h, queue |-> q, catalog |-> c,
                      size |-> z, cands |-> cs]
    BY <1>4, Zenon DEF review_lease_plan
  <1>6. cs \in Seq(Proposal)
    BY <1>3 DEF MigrationInv, PlanFileOK
  <1>7. PlanFileOK'
    BY <1>5, <1>6 DEF PlanFileOK
  <1>8. /\ MigrationHand' /\ AllOrNothing' /\ (\A t \in LTask \ theirs : FileOK(t))'
        /\ SuccessStep /\ OverwriteStep
    BY <1>1, SameCommand
  <1> QED
    BY <1>2, <1>7, <1>8 DEF MigrationInv

\* Apply starts from the files as they are.
LEMMA MigrationLoaded ==
  ASSUME MigrationInv, load_registry
  PROVE  MigrationInv' /\ SuccessStep /\ OverwriteStep
  <1>1. /\ UNCHANGED <<file, base, catalog, leasePlan, edits>> /\ theirs' = {} /\ lm.pc = "idle"
        /\ lm' = [pc |-> "loaded", registry |-> file, plan |-> NoLeasePlan, todo |-> <<>>,
                  old |-> <<>>]
    BY DEF load_registry, fileVars, catVars, NoApply
  <1>2. /\ lm'.pc = "loaded" /\ lm'.registry = file /\ lm'.old = <<>>
        /\ lm' = [pc |-> lm'.pc, registry |-> lm'.registry, plan |-> lm'.plan,
                  todo |-> lm'.todo, old |-> lm'.old]
    BY <1>1
  <1>3. LmTypeOK' /\ edits' \in Nat /\ PlanFileOK'
    BY <1>1, <1>2 DEF MigrationInv, LmTypeOK, PlanFileOK
  <1>4. lm'.old \in Seq(Before) /\ DOMAIN lm'.old = {}
    BY <1>2
  <1>5. MigrationHand'
    BY <1>1, <1>2, <1>4 DEF MigrationHand, MigrationInv, LmTypeOK
  <1>6. AllOrNothing' /\ (\A t \in LTask \ theirs : FileOK(t))'
    BY <1>1, <1>2 DEF AllOrNothing, FileOK
  <1>7. SuccessStep /\ OverwriteStep
    BY <1>1, <1>2 DEF SuccessStep, OverwriteStep
  <1> QED
    BY <1>3, <1>5, <1>6, <1>7 DEF MigrationInv

\* The checked plan is the one that the loaded Registry and the files yield.
LEMMA MigrationChecked ==
  ASSUME MigrationInv, check_plan
  PROVE  MigrationInv' /\ SuccessStep /\ OverwriteStep
  <1>1. UNCHANGED <<file, base, catalog, leasePlan, theirs, edits>> /\ lm.pc = "loaded"
    BY DEF check_plan, fileVars, catVars
  <1>2. edits' \in Nat /\ PlanFileOK'
    BY <1>1 DEF MigrationInv, PlanFileOK
  <1>3. CASE lm' = NoApply
    <2>1. MigrationHand' /\ AllOrNothing' /\ \A t \in LTask : FileOK(t)'
      BY <1>3, IdleHand
    <2>2. LmTypeOK' /\ SuccessStep /\ OverwriteStep
      BY <1>1, <1>3 DEF MigrationInv, LmTypeOK, SuccessStep, OverwriteStep, NoApply
    <2> QED
      BY <1>2, <2>1, <2>2 DEF MigrationInv
  <1>4. CASE /\ PlanHolds(leasePlan)
             /\ lm' = [lm EXCEPT !.pc = "read", !.plan = leasePlan, !.todo = leasePlan.cands]
    <2>1. lm' = [pc |-> "read", registry |-> lm.registry, plan |-> leasePlan,
                 todo |-> leasePlan.cands, old |-> lm.old]
      <3>1. \A x, y, z : [lm EXCEPT !.pc = x, !.plan = y, !.todo = z] =
              [pc |-> x, registry |-> lm.registry, plan |-> y, todo |-> z, old |-> lm.old]
        BY CommandFields, Zenon DEF MigrationInv
      <3> QED
        BY <1>4, <3>1, Zenon
    <2>2. /\ lm'.pc = "read" /\ lm'.registry = lm.registry /\ lm'.old = lm.old
          /\ lm'.plan = leasePlan /\ lm'.todo = leasePlan.cands
          /\ lm' = [pc |-> lm'.pc, registry |-> lm'.registry, plan |-> lm'.plan,
                    todo |-> lm'.todo, old |-> lm'.old]
      BY <2>1
    <2>3. LmTypeOK'
      BY <1>1, <2>2 DEF MigrationInv, LmTypeOK
    <2>4. \A k \in DOMAIN leasePlan.cands :
            leasePlan.cands[k].source = lm.registry[leasePlan.cands[k].task]
      <3>1. PICK s : s = Selected(lm.registry, leasePlan.size)
        OBVIOUS
      <3>2. PICK cs : cs = [i \in DOMAIN s |->
                [task |-> s[i], source |-> lm.registry[s[i]], text |-> file[s[i]]]]
        OBVIOUS
      <3>3. PICK p : p = lease_migration_plan(lm.registry, leasePlan.size)
        OBVIOUS
      <3>4. p = [on |-> TRUE, reviewed |-> FALSE, head |-> gitHead, queue |-> queue,
                 catalog |-> catalog, size |-> leasePlan.size, cands |-> cs]
        BY <3>1, <3>2, <3>3 DEF lease_migration_plan
      <3>5. \A x : [p EXCEPT !.reviewed = x].cands = cs
        BY <3>4
      <3>6. leasePlan.cands = cs
        BY <1>4, <3>3, <3>5, Zenon DEF PlanHolds
      <3> QED
        BY <3>2, <3>6
    <2>5. \A k \in DOMAIN leasePlan.cands : leasePlan.cands[k].task \in Planned(leasePlan)
      BY DEF Planned
    <2>6. MigrationHand'
      <3>1. lm'.registry \in [LTask -> TaskFile] /\ lm'.old \in Seq(Before)
        BY <1>1, <2>2 DEF MigrationInv, MigrationHand
      <3>2. \A k \in DOMAIN lm'.old : lm'.old[k].text = lm'.registry[lm'.old[k].task]
        BY <2>2 DEF MigrationInv, MigrationHand
      <3>3. lm'.todo \in Seq(Proposal)
        BY <2>2 DEF MigrationInv, PlanFileOK
      <3>4. \A k \in DOMAIN lm'.todo : /\ lm'.todo[k].task \in Planned(lm'.plan)
                                       /\ lm'.todo[k].source = lm'.registry[lm'.todo[k].task]
        BY <2>2, <2>4, <2>5
      <3>5. Planned(lm'.plan) \subseteq LTask
        <4>1. \A k \in DOMAIN leasePlan.cands : leasePlan.cands[k].task \in LTask
          BY <3>3, <2>2 DEF Proposal
        <4> QED
          BY <2>2, <4>1 DEF Planned
      <3> QED
        BY <2>2, <3>1, <3>2, <3>3, <3>4, <3>5 DEF MigrationHand, Planned
    <2>7. \A t \in LTask : t \in Planned(leasePlan) => Among(t, leasePlan.cands)
      BY DEF Planned, Among
    <2>8. \A t \in LTask \ theirs : file[t] = lm.registry[t]
      BY <1>1 DEF MigrationInv, FileOK
    <2>9. (\A t \in LTask \ theirs : FileOK(t))'
      <3> SUFFICES ASSUME NEW t \in LTask, t \notin theirs'
                   PROVE  FileOK(t)'
        OBVIOUS
      <3>1. file'[t] = lm'.registry[t] /\ (t \in Planned(lm'.plan) => Among(t, lm'.todo))
        BY <1>1, <2>2, <2>7, <2>8
      <3> QED
        BY <2>2, <3>1 DEF FileOK, Planned, Among
    <2>10. AllOrNothing' /\ SuccessStep /\ OverwriteStep
      BY <1>1, <2>2 DEF AllOrNothing, SuccessStep, OverwriteStep
    <2> QED
      BY <1>2, <2>3, <2>6, <2>9, <2>10 DEF MigrationInv
  <1> QED
    BY <1>3, <1>4 DEF check_plan

\* The proposal in hand is read: it goes on only with the file as planned.
LEMMA MigrationRead ==
  ASSUME MigrationInv, read_task
  PROVE  MigrationInv' /\ SuccessStep /\ OverwriteStep
  <1>1. /\ UNCHANGED <<file, base, catalog, leasePlan, theirs, edits>>
        /\ lm.pc = "read" /\ lm.todo # <<>>
    BY DEF read_task, fileVars, catVars
  <1>2. edits' \in Nat /\ PlanFileOK'
    BY <1>1 DEF MigrationInv, PlanFileOK
  <1>3. /\ lm.registry \in [LTask -> TaskFile] /\ lm.old \in Seq(Before)
        /\ \A k \in DOMAIN lm.old : lm.old[k].text = lm.registry[lm.old[k].task]
        /\ Planned(lm.plan) \subseteq LTask /\ lm.todo \in Seq(Proposal)
        /\ \A k \in DOMAIN lm.todo : /\ lm.todo[k].task \in Planned(lm.plan)
                                     /\ lm.todo[k].source = lm.registry[lm.todo[k].task]
    BY <1>1 DEF MigrationInv, MigrationHand
  <1>4. CASE lm' = [lm EXCEPT !.pc = "failed"]
    <2>1. lm' = [pc |-> "failed", registry |-> lm.registry, plan |-> lm.plan,
                 todo |-> lm.todo, old |-> lm.old]
      BY <1>4, CommandFields, Zenon DEF MigrationInv
    <2>2. /\ lm'.pc = "failed" /\ lm'.registry = lm.registry /\ lm'.old = lm.old
          /\ lm' = [pc |-> lm'.pc, registry |-> lm'.registry, plan |-> lm'.plan,
                    todo |-> lm'.todo, old |-> lm'.old]
      BY <2>1
    <2>3. LmTypeOK'
      BY <1>1, <2>2 DEF MigrationInv, LmTypeOK
    <2>4. MigrationHand'
      BY <1>3, <2>2 DEF MigrationHand
    <2>5. (\A t \in LTask \ theirs : FileOK(t))'
      BY <1>1, <2>2 DEF MigrationInv, FileOK, Among
    <2>6. AllOrNothing' /\ SuccessStep /\ OverwriteStep
      BY <1>1, <2>2 DEF AllOrNothing, SuccessStep, OverwriteStep
    <2> QED
      BY <1>2, <2>3, <2>4, <2>5, <2>6 DEF MigrationInv
  <1>5. ASSUME same_proposal(Head(lm.todo)),
               lm' = [lm EXCEPT !.pc = "write",
                        !.old = Append(@, [task |-> Head(lm.todo).task, text |-> file[Head(lm.todo).task]])]
        PROVE  MigrationInv' /\ SuccessStep /\ OverwriteStep
    <2>1. PICK c : c = Head(lm.todo)
      OBVIOUS
    <2>2. c = lm.todo[1] /\ 1 \in DOMAIN lm.todo /\ c \in Proposal
      BY <1>1, <1>3, <2>1
    <2>3. c.task \in LTask /\ file[c.task] \in TaskFile /\ file[c.task] = lm.registry[c.task]
      BY <1>5, <2>1, <2>2 DEF Proposal, same_proposal, MigrationInv, LmTypeOK
    <2>4. PICK e : e = [task |-> c.task, text |-> file[c.task]]
      OBVIOUS
    <2>5. e \in Before /\ e.task = c.task /\ e.text = file[c.task]
      BY <2>3, <2>4 DEF Before
    <2>6. PICK o : o = Append(lm.old, e)
      OBVIOUS
    <2> HIDE DEF Before
    <2>7. /\ o \in Seq(Before) /\ o # <<>> /\ o[Len(o)] = e
          /\ DOMAIN lm.old \subseteq DOMAIN o /\ \A k \in DOMAIN lm.old : o[k] = lm.old[k]
          /\ \A k \in DOMAIN o : k \in DOMAIN lm.old \/ o[k] = e
      BY <1>3, <2>5, <2>6
    <2>8. lm' = [pc |-> "write", registry |-> lm.registry, plan |-> lm.plan,
                 todo |-> lm.todo, old |-> o]
      <3>1. lm' = [lm EXCEPT !.pc = "write", !.old = o]
        BY <1>5, <2>1, <2>4, <2>6
      <3> QED
        BY <3>1, CommandFields, Zenon DEF MigrationInv
    <2>9. /\ lm'.pc = "write" /\ lm'.registry = lm.registry /\ lm'.old = o
          /\ lm'.plan = lm.plan /\ lm'.todo = lm.todo
          /\ lm' = [pc |-> lm'.pc, registry |-> lm'.registry, plan |-> lm'.plan,
                    todo |-> lm'.todo, old |-> lm'.old]
      BY <2>8
    <2>10. LmTypeOK'
      BY <1>1, <2>9 DEF MigrationInv, LmTypeOK
    <2>11. MigrationHand'
      <3>1. \A k \in DOMAIN o : o[k].text = lm.registry[o[k].task]
        BY <1>3, <2>3, <2>5, <2>7
      <3>2. /\ lm'.todo # <<>> /\ lm'.old # <<>> /\ lm'.old[Len(lm'.old)].task = Head(lm'.todo).task
            /\ file'[Head(lm'.todo).task] = lm'.old[Len(lm'.old)].text
        BY <1>1, <2>1, <2>5, <2>7, <2>9
      <3>3. /\ lm'.registry \in [LTask -> TaskFile] /\ lm'.old \in Seq(Before)
            /\ \A k \in DOMAIN lm'.old : lm'.old[k].text = lm'.registry[lm'.old[k].task]
        BY <1>3, <2>7, <2>9, <3>1
      <3>4. /\ Planned(lm'.plan) \subseteq LTask /\ lm'.todo \in Seq(Proposal)
            /\ \A k \in DOMAIN lm'.todo : /\ lm'.todo[k].task \in Planned(lm'.plan)
                                          /\ lm'.todo[k].source = lm'.registry[lm'.todo[k].task]
        BY <1>3, <2>9
      <3> QED
        BY <2>9, <3>2, <3>3, <3>4 DEF MigrationHand, Planned
    <2>12. ASSUME NEW t, Among(t, lm.old)
           PROVE  Among(t, o)
      BY <2>7, <2>12 DEF Among
    <2>13. (\A t \in LTask \ theirs : FileOK(t))'
      <3> SUFFICES ASSUME NEW t \in LTask, t \notin theirs'
                   PROVE  FileOK(t)'
        OBVIOUS
      <3>1. \/ file[t] = lm.registry[t] /\ (t \in Planned(lm.plan) => Among(t, lm.todo))
            \/ /\ file[t] = _migrate_task_raw(lm.registry[t]) /\ t \in Planned(lm.plan)
               /\ Among(t, lm.old)
        BY <1>1 DEF MigrationInv, FileOK
      <3>2. \/ file'[t] = lm'.registry[t] /\ (t \in Planned(lm'.plan) => Among(t, lm'.todo))
            \/ /\ file'[t] = _migrate_task_raw(lm'.registry[t]) /\ t \in Planned(lm'.plan)
               /\ Among(t, lm'.old)
        BY <1>1, <2>9, <2>12, <3>1
      <3> QED
        BY <2>9, <3>2 DEF FileOK, Planned, Among, _migrate_task_raw
    <2>14. AllOrNothing' /\ SuccessStep
      BY <1>1, <2>9 DEF AllOrNothing, SuccessStep
    <2>15. OverwriteStep
      BY <1>1, <2>1, <2>3 DEF OverwriteStep
    <2> QED
      BY <1>2, <2>10, <2>11, <2>13, <2>14, <2>15 DEF MigrationInv
  <1> QED
    BY <1>4, <1>5 DEF read_task

\* The file in hand is written from the loaded task; its old text is kept.
LEMMA MigrationWritten ==
  ASSUME MigrationInv, write_task
  PROVE  MigrationInv' /\ SuccessStep /\ OverwriteStep
  <1>1. /\ UNCHANGED <<base, catalog, leasePlan, theirs, edits>> /\ lm.pc = "write"
        /\ lm' = [lm EXCEPT !.pc = "read", !.todo = Tail(lm.todo)]
    BY DEF write_task, catVars
  <1>2. edits' \in Nat /\ PlanFileOK'
    BY <1>1 DEF MigrationInv, PlanFileOK
  <1>3. /\ lm.registry \in [LTask -> TaskFile] /\ lm.old \in Seq(Before)
        /\ \A k \in DOMAIN lm.old : lm.old[k].text = lm.registry[lm.old[k].task]
        /\ Planned(lm.plan) \subseteq LTask /\ lm.todo \in Seq(Proposal)
        /\ \A k \in DOMAIN lm.todo : /\ lm.todo[k].task \in Planned(lm.plan)
                                     /\ lm.todo[k].source = lm.registry[lm.todo[k].task]
        /\ lm.todo # <<>> /\ lm.old # <<>> /\ lm.old[Len(lm.old)].task = Head(lm.todo).task
        /\ \/ file[Head(lm.todo).task] = lm.old[Len(lm.old)].text
           \/ Head(lm.todo).task \in theirs
    BY <1>1 DEF MigrationInv, MigrationHand
  <1>4. PICK d : d = Tail(lm.todo)
    OBVIOUS
  <1>5. PICK u : u = Head(lm.todo).task
    OBVIOUS
  <1>6. /\ d \in Seq(Proposal) /\ \A k \in DOMAIN d : k + 1 \in DOMAIN lm.todo /\ d[k] = lm.todo[k + 1]
        /\ \A k \in DOMAIN lm.todo : lm.todo[k].task = u \/ (k - 1 \in DOMAIN d /\ d[k - 1] = lm.todo[k])
        /\ lm.todo[1].task = u /\ 1 \in DOMAIN lm.todo /\ lm.todo[1] \in Proposal
    <2> HIDE DEF Proposal
    <2>1. PICK n \in Nat \ {0} : Len(lm.todo) = n /\ DOMAIN lm.todo = 1..n
      BY <1>3
    <2>2. /\ d \in Seq(Proposal) /\ Len(d) = n - 1 /\ DOMAIN d = 1..(n - 1)
          /\ \A k \in 1..(n - 1) : d[k] = lm.todo[k + 1]
      BY <1>3, <1>4, <2>1
    <2>3. Head(lm.todo) = lm.todo[1] /\ lm.todo[1] \in Proposal
      BY <1>3, <2>1
    <2>4. \A k \in DOMAIN d : k + 1 \in DOMAIN lm.todo /\ d[k] = lm.todo[k + 1]
      BY <2>1, <2>2
    <2>5. ASSUME NEW k \in DOMAIN lm.todo, k # 1
          PROVE  k - 1 \in DOMAIN d /\ d[k - 1] = lm.todo[k]
      <3>1. k \in 1..n /\ k - 1 \in 1..(n - 1) /\ (k - 1) + 1 = k
        BY <2>1, <2>5
      <3> QED
        BY <2>2, <3>1
    <2>6. lm.todo[1].task = u /\ 1 \in DOMAIN lm.todo
      BY <1>5, <2>1, <2>3
    <2> QED
      BY <2>2, <2>3, <2>4, <2>5, <2>6
  <1>7. u \in LTask /\ u \in Planned(lm.plan)
    BY <1>3, <1>6 DEF Proposal
  <1>8. lm' = [pc |-> "read", registry |-> lm.registry, plan |-> lm.plan, todo |-> d, old |-> lm.old]
    BY <1>1, <1>4, CommandFields, Zenon DEF MigrationInv
  <1>9. /\ lm'.pc = "read" /\ lm'.registry = lm.registry /\ lm'.old = lm.old
        /\ lm'.plan = lm.plan /\ lm'.todo = d
        /\ lm' = [pc |-> lm'.pc, registry |-> lm'.registry, plan |-> lm'.plan,
                  todo |-> lm'.todo, old |-> lm'.old]
    BY <1>8
  <1>10. PICK w : w = _migrate_task_raw(lm.registry[u])
    OBVIOUS
  <1>11. w \in TaskFile
    <2>1. lm.registry[u] \in TaskFile
      BY <1>3, <1>7
    <2>2. \A f \in TaskFile, x \in BOOLEAN : [f EXCEPT !.broad = x] \in TaskFile
      BY DEF TaskFile
    <2> QED
      BY <1>10, <2>1, <2>2, Zenon DEF _migrate_task_raw
  <1>12. file \in [LTask -> TaskFile] /\ file' = [file EXCEPT ![u] = w]
    BY <1>5, <1>10 DEF write_task, MigrationInv, LmTypeOK
  <1>13. file'[u] = w /\ \A t \in LTask \ {u} : file'[t] = file[t]
    BY <1>7, <1>12
  <1>14. LmTypeOK'
    <2>1. file' \in [LTask -> TaskFile]
      BY <1>11, <1>12
    <2> QED
      BY <1>1, <1>9, <2>1 DEF MigrationInv, LmTypeOK
  <1>15. MigrationHand'
    <2>1. \A k \in DOMAIN d : d[k].task \in Planned(lm.plan) /\ d[k].source = lm.registry[d[k].task]
      BY <1>3, <1>6
    <2>2. /\ lm'.registry \in [LTask -> TaskFile] /\ lm'.old \in Seq(Before)
          /\ \A k \in DOMAIN lm'.old : lm'.old[k].text = lm'.registry[lm'.old[k].task]
      BY <1>3, <1>9
    <2>3. /\ Planned(lm'.plan) \subseteq LTask /\ lm'.todo \in Seq(Proposal)
          /\ \A k \in DOMAIN lm'.todo : /\ lm'.todo[k].task \in Planned(lm'.plan)
                                        /\ lm'.todo[k].source = lm'.registry[lm'.todo[k].task]
      BY <1>3, <1>6, <1>9, <2>1, SMT
    <2> QED
      BY <1>9, <2>2, <2>3 DEF MigrationHand, Planned
  <1>16. (\A t \in LTask \ theirs : FileOK(t))'
    <2> SUFFICES ASSUME NEW t \in LTask, t \notin theirs'
                 PROVE  FileOK(t)'
      OBVIOUS
    <2>1. CASE t = u
      <3>1. Among(t, lm.old)
        <4>1. Len(lm.old) \in DOMAIN lm.old
          BY <1>3
        <4> QED
          BY <1>3, <1>5, <2>1, <4>1 DEF Among
      <3>2. /\ file'[t] = _migrate_task_raw(lm'.registry[t]) /\ t \in Planned(lm'.plan)
            /\ Among(t, lm'.old)
        BY <1>7, <1>9, <1>10, <1>13, <2>1, <3>1
      <3> QED
        BY <1>9, <3>2 DEF FileOK, Planned, Among, _migrate_task_raw
    <2>2. CASE t # u
      <3>1. \/ file[t] = lm.registry[t] /\ (t \in Planned(lm.plan) => Among(t, lm.todo))
            \/ /\ file[t] = _migrate_task_raw(lm.registry[t]) /\ t \in Planned(lm.plan)
               /\ Among(t, lm.old)
        BY <1>1 DEF MigrationInv, FileOK
      <3>2. Among(t, lm.todo) => Among(t, d)
        BY <1>6, <2>2 DEF Among
      <3>3. \/ file'[t] = lm'.registry[t] /\ (t \in Planned(lm'.plan) => Among(t, lm'.todo))
            \/ /\ file'[t] = _migrate_task_raw(lm'.registry[t]) /\ t \in Planned(lm'.plan)
               /\ Among(t, lm'.old)
        BY <1>9, <1>13, <2>2, <3>1, <3>2
      <3> QED
        BY <1>9, <3>3 DEF FileOK, Planned, Among, _migrate_task_raw
    <2> QED
      BY <2>1, <2>2
  <1>17. AllOrNothing' /\ SuccessStep
    BY <1>1, <1>9 DEF AllOrNothing, SuccessStep
  <1>18. OverwriteStep
    BY <1>1, <1>3, <1>9 DEF OverwriteStep
  <1> QED
    BY <1>2, <1>14, <1>15, <1>16, <1>17, <1>18 DEF MigrationInv

\* The gates: without a failure every planned file is migrated and no other.
LEMMA MigrationGated ==
  ASSUME MigrationInv, post_gates
  PROVE  MigrationInv' /\ SuccessStep /\ OverwriteStep
  <1>1. /\ UNCHANGED <<file, base, catalog, leasePlan, theirs, edits>>
        /\ lm.pc = "read" /\ lm.todo = <<>>
    BY DEF post_gates, fileVars, catVars
  <1>2. edits' \in Nat /\ PlanFileOK'
    BY <1>1 DEF MigrationInv, PlanFileOK
  <1>3. PICK x \in {"applied", "failed"} :
          /\ lm' = [lm EXCEPT !.pc = x]
          /\ x = "applied" =>
               /\ Planned(lm.plan) \cap Findings(file) = {}
               /\ \A t \in Planned(lm.plan) : file[t].open = lm.registry[t].open
               /\ _dirty_paths = Planned(lm.plan)
    BY DEF post_gates
  <1>4. lm' = [pc |-> x, registry |-> lm.registry, plan |-> lm.plan, todo |-> lm.todo, old |-> lm.old]
    BY <1>3, CommandFields, Zenon DEF MigrationInv
  <1>5. /\ lm'.pc = x /\ lm'.registry = lm.registry /\ lm'.old = lm.old /\ lm'.plan = lm.plan
        /\ lm' = [pc |-> lm'.pc, registry |-> lm'.registry, plan |-> lm'.plan,
                  todo |-> lm'.todo, old |-> lm'.old]
    BY <1>4
  <1>6. LmTypeOK'
    BY <1>1, <1>5 DEF MigrationInv, LmTypeOK
  <1>7. MigrationHand'
    BY <1>1, <1>5 DEF MigrationInv, MigrationHand
  <1>8. ASSUME NEW t \in LTask \ theirs
        PROVE  \/ file[t] = lm.registry[t] /\ t \notin Planned(lm.plan)
               \/ /\ file[t] = _migrate_task_raw(lm.registry[t]) /\ t \in Planned(lm.plan)
                  /\ Among(t, lm.old)
    <2>1. ~Among(t, lm.todo)
      BY <1>1 DEF Among
    <2> QED
      BY <1>1, <2>1 DEF MigrationInv, FileOK
  <1>9. (\A t \in LTask \ theirs : FileOK(t))'
    BY <1>1, <1>5, <1>8 DEF FileOK, Among
  <1>10. AllOrNothing'
    <2> SUFFICES ASSUME x = "applied", NEW t \in LTask \ theirs
                 PROVE  file[t] = IF t \in Planned(lm.plan) THEN _migrate_task_raw(lm.registry[t])
                                  ELSE lm.registry[t]
      BY <1>1, <1>5 DEF AllOrNothing, Planned, _migrate_task_raw
    <2> QED
      BY <1>8
  <1>11. SuccessStep
    <2> SUFFICES ASSUME x = "applied", NEW t \in Planned(lm.plan)
                 PROVE  ~(file[t].broad /\ file[t].open) /\ file[t].open = lm.registry[t].open
      BY <1>5 DEF SuccessStep
    <2>1. t \in LTask
      BY <1>1 DEF MigrationInv, MigrationHand
    <2> QED
      BY <1>3, <2>1 DEF Findings
  <1>12. OverwriteStep
    BY <1>1, <1>5 DEF OverwriteStep
  <1> QED
    BY <1>2, <1>6, <1>7, <1>9, <1>10, <1>11, <1>12 DEF MigrationInv

\* One old text is put back.
LEMMA MigrationPutBack ==
  ASSUME MigrationInv, put_back
  PROVE  MigrationInv' /\ SuccessStep /\ OverwriteStep
  <1>1. /\ UNCHANGED <<base, catalog, leasePlan, theirs, edits>> /\ lm.pc = "failed"
        /\ lm.old # <<>> /\ lm' = [lm EXCEPT !.old = Tail(lm.old)]
    BY DEF put_back, catVars
  <1>2. edits' \in Nat /\ PlanFileOK'
    BY <1>1 DEF MigrationInv, PlanFileOK
  <1>3. /\ lm.registry \in [LTask -> TaskFile] /\ lm.old \in Seq(Before)
        /\ \A k \in DOMAIN lm.old : lm.old[k].text = lm.registry[lm.old[k].task]
    BY <1>1 DEF MigrationInv, MigrationHand
  <1>4. PICK o : o = Tail(lm.old)
    OBVIOUS
  <1>5. PICK e : e = Head(lm.old)
    OBVIOUS
  <1>6. /\ o \in Seq(Before) /\ \A k \in DOMAIN o : k + 1 \in DOMAIN lm.old /\ o[k] = lm.old[k + 1]
        /\ \A k \in DOMAIN lm.old : lm.old[k] = e \/ (k - 1 \in DOMAIN o /\ o[k - 1] = lm.old[k])
        /\ e = lm.old[1] /\ 1 \in DOMAIN lm.old /\ e \in Before
    <2> HIDE DEF Before
    <2>1. PICK n \in Nat \ {0} : Len(lm.old) = n /\ DOMAIN lm.old = 1..n
      BY <1>1, <1>3
    <2>2. /\ o \in Seq(Before) /\ Len(o) = n - 1 /\ DOMAIN o = 1..(n - 1)
          /\ \A k \in 1..(n - 1) : o[k] = lm.old[k + 1]
      BY <1>1, <1>3, <1>4, <2>1
    <2>3. e = lm.old[1] /\ 1 \in DOMAIN lm.old /\ e \in Before
      BY <1>3, <1>5, <2>1
    <2>4. \A k \in DOMAIN o : k + 1 \in DOMAIN lm.old /\ o[k] = lm.old[k + 1]
      BY <2>1, <2>2
    <2>5. ASSUME NEW k \in DOMAIN lm.old, k # 1
          PROVE  k - 1 \in DOMAIN o /\ o[k - 1] = lm.old[k]
      <3>1. k \in 1..n /\ k - 1 \in 1..(n - 1) /\ (k - 1) + 1 = k
        BY <2>1, <2>5
      <3> QED
        BY <2>2, <3>1
    <2> QED
      BY <2>2, <2>3, <2>4, <2>5
  <1>7. PICK u : u = e.task
    OBVIOUS
  <1>8. u \in LTask /\ e.text \in TaskFile /\ e.text = lm.registry[u]
    BY <1>3, <1>6, <1>7 DEF Before
  <1>9. lm' = [pc |-> "failed", registry |-> lm.registry, plan |-> lm.plan, todo |-> lm.todo, old |-> o]
    <2>1. lm' = [pc |-> lm.pc, registry |-> lm.registry, plan |-> lm.plan, todo |-> lm.todo, old |-> o]
      BY <1>1, <1>4, CommandFields, Zenon DEF MigrationInv
    <2>2. lm.pc = "failed"
      BY <1>1
    <2> QED
      BY <2>1, <2>2
  <1>10. /\ lm'.pc = "failed" /\ lm'.registry = lm.registry /\ lm'.old = o
         /\ lm' = [pc |-> lm'.pc, registry |-> lm'.registry, plan |-> lm'.plan,
                   todo |-> lm'.todo, old |-> lm'.old]
    BY <1>9
  <1>11. file \in [LTask -> TaskFile] /\ file' = [file EXCEPT ![u] = e.text]
    BY <1>5, <1>7 DEF put_back, MigrationInv, LmTypeOK
  <1>12. file'[u] = lm.registry[u] /\ \A t \in LTask \ {u} : file'[t] = file[t]
    BY <1>8, <1>11
  <1>13. LmTypeOK'
    <2>1. file' \in [LTask -> TaskFile]
      BY <1>8, <1>11
    <2> QED
      BY <1>1, <1>10, <2>1 DEF MigrationInv, LmTypeOK
  <1>14. MigrationHand'
    <2>1. \A k \in DOMAIN o : o[k].text = lm.registry[o[k].task]
      BY <1>3, <1>6
    <2> QED
      BY <1>3, <1>6, <1>10, <2>1 DEF MigrationHand
  <1>15. (\A t \in LTask \ theirs : FileOK(t))'
    <2> SUFFICES ASSUME NEW t \in LTask, t \notin theirs'
                 PROVE  file'[t] = lm'.registry[t] \/ Among(t, lm'.old)
      BY <1>10 DEF FileOK, Among
    <2>1. file[t] = lm.registry[t] \/ Among(t, lm.old)
      BY <1>1 DEF MigrationInv, FileOK
    <2>2. t # u /\ Among(t, lm.old) => Among(t, o)
      BY <1>6, <1>7 DEF Among
    <2> QED
      BY <1>10, <1>12, <2>1, <2>2
  <1>16. AllOrNothing' /\ SuccessStep /\ OverwriteStep
    BY <1>1, <1>10 DEF AllOrNothing, SuccessStep, OverwriteStep
  <1> QED
    BY <1>2, <1>13, <1>14, <1>15, <1>16 DEF MigrationInv

\* The refusal comes when nothing is left to put back.
LEMMA MigrationRaised ==
  ASSUME MigrationInv, raise_error
  PROVE  MigrationInv' /\ SuccessStep /\ OverwriteStep
  <1>1. /\ UNCHANGED <<file, base, catalog, leasePlan, theirs, edits>> /\ lm.pc = "failed"
        /\ lm.old = <<>> /\ lm' = [lm EXCEPT !.pc = "refused"]
    BY DEF raise_error, fileVars, catVars
  <1>2. edits' \in Nat /\ PlanFileOK'
    BY <1>1 DEF MigrationInv, PlanFileOK
  <1>3. lm' = [pc |-> "refused", registry |-> lm.registry, plan |-> lm.plan,
               todo |-> lm.todo, old |-> lm.old]
    BY <1>1, CommandFields, Zenon DEF MigrationInv
  <1>4. /\ lm'.pc = "refused" /\ lm'.registry = lm.registry /\ lm'.old = lm.old
        /\ lm' = [pc |-> lm'.pc, registry |-> lm'.registry, plan |-> lm'.plan,
                  todo |-> lm'.todo, old |-> lm'.old]
    BY <1>3
  <1>5. LmTypeOK'
    BY <1>1, <1>4 DEF MigrationInv, LmTypeOK
  <1>6. MigrationHand'
    BY <1>1, <1>4 DEF MigrationInv, MigrationHand
  <1>7. \A t \in LTask \ theirs : file[t] = lm.registry[t]
    <2>1. \A t : ~Among(t, lm.old)
      BY <1>1 DEF Among
    <2> QED
      BY <1>1, <2>1 DEF MigrationInv, FileOK
  <1>8. AllOrNothing' /\ (\A t \in LTask \ theirs : FileOK(t))'
    BY <1>1, <1>4, <1>7 DEF AllOrNothing, FileOK
  <1>9. SuccessStep /\ OverwriteStep
    BY <1>1, <1>4 DEF SuccessStep, OverwriteStep
  <1> QED
    BY <1>2, <1>5, <1>6, <1>8, <1>9 DEF MigrationInv

\* A command that ends or is killed leaves the files as they are.
LEMMA MigrationEnded ==
  ASSUME MigrationInv, next_call \/ kill
  PROVE  MigrationInv' /\ SuccessStep /\ OverwriteStep
  <1>1. UNCHANGED <<file, base, catalog, leasePlan, theirs, edits>> /\ lm' = NoApply
    BY DEF next_call, kill, fileVars, catVars
  <1>2. edits' \in Nat /\ PlanFileOK'
    BY <1>1 DEF MigrationInv, PlanFileOK
  <1>3. MigrationHand' /\ AllOrNothing' /\ \A t \in LTask : FileOK(t)'
    BY <1>1, IdleHand
  <1>4. LmTypeOK' /\ SuccessStep /\ OverwriteStep
    BY <1>1 DEF MigrationInv, LmTypeOK, SuccessStep, OverwriteStep, NoApply
  <1> QED
    BY <1>2, <1>3, <1>4 DEF MigrationInv

\* What others write is theirs from then on.
LEMMA MigrationEdited ==
  ASSUME MigrationInv, NEW t \in LTask, NEW f \in TaskFile, writes(t, f)
  PROVE  MigrationInv' /\ SuccessStep /\ OverwriteStep
  <1>1. /\ UNCHANGED <<base, catalog, leasePlan, lm>> /\ edits' = edits + 1
        /\ theirs' = theirs \cup {t} /\ file' = [file EXCEPT ![t] = f]
    BY DEF writes, Edits, catVars
  <1>2. file \in [LTask -> TaskFile] /\ theirs \in SUBSET LTask
    BY DEF MigrationInv, LmTypeOK
  <1>3. file' \in [LTask -> TaskFile] /\ \A u \in LTask \ {t} : file'[u] = file[u]
    BY <1>1, <1>2
  <1>4. edits' \in Nat /\ PlanFileOK' /\ LmTypeOK'
    BY <1>1, <1>2, <1>3 DEF MigrationInv, PlanFileOK, LmTypeOK
  <1>5. MigrationHand'
    <2>1. ASSUME lm.pc = "write"
          PROVE  \/ file'[Head(lm.todo).task] = lm.old[Len(lm.old)].text
                 \/ Head(lm.todo).task \in theirs'
      <3>1. Head(lm.todo).task \in LTask
        <4>1. lm.todo \in Seq(Proposal) /\ lm.todo # <<>>
          BY <2>1 DEF MigrationInv, MigrationHand
        <4>2. Head(lm.todo) \in Proposal
          <5> HIDE DEF Proposal
          <5> QED
            BY <4>1
        <4> QED
          BY <4>2 DEF Proposal
      <3>2. \/ file[Head(lm.todo).task] = lm.old[Len(lm.old)].text
            \/ Head(lm.todo).task \in theirs
        BY <2>1 DEF MigrationInv, MigrationHand
      <3> QED
        BY <1>1, <1>3, <3>1, <3>2
    <2> QED
      BY <1>1, <2>1 DEF MigrationInv, MigrationHand, Planned
  <1>6. (\A u \in LTask \ theirs : FileOK(u))'
    <2> SUFFICES ASSUME NEW u \in LTask, u \notin theirs'
                 PROVE  FileOK(u)'
      OBVIOUS
    <2>1. u \notin theirs /\ file'[u] = file[u]
      BY <1>1, <1>3
    <2>2. FileOK(u)
      BY <2>1 DEF MigrationInv
    <2> QED
      BY <1>1, <2>1, <2>2 DEF FileOK, Planned, Among, _migrate_task_raw
  <1>7. AllOrNothing'
    <2>1. \A u \in LTask \ theirs' : u \in LTask \ theirs /\ file'[u] = file[u]
      BY <1>1, <1>3
    <2> QED
      BY <1>1, <2>1 DEF MigrationInv, AllOrNothing, Planned, _migrate_task_raw
  <1>8. SuccessStep /\ OverwriteStep
    BY <1>1 DEF SuccessStep, OverwriteStep
  <1> QED
    BY <1>4, <1>5, <1>6, <1>7, <1>8 DEF MigrationInv

\* Every edit of a task file leaves a task file.
LEMMA EditsAreFiles ==
  ASSUME MigrationInv, NEW t \in LTask, edit_task(t) \/ close_task(t) \/ restore_task(t)
  PROVE  \E f \in TaskFile : writes(t, f)
  <1>1. file[t] \in TaskFile /\ base[t] \in TaskFile
    BY DEF MigrationInv, LmTypeOK
  <1>2. edits < MaxEdits => edits + 1 \in 0 .. MaxEdits
    BY LTaskAssumption DEF MigrationInv
  <1>3. PICK b \in BOOLEAN, o \in BOOLEAN, v \in 0 .. MaxEdits :
          file[t] = [broad |-> b, open |-> o, ver |-> v]
    BY <1>1 DEF TaskFile
  <1>4. \A c, d \in BOOLEAN, w \in 0 .. MaxEdits : [broad |-> c, open |-> d, ver |-> w] \in TaskFile
    BY DEF TaskFile
  <1>5. CASE edit_task(t)
    <2>1. [file[t] EXCEPT !.ver = edits + 1] = [broad |-> b, open |-> o, ver |-> edits + 1]
      BY <1>3
    <2>2. edits < MaxEdits /\ writes(t, [file[t] EXCEPT !.ver = edits + 1])
      BY <1>5 DEF edit_task, writes, Edits
    <2> QED
      BY <1>2, <1>4, <2>1, <2>2
  <1>6. CASE close_task(t)
    <2>1. PICK g : g = [file[t] EXCEPT !.open = FALSE, !.ver = edits + 1]
      OBVIOUS
    <2>2. \A x \in BOOLEAN, y \in 0 .. MaxEdits : [file[t] EXCEPT !.open = x, !.ver = y] \in TaskFile
      BY <1>1 DEF TaskFile
    <2>3. edits < MaxEdits /\ writes(t, g)
      BY <1>6, <2>1 DEF close_task, writes, Edits
    <2> QED
      BY <1>2, <2>1, <2>2, <2>3, Zenon
  <1>7. CASE restore_task(t)
    BY <1>1, <1>7 DEF restore_task
  <1> QED
    BY <1>5, <1>6, <1>7

\* The other edits touch no task file and not the command.
LEMMA MigrationAround ==
  ASSUME MigrationInv,
         edit_queue \/ commit_files \/ (\E t \in LTask : edit_catalog(t))
           \/ broad_bureau_lease_inventory \/ UNCHANGED lmVars
  PROVE  MigrationInv' /\ SuccessStep /\ OverwriteStep
  <1>1. /\ UNCHANGED <<file, lm, theirs, leasePlan>> /\ edits' \in Nat
        /\ base' \in {base, file} /\ catalog' \in SUBSET LTask
    BY DEF edit_queue, commit_files, edit_catalog, broad_bureau_lease_inventory, lmVars,
           fileVars, catVars, Edits, MigrationInv, LmTypeOK
  <1>2. LmTypeOK' /\ PlanFileOK'
    BY <1>1 DEF MigrationInv, LmTypeOK, PlanFileOK
  <1>3. /\ MigrationHand' /\ AllOrNothing' /\ (\A t \in LTask \ theirs : FileOK(t))'
        /\ SuccessStep /\ OverwriteStep
    BY <1>1, SameCommand
  <1> QED
    BY <1>1, <1>2, <1>3 DEF MigrationInv

\* A reviewed batch is migrated as a whole or not at all, and without hiding what
\* others did to the same files, whatever the tasks, the batch size and the edits
\* (apply_lease_migration_plan).
THEOREM MigratesAsReviewed == LmSpec => MigratedAsReviewed
  <1>1. LmInit => MigrationInv
    BY MigrationInit
  <1>2. MigrationInv /\ [LmNext]_lmVars => MigrationInv' /\ SuccessStep /\ OverwriteStep
    <2> SUFFICES ASSUME MigrationInv, [LmNext]_lmVars
                 PROVE  MigrationInv' /\ SuccessStep /\ OverwriteStep
      OBVIOUS
    <2>1. ASSUME NEW n \in 1 .. MaxBatch, write_lease_migration_plan(n)
          PROVE  MigrationInv' /\ SuccessStep /\ OverwriteStep
      BY <2>1, MigrationPlanned
    <2>2. CASE review_lease_plan
      BY <2>2, MigrationReviewed
    <2>3. CASE load_registry
      BY <2>3, MigrationLoaded
    <2>4. CASE check_plan
      BY <2>4, MigrationChecked
    <2>5. CASE read_task
      BY <2>5, MigrationRead
    <2>6. CASE write_task
      BY <2>6, MigrationWritten
    <2>7. CASE post_gates
      BY <2>7, MigrationGated
    <2>8. CASE put_back
      BY <2>8, MigrationPutBack
    <2>9. CASE raise_error
      BY <2>9, MigrationRaised
    <2>10. CASE next_call \/ kill
      BY <2>10, MigrationEnded
    <2>11. ASSUME NEW t \in LTask, edit_task(t) \/ close_task(t) \/ restore_task(t)
           PROVE  MigrationInv' /\ SuccessStep /\ OverwriteStep
      BY <2>11, EditsAreFiles, MigrationEdited
    <2>12. CASE edit_queue \/ commit_files \/ (\E t \in LTask : edit_catalog(t))
                  \/ broad_bureau_lease_inventory \/ UNCHANGED lmVars
      BY <2>12, MigrationAround
    <2> QED
      BY <2>1, <2>2, <2>3, <2>4, <2>5, <2>6, <2>7, <2>8, <2>9, <2>10, <2>11, <2>12 DEF LmNext
  <1>3. MigrationInv' => LmTypeOK' /\ AllOrNothing'
    BY DEF MigrationInv
  <1> QED
    BY <1>1, <1>2, <1>3, PTL DEF LmSpec, MigratedAsReviewed
=============================================================================
