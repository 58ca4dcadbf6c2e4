-------------------------- MODULE EvidenceCloseout --------------------------
(***************************************************************************)
(* Acceptance evidence from its producers to the closeout of a run         *)
(* (closure_observer.py): bundle files named after their run, manual       *)
(* authentication of their content, the reconcile that closes a run on     *)
(* authenticated evidence, and the retirement of bundles: those of         *)
(* finished runs are deleted, those of no known run are moved to a         *)
(* quarantine, in a transaction that a later reconcile can recover.        *)
(*                                                                         *)
(* Files are inodes with a content; a content is a version number, which   *)
(* stands for its digest, and a kind. A directory entry survives a power   *)
(* loss once its directory was synced; contents are synced when written.   *)
(***************************************************************************)
EXTENDS Acceptance, Sequences

CONSTANTS EvRun,      \* run ids that bundle files are named after
          Observer,   \* reconcile processes
          MaxContent, \* bound: contents ever written by producers
          MaxTxn,     \* bound: quarantine transactions
          MaxFile,    \* bound: files ever created, frozen copies included
          MaxAttested, \* MAX_MANUAL_AUTHENTICATION_EVENTS_PER_RUN
          EvCriteria, \* criterion id -> criterion of the runs' task
          EvBundles,  \* what producers claim: criterion id -> item
          PullState,  \* states of the pull request: [head, merged, checks]
          Tick, MaxClock \* time passes in ticks, up to a bound

ASSUME PullAssumption == \A s \in PullState : DOMAIN s = {"head", "merged", "checks"}

VARIABLES runAt,      \* run -> state, "unknown" for no such run
          closedOn,   \* run -> content its receipt was written on, 0 for none
          attested,   \* run -> <<criterion id, item>> of authentication events
          pull,       \* the pull request, as GitHub shows it
          clock,
          claims,     \* content -> what it claims
          inodes,     \* inode -> [v, kind, private]
          link,       \* run -> inode of its bundle file, 0 for none
          linkSynced, \* run -> the same after a power loss
          txns,       \* quarantine transactions, in order of creation
          obs,        \* observer -> what it is doing
          dropped,    \* contents their producer replaced, and retired ones
          durable,    \* contents whose directory entry was ever synced
          failures    \* power losses so far

runSide == <<runAt, closedOn, attested, pull, clock>>
fileSide == <<inodes, link, linkSynced, txns, claims, dropped, durable>>
ecVars == <<runSide, fileSide, obs, failures>>

\* A bundle that is JSON and bound to its run, JSON of another shape, or not
\* readable as JSON.
EntryKind == {"bundle", "other", "junk"}
TERMINAL_RUN_STATES == {"succeeded", "failed", "stale_worker"}
contents == Len(claims)
NoEvidence == [c \in DOMAIN EvCriteria |-> NoItem]
PRODUCTION_AUTHENTICATION_ADAPTERS == {"code_merged", "required_ci_green"}

\* The task and plan revision the runs were claimed for.
TASK == 1
PLAN == 1

NoManifest == [v |-> 0, ino |-> 0]
Resting == [pc |-> "rest", run |-> 0, ino |-> 0, v |-> 0, txn |-> 0, seen |-> {},
            auth |-> {}]

EcInit ==
  /\ runAt = [r \in EvRun |-> "unknown"] /\ closedOn = [r \in EvRun |-> 0]
  /\ attested = [r \in EvRun |-> {}] /\ pull \in PullState /\ clock = 0
  /\ inodes = <<>> /\ link = [r \in EvRun |-> 0] /\ linkSynced = link
  /\ txns = <<>> /\ obs = [p \in Observer |-> Resting]
  /\ claims = <<>> /\ dropped = {} /\ durable = {} /\ failures = 0

V(i) == inodes[i].v
Linked(S) == {V(i) : i \in S \ {0}}
Listed(entries) == Linked({entries[r] : r \in EvRun})
Does(p, pc) == obs[p].pc = pc
Set(p, rec) == obs' = [obs EXCEPT ![p] = rec]
Then(p, pc) == Set(p, [obs[p] EXCEPT !.pc = pc])
Rests(p) == Set(p, [Resting EXCEPT !.seen = obs[p].seen])
NewFile(v, kind, private) ==
  inodes' = Append(inodes, [v |-> v, kind |-> kind, private |-> private])

\* --------------------------------------------------------------- producers

\* A producer replaces the bundle file of a run. Its entry is synced at once,
\* except while a move out of the directory is not: whoever syncs the
\* directory then would make the removal durable before the new place is.
publish_bundle(r, kind, e) ==
  LET i == Len(inodes) + 1
      quiet == \A t \in 1..Len(txns) : txns[t].payload = txns[t].synced
  IN /\ contents < MaxContent
     /\ claims' = Append(claims, e)
     /\ NewFile(contents + 1, kind, FALSE)
     /\ link' = [link EXCEPT ![r] = i]
     /\ linkSynced' = IF quiet THEN link' ELSE linkSynced
     /\ durable' = IF quiet THEN durable \cup {contents + 1} \cup Listed(link) ELSE durable
     /\ dropped' = dropped \cup Linked({link[r]})
     /\ UNCHANGED <<runSide, txns, obs, failures>>

\* A producer that holds the file open writes to it where it is. Nothing is
\* promised about what it writes.
write_in_place(i) ==
  /\ contents < MaxContent /\ ~inodes[i].private
  /\ claims' = Append(claims, NoEvidence)
  /\ inodes' = [inodes EXCEPT ![i].v = contents + 1]
  /\ dropped' = dropped \cup {V(i), contents + 1}
  /\ UNCHANGED <<runSide, link, linkSynced, txns, obs, durable, failures>>

\* Runs appear and end elsewhere, time passes, and a pull request changes
\* until it is merged, its checks also after.
run_moves(r) ==
  /\ \/ runAt[r] = "unknown" /\ runAt' = [runAt EXCEPT ![r] = "active"]
     \/ /\ runAt[r] = "active"
        /\ \E s \in {"failed", "stale_worker"} : runAt' = [runAt EXCEPT ![r] = s]
  /\ UNCHANGED <<closedOn, attested, pull, clock, fileSide, obs, failures>>

pull_request_moves ==
  /\ pull' \in PullState \ {pull}
  /\ pull.merged = "yes" => pull' = [pull EXCEPT !.checks = pull'.checks]
  /\ UNCHANGED <<runAt, closedOn, attested, clock, fileSide, obs, failures>>

time_passes ==
  /\ clock + Tick <= MaxClock /\ clock' = clock + Tick
  /\ UNCHANGED <<runAt, closedOn, attested, pull, fileSide, obs, failures>>

\* ---------------------------------------------------------------- closeout

\* load_state_evidence_bundle: the file is there, readable and bound.
load_state_evidence_bundle(r) == link[r] # 0 /\ inodes[link[r]].kind = "bundle"

\* _validate_manual_evidence_item: an item of this criterion and revision.
_validate_manual_evidence_item(c, item) ==
  /\ item.verifier = "manual_observation" /\ item.authority = "manual"
  /\ _revision_valid(EvCriteria[c], item, TASK, PLAN) /\ _facts_match_revision(item)

\* record_manual_acceptance_authentication: one transaction that binds the
\* item the bundle holds now, by someone other than its producer and the
\* worker of the run; the same attestation is written once.
record_manual_acceptance_authentication(r, c, reviewer) ==
  LET item == claims[V(link[r])][c]
  IN /\ runAt[r] = "active" /\ load_state_evidence_bundle(r)
     /\ EvCriteria[c].verifier = "manual_observation" /\ item # NoItem
     /\ _validate_manual_evidence_item(c, item)
     /\ reviewer \notin {item.facts.observer, "worker"}
     /\ <<c, item>> \notin attested[r] => Cardinality(attested[r]) < MaxAttested
     /\ attested' = [attested EXCEPT ![r] = @ \cup {<<c, item>>}]
     /\ UNCHANGED <<runAt, closedOn, pull, clock, fileSide, obs, failures>>

\* reconcile_runs reads the evidence of an active run once.
reconcile_runs(p, r) ==
  /\ Does(p, "rest")
  /\ runAt[r] = "active" /\ load_state_evidence_bundle(r)
  /\ validate_acceptance_contract(EvCriteria)
  /\ Set(p, [obs[p] EXCEPT !.pc = "authenticate", !.run = r, !.v = V(link[r])])
  /\ UNCHANGED <<runSide, fileSide, failures>>

\* _github_evidence_matches_live: the claimed facts are those GitHub shows now
\* for the head the criterion was frozen to.
_github_evidence_matches_live(criterion, item) ==
  LET Required(rows) == {row \in rows : row[1] \in criterion.required_checks}
  IN /\ pull.head = criterion.target /\ item.authority = "github"
     /\ IF criterion.verifier = "code_merged"
        THEN item.facts.merged = pull.merged /\ item.facts.target = pull.head
        ELSE /\ item.facts.complete
             /\ Required(item.facts.checks) = Required(pull.checks)

\* Any attestation of the criterion counts, whatever item it names.
authenticate_state_evidence_any(r, e) ==
  {c \in DOMAIN EvCriteria :
     /\ e[c] # NoItem
     /\ IF EvCriteria[c].verifier = "manual_observation"
        THEN \E a \in attested[r] : a[1] = c
        ELSE _github_evidence_matches_live(EvCriteria[c], e[c])}

\* authenticate_state_evidence: an attestation of exactly this item, or what
\* GitHub says now. One claim with a verifier nobody can authenticate stops
\* the whole evaluation.
authenticate_state_evidence(r, e) ==
  IF \E c \in DOMAIN EvCriteria :
       /\ e[c] # NoItem
       /\ EvCriteria[c].verifier \notin
            PRODUCTION_AUTHENTICATION_ADAPTERS \cup {"manual_observation"}
  THEN {}
  ELSE {c \in DOMAIN EvCriteria :
          /\ e[c] # NoItem
          /\ IF EvCriteria[c].verifier = "manual_observation"
             THEN <<c, e[c]>> \in attested[r]
             ELSE _github_evidence_matches_live(EvCriteria[c], e[c])}

authenticate(p) ==
  /\ Does(p, "authenticate")
  /\ Set(p, [obs[p] EXCEPT !.pc = "evaluate",
                !.auth = authenticate_state_evidence(obs[p].run, claims[obs[p].v])])
  /\ UNCHANGED <<runSide, fileSide, failures>>

\* evaluate_run: the run is still open and its evidence passes now.
evaluate_run(p) ==
  /\ Does(p, "evaluate")
  /\ IF /\ runAt[obs[p].run] = "active"
        /\ evaluate_acceptance(EvCriteria, claims[obs[p].v], TASK, PLAN, clock,
                               obs[p].auth) = PASSED
     THEN Then(p, "complete") ELSE Rests(p)
  /\ UNCHANGED <<runSide, fileSide, failures>>

\* reconcile_run's one call of the completion, which reads the run again.
reconcile_run(p) ==
  LET r == obs[p].run
      open == runAt[r] = "active"
  IN /\ Does(p, "complete")
     /\ runAt' = IF open THEN [runAt EXCEPT ![r] = "succeeded"] ELSE runAt
     /\ closedOn' = IF open THEN [closedOn EXCEPT ![r] = obs[p].v] ELSE closedOn
     /\ Rests(p)
     /\ UNCHANGED <<attested, pull, clock, fileSide, failures>>

\* retire_terminal_evidence_bundles, for the bundle of a finished run; that of
\* a stale worker is kept for its closeout.
retire_terminal_evidence_bundles(p, r) ==
  /\ Does(p, "rest") /\ load_state_evidence_bundle(r)
  /\ runAt[r] \in TERMINAL_RUN_STATES \ {"stale_worker"}
  /\ runAt[r] = "succeeded" => closedOn[r] # 0
  /\ Set(p, [obs[p] EXCEPT !.pc = "unlink", !.run = r])
  /\ UNCHANGED <<runSide, fileSide, failures>>

unlink_bundle(p) ==
  LET r == obs[p].run
  IN /\ Does(p, "unlink")
     /\ link' = [link EXCEPT ![r] = 0]
     /\ dropped' = dropped \cup Linked({link[r]})
     /\ Rests(p)
     /\ UNCHANGED <<runSide, inodes, linkSynced, txns, claims, durable, failures>>

\* -------------------------------------------------------------- quarantine

T(p) == txns[obs[p].txn]
Pending(t) == txns[t].at = "pending"
SetTxn(t, rec) == txns' = [txns EXCEPT ![t] = rec]
onlyTxns == <<runSide, inodes, link, linkSynced, claims, dropped, failures>>
sameTxns == UNCHANGED <<txns, durable>>

\* A change of the transaction directory that is followed by its sync, which
\* makes the payload's entry durable too.
SyncedTxn(t, rec, v) ==
  /\ SetTxn(t, [rec EXCEPT !.synced = rec.payload])
  /\ durable' = IF rec.payload = 0 THEN durable ELSE durable \cup {v}

\* _read_unknown_run_evidence_entry: a readable bundle of no known run. The
\* pass has looked at every transaction left before it.
quarantine_read(p, r) ==
  /\ Does(p, "rest") /\ Len(txns) < MaxTxn
  /\ runAt[r] = "unknown"
  /\ link[r] # 0 /\ inodes[link[r]].kind # "junk"
  /\ \A t \in 1..Len(txns) :
       Pending(t) => t \in obs[p].seen \/ \E q \in Observer \ {p} : obs[q].txn = t
  /\ Set(p, [obs[p] EXCEPT !.pc = "mkdir", !.run = r, !.ino = link[r],
                            !.v = V(link[r])])
  /\ UNCHANGED <<runSide, fileSide, failures>>

\* The private transaction directory, and then its manifest.
quarantine_mkdir(p) ==
  /\ Does(p, "mkdir") /\ Len(txns) < MaxTxn
  /\ txns' = Append(txns, [at |-> "pending", run |-> obs[p].run,
                           manifest |-> NoManifest, payload |-> 0,
                           synced |-> 0, note |-> FALSE])
  /\ Set(p, [obs[p] EXCEPT !.pc = "manifest", !.txn = Len(txns) + 1,
                            !.seen = @ \cup {Len(txns) + 1}])
  /\ UNCHANGED <<onlyTxns, durable>>

_create_quarantine_transaction(p) ==
  /\ Does(p, "manifest")
  /\ IF Pending(obs[p].txn)
     THEN /\ SetTxn(obs[p].txn, [T(p) EXCEPT
                !.manifest = [v |-> obs[p].v, ino |-> obs[p].ino]])
          /\ Then(p, "move")
     ELSE UNCHANGED txns /\ Rests(p)
  /\ UNCHANGED <<onlyTxns, durable>>

\* _atomic_quarantine_move: whatever the entry names by now is moved in. When
\* the move fails, the transaction without a payload is taken away again.
_atomic_quarantine_move(p) ==
  LET r == obs[p].run
      there == Pending(obs[p].txn)
  IN /\ Does(p, "move")
     /\ IF there /\ link[r] # 0
        THEN /\ link' = [link EXCEPT ![r] = 0]
             /\ SetTxn(obs[p].txn, [T(p) EXCEPT !.payload = link[r]])
             /\ Then(p, "sync1")
        ELSE /\ UNCHANGED link
             /\ IF there /\ T(p).payload = 0
                THEN SetTxn(obs[p].txn, [T(p) EXCEPT !.at = "gone"])
                ELSE UNCHANGED txns
             /\ Rests(p)
     /\ UNCHANGED <<runSide, inodes, linkSynced, claims, dropped, durable, failures>>

SyncOrder_source_first == <<"source", "payload">>

\* Destination first: a power loss between the two syncs may leave the entry
\* in both directories, never in neither.
SyncOrder == <<"payload", "source">>

_sync_directory(p, n) ==
  /\ Does(p, IF n = 1 THEN "sync1" ELSE "sync2")
  /\ txns' = IF SyncOrder[n] = "payload"
             THEN [txns EXCEPT ![obs[p].txn].synced = T(p).payload] ELSE txns
  /\ linkSynced' = IF SyncOrder[n] = "source" THEN link ELSE linkSynced
  /\ durable' = durable \cup (IF SyncOrder[n] = "payload" THEN Linked({T(p).payload})
                             ELSE Listed(link))
  /\ Then(p, IF n = 1 THEN "sync2" ELSE "staged")
  /\ UNCHANGED <<runSide, inodes, link, claims, dropped, failures>>

\* What was moved is compared with what was read. Another file is put back
\* while its name is free; it is preserved as it is when it cannot be read,
\* and else becomes what the manifest describes.
quarantine_check(p) ==
  LET i == T(p).payload
      r == obs[p].run
      same == i = obs[p].ino /\ V(i) = obs[p].v
  IN /\ Does(p, "staged")
     /\ IF ~Pending(obs[p].txn) \/ i = 0
        THEN sameTxns /\ UNCHANGED <<link, linkSynced>> /\ Rests(p)
        ELSE IF inodes[i].kind # "junk" /\ same
        THEN sameTxns /\ UNCHANGED <<link, linkSynced>> /\ Then(p, "seal")
        ELSE IF link[r] = 0
        THEN /\ link' = [link EXCEPT ![r] = i] /\ linkSynced' = link'
             /\ durable' = durable \cup Listed(link')
             /\ UNCHANGED txns /\ Then(p, "unstage")
        ELSE /\ UNCHANGED <<link, linkSynced>>
             /\ IF inodes[i].kind = "junk"
                THEN sameTxns /\ Then(p, "preserve")
                ELSE /\ SyncedTxn(obs[p].txn, [T(p) EXCEPT
                            !.manifest = [v |-> V(i), ino |-> i]], V(i))
                     /\ Set(p, [obs[p] EXCEPT !.pc = "seal", !.v = V(i), !.ino = i])
     /\ UNCHANGED <<runSide, inodes, claims, dropped, failures>>

\* _restore_mismatched_quarantine_entry's second half: the staged name of the restored file
\* goes, in whichever state the transaction is.
_restore_mismatched_quarantine_entry(p) ==
  /\ Does(p, "unstage")
  /\ txns' = IF Pending(obs[p].txn)
             THEN [txns EXCEPT ![obs[p].txn].payload = 0,
                               ![obs[p].txn].synced = 0] ELSE txns
  /\ Rests(p)
  /\ UNCHANGED <<onlyTxns, durable>>

\* _finalize_quarantine_transaction reads the payload again and requires what
\* the manifest says.
_finalize_quarantine_transaction(p) ==
  LET i == T(p).payload
  IN /\ Does(p, "seal")
     /\ IF Pending(obs[p].txn) /\ i # 0 /\ inodes[i].kind # "junk" /\ V(i) = obs[p].v
        THEN Then(p, "freeze") ELSE Rests(p)
     /\ UNCHANGED <<runSide, fileSide, failures>>

\* _freeze_quarantine_payload: a copy of what was read replaces the payload,
\* out of reach of descriptors that were open on it.
_freeze_quarantine_payload(p) ==
  /\ Does(p, "freeze") /\ Len(inodes) < MaxFile
  /\ IF Pending(obs[p].txn)
     THEN /\ NewFile(obs[p].v, inodes[obs[p].ino].kind, TRUE)
          /\ SyncedTxn(obs[p].txn, [T(p) EXCEPT !.payload = Len(inodes) + 1], obs[p].v)
          /\ Set(p, [obs[p] EXCEPT !.pc = "rebind", !.ino = Len(inodes) + 1])
     ELSE sameTxns /\ UNCHANGED inodes /\ Rests(p)
  /\ UNCHANGED <<runSide, link, linkSynced, claims, dropped, failures>>

\* The payload is read back, and the manifest made to describe it.
_rebind_quarantine_transaction_to_payload(p) ==
  /\ Does(p, "rebind")
  /\ IF Pending(obs[p].txn) /\ T(p).payload # 0 /\ V(T(p).payload) = obs[p].v
     THEN /\ SyncedTxn(obs[p].txn, [T(p) EXCEPT
                !.manifest = [v |-> obs[p].v, ino |-> T(p).payload]], obs[p].v)
          /\ Then(p, "item")
     ELSE sameTxns /\ Rests(p)
  /\ UNCHANGED onlyTxns

\* The rename of the transaction to its final name ends it.
rename_transaction(p, to) ==
  /\ Does(p, to)
  /\ txns' = IF Pending(obs[p].txn) THEN [txns EXCEPT ![obs[p].txn].at = to] ELSE txns
  /\ Rests(p)
  /\ UNCHANGED <<onlyTxns, durable>>

\* _preserve_unreadable_quarantine_transaction: the note, then the rename.
_preserve_unreadable_quarantine_transaction(p) ==
  /\ Does(p, "preserve")
  /\ IF Pending(obs[p].txn) /\ T(p).payload # 0
     THEN /\ SyncedTxn(obs[p].txn, [T(p) EXCEPT !.note = TRUE], V(T(p).payload))
          /\ Then(p, "preserved")
     ELSE sameTxns /\ Rests(p)
  /\ UNCHANGED onlyTxns

\* _recover_quarantine_transactions: a transaction an earlier reconcile left
\* is finished from what is on disk. One with a payload and no manifest, and
\* one that lost both entry and payload, are reported and left.
_recover_quarantine_transactions(p, t) ==
  LET i == txns[t].payload
      Goes(pc) == Set(p, [Resting EXCEPT !.seen = obs[p].seen \cup {t}, !.pc = pc,
                                         !.run = txns[t].run, !.txn = t, !.v = IF i = 0 THEN 0 ELSE V(i),
                                         !.ino = i])
      unmanifested == txns[t].manifest = NoManifest
      lost == i = 0 /\ ~unmanifested /\ link[txns[t].run] = 0
      rebound == txns[t].manifest # [v |-> V(i), ino |-> i]
  IN /\ Does(p, "rest") /\ Pending(t) /\ t \notin obs[p].seen
     /\ IF lost \/ (unmanifested /\ i # 0)
        THEN sameTxns /\ Set(p, [obs[p] EXCEPT !.seen = @ \cup {t}])
        ELSE IF txns[t].note THEN sameTxns /\ Goes("preserved")
        ELSE IF i = 0
        THEN SyncedTxn(t, [txns[t] EXCEPT !.manifest = NoManifest], 0) /\ Goes("rmdir")
        ELSE IF inodes[i].kind = "junk" THEN sameTxns /\ Goes("preserve")
        ELSE /\ IF rebound
                THEN SyncedTxn(t, [txns[t] EXCEPT !.manifest = [v |-> V(i), ino |-> i]], V(i))
                ELSE sameTxns
             /\ Goes("seal")
     /\ UNCHANGED onlyTxns

\* _cleanup_pre_move_transaction: the directory goes only when it is empty.
_cleanup_pre_move_transaction(p) ==
  /\ Does(p, "rmdir")
  /\ txns' = IF Pending(obs[p].txn) /\ T(p).payload = 0 /\ T(p).manifest = NoManifest
             THEN [txns EXCEPT ![obs[p].txn].at = "gone"] ELSE txns
  /\ Rests(p)
  /\ UNCHANGED <<onlyTxns, durable>>

\* ------------------------------------------------------------------ faults

\* A pass ends, or its process stops in the middle of it.
observer_stops(p) ==
  /\ obs[p] # Resting /\ Set(p, Resting)
  /\ UNCHANGED <<runSide, fileSide, failures>>

\* Every process stops. Either all changes had reached the disk, or every
\* directory comes back as it was last synced; a bundle that was still the
\* producer's to sync is not promised.
power_loss ==
  /\ failures = 0 /\ failures' = 1
  /\ obs' = [p \in Observer |-> Resting]
  /\ \E kept \in BOOLEAN :
       /\ link' = IF kept THEN link ELSE linkSynced
       /\ txns' = [t \in 1..Len(txns) |->
                     LET i == IF kept THEN txns[t].payload ELSE txns[t].synced
                     IN [txns[t] EXCEPT !.payload = i, !.synced = i]]
       /\ dropped' = IF kept THEN dropped
                      ELSE dropped \cup ((1..contents) \ durable)
  /\ linkSynced' = link'
  /\ UNCHANGED <<runSide, inodes, claims, durable>>

EcProcess(p) ==
  \/ \E r \in EvRun : \/ reconcile_runs(p, r) \/ retire_terminal_evidence_bundles(p, r)
                      \/ quarantine_read(p, r)
  \/ authenticate(p) \/ evaluate_run(p) \/ reconcile_run(p) \/ unlink_bundle(p)
  \/ quarantine_mkdir(p) \/ _create_quarantine_transaction(p) \/ _atomic_quarantine_move(p)
  \/ \E n \in 1..2 : _sync_directory(p, n)
  \/ quarantine_check(p) \/ _restore_mismatched_quarantine_entry(p)
  \/ _finalize_quarantine_transaction(p) \/ _freeze_quarantine_payload(p)
  \/ _rebind_quarantine_transaction_to_payload(p)
  \/ \E to \in {"item", "preserved"} : rename_transaction(p, to)
  \/ _preserve_unreadable_quarantine_transaction(p)
  \/ \E t \in 1..Len(txns) : _recover_quarantine_transactions(p, t)
  \/ _cleanup_pre_move_transaction(p)
  \/ observer_stops(p)

EcNext ==
  \/ \E p \in Observer : EcProcess(p)
  \/ \E r \in EvRun :
       \/ \E e \in EvBundles : publish_bundle(r, "bundle", e)
       \/ \E kind \in EntryKind \ {"bundle"} : publish_bundle(r, kind, NoEvidence)
       \/ run_moves(r)
       \/ \E c \in DOMAIN EvCriteria, who \in {"producer", "worker", "reviewer"} :
            record_manual_acceptance_authentication(r, c, who)
  \/ \E i \in 1..Len(inodes) : write_in_place(i)
  \/ pull_request_moves \/ time_passes \/ power_loss

\* -------------------------------------------------------------- properties

Holds(t) == txns[t].at # "gone" /\ txns[t].payload # 0

\* No evidence is lost: a content its producer delivered, did not replace and
\* that was not retired with a finished run is in the evidence directory or in
\* a quarantine transaction, wherever retire_terminal_evidence_bundles stops;
\* and a finished quarantine item holds the content its manifest describes.
\* One observer keeps this through power losses and beside a producer that
\* writes in place, two observers keep it without either.
EvidenceKept ==
  /\ \A v \in 1..contents :
       \/ v \in dropped
       \/ \E r \in EvRun : link[r] # 0 /\ V(link[r]) = v
       \/ \E t \in 1..Len(txns) : Holds(t) /\ V(txns[t].payload) = v
  /\ \A t \in 1..Len(txns) :
       txns[t].at = "item" /\ Holds(t) => V(txns[t].payload) = txns[t].manifest.v

\* A run closed by reconcile_run was closed on evidence that, criterion by
\* criterion, is about the run's own task and plan and shows what was asked:
\* a manual observation that someone other than its producer attested as it
\* stands, and a merge of exactly the frozen head that GitHub still shows,
\* however bundle, attestations, pull request and clock moved in between.
AttestedCloseout ==
  \A r \in EvRun :
    /\ runAt[r] = "succeeded" <=> closedOn[r] # 0
    /\ closedOn[r] # 0 =>
         \A c \in DOMAIN EvCriteria :
           LET item == claims[closedOn[r]][c]
               criterion == EvCriteria[c]
           IN /\ item # NoItem /\ item.task = TASK /\ item.plan = PLAN
              /\ _fact_state(criterion.verifier, item.facts, criterion) = PASSED
              /\ criterion.verifier = "manual_observation" => <<c, item>> \in attested[r]
              /\ criterion.verifier = "code_merged" =>
                   pull.merged = "yes" /\ pull.head = criterion.target
=============================================================================
