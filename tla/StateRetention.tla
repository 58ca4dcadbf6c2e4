--------------------------- MODULE StateRetention ---------------------------
(***************************************************************************)
(* Backups of the state database, restore tests, and the retention that    *)
(* prunes backups and other generations (state_backup.py,                  *)
(* retention_coordination.py).                                             *)
(*                                                                         *)
(* A store holds generations, numbered in the order of their creation, and *)
(* references to some of them: the bundle of the latest restore test, the  *)
(* current registry snapshot and its rollback, the latest review receipts. *)
(* Reference writers and retention meet on the directory locks; backups    *)
(* are made beside both, while runs go on writing rows and files.          *)
(***************************************************************************)
EXTENDS Naturals, FiniteSets, FiniteSetsExt

CONSTANTS BoundRow,       \* runs whose files a bundle must carry
          MaxNow, MaxGeneration, MaxVersion,
          RecentSeconds, RecentMax, Tiers, RestoreMaxAge  \* the retention policy

ASSUME RetentionAssumption ==
  \A t \in Tiers : t.seconds \in Nat \ {0} /\ t.count \in Nat \ {0}

VARIABLES now,       \* the clock
          db,        \* row -> version committed, 0 for none
          rowFile,   \* row -> version of the file on disk
          building,  \* the backup under construction
          gens,      \* store -> generations: [id, at, rows, files]
          refs,      \* store -> reference -> the id it names, 0 for none
          made,      \* store -> ids handed out
          written,   \* store -> ids that once were there
          residue,   \* store -> a quarantined generation was left behind
          tested,    \* when the latest restore test ran
          rlock,     \* store -> holder of the directory lock
          writer,    \* store -> its reference writer: [pc, id, pre]
          plan,      \* the retention plan
          apply      \* the retention apply and its receipt

srVars == <<now, db, rowFile, building, gens, refs, made, written, residue, tested,
            rlock, writer, plan, apply>>

Store == {"state_backups", "registry_snapshots", "review_receipts"}
Reference(s) == CASE s = "state_backups"      -> {"restore_test"}
                  [] s = "registry_snapshots" -> {"current", "rollback"}
                  [] s = "review_receipts"    -> {"lanes", "lane_binding", "latest"}

NoRows == [r \in BoundRow |-> 0]
NoBuild == [on |-> FALSE, rows |-> NoRows, files |-> NoRows, todo |-> {}]
NoWriter == [pc |-> "idle", id |-> 0, pre |-> <<>>]
NoRetentionPlan == [made |-> FALSE, cands |-> {}]
NoApply == [pc |-> "idle", todo |-> {}, refs |-> <<>>, receipt |-> "none"]

Ids(s) == {g.id : g \in gens[s]}
Named(s) == {refs[s][n] : n \in Reference(s)} \ {0}
Newest(s) == Max(Ids(s))
verify_backup(g) == g.files = g.rows

\* A runtime is installed and a review has been written; no backup yet.
SrInit ==
  /\ now = 0 /\ db = NoRows /\ rowFile = NoRows /\ building = NoBuild
  /\ LET first(s) == IF s = "state_backups" THEN 0 ELSE 1
     IN /\ made = [s \in Store |-> first(s)]
        /\ written = [s \in Store |-> 1..first(s)]
        /\ refs = [s \in Store |-> [n \in Reference(s) |->
                                      IF n = "rollback" THEN 0 ELSE first(s)]]
        /\ gens = [s \in Store |-> {[id |-> i, at |-> 0, rows |-> NoRows, files |-> NoRows] :
                                       i \in 1..first(s)}]
  /\ residue = [s \in Store |-> FALSE] /\ tested = 0
  /\ rlock = [s \in Store |-> "none"] /\ writer = [s \in Store |-> NoWriter]
  /\ plan = NoRetentionPlan /\ apply = NoApply

liveVars == <<db, rowFile>>
storeVars == <<gens, refs, made, written, residue, tested>>
pruneVars == <<plan, apply>>

-----------------------------------------------------------------------------
\* The live state: a row is committed, its file follows.
commit_row(r) ==
  /\ db[r] = rowFile[r] /\ db[r] < MaxVersion
  /\ db' = [db EXCEPT ![r] = @ + 1]
  /\ UNCHANGED <<now, rowFile, building, storeVars, rlock, writer, pruneVars>>

materialise(r) ==
  /\ db[r] # rowFile[r]
  /\ rowFile' = [rowFile EXCEPT ![r] = db[r]]
  /\ UNCHANGED <<now, db, building, storeVars, rlock, writer, pruneVars>>

tick ==
  /\ now < MaxNow
  /\ now' = now + 1
  /\ UNCHANGED <<liveVars, building, storeVars, rlock, writer, pruneVars>>

-----------------------------------------------------------------------------
\* create_backup: an online snapshot of the database, then the files its rows
\* bind, each checked against the snapshot; published by a rename.
_online_backup ==
  /\ ~building.on /\ made["state_backups"] < MaxGeneration
  /\ building' = [on |-> TRUE, rows |-> db, files |-> NoRows,
                  todo |-> {r \in BoundRow : db[r] > 0}]
  /\ UNCHANGED <<now, liveVars, storeVars, rlock, writer, pruneVars>>

Copied(r) == [building EXCEPT !.files[r] = rowFile[r], !.todo = @ \ {r}]

\* A file that does not have the digest of its row ends the backup.
_copy_bound_json(r) ==
  /\ building.on /\ r \in building.todo
  /\ building' = IF rowFile[r] = building.rows[r] THEN Copied(r) ELSE NoBuild
  /\ UNCHANGED <<now, liveVars, storeVars, rlock, writer, pruneVars>>

\* A generation appears under the id given to it.
Add(s, i, rows, files) ==
  /\ gens' = [gens EXCEPT ![s] = @ \cup {[id |-> i, at |-> now, rows |-> rows, files |-> files]}]
  /\ written' = [written EXCEPT ![s] = @ \cup {i}]

publish_backup ==
  /\ building.on /\ building.todo = {}
  /\ Add("state_backups", made["state_backups"] + 1, building.rows, building.files)
  /\ made' = [made EXCEPT !["state_backups"] = @ + 1]
  /\ building' = NoBuild
  /\ UNCHANGED <<now, liveVars, refs, residue, tested, rlock, writer, pruneVars>>

-----------------------------------------------------------------------------
\* Reference writers, each under the lock of its store while it writes.

reference_mutation_lock_skipped(s) == TRUE

reference_mutation_lock(s) == rlock[s] = "none"

Writes(s, w) == writer' = [writer EXCEPT ![s] = w]
Locks(s) == rlock' = [rlock EXCEPT ![s] = "writer"]
Unlocks(s) == rlock' = [rlock EXCEPT ![s] = IF @ = "writer" THEN "none" ELSE @]

\* restore_test with the canonical receipt: the bundle is verified and restored
\* into a scratch directory, then named by restore-tests/latest.json.
restore_test_begin(g) ==
  /\ writer["state_backups"].pc = "idle" /\ reference_mutation_lock("state_backups")
  /\ g \in gens["state_backups"] /\ verify_backup(g)
  /\ Writes("state_backups", [NoWriter EXCEPT !.pc = "test", !.id = g.id])
  /\ Locks("state_backups")
  /\ UNCHANGED <<now, liveVars, building, storeVars, pruneVars>>

restore_test_commit ==
  /\ writer["state_backups"].pc = "test"
  /\ refs' = [refs EXCEPT !["state_backups"].restore_test = writer["state_backups"].id]
  /\ tested' = now
  /\ Unlocks("state_backups") /\ Writes("state_backups", NoWriter)
  /\ UNCHANGED <<now, liveVars, building, gens, made, written, residue, pruneVars>>

\* The installer: a registry snapshot, new or found from an earlier install,
\* prepared without the lock.
ensure_registry_snapshot(i) ==
  LET s == "registry_snapshots"
  IN /\ writer[s].pc = "idle"
     /\ \/ i \in Ids(s) /\ UNCHANGED <<gens, written, made>>
        \/ /\ i = made[s] + 1 /\ i <= MaxGeneration
           /\ Add(s, i, NoRows, NoRows) /\ made' = [made EXCEPT ![s] = i]
     /\ Writes(s, [NoWriter EXCEPT !.pc = "prepared", !.id = i])
     /\ UNCHANGED <<now, liveVars, building, refs, residue, tested, rlock, pruneVars>>

\* Under the lock: the snapshot is still there, and the manifest names it.
write_candidate_install ==
  LET s == "registry_snapshots" w == writer["registry_snapshots"]
  IN /\ w.pc = "prepared" /\ reference_mutation_lock(s)
     /\ IF w.id \in Ids(s)
        THEN /\ refs' = [refs EXCEPT ![s] = [current |-> w.id, rollback |-> @.current]]
             /\ Writes(s, [w EXCEPT !.pc = "candidate", !.pre = refs[s]])
        ELSE Writes(s, NoWriter) /\ UNCHANGED refs
     /\ UNCHANGED <<now, liveVars, building, gens, made, written, residue, tested, rlock,
                    pruneVars>>

\* The install ends, or puts the manifest back that it replaced.
end_install ==
  LET s == "registry_snapshots" w == writer["registry_snapshots"]
  IN /\ w.pc = "candidate" /\ reference_mutation_lock(s)
     /\ \/ w.id \in Ids(s) /\ UNCHANGED refs
        \/ refs' = [refs EXCEPT ![s] = w.pre]
     /\ Writes(s, NoWriter)
     /\ UNCHANGED <<now, liveVars, building, gens, made, written, residue, tested, rlock,
                    pruneVars>>

\* The review steward: lanes.json first, which already names the receipt, then
\* the receipt itself, then review-latest.json. A lane that was not selected
\* keeps the receipt it had.
review_begin ==
  LET s == "review_receipts"
  IN /\ writer[s].pc = "idle" /\ reference_mutation_lock(s) /\ made[s] < MaxGeneration
     /\ made' = [made EXCEPT ![s] = @ + 1]
     /\ Writes(s, [NoWriter EXCEPT !.pc = "lanes", !.id = made[s] + 1])
     /\ Locks(s)
     /\ UNCHANGED <<now, liveVars, building, gens, refs, written, residue, tested, pruneVars>>

review_lanes ==
  LET s == "review_receipts" w == writer["review_receipts"]
  IN /\ w.pc = "lanes"
     /\ \E lane \in {refs[s].lane_binding, w.id} :
          refs' = [refs EXCEPT ![s].lanes = w.id, ![s].lane_binding = lane]
     /\ Writes(s, [w EXCEPT !.pc = "receipt"])
     /\ UNCHANGED <<now, liveVars, building, gens, made, written, residue, tested, rlock,
                    pruneVars>>

review_receipt ==
  LET s == "review_receipts" w == writer["review_receipts"]
  IN /\ w.pc = "receipt"
     /\ Add(s, w.id, NoRows, NoRows)
     /\ Writes(s, [w EXCEPT !.pc = "latest"])
     /\ UNCHANGED <<now, liveVars, building, refs, made, residue, tested, rlock, pruneVars>>

review_latest ==
  LET s == "review_receipts" w == writer["review_receipts"]
  IN /\ w.pc = "latest"
     /\ refs' = [refs EXCEPT ![s].latest = w.id]
     /\ Unlocks(s) /\ Writes(s, NoWriter)
     /\ UNCHANGED <<now, liveVars, building, gens, made, written, residue, tested, pruneVars>>

\* The closure cycle rewrites lanes.json: the lanes keep their review evidence,
\* the document loses its pointer to the latest receipt.
run_closure_cycle ==
  LET s == "review_receipts"
  IN /\ writer[s].pc = "idle" /\ reference_mutation_lock(s)
     /\ refs' = [refs EXCEPT ![s].lanes = 0]
     /\ UNCHANGED <<now, liveVars, building, gens, made, written, residue, tested, rlock,
                    writer, pruneVars>>

\* A writer dies; the kernel drops its lock.
writer_crash(s) ==
  /\ writer[s].pc # "idle"
  /\ Unlocks(s) /\ Writes(s, NoWriter)
  /\ UNCHANGED <<now, liveVars, building, storeVars, pruneVars>>

-----------------------------------------------------------------------------
\* What retention keeps: references, the newest, the recent ones up to a count,
\* and per tier the newest of each of the last `count' buckets.
Recent(s) == {g \in gens[s] : now - g.at <= RecentSeconds}
FirstRecent(s) == {g \in Recent(s) :
                     Cardinality({h \in Recent(s) : h.id > g.id}) < RecentMax}

InTier(s, t) ==
  {g \in gens[s] :
     /\ (now \div t.seconds) - (g.at \div t.seconds) < t.count
     /\ \A h \in gens[s] : h.at \div t.seconds = g.at \div t.seconds => h.id <= g.id}

_keep_reasons(s) ==
  Named(s) \cup {Newest(s)} \cup {g.id : g \in FirstRecent(s)}
    \cup UNION {{g.id : g \in InTier(s, t)} : t \in Tiers}

_build_store_retention(s) ==
  IF gens[s] = {} THEN {} ELSE Ids(s) \ _keep_reasons(s)

Candidates == UNION {{<<s, i>> : i \in _build_store_retention(s)} : s \in Store}

\* A residue, or a reference to something that is gone, blocks the plan.
SafeToApply == \A s \in Store : ~residue[s] /\ Named(s) \subseteq Ids(s)

build_local_retention_plan ==
  /\ ~plan.made /\ SafeToApply /\ Candidates # {}
  /\ plan' = [made |-> TRUE, cands |-> Candidates]
  /\ UNCHANGED <<now, liveVars, building, storeVars, rlock, writer, apply>>

-----------------------------------------------------------------------------
\* The gate of a backup removal: two retained bundles, a fresh restore test of
\* one that is not the newest, and the newest restores right now.
_validated_historical_restore_evidence(retained) ==
  /\ Named("state_backups") # {} /\ now - tested <= RestoreMaxAge
  /\ \A i \in Named("state_backups") : i \in retained /\ i # Max(retained)
  /\ \A g \in gens["state_backups"] : g.id \in Named("state_backups") => verify_backup(g)

_retention_recovery_gate(retained) ==
  /\ Cardinality(retained) >= 2
  /\ _validated_historical_restore_evidence(retained)
  /\ \A g \in gens["state_backups"] : g.id = Max(retained) => verify_backup(g)

Retained == Ids("state_backups") \ _build_store_retention("state_backups")

\* apply_local_retention_plan: all the locks or none, then a fresh plan that
\* still lists every planned candidate, the gate, and the receipt's intent.
apply_begin_retention ==
  /\ apply.pc = "idle" /\ apply.receipt = "none" /\ plan.made
  /\ \A s \in Store : rlock[s] = "none"
  /\ IF /\ SafeToApply /\ plan.cands \subseteq Candidates
        /\ _build_store_retention("state_backups") # {} => _retention_recovery_gate(Retained)
     THEN /\ apply' = [pc |-> "check", todo |-> plan.cands, refs |-> refs, receipt |-> "intent"]
          /\ rlock' = [s \in Store |-> "retention"]
          /\ UNCHANGED plan
     ELSE plan' = NoRetentionPlan /\ UNCHANGED <<apply, rlock>>
  /\ UNCHANGED <<now, liveVars, building, storeVars, writer>>

StopApply(receipt) ==
  /\ apply' = [NoApply EXCEPT !.receipt = receipt]
  /\ rlock' = [s \in Store |-> IF rlock[s] = "retention" THEN "none" ELSE rlock[s]]

_candidate_identity_still_matches(s, i) == i \in Ids(s)
_assert_reference_source_guard(s) == refs[s] = apply.refs[s]

\* One candidate: identity and reference guard again, the receipt, then the
\* rename into quarantine.
remove_candidate(s, i) ==
  /\ apply.pc = "check" /\ <<s, i>> \in apply.todo
  /\ IF _candidate_identity_still_matches(s, i) /\ _assert_reference_source_guard(s)
     THEN /\ gens' = [gens EXCEPT ![s] = {g \in @ : g.id # i}]
          /\ residue' = [residue EXCEPT ![s] = TRUE]
          /\ apply' = [apply EXCEPT !.pc = "delete", !.todo = @ \ {<<s, i>>},
                                    !.receipt = "applying"]
          /\ UNCHANGED rlock
     ELSE StopApply("partial") /\ UNCHANGED <<gens, residue>>
  /\ UNCHANGED <<now, liveVars, building, refs, made, written, tested, writer, plan>>

delete_quarantine(s) ==
  /\ apply.pc = "delete" /\ residue[s]
  /\ residue' = [residue EXCEPT ![s] = FALSE]
  /\ apply' = [apply EXCEPT !.pc = "check"]
  /\ UNCHANGED <<now, liveVars, building, gens, refs, made, written, tested, rlock, writer, plan>>

apply_complete ==
  /\ apply.pc = "check" /\ apply.todo = {}
  /\ StopApply("complete")
  /\ UNCHANGED <<now, liveVars, building, storeVars, writer, plan>>

\* An exception writes the partial receipt; a crash leaves it as it was.
apply_fails ==
  /\ apply.pc # "idle"
  /\ StopApply("partial") \/ StopApply(apply.receipt)
  /\ UNCHANGED <<now, liveVars, building, storeVars, writer, plan>>

\* A finished apply: a later one works from a new plan and a new receipt.
next_plan ==
  /\ apply.pc = "idle" /\ apply.receipt # "none"
  /\ plan' = NoRetentionPlan /\ apply' = NoApply
  /\ UNCHANGED <<now, liveVars, building, storeVars, rlock, writer>>

SrNext ==
  \/ tick \/ _online_backup \/ publish_backup \/ restore_test_commit
  \/ write_candidate_install \/ end_install
  \/ review_begin \/ review_lanes \/ review_receipt \/ review_latest \/ run_closure_cycle
  \/ build_local_retention_plan \/ apply_begin_retention
  \/ apply_complete \/ apply_fails \/ next_plan
  \/ \E r \in BoundRow : commit_row(r) \/ materialise(r) \/ _copy_bound_json(r)
  \/ \E g \in gens["state_backups"] : restore_test_begin(g)
  \/ \E i \in 1..MaxGeneration : ensure_registry_snapshot(i)
  \/ \E s \in Store : \/ writer_crash(s) \/ delete_quarantine(s)
                      \/ \E i \in 1..MaxGeneration : remove_candidate(s, i)

-----------------------------------------------------------------------------
\* What the restore test, the
\* deployment manifest, the lanes and the latest review name is there unless
\* it was never written (a review that died before its receipt), although
\* retention removes generations beside the writers and anyone may die at any
\* step. The rollback of a manifest that was itself put back is excepted: the
\* candidate in between did not protect it.
ReferencesIntact ==
  \A s \in Store : \A n \in Reference(s) \ {"rollback"} :
    refs[s][n] \in written[s] => refs[s][n] \in Ids(s)

\* Pruning never eats into recoverability: whenever a backup is taken away, two
\* different bundles stay that restore completely, the one whose restore was
\* tested and a newer one; and a bundle, once published, carries exactly the
\* files of its own snapshot although rows and files change while it is made.
\* No reference loses its target to retention on the way.
RecoveryKept ==
  [][/\ ReferencesIntact'
     /\ ~(Ids("state_backups") \subseteq {g.id : g \in gens'["state_backups"]})
        => \E g, h \in gens'["state_backups"] :
             /\ g.id = refs["state_backups"].restore_test /\ g.id < h.id
             /\ verify_backup(g) /\ verify_backup(h)
     /\ \A g \in gens'["state_backups"] : verify_backup(g)]_srVars
=============================================================================
