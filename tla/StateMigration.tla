--------------------------- MODULE StateMigration ---------------------------
(***************************************************************************)
(* The reviewed migration of top-level entries out of the state root       *)
(* (state_root_artifacts.py): plan, review, apply, rollback.  Entries are  *)
(* renamed one at a time; every rename is bound to the inode it was opened *)
(* with and runs under non-blocking locks on both directories.  A failure  *)
(* compensates the renames of the same call, newest first.                 *)
(*                                                                         *)
(* An entry is its inode and its content revision, which is what           *)
(* entry_sha256 digests.  Around the commands, other processes write,      *)
(* recreate, open and mention entries, none of them under a lock.          *)
(***************************************************************************)
EXTENDS Naturals, Sequences, FiniteSets, FiniteSetsExt

CONSTANTS EntryName,  \* a set of naturals: the commands work in name order
          Migrator,   \* processes that run apply and rollback
          MaxInode    \* bound on the entries ever created

ASSUME MigrationAssumption == EntryName \subseteq Nat /\ MaxInode \in Nat

VARIABLES root,       \* state root: name -> entry
          dest,       \* destination root: name -> entry
          chain,      \* the destination directories exist
          reviewed,   \* the migration plan: name -> entry, and its review
          applied,    \* the apply receipt: name -> entry, empty if absent
          mentioned,  \* names found under registry/ and docs/
          opened,     \* inodes some process has as cwd or descriptor
          flocked,    \* the migrator inside a rename, as a set
          inode,      \* inodes handed out so far
          mig         \* what each migrator is doing

migVars == <<root, dest, chain, reviewed, applied, mentioned, opened, flocked,
             inode, mig>>

NoEntry == [ino |-> 0, rev |-> 0]
NoPlan == [entries |-> <<>>, status |-> "none"]
Idle == [op |-> "idle", pc |-> "idle", todo |-> {}, moved |-> <<>>, lost |-> FALSE]

MigInit ==
  /\ root = [n \in EntryName |-> [ino |-> Cardinality({m \in EntryName : m <= n}), rev |-> 0]]
  /\ dest = [n \in EntryName |-> NoEntry]
  /\ inode = Cardinality(EntryName)
  /\ chain = FALSE /\ reviewed = NoPlan /\ applied = <<>>
  /\ mentioned = {} /\ opened = {} /\ flocked = {}
  /\ mig = [p \in Migrator |-> Idle]

Exists(side, n) == side[n] # NoEntry
_entry_identity(side, n) == side[n]
_reference_hits(n) == n \in mentioned
_process_references(side, n) == side[n].ino \in opened
Unreferenced(side, n) == ~_reference_hits(n) /\ ~_process_references(side, n)

-----------------------------------------------------------------------------
\* The destination chain: absent when planned, created by apply, removed again
\* by a failed apply when nothing is left in it.
_destination_layout == ~chain
_create_destination_chain == chain' = TRUE
_cleanup_created_destination_chain(empty) == chain' = ~empty

\* Plan and review.  The destination must not exist yet, every entry must,
\* and none may be referenced.
state_root_migration_plan(S) ==
  /\ reviewed.status = "none" /\ _destination_layout /\ S # {}
  /\ \A n \in S : Exists(root, n) /\ Unreferenced(root, n)
  /\ reviewed' = [entries |-> [n \in S |-> _entry_identity(root, n)], status |-> "pending"]
  /\ UNCHANGED <<root, dest, chain, applied, mentioned, opened, flocked, inode, mig>>

\* The reviewer binds the review to the payload digest.
review_plan ==
  /\ reviewed.status = "pending"
  /\ reviewed' = [reviewed EXCEPT !.status = "reviewed"]
  /\ UNCHANGED <<root, dest, chain, applied, mentioned, opened, flocked, inode, mig>>

_load_reviewed_migration_plan == reviewed.status = "reviewed"
Planned == DOMAIN reviewed.entries

-----------------------------------------------------------------------------
\* One rename, shared by apply, rollback and their compensations.
Src(op) == IF op \in {"apply", "rollback_undo"} THEN root ELSE dest
Dst(op) == IF op \in {"apply", "rollback_undo"} THEN dest ELSE root

_exclusive_directory_locks == flocked = {}

CanRename(op, n, ino) ==
  /\ _exclusive_directory_locks
  /\ Src(op)[n].ino = ino /\ ino # 0
  /\ ~Exists(Dst(op), n)

Rename(op, n) ==
  LET into == [Dst(op) EXCEPT ![n] = Src(op)[n]]
      from == [Src(op) EXCEPT ![n] = NoEntry]
  IN IF op \in {"apply", "rollback_undo"} THEN root' = from /\ dest' = into
                                         ELSE dest' = from /\ root' = into

Mig(p, rec) == mig' = [mig EXCEPT ![p] = rec]
Result(p, what) == Mig(p, [Idle EXCEPT !.pc = what])
Raise(p) == Mig(p, [mig[p] EXCEPT !.pc = "undo"])
NextEntry(op, todo) == IF op = "apply" THEN Min(todo) ELSE Max(todo)

-----------------------------------------------------------------------------
\* apply_state_root_migration_plan.
_verify_applied_receipt_state ==
  \A n \in DOMAIN applied : ~Exists(root, n) /\ dest[n] = applied[n]

apply_begin(p) ==
  /\ mig[p].pc \notin {"prepare", "move", "moved", "undo"}
  /\ _load_reviewed_migration_plan
  /\ IF applied # <<>>
     THEN /\ Result(p, IF _verify_applied_receipt_state THEN "replayed" ELSE "failed")
          /\ UNCHANGED chain
     ELSE IF ~_destination_layout THEN Result(p, "failed") /\ UNCHANGED chain
     ELSE /\ Mig(p, [Idle EXCEPT !.op = "apply", !.pc = "prepare"])
          /\ _create_destination_chain
  /\ UNCHANGED <<root, dest, reviewed, applied, mentioned, opened, flocked, inode>>

StillReviewed(n) ==
  /\ Exists(root, n) /\ ~Exists(dest, n)
  /\ _entry_identity(root, n) = reviewed.entries[n]
  /\ Unreferenced(root, n)

\* Every entry is checked before the first rename.
apply_prepare(p) ==
  /\ mig[p].op = "apply" /\ mig[p].pc = "prepare"
  /\ IF \A n \in Planned : StillReviewed(n)
     THEN Mig(p, [mig[p] EXCEPT !.pc = "move", !.todo = Planned])
     ELSE Raise(p)
  /\ UNCHANGED <<root, dest, chain, reviewed, applied, mentioned, opened, flocked, inode>>

\* What rollback requires of an entry just before its rename.
StillApplied(n) ==
  /\ Exists(dest, n) /\ ~Exists(root, n)
  /\ _entry_identity(dest, n) = applied[n]

\* _identity_bound_rename up to the rename; the locks stay held.
_identity_bound_rename(p) ==
  /\ mig[p].pc = "move" /\ mig[p].todo # {}
  /\ LET op == mig[p].op
         n == NextEntry(op, mig[p].todo)
         ino == Src(op)[n].ino
     IN IF /\ IF op = "apply" THEN StillReviewed(n) ELSE StillApplied(n)
           /\ CanRename(op, n, ino)
        THEN /\ Rename(op, n)
             /\ flocked' = {p}
             /\ Mig(p, [mig[p] EXCEPT !.pc = "moved", !.todo = @ \ {n},
                                      !.moved = Append(@, [name |-> n, ino |-> ino])])
        ELSE Raise(p) /\ UNCHANGED <<root, dest, flocked>>
  /\ UNCHANGED <<chain, reviewed, applied, mentioned, opened, inode>>

\* The rename call or one of the reads before it fails.
rename_fails(p) ==
  /\ mig[p].pc = "move" /\ mig[p].todo # {}
  /\ Raise(p)
  /\ UNCHANGED <<root, dest, chain, reviewed, applied, mentioned, opened, flocked, inode>>

\* Still under the locks: the source name is gone and the inode arrived; then,
\* without them, the content is the reviewed one.
_assert_post_rename_identity(p) ==
  /\ mig[p].pc = "moved"
  /\ flocked' = {}
  /\ LET op == mig[p].op
         last == mig[p].moved[Len(mig[p].moved)]
         expected == IF op = "apply" THEN reviewed.entries ELSE applied
     IN IF /\ ~Exists(Src(op), last.name)
           /\ Dst(op)[last.name].ino = last.ino
           /\ _entry_identity(Dst(op), last.name) = expected[last.name]
        THEN Mig(p, [mig[p] EXCEPT !.pc = "move"])
        ELSE Raise(p)
  /\ UNCHANGED <<root, dest, chain, reviewed, applied, mentioned, opened, inode>>

\* The create-only receipt is the last thing apply writes. There is none yet:
\* the destination chain lets one apply in.
write_receipt(p) ==
  /\ mig[p].op = "apply" /\ mig[p].pc = "move" /\ mig[p].todo = {}
  /\ applied = <<>>
  /\ applied' = reviewed.entries /\ Result(p, "applied")
  /\ UNCHANGED <<root, dest, chain, reviewed, mentioned, opened, flocked, inode>>

-----------------------------------------------------------------------------
\* Compensation: newest move first, each bound to the recorded inode, a failed
\* one is recorded and the rest still tried.
UndoOp(op) == IF op = "apply" THEN "apply_undo" ELSE "rollback_undo"

_rollback_moved_entries(p) ==
  /\ mig[p].pc = "undo" /\ mig[p].moved # <<>>
  /\ LET last == mig[p].moved[Len(mig[p].moved)]
         op == UndoOp(mig[p].op)
         ok == CanRename(op, last.name, last.ino)
     IN /\ IF ok THEN Rename(op, last.name) ELSE UNCHANGED <<root, dest>>
        /\ Mig(p, [mig[p] EXCEPT !.moved = SubSeq(@, 1, Len(@) - 1), !.lost = @ \/ ~ok])
  /\ UNCHANGED <<chain, reviewed, applied, mentioned, opened, flocked, inode>>

\* A recovery that does not report what it could not undo.
_recover_failed_effect_silent(p) ==
  /\ mig[p].pc = "undo" /\ mig[p].moved = <<>>
  /\ IF mig[p].op = "apply"
     THEN _cleanup_created_destination_chain(\A n \in EntryName : ~Exists(dest, n))
     ELSE UNCHANGED chain
  /\ Result(p, "undone")
  /\ UNCHANGED <<root, dest, reviewed, applied, mentioned, opened, flocked, inode>>

\* The directories apply created go again if they are empty.
_recover_failed_effect(p) ==
  /\ mig[p].pc = "undo" /\ mig[p].moved = <<>>
  /\ LET empty == \A n \in EntryName : ~Exists(dest, n)
     IN IF mig[p].op = "apply"
        THEN /\ _cleanup_created_destination_chain(empty)
             /\ Result(p, IF mig[p].lost \/ ~empty THEN "incomplete" ELSE "undone")
        ELSE UNCHANGED chain /\ Result(p, IF mig[p].lost THEN "incomplete" ELSE "undone")
  /\ UNCHANGED <<root, dest, reviewed, applied, mentioned, opened, flocked, inode>>

\* rollback_state_root_migration: everything is checked first; entries already
\* back in the state root with the recorded identity are skipped.
Restored(n) == ~Exists(dest, n) /\ root[n] = applied[n]

rollback_begin(p) ==
  /\ mig[p].pc \notin {"prepare", "move", "moved", "undo"}
  /\ applied # <<>>
  /\ LET back == {n \in DOMAIN applied : Restored(n)}
     IN IF \A n \in DOMAIN applied \ back : StillApplied(n) /\ Unreferenced(dest, n)
        THEN Mig(p, [Idle EXCEPT !.op = "rollback", !.pc = "move", !.todo = DOMAIN applied \ back])
        ELSE Result(p, "failed")
  /\ UNCHANGED <<root, dest, chain, reviewed, applied, mentioned, opened, flocked, inode>>

rollback_done(p) ==
  /\ mig[p].op = "rollback" /\ mig[p].pc = "move" /\ mig[p].todo = {}
  /\ Result(p, "restored")
  /\ UNCHANGED <<root, dest, chain, reviewed, applied, mentioned, opened, flocked, inode>>

-----------------------------------------------------------------------------
\* A migrator dies; the kernel drops its locks.
migrator_crash(p) ==
  /\ mig[p].pc \in {"prepare", "move", "moved", "undo"}
  /\ Result(p, "dead")
  /\ flocked' = flocked \ {p}
  /\ UNCHANGED <<root, dest, chain, reviewed, applied, mentioned, opened, inode>>

\* Other Bureau processes and the registry.
recreate_entry(n) ==
  /\ ~Exists(root, n) /\ inode < MaxInode
  /\ inode' = inode + 1
  /\ root' = [root EXCEPT ![n] = [ino |-> inode + 1, rev |-> 0]]
  /\ UNCHANGED <<dest, chain, reviewed, applied, mentioned, opened, flocked, mig>>

write_entry(n) ==
  /\ Exists(root, n) /\ root[n].rev = 0
  /\ root' = [root EXCEPT ![n].rev = 1]
  /\ UNCHANGED <<dest, chain, reviewed, applied, mentioned, opened, flocked, inode, mig>>

open_entry(n) ==
  /\ Exists(root, n) /\ opened = {}
  /\ opened' = {root[n].ino}
  /\ UNCHANGED <<root, dest, chain, reviewed, applied, mentioned, flocked, inode, mig>>

mention_entry(n) ==
  /\ mentioned = {}
  /\ mentioned' = {n}
  /\ UNCHANGED <<root, dest, chain, reviewed, applied, opened, flocked, inode, mig>>

MigNext ==
  \/ \E S \in SUBSET EntryName : state_root_migration_plan(S)
  \/ review_plan
  \/ \E p \in Migrator :
       \/ apply_begin(p) \/ apply_prepare(p) \/ _identity_bound_rename(p)
       \/ rename_fails(p) \/ _assert_post_rename_identity(p) \/ write_receipt(p)
       \/ _rollback_moved_entries(p) \/ _recover_failed_effect(p)
       \/ rollback_begin(p) \/ rollback_done(p) \/ migrator_crash(p)
  \/ \E n \in EntryName : recreate_entry(n) \/ write_entry(n) \/ open_entry(n)
                          \/ mention_entry(n)

-----------------------------------------------------------------------------
\* Every inode handed out is under exactly one name on exactly one side.
EntriesPreserved ==
  \A i \in 1..inode :
    Cardinality({n \in EntryName : root[n].ino = i})
      + Cardinality({n \in EntryName : dest[n].ino = i}) = 1

\* No entry is ever lost or duplicated, whatever apply, rollback, their
\* compensations, crashes and the processes recreating entries do
\* (_identity_bound_rename: "Rename one entry without ever trusting a
\* post-rename replacement inode"); a receipt is only written when the
\* destination holds every reviewed entry; and an apply that reports a plain
\* failure after its compensation has put back everything and removed the
\* destination: only "incomplete recovery" may leave entries behind
\* (_recover_failed_effect).
MigrationHonest ==
  [][/\ EntriesPreserved'
     /\ applied' # applied => \A n \in Planned : dest'[n] = reviewed.entries[n]
     /\ \A p \in Migrator :
          (mig[p].op = "apply" /\ mig'[p].pc = "undone")
             => /\ ~chain'
                /\ \A n \in EntryName : ~Exists(dest', n)]_migVars
=============================================================================
