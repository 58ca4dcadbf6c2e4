----------------------------- MODULE FetchApply -----------------------------
(***************************************************************************)
(* Reviewed fetches and source imports (fetch_orchestration.py and         *)
(* source_sync in commonthing_source.py).  A fetch goes into a temporary   *)
(* ref named after the reviewed commit, and one Git transaction moves the  *)
(* remote-tracking ref and drops the temporary one.  An import replaces    *)
(* the source document by that of the commit the ref names.  Several       *)
(* calls run at once, the remote moves, and others fetch as well.          *)
(***************************************************************************)
EXTENDS Naturals, FiniteSets

CONSTANTS
  Commit, NoCommit,
  Descends,   \* the pairs <<a, b>> where b descends from a or is a
  Content,    \* Content[c]: the imported document of c without its provenance
  Caller,     \* processes
  MaxMoves    \* bound on what others do

ASSUME DescendsAssumption ==
  /\ Descends \subseteq Commit \X Commit
  /\ \A a, b, c \in Commit : <<a, b>> \in Descends /\ <<b, c>> \in Descends => <<a, c>> \in Descends

VARIABLES
  remote,     \* the remote branch
  dest,       \* refs/remotes/<remote>/<branch>
  temp,       \* temp[c]: refs/bureau/fetch/<token of c>
  blocked,    \* the runtime drift gate
  reserved,   \* the run is active, holds the write reservation and its worktree
  target,     \* the commit of registry/sources/commonthing.json
  call,       \* the call of each process
  left,       \* history: temporary refs that were left behind
  moves

ftVars == <<remote, dest, temp, blocked, reserved, target, call, left, moves>>
worldVars == <<remote, dest, temp, blocked, reserved, target, left, moves>>

NoCall == [pc |-> "idle", source |-> NoCommit, before |-> NoCommit, seen |-> NoCommit,
           moved |-> FALSE, raced |-> FALSE]
Outcome == {"no-op", "applied", "conflict", "refused", "error"}

FtInit ==
  /\ remote \in Commit /\ dest \in {NoCommit, remote}
  /\ temp = [c \in Commit |-> NoCommit]
  /\ blocked = FALSE /\ reserved = TRUE /\ target = NoCommit
  /\ call = [p \in Caller |-> NoCall] /\ left = {} /\ moves = 0

To(p, l) == call' = [call EXCEPT ![p].pc = l]
Sees(p, l, c) == call' = [call EXCEPT ![p].pc = l, ![p].seen = c]
FastForward(a, b) == a = NoCommit \/ <<a, b>> \in Descends

----------------------------------------------------------------------------
\* Fetching.

repo_fetch_plan == [source |-> remote, before |-> dest, allowed |-> ~blocked]

plan_fetch(p) ==
  /\ call[p].pc = "idle"
  /\ call' = [call EXCEPT ![p] = [NoCall EXCEPT !.pc = "reviewed",
                !.source = repo_fetch_plan.source, !.before = repo_fetch_plan.before]]
  /\ UNCHANGED worldVars

_reserved_run_repository == reserved

\* The plan is built again and must be the reviewed one.
apply_repo_fetch_plan(p) ==
  /\ call[p].pc = "reviewed"
  /\ LET plan == repo_fetch_plan
         fit == /\ plan.allowed /\ _reserved_run_repository
                /\ plan.source = call[p].source /\ plan.before = call[p].before
     IN  To(p, IF ~fit THEN "refused" ELSE IF plan.source = plan.before THEN "no-op" ELSE "probe")
  /\ UNCHANGED worldVars

probe_temp_ref(p) ==
  /\ call[p].pc = "probe"
  /\ To(p, IF temp[call[p].source] = NoCommit THEN "fetch" ELSE "refused")
  /\ UNCHANGED worldVars

\* Git moves an existing temporary ref only forward.
git_fetch(p) ==
  /\ call[p].pc = "fetch"
  /\ FastForward(temp[call[p].source], remote)
  /\ temp' = [temp EXCEPT ![call[p].source] = remote]
  /\ left' = left \ {call[p].source}
  /\ To(p, "read")
  /\ UNCHANGED <<remote, dest, blocked, reserved, target, moves>>

fetch_fails(p) == call[p].pc = "fetch" /\ To(p, "error") /\ UNCHANGED worldVars

read_fetched(p) ==
  /\ call[p].pc = "read"
  /\ LET c == temp[call[p].source]
     IN  Sees(p, IF c = call[p].source THEN "compare" ELSE "cleanup", c)
  /\ UNCHANGED worldVars

compare_destination(p) ==
  /\ call[p].pc = "compare"
  /\ To(p, IF dest = call[p].before /\ FastForward(dest, call[p].source)
           THEN "commit" ELSE "cleanup")
  /\ UNCHANGED worldVars

\* update-ref -d with the value that was read; a vanished ref is an error.
_cleanup_temp_ref(p) ==
  /\ call[p].pc = "cleanup"
  /\ LET t == call[p].source
         held == call[p].seen # NoCommit /\ temp[t] = call[p].seen
     IN  /\ temp' = IF held THEN [temp EXCEPT ![t] = NoCommit] ELSE temp
         /\ left' = IF held THEN left \ {t} ELSE left
         /\ To(p, IF held \/ call[p].seen = NoCommit THEN "conflict" ELSE "error")
  /\ UNCHANGED <<remote, dest, blocked, reserved, target, moves>>

\* The transaction without the deletion of the temporary ref.
Transaction_keeps_temp(p) ==
  /\ dest = call[p].before /\ temp[call[p].source] = call[p].source
  /\ dest' = call[p].source
  /\ UNCHANGED temp

\* One transaction of Git: both refs have the expected values, or nothing happens.
Transaction(p) ==
  /\ dest = call[p].before /\ temp[call[p].source] = call[p].source
  /\ dest' = call[p].source
  /\ temp' = [temp EXCEPT ![call[p].source] = NoCommit]

update_refs(p) ==
  /\ call[p].pc = "commit" /\ Transaction(p)
  /\ call' = [call EXCEPT ![p].pc = "readback", ![p].moved = TRUE]
  /\ left' = left \ {call[p].source}
  /\ UNCHANGED <<remote, blocked, reserved, target, moves>>

\* The transaction fails, also when another process holds the lock of a ref. The
\* temporary ref is dropped if the destination is still the reviewed one.
update_fails(p) ==
  /\ call[p].pc = "commit"
  /\ LET t == call[p].source
         kept == temp[t] = t /\ dest # call[p].before
     IN  /\ temp' = IF temp[t] = t /\ ~kept THEN [temp EXCEPT ![t] = NoCommit] ELSE temp
         /\ left' = IF kept THEN left \cup {t} ELSE IF temp[t] = t THEN left \ {t} ELSE left
  /\ To(p, "error")
  /\ UNCHANGED <<remote, dest, blocked, reserved, target, moves>>

post_readback(p) ==
  /\ call[p].pc = "readback"
  /\ To(p, IF dest = call[p].source /\ temp[call[p].source] = NoCommit THEN "applied" ELSE "error")
  /\ UNCHANGED worldVars

----------------------------------------------------------------------------
\* Importing the document of the commit that the ref names.

source_import_plan == [source |-> dest, before |-> target, allowed |-> ~blocked]

plan_import(p) ==
  /\ call[p].pc = "idle" /\ dest # NoCommit
  /\ call' = [call EXCEPT ![p] = [NoCall EXCEPT !.pc = "import",
                !.source = source_import_plan.source, !.before = source_import_plan.before]]
  /\ UNCHANGED worldVars

apply_source_import_plan(p) ==
  /\ call[p].pc = "import"
  /\ LET plan == source_import_plan
         fit == plan.allowed /\ plan.source = call[p].source /\ plan.before = call[p].before
     IN  To(p, IF fit THEN "sync" ELSE "refused")
  /\ UNCHANGED worldVars

Same(a, b) == a # NoCommit /\ Content[a] = Content[b]

\* source_sync reads the commit and the target again.
source_sync(p) ==
  /\ call[p].pc = "sync"
  /\ To(p, IF dest # call[p].source \/ target # call[p].before THEN "refused"
           ELSE IF Same(target, dest) THEN "no-op" ELSE "verify")
  /\ UNCHANGED worldVars

_atomic_write_if_preimage(p) ==
  /\ call[p].pc = "verify"
  /\ To(p, IF target = call[p].before THEN "replace" ELSE "refused")
  /\ UNCHANGED worldVars

os_replace(p) ==
  /\ call[p].pc = "replace"
  /\ target' = call[p].source
  /\ call' = [q \in Caller |->
                IF q = p THEN [call[q] EXCEPT !.pc = "applied", !.moved = TRUE]
                ELSE IF call[q].pc = "replace" THEN [call[q] EXCEPT !.raced = TRUE] ELSE call[q]]
  /\ UNCHANGED <<remote, dest, temp, blocked, reserved, left, moves>>

----------------------------------------------------------------------------
return(p) == /\ call[p].pc \in Outcome
             /\ call' = [call EXCEPT ![p] = NoCall] /\ UNCHANGED worldVars

\* The calls that answer for the temporary ref of t.
Holders(t) == {p \in Caller : call[p].source = t /\ call[p].pc \in {"read", "compare", "cleanup", "commit"}}

caller_dies(p) ==
  /\ call[p].pc \notin Outcome \cup {"idle", "reviewed", "import"}
  /\ call' = [call EXCEPT ![p] = NoCall]
  /\ left' = left \cup {t \in Commit : p \in Holders(t) /\ temp[t] # NoCommit}
  /\ UNCHANGED <<remote, dest, temp, blocked, reserved, target, moves>>

Moves == moves < MaxMoves /\ moves' = moves + 1 /\ UNCHANGED <<temp, target, call, left>>
push(c) == Moves /\ remote # c /\ remote' = c /\ UNCHANGED <<dest, blocked, reserved>>
someone_fetches == Moves /\ dest # remote /\ dest' = remote /\ UNCHANGED <<remote, blocked, reserved>>
drift == Moves /\ blocked' = ~blocked /\ UNCHANGED <<remote, dest, reserved>>
run_ends == Moves /\ reserved /\ reserved' = FALSE /\ UNCHANGED <<remote, dest, blocked>>

FtNext ==
  \/ \E p \in Caller :
       \/ plan_fetch(p) \/ apply_repo_fetch_plan(p) \/ probe_temp_ref(p) \/ git_fetch(p)
       \/ fetch_fails(p) \/ read_fetched(p) \/ compare_destination(p) \/ _cleanup_temp_ref(p)
       \/ update_refs(p) \/ update_fails(p) \/ post_readback(p)
       \/ plan_import(p) \/ apply_source_import_plan(p) \/ source_sync(p)
       \/ _atomic_write_if_preimage(p) \/ os_replace(p) \/ return(p) \/ caller_dies(p)
  \/ \E c \in Commit : push(c)
  \/ someone_fetches \/ drift \/ run_ends

FtSpec == FtInit /\ [][FtNext]_ftVars
----------------------------------------------------------------------------
FtTypeOK ==
  /\ remote \in Commit /\ {dest, target} \subseteq Commit \cup {NoCommit}
  /\ temp \in [Commit -> Commit \cup {NoCommit}]
  /\ {blocked, reserved} \subseteq BOOLEAN /\ left \subseteq Commit

\* A temporary ref is in the hands of a call, or was left behind by one that
\* died or that lost its transaction to another change of the destination.
TempAccounted == \A t \in Commit : temp[t] # NoCommit => t \in left \/ Holders(t) # {}

\* A call that reports a conflict, a refusal or nothing to do moved nothing.
OutcomesHonest ==
  \A p \in Caller : /\ call[p].pc = "applied" => call[p].moved
                    /\ call[p].pc \in {"conflict", "refused", "no-op"} => ~call[p].moved

\* A call moves the ref forward from the reviewed commit to the reviewed one, and
\* replaces the reviewed document unless two replacements overlapped.
ReviewedStep ==
  \A p \in Caller : ~call[p].moved /\ call'[p].moved =>
    IF dest' # dest
    THEN dest = call[p].before /\ dest' = call[p].source /\ FastForward(dest, dest')
    ELSE target' = call[p].source /\ (target = call[p].before \/ call[p].raced)

\* However calls that share a temporary ref, pushes, other fetches and crashes
\* interleave, a reviewed fetch or import does what was reviewed or nothing, says
\* which, and leaves no temporary ref that nobody answers for
\* (apply_repo_fetch_plan, apply_source_import_plan, source_sync).
FetchedAsReviewed == [][FtTypeOK' /\ TempAccounted' /\ OutcomesHonest' /\ ReviewedStep]_ftVars
=============================================================================
