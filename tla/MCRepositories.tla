--------------------------- MODULE MCRepositories ---------------------------
(***************************************************************************)
(* What Bureau does to Git repositories: the worktrees of runs, reviewed   *)
(* cleanups of linked worktrees, and reviewed fetches and imports.  They   *)
(* share no state; in each mode one of them moves.                         *)
(***************************************************************************)
EXTENDS MCWorkspaces, WorktreeCleanup, FetchApply

CONSTANTS v1, v2, c1, c2, d2

VARIABLE part

Worktrees == <<v1, v2>>
\* c2 and d2 are two histories after c1, and d2 has the document of c1.
History == {<<c1, c1>>, <<c2, c2>>, <<d2, d2>>, <<c1, c2>>, <<c1, d2>>}
Documents == c1 :> 1 @@ c2 :> 2 @@ d2 :> 1

ReposInit == /\ WsInit /\ WcInit /\ FtInit
             /\ part \in {"workspaces", "cleanup", "fetch", "import"}
             /\ <<remote, dest>> \in CASE part = "fetch" -> {<<c1, NoCommit>>, <<c1, c1>>, <<c2, c2>>}
                                       [] part = "import" -> {<<c1, c1>>, <<c2, c2>>}
                                       [] OTHER -> {<<c1, c1>>}

\* Calls of one kind run at a time; someone_fetches stands for the other.
OneKind == \A p \in Caller : call'[p].pc # IF part = "fetch" THEN "import" ELSE "reviewed"

ReposNext ==
  /\ UNCHANGED part
  /\ \/ part = "workspaces" /\ WsNext /\ UNCHANGED <<wcVars, ftVars>>
     \/ part = "cleanup" /\ WcNext /\ UNCHANGED <<wsAllVars, ftVars>>
     \/ part \in {"fetch", "import"} /\ FtNext /\ OneKind /\ UNCHANGED <<wsAllVars, wcVars>>

ReposSpec == ReposInit /\ [][ReposNext]_<<wsAllVars, wcVars, ftVars, part>>
=============================================================================
