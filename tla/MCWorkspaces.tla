--------------------------- MODULE MCWorkspaces ---------------------------
(* The workspace of one run, and two processes that work on it. *)
EXTENDS Workspaces, TLC

CONSTANTS repo

MCParent == (repo :> NoResource)
MCCapacity == (repo :> 0)
ReadClaims == [k \in Task \X Sha |-> {[resource |-> repo, mode |-> "read", amount |-> 1]}]
ProcSymmetry == Permutations(Proc)
=============================================================================
