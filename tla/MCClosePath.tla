----------------------------- MODULE MCClosePath -----------------------------
(* One task with two attempts, closed by two processes. *)
EXTENDS ClosePath, TLC

CONSTANTS repo

MCResource == {repo}
MCParent == [x \in MCResource |-> NoResource]
MCCapacity == [x \in MCResource |-> 0]
MCClaims == [k \in Task \X Sha |-> {[resource |-> repo, mode |-> "write", amount |-> 1]}]

Symmetry == Permutations(RunId) \cup Permutations(Closer) \cup Permutations(Sha)
                \cup Permutations(Plan)
=============================================================================
