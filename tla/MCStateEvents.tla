---------------------------- MODULE MCStateEvents ----------------------------
(* Two runs of one task and one initiative, as in two attempts.             *)
EXTENDS StateEvents, TLC

CONSTANTS r1, r2, t1, i1

SameTask == [r \in Run |-> t1]
SameInitiative == [r \in Run |-> i1]
Symmetric == Permutations(Run) \cup Permutations(Operator)
=============================================================================
