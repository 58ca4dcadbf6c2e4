----------------------------- MODULE MCDispatch -----------------------------
(* Small instances of Dispatch: t2 depends on t1, t3 is a closure task with the child t1. *)
EXTENDS Dispatch, SequencesExt

CONSTANTS repo, file, t1, t2, t3, t4, w1, w2, a, b, g1

MCResource == {repo, file}
MCParent == (repo :> NoResource @@ file :> repo)
MCCapacity == [x \in MCResource |-> 0]

C(x, m) == [resource |-> x, mode |-> m, amount |-> 1]
WriteClaims == [k \in Task \X Sha |-> {C(file, "write")}]
ReadClaims == [k \in Task \X Sha |-> {C(file, "read")}]

SameWorker == [p \in Proc |-> w1]
OwnWorker == [p \in Proc |-> IF p = a THEN w1 ELSE w2]
MCProcCaps == [p \in Proc |-> {"repository"}]
MCTaskCaps == [t \in Task |-> {"repository"}]
MCTaskOrder == SetToSeq(Task)
MCDeps == [t \in Task |-> IF t = t2 THEN {t1} ELSE {}]
MCChildren == [t \in Task |-> IF t = t3 THEN {t1} ELSE {}]
AllOrNothing == {{}, Task}
NothingOpen == {{}}

\* One process hands two runs of t1 to the executor; two processes race for t1
\* and t4; one process selects while a TaskSpec or the initiative is revised;
\* one finds the closure task t3 next to its child.
Checkouts(procs, tasks, dispatch, n) ==
    [procs |-> procs, tasks |-> tasks, dispatching |-> dispatch, edits |-> n]
CheckoutScenarios ==
    {Checkouts({a}, {t1}, TRUE, 0), Checkouts(Proc, {t1, t4}, FALSE, 0),
     Checkouts({a}, {t1, t2}, FALSE, 1), Checkouts({a}, {t1, t3}, FALSE, 1)}
LiveScenarios == {Checkouts(Proc, {t1}, TRUE, 0)}
EvidenceScenarios == {Checkouts(Proc, {t1, t2}, FALSE, 1)}

RunSymmetry ==
    Permutations(RunId) \cup Permutations(Sha) \cup Permutations(Plan) \cup Permutations(ExtId)
=============================================================================
