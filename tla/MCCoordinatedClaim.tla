------------------------ MODULE MCCoordinatedClaim ------------------------
(* Two tasks that need the same external lease. *)
EXTENDS CoordinatedClaim, TLC

CONSTANTS repo, t1, t2, w1, w2, q1, q2, k2, lease

MCResource == {repo}
MCParent == (repo :> NoResource)
MCCapacity == (repo :> 0)
ReadClaims == [k \in Task \X Sha |-> {[resource |-> repo, mode |-> "read", amount |-> 1]}]
MCWorker == [q \in Request |-> IF q = q1 THEN w1 ELSE w2]
MCTasks == [q \in Request |-> IF q = q1 THEN {t1} ELSE {t2}]
MCExplicit == [q \in Request |-> IF q = q1 THEN NULL ELSE k2]
MCKeys == [t \in Task |-> {lease}]
\* Two requests while no document changes; one request whose callers race
\* while the TaskSpec changes; one while it changes and changes back; one while
\* the plan does.
Situation(requests, busy, specs, revisions) ==
    [requests |-> requests, busy |-> busy, edits |-> specs, plans |-> revisions]
MCScenario ==
    {Situation({q1, q2}, 1, 0, 0), Situation({q1}, 2, 1, 0),
     Situation({q1}, 1, 2, 0), Situation({q1}, 1, 0, 2)}
CallerSymmetry == Permutations(Caller) \cup Permutations(RunId)
=============================================================================
