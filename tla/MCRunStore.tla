----------------------------- MODULE MCRunStore -----------------------------
(***************************************************************************)
(* A small instance of RunStore in two scenarios: two tasks and two        *)
(* workers compete for resources, or one task is claimed, dispatched and   *)
(* closed again and again.  A scenario only leaves steps out.              *)
(***************************************************************************)
EXTENDS RunStore, TLC

CONSTANTS repo, file, gpu, t1, t2, w1, w2, r1, r2, r3, s1, s2, p1, g1, x1, x2

\* A file inside a repository, and a GPU with two slots.
MCResource == {repo, file, gpu}
MCParent == (repo :> NoResource @@ file :> repo @@ gpu :> NoResource)
MCCapacity == (repo :> 0 @@ file :> 0 @@ gpu :> 2)

C(x, m, a) == [resource |-> x, mode |-> m, amount |-> a]

MCClaims ==
    [k \in Task \X Sha |->
        CASE k = <<t1, s1>> -> {C(file, "write", 1)}
          [] k = <<t1, s2>> -> {C(repo, "write", 1)}
          [] OTHER -> {C(gpu, "capacity", 2)}]

MCExpansions == {C(gpu, "capacity", 1), C(repo, "read", 1)}

VARIABLE scenario

Contention ==
    \A r \in RunId : runs'[r] # NULL =>
        /\ runs'[r].task_sha256 = s1 /\ runs'[r].coordinated
        /\ runs'[r].external_system = NULL
        /\ Len(life'[r]) <= 2
History ==
    \A r \in RunId : runs'[r] # NULL =>
        /\ runs'[r].task = t1 /\ runs'[r].worker = w1
        /\ ~runs'[r].coordinated => runs'[r].task_sha256 = s1
        /\ resv'[r] \subseteq Claims[t1, runs'[r].task_sha256]

MCInit == Init /\ scenario \in {"contention", "history"}
MCNext ==
    /\ Next
    /\ scenario = "contention" => Contention
    /\ scenario = "history" => History
    /\ UNCHANGED scenario
MCSpec == MCInit /\ [][MCNext]_<<runVars, scenario>>

Symmetry == Permutations(RunId) \cup Permutations(ExtId)
=============================================================================
