--------------------------- MODULE MCTaskRegistry ---------------------------
(***************************************************************************)
(* Changes of task documents: revisions of TaskSpecs, the migration of     *)
(* broad leases in the Git Registry, and the move of TaskSpecs to another  *)
(* repository identity.  They share no state; in each mode one moves.      *)
(***************************************************************************)
EXTENDS MCTaskSpecs, LeaseMigration, IdentityRebind

CONSTANTS l1, l2

VARIABLE part

LeaseTasks == <<l1, l2>>

Binds(c, r, k, e, z) == [claims |-> c, repo |-> r, keys |-> k, elsewhere |-> e, closed |-> z]
\* Bound to the old repository; to the new one; to the old one in fields that no
\* rebind rewrites, with and without a claim; to both; and closed.
Bindings == {Binds({"old"}, "old", {"old"}, FALSE, FALSE), Binds({"new"}, "new", {"new"}, FALSE, FALSE),
             Binds({"old"}, "old", {}, TRUE, FALSE), Binds({"new"}, "new", {}, TRUE, FALSE),
             Binds({"old", "new"}, "new", {}, FALSE, FALSE),
             Binds({"old"}, "new", {"old", "new"}, FALSE, TRUE)}
MCSymmetry == KeySymmetry \cup Permutations(RTask)

TasksInit == /\ SpecInit /\ LmInit /\ RbInit
             /\ part \in {"specs", "leases", "rebind"}
             /\ part # "specs" => git = [t \in Task |-> NULL]
             /\ part # "leases" => catalog = LTask
             /\ part # "rebind" => \A t \in RTask : spec[t].doc.keys = {"new"}

TasksNext ==
  /\ UNCHANGED part
  /\ \/ part = "specs" /\ SpecNext /\ UNCHANGED <<lmVars, rbVars>>
     \/ part = "leases" /\ LmNext /\ UNCHANGED <<specVars, rbVars>>
     \/ part = "rebind" /\ RbNext /\ UNCHANGED <<specVars, lmVars>>

TasksSpec == TasksInit /\ [][TasksNext]_<<specVars, lmVars, rbVars, part>>
=============================================================================
