---------------------------- MODULE MCTaskSpecs ----------------------------
(* A small instance of TaskSpecs.  old and old2 have no executable contract. *)
EXTENDS TaskSpecReplay, TLC

CONSTANTS old, old2, new, r1, t1

D(b, s) == [body |-> b, state |-> s, closeout |-> NULL]
Closed(b, s, k) == [body |-> b, state |-> s, closeout |-> [kind |-> k, result |-> r1]]

OneTask == <<t1>>
AllDocs ==
    {D(new, "planned"), D(new, "ready"), Closed(new, "verified", "no-run"),
     Closed(new, "superseded", "unused"), D(old, "ready"), D(old2, "cancelled")}
KeySymmetry == Permutations(CallerKey)
=============================================================================
