-------------------------- MODULE MCTaskPublication --------------------------
(***************************************************************************)
(* Operator intake on small instances. In mode "register" two callers and  *)
(* the live-register command share one candidate and two keys; in "race"   *)
(* two publishers work on one plan file; in "moves" one publisher works    *)
(* while the candidate, the tasks and the Registry change under it.  The   *)
(* refill of claimable work shares nothing with it: in "overlap" two       *)
(* cycles that publish interleave, in "alone" one cycle after the other    *)
(* runs while tasks, worker profiles and Registry change.  The lifecycle   *)
(* of initiatives shares nothing with both: in "callers" two callers and   *)
(* one edit interleave, in "edits" one caller at a time and two edits of   *)
(* an initiative that starts active and with its parent task open.         *)
(***************************************************************************)
EXTENDS TaskPublication, TaskSupply, InitiativeLifecycle

CONSTANTS c1, t1, t2, x, ca, cb, cc, n1, i1, ta, tb
VARIABLE mode

McTaskOf == [c \in Content |-> t1]

\* Two categories that write one resource, and one beside which n1 cannot be held.
McCatalog == <<ca, cb, cc>>
McNormal == <<n1>>
McConflict == {<<ca, ca>>, <<cb, cb>>, <<ca, cb>>, <<cb, ca>>, <<n1, cc>>, <<cc, n1>>}
McProfile == {[c \in Category |-> "has"],
              [c \in Category |-> CASE c = ca -> "missing" [] c = cb -> "unknown" [] OTHER -> "has"]}

\* tb is the parent of ta, waits for it, and is the bridge of the initiative.
McOwner == [w \in WorkItem |-> i1]
McAfter == [w \in WorkItem |-> IF w = tb THEN {ta} ELSE {}]

Lifecycle == mode \in {"callers", "edits"}
Refill == mode \in {"overlap", "alone"}

\* The candidate a proposal is made for, as the live-register command wrote it.
Observed ==
  LET act == [op |-> "cli", content |-> c1, id |-> NULL, sup |-> 0, status |-> "observed"]
  IN [id |-> c1, content |-> c1, sup |-> 0, act |-> act, status |-> "observed",
      ctx |-> NULL, ev |-> [key |-> <<c1>>, req |-> act]]

Init ==
  /\ mode \in {"register", "race", "moves", "overlap", "alone", "callers", "edits"}
  /\ TpInit /\ SupplyInit /\ IlInit
  /\ mode # "callers" => row[i1] = NoRow /\ item[tb].state = "planned"
  /\ ~Lifecycle => \A w \in WorkItem : item[w].state # "verified"
  /\ mode # "alone" => normal = {}
  /\ retired = {} /\ calls = [p \in Caller |-> NoCall]
  /\ journal = IF mode = "register" THEN <<>> ELSE <<Observed>>
  /\ Known(t1) => Known(t2)
  /\ mode = "register" \/ Refill \/ Lifecycle => ~Known(t2)
  /\ Refill \/ Lifecycle => ~Known(t1)
  /\ projected <=> (mode = "moves")

\* In "register" the command sets one of three statuses, and a record may name
\* the first event as its predecessor.
Small ==
  /\ \A i \in Events' \ Events : journal'[i].act.op = "cli" =>
       journal'[i].act.status \in {NULL, "active", "closed"}
  /\ \A p \in Caller : calls'[p].q # NULL /\ calls'[p].q.act.op = "record" =>
       calls'[p].q.sup <= 1

\* In "race" only the publishers change the store, in "moves" there is one.
Publishers ==
  /\ mode = "race" => /\ kids' = kids /\ regHead' = regHead
                      /\ revs' # revs => procs' # procs
  /\ mode = "moves" => \A p \in Publisher \ {x} : procs'[p] = Free

\* In "overlap" the Registry and the normal work stand still and two cycles both
\* find something to publish; in "alone" only the cycle x runs.
Cycles ==
  /\ mode = "overlap" =>
       /\ head' = head /\ normal' = normal
       /\ \A c \in Cycle : /\ cyc'[c].at = "started" => cyc'[c].publish
                           /\ cyc'[c].at = "reported" => cyc'[c].plan.actions.creates # {}
  /\ mode = "alone" => \A c \in Cycle \ {x} : cyc'[c] = Idle

\* In "callers" there is one edit and a reconcile takes everything, in "edits"
\* there is one caller at a time.
Callers ==
  /\ mode = "callers" =>
       /\ edits' <= 1
       /\ \A p \in Operator : steps'[p].at = "loaded" => steps'[p].scope = "all"
  /\ mode = "edits" => \A p, q \in Operator : p # q => Rest \in {steps'[p], steps'[q]}

Step ==
  \/ mode = "register" /\ LrNext /\ Small /\ UNCHANGED <<tpVars, supplyVars, ilVars>>
  \/ mode \in {"race", "moves"} /\ TpStep /\ Publishers /\ UNCHANGED <<lrVars, supplyVars, ilVars>>
  \/ /\ mode = "moves" /\ Len(journal) = 1 /\ UNCHANGED <<tpVars, supplyVars, ilVars>>
     /\ \E s \in {"paused", "active"} : live_register(c1, NULL, 1, s)
  \/ Refill /\ SupplyNext /\ Cycles /\ UNCHANGED <<lrVars, tpVars, ilVars>>
  \/ Lifecycle /\ IlNext /\ Callers /\ UNCHANGED <<lrVars, tpVars, supplyVars>>

Spec == Init /\ [][Step /\ UNCHANGED mode]_<<lrVars, tpVars, supplyVars, ilVars, mode>>
Symm == Permutations(Caller) \cup Permutations(Key)
=============================================================================
