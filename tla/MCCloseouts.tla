----------------------------- MODULE MCCloseouts -----------------------------
(***************************************************************************)
(* The ways a task is closed: on a run's evidence by close and replay      *)
(* commands (ClosePath), by the closure observer on evidence bundles       *)
(* (EvidenceCloseout), and without a run (NoRunCloseout). They share no    *)
(* state here; in each mode one of them moves.                             *)
(***************************************************************************)
EXTENDS MCClosePath, EvidenceCloseout, NoRunCloseout

VARIABLE mode

Item(c, authority, plan, facts) ==
  [kind |-> "item", verifier |-> c.verifier, authority |-> authority, observed_at |-> 0,
   not_after |-> 0, task |-> 1, plan |-> plan, target |-> c.target, facts |-> facts,
   status |-> ""]

ManualCriterion == [verifier |-> "manual_observation", target |-> "scope"]
Manual(who, plan) ==
  Item(ManualCriterion, "manual", plan,
       [target |-> "scope", observer |-> who, observed |-> TRUE, accepted |-> "yes"])

\* One criterion for a person, one for the merge, one for the checks.
McCriteria ==
  [m |-> ManualCriterion,
   g |-> [verifier |-> "code_merged", target |-> "h1", pull_request |-> 1],
   k |-> [verifier |-> "required_ci_green", target |-> "h1", pull_request |-> 1,
          required_checks |-> {"ci"}]]
Claim(who, merged, ci) ==
  [m |-> Manual(who, 1),
   g |-> Item(McCriteria.g, "github", 1, [target |-> "h1", merged |-> merged]),
   k |-> Item(McCriteria.k, "github", 1,
              [target |-> "h1", complete |-> TRUE, checks |-> {<<"ci", ci>>}])]
McBundles == {Claim("producer", "yes", "success"), Claim("reviewer", "yes", "success"),
              Claim("producer", "no", "failure")}
Pull(head, merged, ci) == [head |-> head, merged |-> merged, checks |-> {<<"ci", ci>>}]
McPulls == {Pull("h1", "no", "failure"), Pull("h1", "yes", "failure"),
            Pull("h1", "yes", "success"), Pull("h2", "yes", "success")}

McNrCriteria == [m |-> ManualCriterion]
File(who, plan) == [task |-> 1, plan |-> plan, evidence |-> [m |-> Manual(who, plan)]]
McNrBundles == {File("p", 1), File("q", 1), File("p", 2)}

\* In "bundles" an observer closes a run while its evidence and the pull
\* request change; bundles go into quarantine in "one" beside a power loss and
\* a producer that writes in place, in "two" beside a second observer.
Quarantine == {"one", "two"}

CloseInit ==
  /\ ClosePathInit /\ EcInit /\ NrInit
  /\ mode \in {"run", "norun", "bundles"} \cup Quarantine
  /\ pull = Pull("h1", "no", "failure")
  /\ mode # "run" => \A t \in Task : specs[t] = <<>>
  /\ mode # "norun" => ~strange /\ shown = {} /\ evidence = File("p", 1)

NewKinds(S) == \A i \in 1..Len(inodes') : i > Len(inodes) => inodes'[i].kind \in S
NoInPlace == \A i \in 1..Len(inodes) : inodes'[i] = inodes[i]

Bounded ==
  /\ mode = "bundles" => /\ txns' = <<>> /\ failures' = 0 /\ NoInPlace /\ NewKinds({"bundle"})
                         /\ Len(claims') <= 2
                         /\ \A p \in Observer : obs'[p].pc # "mkdir"
  /\ mode \in Quarantine => /\ attested' = attested /\ pull' = pull /\ clock' = clock
                            /\ runAt' = runAt /\ NewKinds({"other", "junk"})
  /\ mode = "one" => \A p \in Observer \ {1} : obs'[p] = Resting
  /\ mode = "two" => NoInPlace /\ failures' = 0 /\ Len(claims') <= 2 /\ Len(txns') < 2

CloseNext ==
  /\ UNCHANGED mode
  /\ \/ mode = "run" /\ ClosePathNext /\ UNCHANGED <<ecVars, nrVars>>
     \/ mode = "norun" /\ NrNext /\ UNCHANGED <<closeAllVars, ecVars>>
     \/ /\ mode \in Quarantine \cup {"bundles"}
        /\ EcNext /\ Bounded /\ UNCHANGED <<closeAllVars, nrVars>>

CloseSpec == CloseInit /\ [][CloseNext]_<<closeAllVars, ecVars, nrVars, mode>>
=============================================================================
