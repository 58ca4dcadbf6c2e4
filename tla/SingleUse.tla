----------------------------- MODULE SingleUse -----------------------------
(***************************************************************************)
(* What a runtime-refresh authority promises, with nothing said about how. *)
(* An authority task is offered once, is bound to one deployment, allows   *)
(* one run of the installer, and ends in exactly one of three ways: it is  *)
(* verified after its success was consumed, it is retired without ever     *)
(* having been used, or its unclear effect is superseded.                  *)
(***************************************************************************)
EXTENDS Naturals

CONSTANT Task

VARIABLES stage, effects

suVars == <<stage, effects>>

Stage == {"none", "planned", "ready", "bound", "consumed", "verified",
          "retired", "superseded"}

SUInit == /\ stage = [t \in Task |-> "none"]
          /\ effects = [t \in Task |-> 0]

Move(t, from, to) ==
  /\ stage[t] \in from
  /\ stage' = [stage EXCEPT ![t] = to]
  /\ UNCHANGED effects

Offer(t) == Move(t, {"none"}, "planned") \/ Move(t, {"none", "planned"}, "ready")
Bind(t) == Move(t, {"ready"}, "bound")
Consume(t) == Move(t, {"bound"}, "consumed")
Verify(t) == Move(t, {"bound", "consumed"}, "verified")
Retire(t) == Move(t, {"ready"}, "retired")
Supersede(t) == effects[t] = 1 /\ Move(t, {"bound"}, "superseded")

\* The one step that changes the installed runtime.
Effect(t) ==
  /\ stage[t] = "bound"
  /\ effects[t] = 0
  /\ effects' = [effects EXCEPT ![t] = 1]
  /\ UNCHANGED stage

SUNext == \E t \in Task : \/ Offer(t) \/ Bind(t) \/ Effect(t) \/ Consume(t)
                          \/ Verify(t) \/ Retire(t) \/ Supersede(t)

SUSpec == SUInit /\ [][SUNext]_suVars

\* An authority has had its installer run at most once, and one that was
\* never bound, or that was retired as unused, has had none.
UsedAtMostOnce ==
  \A t \in Task : /\ stage[t] \in Stage
                  /\ effects[t] \in {0, 1}
                  /\ stage[t] \in {"none", "planned", "ready", "retired"}
                       => effects[t] = 0
                  /\ stage[t] = "superseded" => effects[t] = 1
=============================================================================
