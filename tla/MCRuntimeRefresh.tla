-------------------------- MODULE MCRuntimeRefresh --------------------------
(***************************************************************************)
(* RuntimeRefresh and SchedulerConverge on small instances. They share no  *)
(* state, so one of them moves in each behaviour.                          *)
(***************************************************************************)
EXTENDS RuntimeRefresh, SchedulerConverge, TLC

CONSTANTS ta, tb, i1, i2, p1, p2

VARIABLE mode

Sym == Permutations({i1, i2})

\* "race": two executors on one main commit. "takeover": two executors, main
\* moves on, intents stay fresh and nothing is closed. "advance": one executor, main moves on,
\* publications and checks arrive late. "drift": one executor, one main commit,
\* and the scheduler drifts.
RefreshAllowed ==
  /\ mode \in {"race", "drift"} => main' = 1
  /\ mode = "takeover" =>
       /\ expired' = {} /\ noEffect' = {} /\ records' = {}
       /\ \A target \in seen' : target.from.gen = 0
       /\ \A t \in Task : spec'[t] # NULL => spec'[t].closeout = NULL
  /\ mode # "drift" => sched' = "converged"
  /\ mode \in {"advance", "drift"} => ex'[p2] = Idle /\ lease'.holder # p2
  /\ \A t \in Task : spec'[t] # NULL =>
       spec'[t].source \in (IF mode = "advance" THEN {0, 1} ELSE {0})
  /\ IF mode = "advance" THEN lease'.serial <= 1 ELSE verifier' = 0

MCInit ==
  /\ RRInit /\ ScInit
  /\ \/ /\ mode \in {"race", "takeover", "advance", "drift"}
        /\ \A u \in Unit : unitFile[u] = "absent"
     \/ mode = "converge"
  /\ IF mode \in {"advance", "converge"}
     THEN published = {} /\ green = {}
     ELSE published = Protected /\ green = {1}

MCNext ==
  /\ UNCHANGED mode
  /\ \/ mode # "converge" /\ RRNext /\ RefreshAllowed /\ UNCHANGED scVars
     \/ mode = "converge" /\ ScNext /\ UNCHANGED rrVars

MCSpec == MCInit /\ [][MCNext]_<<rrVars, scVars, mode>>
=============================================================================
