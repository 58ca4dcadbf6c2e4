-------------------------- MODULE SingleUseProofs --------------------------
(***************************************************************************)
(* What SingleUse promises, for every set of authority tasks.  The runtime *)
(* refresh implements SingleUse, so it keeps these promises as well.       *)
(***************************************************************************)
EXTENDS SingleUse, TLAPS

\* The variables are functions of the tasks; without it nothing is known of
\* stage' and effects' at a task.
SUInv == /\ stage \in [Task -> Stage] /\ effects \in [Task -> {0, 1}]
         /\ UsedAtMostOnce

\* The initial authorities are unused.
LEMMA SUInitial == SUInit => SUInv
  BY DEF SUInit, SUInv, Stage, UsedAtMostOnce

\* A change of one task's stage keeps the promise when the new stage admits
\* what the installer has done for that task.
LEMMA MoveKeeps ==
  ASSUME SUInv, NEW t \in Task, NEW from, NEW to \in Stage, Move(t, from, to),
         to \in {"none", "planned", "ready", "retired"} => effects[t] = 0,
         to = "superseded" => effects[t] = 1
  PROVE  SUInv'
  <1>1. stage' \in [Task -> Stage] /\ effects' \in [Task -> {0, 1}]
    BY DEF SUInv, Move
  <1>2. ASSUME NEW u \in Task, u # t PROVE stage'[u] = stage[u] /\ effects'[u] = effects[u]
    BY <1>2 DEF SUInv, Move
  <1>3. stage'[t] = to /\ effects'[t] = effects[t]
    BY DEF SUInv, Move
  <1> QED BY <1>1, <1>2, <1>3 DEF SUInv, UsedAtMostOnce

\* Every step of an authority keeps the promise: only a bound authority has its
\* installer run, and the ends that mean "unused" are reached from "ready".
LEMMA SUStep == SUInv /\ [SUNext]_suVars => SUInv'
  <1> SUFFICES ASSUME SUInv, [SUNext]_suVars PROVE SUInv'
    OBVIOUS
  <1>1. CASE UNCHANGED suVars
    BY <1>1 DEF SUInv, UsedAtMostOnce, suVars
  <1>2. ASSUME NEW t \in Task, Offer(t) PROVE SUInv'
    <2>1. stage[t] \in {"none", "planned"} /\ effects[t] = 0
      BY <1>2 DEF Offer, Move, SUInv, UsedAtMostOnce
    <2> QED BY <1>2, <2>1, MoveKeeps DEF Offer, Stage
  <1>3. ASSUME NEW t \in Task, Bind(t) \/ Consume(t) \/ Verify(t) PROVE SUInv'
    BY <1>3, MoveKeeps DEF Bind, Consume, Verify, Stage
  <1>4. ASSUME NEW t \in Task, Retire(t) PROVE SUInv'
    <2>1. effects[t] = 0
      BY <1>4 DEF Retire, Move, SUInv, UsedAtMostOnce
    <2> QED BY <1>4, <2>1, MoveKeeps DEF Retire, Stage
  <1>5. ASSUME NEW t \in Task, Supersede(t) PROVE SUInv'
    BY <1>5, MoveKeeps DEF Supersede, Stage
  <1>6. ASSUME NEW t \in Task, Effect(t) PROVE SUInv'
    <2>1. stage' \in [Task -> Stage] /\ effects' \in [Task -> {0, 1}]
      BY <1>6 DEF Effect, SUInv
    <2>2. ASSUME NEW u \in Task PROVE stage'[u] = stage[u] /\ (u # t => effects'[u] = effects[u])
      BY <1>6, <2>2 DEF Effect, SUInv
    <2>3. effects'[t] = 1 /\ stage[t] = "bound"
      BY <1>6 DEF Effect, SUInv
    <2> QED BY <2>1, <2>2, <2>3 DEF SUInv, UsedAtMostOnce
  <1> QED BY <1>1, <1>2, <1>3, <1>4, <1>5, <1>6 DEF SUNext

\* An authority has its installer run at most once; one that was never bound or
\* was retired as unused has had none, and a superseded one has had its run.
THEOREM UsedAtMostOnceHolds == SUSpec => []UsedAtMostOnce
  <1>1. SUInv => UsedAtMostOnce
    BY DEF SUInv
  <1> QED BY <1>1, SUInitial, SUStep, PTL DEF SUSpec

\* What has ended stays as it ended: neither its stage nor its effect changes.
EndsForGood ==
  \A t \in Task : stage[t] \in {"verified", "retired", "superseded"} =>
    stage'[t] = stage[t] /\ effects'[t] = effects[t]

\* An authority that was verified, retired or superseded is never used again.
THEOREM EndsForGoodHolds == SUSpec => [][EndsForGood]_suVars
  <1>1. SUInv /\ [SUNext]_suVars => [EndsForGood]_suVars
    <2> SUFFICES ASSUME SUInv, SUNext, NEW t \in Task,
                        stage[t] \in {"verified", "retired", "superseded"}
                 PROVE  stage'[t] = stage[t] /\ effects'[t] = effects[t]
      BY DEF EndsForGood
    <2>1. PICK u \in Task : \/ Offer(u) \/ Bind(u) \/ Effect(u) \/ Consume(u)
                            \/ Verify(u) \/ Retire(u) \/ Supersede(u)
      BY DEF SUNext
    <2>2. u # t
      BY <2>1 DEF Offer, Bind, Effect, Consume, Verify, Retire, Supersede, Move
    <2> QED BY <2>1, <2>2 DEF Offer, Bind, Effect, Consume, Verify, Retire, Supersede, Move, SUInv
  <1> QED BY <1>1, SUInitial, SUStep, PTL DEF SUSpec
=============================================================================
