------------------------ MODULE RuntimeRefreshProofs ------------------------
(***************************************************************************)
(* Machine-checked proofs about RuntimeRefresh, for every set of authority *)
(* tasks, intents and executors and every number of main commits: what the *)
(* executors, crashes and closeouts do to an authority is what SingleUse   *)
(* allows, and every success is accounted for.                             *)
(* The last part is about SchedulerConverge, for every set of units: the   *)
(* installer's scheduler transaction converges exactly or rolls back.      *)
(***************************************************************************)
EXTENDS RuntimeRefresh, SchedulerConverge, TLAPS

\* Time for each leaf: the provers are given more than their default.
USE ZenonT(15), SMTT(20), Z3T(20)

-----------------------------------------------------------------------------

\* An executor that has bound its authority and has not yet written a result.
Working == {"bound", "boundCurrent", "started", "prepared", "installing", "installed"}
Pc == Working \cup {"idle", "checked", "current", "success"}

IntentRecord == [task : Task, rev : Nat, target : TargetPayload]
Attempt == [intent : Intent, status : {"started", "failed", "unclear", "deployed"}]
Receipt == [intent : Intent, gen : Nat, from : Manifest]

RefreshTypeOK ==
  /\ main \in Nat /\ sched \in {"converged", "drift"} /\ live \in Manifest
  /\ seen \subseteq TargetPayload
  /\ spec \in [Task -> Authority \cup {NULL}]
  /\ intents \in [Intent -> IntentRecord \cup {NULL}]
  /\ attempts \in [DOMAIN attempts -> Attempt]
  /\ noEffect \subseteq Intent
  /\ lease \in [holder : Proc \cup {NULL}, live : BOOLEAN, serial : Nat]
  /\ closer \in [task : Task, rev : Nat] \cup {NULL}
  /\ ex \in [Proc -> [pc : Pc, intent : Intent \cup {NULL}, serial : Nat]]
  /\ receipts \subseteq Receipt
  /\ launched \in [Task -> {0, 1}]
  /\ overrun \in BOOLEAN

\* What is observed, intended or installed comes from a commit of main with green
\* checks, and an intent was prepared for a manifest that descends from the
\* source of its authority.
Sources ==
  /\ main # 0
  /\ live.commit # 0 => live.commit \in green
  /\ \A x \in seen : x.main \in green
  /\ \A i \in Intent : intents[i] # NULL =>
       /\ spec[intents[i].task] # NULL
       /\ spec[intents[i].task].source <= Target(i).from.commit
       /\ Target(i).main \in green

\* An intent has been prepared, and its authority is bound to it.
BoundTo(i) == i \in Intent /\ intents[i] # NULL /\ spec[intents[i].task].binding = i

\* The ledger of its target was opened for intent i and has this status.
Ledger(i, st) == /\ Target(i) \in DOMAIN attempts
                 /\ attempts[Target(i)].intent = i /\ attempts[Target(i)].status = st

HasReceipt(i) == \E r \in receipts : r.intent = i

\* The attempt ledger and the results without effect are those of the intent that
\* their authority is bound to; a deployed result has the receipt of its install.
Results ==
  /\ \A x \in DOMAIN attempts :
       LET i == attempts[x].intent
       IN /\ BoundTo(i) /\ Target(i) = x
          /\ attempts[x].status = "deployed" => HasReceipt(i)
  /\ \A i \in noEffect : BoundTo(i) /\ launched[intents[i].task] = 0

\* An install was launched for its authority once, in its own ledger.
Installs ==
  /\ \A r \in receipts :
       /\ BoundTo(r.intent) /\ launched[intents[r.intent].task] = 1
       /\ Target(r.intent) \in DOMAIN attempts /\ attempts[Target(r.intent)].intent = r.intent
  /\ \A r, s \in receipts : r.intent = s.intent => r = s

\* Intent i is one of task t.
Own(t, i) == i \in Intent /\ intents[i] # NULL /\ intents[i].task = t

\* What an authority records of its use: nothing while it is planned; it launches
\* nothing before it is bound, and is bound to an intent of its own; its consumption
\* names its binding and a success; and it is superseded either unbound or over an
\* unclear result.
Uses ==
  \A t \in Task :
    /\ spec[t] = NULL => launched[t] = 0
    /\ spec[t] # NULL =>
         /\ spec[t].binding = NULL => launched[t] = 0
         /\ spec[t].binding # NULL => Own(t, spec[t].binding)
         /\ spec[t].state = "planned" =>
              spec[t].binding = NULL /\ spec[t].consumption = NULL /\ spec[t].closeout = NULL
         /\ spec[t].consumption # NULL =>
              /\ spec[t].binding = spec[t].consumption
              /\ spec[t].consumption \in noEffect \/ Ledger(spec[t].consumption, "deployed")
         /\ spec[t].state = "superseded" =>
              spec[t].binding = NULL \/ Ledger(spec[t].binding, "unclear")

\* What an executor at its place in apply_runtime_refresh knows.
ExShape(l, i) ==
  /\ l # "idle" => i \in Intent /\ intents[i] # NULL
  /\ l \in Working \cup {"success"} => BoundTo(i)
  /\ l \in {"bound", "boundCurrent", "started", "prepared"} => launched[intents[i].task] = 0
  /\ l \in {"installing", "installed"} => launched[intents[i].task] = 1
  /\ l \in {"started", "prepared", "installing", "installed"} => Ledger(i, "started")
  /\ l = "installing" => ~HasReceipt(i)
  /\ l = "installed" => HasReceipt(i)
  /\ l = "success" => i \in noEffect \/ Ledger(i, "deployed")

Executors == \A p \in Proc : ExShape(ex[p].pc, ex[p].intent)

\* Executor p works on an intent of task t.
WorksOn(p, t) == ex[p].pc \in Working /\ intents[ex[p].intent].task = t

\* One executor works on an authority, and none once there is a result.
OneWorker ==
  /\ \A p, q \in Proc : \A t \in Task : WorksOn(p, t) /\ WorksOn(q, t) => p = q
  /\ \A p \in Proc :
       /\ \A i \in noEffect : ~WorksOn(p, intents[i].task)
       /\ \A x \in DOMAIN attempts : attempts[x].status # "started" =>
            ~WorksOn(p, intents[attempts[x].intent].task)

\* Unless a lease ran out under a running installer: an installer runs under its
\* live lease, from the manifest of its intent, and what an executor has compared
\* the manifest with stays true while it holds its row.
Ordered ==
  /\ \A p \in Proc : ex[p].pc # "idle" => ex[p].serial <= lease.serial
  /\ ~overrun =>
       /\ \A r \in receipts : r.from = Target(r.intent).from
       /\ \A p \in Proc :
            /\ ex[p].pc = "installing" => HoldsRow(p) /\ lease.live
            /\ (ex[p].pc \in {"checked", "bound", "started", "prepared", "installing"}
                  /\ HoldsRow(p) /\ lease.live) => live = Target(ex[p].intent).from

\* The inductive invariant.
RefreshInv ==
  /\ RefreshTypeOK /\ Sources /\ Results /\ Installs /\ Uses
  /\ Executors /\ OneWorker /\ Ordered

-----------------------------------------------------------------------------

\* An intent names a task and a target.
LEMMA IntentType ==
  ASSUME RefreshTypeOK, NEW i \in Intent, intents[i] # NULL
  PROVE  /\ intents[i] \in IntentRecord /\ intents[i].task \in Task /\ intents[i].rev \in Nat
         /\ Target(i) \in TargetPayload
  <1>1. intents[i] \in IntentRecord
    BY DEF RefreshTypeOK
  <1> QED
    BY <1>1 DEF IntentRecord, Target

\* What the database holds of task t is n; the other tasks stay as they are.
Writes(t, n) ==
  /\ n \in Authority
  /\ spec' \in [Task -> Authority \cup {NULL}]
  /\ spec'[t] = n /\ spec'[t] # NULL
  /\ \A u \in Task \ {t} : spec'[u] = spec[u]

\* put_task_spec writes what it is given, as the next revision.
LEMMA PutWrites ==
  ASSUME RefreshTypeOK, NEW t \in Task, spec[t] # NULL, NEW s \in Authority, Put(t, s)
  PROVE  \E n \in Authority :
           /\ Writes(t, n)
           /\ n.state = s.state /\ n.source = s.source /\ n.pin = s.pin
           /\ n.binding = s.binding /\ n.consumption = s.consumption
           /\ n.closeout = s.closeout
  <1>1. spec[t] \in Authority /\ spec[t].rev + 1 \in Nat
    BY DEF RefreshTypeOK, Authority
  <1> DEFINE n == [s EXCEPT !.rev = spec[t].rev + 1]
  <1>2. /\ n \in Authority
        /\ n.state = s.state /\ n.source = s.source /\ n.pin = s.pin
        /\ n.binding = s.binding /\ n.consumption = s.consumption
        /\ n.closeout = s.closeout
    BY <1>1 DEF Authority
  <1>3. spec' = [spec EXCEPT ![t] = n]
    BY DEF Put
  <1> HIDE DEF n
  <1>4. Writes(t, n)
    BY <1>2, <1>3, RefreshNullAssumption DEF Writes, RefreshTypeOK
  <1> QED
    BY <1>2, <1>4

\* An executor goes on with its intent.
LEMMA GotoEffect ==
  ASSUME RefreshTypeOK, NEW p \in Proc, NEW l \in Pc, Goto(p, l)
  PROVE  /\ ex' \in [Proc -> [pc : Pc, intent : Intent \cup {NULL}, serial : Nat]]
         /\ ex'[p].pc = l /\ ex'[p].intent = ex[p].intent /\ ex'[p].serial = ex[p].serial
         /\ \A q \in Proc \ {p} : ex'[q] = ex[q]
  BY DEF Goto, RefreshTypeOK

\* An executor ends.
LEMMA DoneEffect ==
  ASSUME RefreshTypeOK, NEW p \in Proc, Done(p)
  PROVE  /\ ex' \in [Proc -> [pc : Pc, intent : Intent \cup {NULL}, serial : Nat]]
         /\ ex'[p].pc = "idle"
         /\ \A q \in Proc \ {p} : ex'[q] = ex[q]
  <1>1. Idle \in [pc : Pc, intent : Intent \cup {NULL}, serial : Nat] /\ Idle.pc = "idle"
    BY DEF Idle, Pc
  <1> QED
    BY <1>1 DEF Done, RefreshTypeOK

-----------------------------------------------------------------------------

\* What a write to an authority must respect.
Lawful(t, n) ==
  /\ spec[t] # NULL =>
       n.source = spec[t].source /\ (spec[t].binding # NULL => n.binding = spec[t].binding)
  /\ n.binding # NULL => Own(t, n.binding)
  /\ n.state = "planned" =>
       n.binding = NULL /\ n.consumption = NULL /\ n.closeout = NULL
  /\ n.consumption # NULL =>
       /\ n.binding = n.consumption
       /\ n.consumption \in noEffect \/ Ledger(n.consumption, "deployed")
  /\ n.state = "superseded" => n.binding = NULL \/ Ledger(n.binding, "unclear")

BookVars == <<intents, attempts, noEffect, receipts, launched>>

\* A lawful write leaves every intent bound that was.
LEMMA WriteBinds ==
  ASSUME RefreshInv, NEW t \in Task, NEW n, Writes(t, n), Lawful(t, n), UNCHANGED intents,
         NEW i, BoundTo(i)
  PROVE  BoundTo(i)'
  <1>1. i \in Intent /\ intents[i] # NULL /\ intents[i].task \in Task
    BY IntentType DEF BoundTo, RefreshInv
  <1>2. spec[intents[i].task].binding # NULL /\ spec[intents[i].task] # NULL
    BY <1>1, RefreshAssumption DEF BoundTo, RefreshInv, Sources
  <1>3. CASE intents[i].task = t
    BY <1>1, <1>2, <1>3 DEF BoundTo, Writes, Lawful
  <1>4. CASE intents[i].task # t
    BY <1>1, <1>4 DEF BoundTo, Writes
  <1> QED
    BY <1>3, <1>4

\* A lawful write keeps the books.
LEMMA WriteKeeps ==
  ASSUME RefreshInv, NEW t \in Task, NEW n, Writes(t, n), Lawful(t, n),
         UNCHANGED <<BookVars, main, green, live, seen>>
  PROVE  /\ Sources' /\ Results' /\ Installs' /\ Uses'
         /\ \A i : BoundTo(i) => BoundTo(i)'
  <1>0. /\ UNCHANGED intents /\ UNCHANGED attempts /\ UNCHANGED noEffect
        /\ UNCHANGED receipts /\ UNCHANGED launched
        /\ UNCHANGED main /\ UNCHANGED green /\ UNCHANGED live /\ UNCHANGED seen
    BY DEF BookVars
  <1>1. ASSUME NEW i, BoundTo(i) PROVE BoundTo(i)'
    BY <1>0, <1>1, WriteBinds
  <1>2. Sources'
    <2>1. ASSUME NEW i \in Intent, intents[i] # NULL
          PROVE  /\ spec'[intents[i].task] # NULL
                 /\ spec'[intents[i].task].source = spec[intents[i].task].source
      <3>1. intents[i].task \in Task /\ spec[intents[i].task] # NULL
        BY <2>1, IntentType DEF RefreshInv, Sources
      <3> QED
        BY <3>1 DEF Writes, Lawful
    <2> QED
      BY <1>0, <2>1 DEF RefreshInv, Sources, Target
  <1>3. Results'
    BY <1>0, <1>1 DEF RefreshInv, Results, HasReceipt, Target
  <1>4. Installs'
    BY <1>0, <1>1 DEF RefreshInv, Installs, Target
  <1>5. Uses'
    <2>1. \A i, st : Ledger(i, st)' <=> Ledger(i, st)
      BY <1>0 DEF Ledger, Target
    <2>2. ASSUME NEW u \in Task, u # t
          PROVE  spec'[u] = spec[u] /\ launched'[u] = launched[u]
      BY <1>0, <2>2 DEF Writes
    <2>3. launched'[t] = launched[t] /\ spec'[t] = n /\ spec'[t] # NULL
      BY <1>0 DEF Writes
    <2>4. n.binding = NULL => launched[t] = 0
      BY DEF RefreshInv, Uses, Lawful
    <2> QED
      BY <1>0, <2>1, <2>2, <2>3, <2>4 DEF RefreshInv, Uses, Lawful, Own
  <1> QED
    BY <1>1, <1>2, <1>3, <1>4, <1>5

-----------------------------------------------------------------------------

\* While the executors and the books stand still, so does what the executors know.
LEMMA ExecutorsFrame ==
  ASSUME RefreshInv, UNCHANGED <<BookVars, ex>>, \A i : BoundTo(i) => BoundTo(i)'
  PROVE  Executors' /\ OneWorker'
  <1>0. /\ UNCHANGED intents /\ UNCHANGED attempts /\ UNCHANGED noEffect
        /\ UNCHANGED receipts /\ UNCHANGED launched /\ UNCHANGED ex
    BY DEF BookVars
  <1>1. Executors'
    BY ZenonT(100), <1>0 DEF RefreshInv, Executors, ExShape, Ledger, HasReceipt, Target
  <1>2. OneWorker'
    BY ZenonT(100), <1>0 DEF RefreshInv, OneWorker, WorksOn
  <1> QED
    BY <1>1, <1>2

\* Ordered is kept by a step that touches neither executors, leases nor installs.
LEMMA OrderedFrame ==
  ASSUME RefreshInv, UNCHANGED <<ex, intents, receipts, lease, live, overrun>>
  PROVE  Ordered'
  BY DEF RefreshInv, Ordered, HoldsRow, Target

\* A lawful write of a command that is no executor.
LEMMA WriteInv ==
  ASSUME RefreshInv, NEW t \in Task, NEW n, Writes(t, n), Lawful(t, n),
         UNCHANGED <<BookVars, ex, main, green, live, seen, lease, overrun, sched>>,
         closer' \in [task : Task, rev : Nat] \cup {NULL}
  PROVE  RefreshInv'
  <1>1. UNCHANGED BookVars /\ UNCHANGED <<BookVars, ex>>
        /\ UNCHANGED <<BookVars, main, green, live, seen>>
        /\ UNCHANGED <<ex, intents, receipts, lease, live, overrun>>
    BY DEF BookVars
  <1>2. Sources' /\ Results' /\ Installs' /\ Uses' /\ \A i : BoundTo(i) => BoundTo(i)'
    BY <1>1, WriteKeeps
  <1>3. Executors' /\ OneWorker' /\ Ordered'
    BY <1>1, <1>2, ExecutorsFrame, OrderedFrame
  <1>4. RefreshTypeOK'
    BY DEF RefreshInv, RefreshTypeOK, BookVars, Writes
  <1> QED
    BY <1>2, <1>3, <1>4 DEF RefreshInv

\* What concerns neither an authority nor an intent, a result or an executor.
LEMMA QuietInv ==
  ASSUME RefreshInv, UNCHANGED <<spec, BookVars, ex, live, lease, overrun>>,
         main' \in Nat \ {0}, green \subseteq green', sched' \in {"converged", "drift"},
         seen' \subseteq TargetPayload, \A x \in seen' : x.main \in green',
         closer' \in [task : Task, rev : Nat] \cup {NULL}
  PROVE  RefreshInv'
  <1>1. /\ UNCHANGED spec /\ UNCHANGED intents /\ UNCHANGED attempts /\ UNCHANGED noEffect
        /\ UNCHANGED receipts /\ UNCHANGED launched /\ UNCHANGED live
        /\ UNCHANGED <<BookVars, ex>>
        /\ UNCHANGED <<ex, intents, receipts, lease, live, overrun>>
    BY DEF BookVars
  <1>2. \A i : BoundTo(i) <=> BoundTo(i)'
    BY <1>1 DEF BoundTo
  <1>3. Executors' /\ OneWorker' /\ Ordered'
    BY <1>1, <1>2, ExecutorsFrame, OrderedFrame
  <1>4. RefreshTypeOK'
    BY <1>1 DEF RefreshInv, RefreshTypeOK
  <1>5. Sources'
    BY <1>1 DEF RefreshInv, Sources, Target
  <1>6. Results'
    BY <1>1, <1>2 DEF RefreshInv, Results, HasReceipt, Target
  <1>7. Installs'
    BY <1>1, <1>2 DEF RefreshInv, Installs, Target
  <1>8. Uses'
    <2>1. /\ \A k, st : Ledger(k, st) => Ledger(k, st)'
          /\ \A t, k : Own(t, k) => Own(t, k)'
      BY <1>1 DEF Ledger, Target, Own
    <2> QED
      BY <1>1, <2>1 DEF RefreshInv, Uses
  <1> QED
    BY <1>3, <1>4, <1>5, <1>6, <1>7, <1>8 DEF RefreshInv

\* Observations, checks, publications, the verifier, the scheduler, expiry, the
\* reconciliation record and the first half of an unused closeout.
LEMMA QuietSteps ==
  ASSUME RefreshInv,
         \/ observe \/ checks_pass \/ verifier_runs \/ scheduler_touched
         \/ \E ts \in SUBSET Protected : advance_main(ts)
         \/ \E t \in Task : closeout_unused_begin(t)
         \/ \E i \in Intent : expire(i) \/ reconcile_after_effect_unclear(i)
         \/ UNCHANGED rrVars
  PROVE  RefreshInv'
  <1> USE DEF mainVars, authVars, ledgerVars, hostVars, BookVars
  <1>0. /\ RefreshTypeOK /\ Sources
        /\ main \in Nat \ {0} /\ sched \in {"converged", "drift"}
        /\ seen \subseteq TargetPayload /\ \A x \in seen : x.main \in green
        /\ closer \in [task : Task, rev : Nat] \cup {NULL}
    BY DEF RefreshInv, RefreshTypeOK, Sources
  <1>1. CASE observe
    <2>1. _target_payload \in TargetPayload
      BY <1>0 DEF _target_payload, TargetPayload, load_manifest, scheduler_target_state,
         RefreshTypeOK
    <2>2. _target_payload.main = main
      BY DEF _target_payload
    <2>3. main \in green
      <3>1. CASE lag_commits # 0
        BY <1>1, <3>1 DEF observe, Deployable, Status, summarize_required_checks
      <3>2. CASE lag_commits = 0
        <4>1. live.commit = main
          BY <1>0, <3>2 DEF lag_commits, load_manifest, RefreshTypeOK, Manifest
        <4> QED
          BY <1>0, <4>1 DEF Sources
      <3> QED
        BY <3>1, <3>2
    <2> QED
      BY <1>0, <1>1, <2>1, <2>2, <2>3, QuietInv DEF observe
  <1>2. CASE checks_pass \/ verifier_runs \/ \E ts \in SUBSET Protected : advance_main(ts)
    BY <1>0, <1>2, QuietInv DEF checks_pass, verifier_runs, advance_main
  <1>3. CASE scheduler_touched
    BY <1>0, <1>3, QuietInv DEF scheduler_touched
  <1>4. CASE \E t \in Task : closeout_unused_begin(t)
    <2>1. PICK t \in Task : closeout_unused_begin(t)
      BY <1>4
    <2>2. spec[t] \in Authority /\ spec[t].rev \in Nat
      BY <1>0, <2>1 DEF closeout_unused_begin, Unused, RefreshTypeOK, Authority
    <2>3. closer' \in [task : Task, rev : Nat]
      BY <2>1, <2>2 DEF closeout_unused_begin
    <2> QED
      BY <1>0, <2>1, <2>3, QuietInv DEF closeout_unused_begin
  <1>5. CASE \E i \in Intent : expire(i) \/ reconcile_after_effect_unclear(i)
    BY <1>0, <1>5, QuietInv DEF expire, reconcile_after_effect_unclear
  <1>6. CASE UNCHANGED rrVars
    BY <1>0, <1>6, QuietInv DEF rrVars
  <1> QED
    BY <1>1, <1>2, <1>3, <1>4, <1>5, <1>6

-----------------------------------------------------------------------------

\* A consumption by the intent that the authority is bound to, over its success.
LEMMA ConsumeWrites ==
  ASSUME RefreshInv, NEW i \in Intent, intents[i] # NULL, CanConsume(i),
         consume_runtime_refresh_authority(i),
         i \in noEffect \/ Ledger(i, "deployed")
  PROVE  \E n : Writes(intents[i].task, n) /\ Lawful(intents[i].task, n)
  <1> DEFINE t == intents[i].task
             s == [spec[t] EXCEPT !.consumption = i]
  <1>1. t \in Task /\ spec[t] \in Authority /\ spec[t] # NULL
    BY IntentType DEF RefreshInv, RefreshTypeOK, Sources
  <1>2. spec[t].state = "ready" /\ spec[t].binding = i
    BY DEF CanConsume, Usable, _validate_runtime_refresh_authority_contract
  <1>3. /\ s \in Authority /\ s.state = "ready" /\ s.binding = i /\ s.consumption = i
        /\ s.source = spec[t].source
    BY <1>1, <1>2 DEF Authority
  <1>4. Put(t, s)
    BY DEF consume_runtime_refresh_authority
  <1> HIDE DEF s
  <1>5. PICK n \in Authority :
          /\ Writes(t, n) /\ n.state = "ready" /\ n.source = spec[t].source
          /\ n.binding = i /\ n.consumption = i
    BY <1>1, <1>3, <1>4, PutWrites DEF RefreshInv
  <1>6. Lawful(t, n)
    BY <1>2, <1>5 DEF Lawful, Own
  <1> QED
    BY <1>5, <1>6

\* Only an intent that its authority is bound to has a ledger.
LEMMA LedgerBound ==
  ASSUME RefreshInv, NEW i, NEW st, Ledger(i, st)
  PROVE  BoundTo(i)
  BY DEF RefreshInv, Results, Ledger

\* The result of a target is the one of its ledger.
LEMMA ResultLedger ==
  ASSUME RefreshInv, NEW i \in Intent, intents[i] # NULL, ResultOf(Target(i)) # NULL,
         NEW j, j = ResultOf(Target(i))
  PROVE  /\ BoundTo(j) /\ Target(j) = Target(i)
         /\ Target(i) \in DOMAIN attempts /\ attempts[Target(i)].intent = j
         /\ Ledger(j, attempts[Target(i)].status)
  <1>1. Target(i) \in DOMAIN attempts /\ attempts[Target(i)].intent = j
    BY DEF ResultOf
  <1>2. BoundTo(j) /\ Target(j) = Target(i)
    BY <1>1 DEF RefreshInv, Results
  <1> QED
    BY <1>1, <1>2 DEF Ledger

\* apply_runtime_refresh finds a result and consumes what it stands for.
LEMMA ReusedStep ==
  ASSUME RefreshInv, NEW p \in Proc, NEW i \in Intent, apply_reused(p, i)
  PROVE  RefreshInv'
  <1>1. PICK j : /\ j = (IF i \in noEffect THEN i ELSE ResultOf(Target(i)))
                 /\ j # NULL /\ CanConsume(j) /\ consume_runtime_refresh_authority(j)
                 /\ i \notin noEffect => attempts[Target(i)].status = "deployed"
    BY DEF apply_reused
  <1>2. intents[i] # NULL
    BY DEF apply_reused, validate_runtime_refresh_intent
  <1>3. j \in Intent /\ intents[j] # NULL /\ (j \in noEffect \/ Ledger(j, "deployed"))
    <2>1. CASE i \in noEffect
      BY <1>1, <1>2, <2>1
    <2>2. CASE i \notin noEffect
      BY ZenonT(100), <1>1, <1>2, <2>2, ResultLedger DEF BoundTo
    <2> QED
      BY <2>1, <2>2
  <1>4. PICK n : Writes(intents[j].task, n) /\ Lawful(intents[j].task, n)
    BY <1>1, <1>3, ConsumeWrites
  <1>5. intents[j].task \in Task
    BY <1>3, IntentType DEF RefreshInv
  <1> QED
    BY <1>4, <1>5, WriteInv
       DEF apply_reused, mainVars, ledgerVars, hostVars, BookVars, RefreshInv, RefreshTypeOK

\* register and adopt_runtime_refresh_authority offer a new authority,
\* activate_runtime_refresh_authority makes a planned one ready.
LEMMA OfferStep ==
  ASSUME RefreshInv, NEW t \in Task,
         \/ register(t)
         \/ \E source \in 0..MaxMain : adopt_runtime_refresh_authority(t, source)
         \/ activate_runtime_refresh_authority(t)
  PROVE  RefreshInv'
  <1> USE DEF mainVars, ledgerVars, hostVars, BookVars
  <1>0. RefreshTypeOK /\ closer \in [task : Task, rev : Nat] \cup {NULL}
    BY DEF RefreshInv, RefreshTypeOK
  <1>1. ASSUME NEW st \in {"planned", "ready"}, NEW source \in Nat, spec[t] = NULL,
               spec' = [spec EXCEPT ![t] = Fresh(st, source)]
        PROVE  \E n : Writes(t, n) /\ Lawful(t, n)
    <2> DEFINE n == Fresh(st, source)
    <2>1. /\ n \in Authority /\ n.state = st /\ n.binding = NULL /\ n.consumption = NULL
          /\ n.closeout = NULL
      BY DEF Fresh, Authority
    <2>2. spec' = [spec EXCEPT ![t] = n]
      BY <1>1
    <2> HIDE DEF n
    <2>3. Writes(t, n)
      BY <1>0, <2>1, <2>2, RefreshNullAssumption DEF Writes, RefreshTypeOK
    <2>4. Lawful(t, n)
      BY <1>1, <2>1 DEF Lawful, Own
    <2> QED
      BY <2>3, <2>4
  <1>2. CASE register(t)
    <2>1. \E n : Writes(t, n) /\ Lawful(t, n)
      BY <1>1, <1>2 DEF register
    <2> QED
      BY <1>0, <1>2, <2>1, WriteInv DEF register
  <1>3. CASE \E source \in 0..MaxMain : adopt_runtime_refresh_authority(t, source)
    <2>1. PICK source \in 0..MaxMain : adopt_runtime_refresh_authority(t, source)
      BY <1>3
    <2>2. source \in Nat
      BY RefreshAssumption
    <2>3. \E n : Writes(t, n) /\ Lawful(t, n)
      BY <1>1, <2>1, <2>2 DEF adopt_runtime_refresh_authority
    <2> QED
      BY <1>0, <2>1, <2>3, WriteInv DEF adopt_runtime_refresh_authority
  <1>4. CASE activate_runtime_refresh_authority(t)
    <2> DEFINE s == [[spec[t] EXCEPT !.state = "ready"] EXCEPT !.pin = _target_payload]
    <2>1. spec[t] # NULL /\ spec[t] \in Authority /\ spec[t].state = "planned"
      BY <1>0, <1>4 DEF activate_runtime_refresh_authority, CanActivate, RefreshTypeOK
    <2>2. /\ spec[t].binding = NULL /\ spec[t].consumption = NULL
      BY <2>1 DEF RefreshInv, Uses
    <2>3. _target_payload \in TargetPayload
      BY <1>0 DEF _target_payload, TargetPayload, load_manifest, scheduler_target_state,
         RefreshTypeOK
    <2>4. /\ s \in Authority /\ s.state = "ready" /\ s.binding = NULL /\ s.consumption = NULL
          /\ s.source = spec[t].source
      BY <2>1, <2>2, <2>3 DEF Authority
    <2>5. Put(t, s)
      BY <1>4 DEF activate_runtime_refresh_authority,
         _protected_publication_activation_evidence,
         _expected_protected_publication_activation_spec
    <2> HIDE DEF s
    <2>6. PICK n \in Authority :
            /\ Writes(t, n) /\ n.state = "ready" /\ n.source = spec[t].source
            /\ n.binding = NULL /\ n.consumption = NULL
      BY <1>0, <2>1, <2>4, <2>5, PutWrites
    <2>7. Lawful(t, n)
      BY <2>2, <2>6 DEF Lawful
    <2> QED
      BY <1>0, <1>4, <2>6, <2>7, WriteInv DEF activate_runtime_refresh_authority
  <1> QED
    BY <1>2, <1>3, <1>4

\* The closeout of a success: the authority is bound to its intent.
LEMMA CloseoutStep ==
  ASSUME RefreshInv, NEW i \in Intent, closeout_runtime_refresh_authority(i)
  PROVE  RefreshInv'
  <1> DEFINE t == intents[i].task
             s == [spec[t] EXCEPT !.state = "verified", !.binding = i, !.consumption = i,
                                  !.closeout = "verified"]
  <1>0. RefreshTypeOK /\ closer \in [task : Task, rev : Nat] \cup {NULL}
    BY DEF RefreshInv, RefreshTypeOK
  <1>1. intents[i] # NULL /\ t \in Task /\ spec[t] \in Authority /\ spec[t] # NULL
    BY <1>0, IntentType DEF closeout_runtime_refresh_authority, RefreshTypeOK, RefreshInv, Sources
  <1>2. i \in noEffect \/ Ledger(i, "deployed")
    <2>1. CASE i \in noEffect
      BY <2>1
    <2>2. CASE Deployed(i)
      <3>1. ResultOf(Target(i)) = i /\ attempts[Target(i)].status = "deployed" /\ i # NULL
        BY <2>2, RefreshAssumption DEF Deployed
      <3> QED
        BY <1>1, <3>1, ResultLedger
    <2> QED
      BY <2>1, <2>2 DEF closeout_runtime_refresh_authority, SuccessfulResult
  <1>3. spec[t].binding \in {NULL, i}
    BY DEF closeout_runtime_refresh_authority, RecordsAgree
  <1>4. /\ s \in Authority /\ s.state = "verified" /\ s.binding = i /\ s.consumption = i
        /\ s.source = spec[t].source
    BY <1>1 DEF Authority
  <1>5. Put(t, s)
    BY DEF closeout_runtime_refresh_authority
  <1> HIDE DEF s
  <1>6. PICK n \in Authority :
          /\ Writes(t, n) /\ n.state = "verified" /\ n.source = spec[t].source
          /\ n.binding = i /\ n.consumption = i
    BY <1>0, <1>1, <1>4, <1>5, PutWrites
  <1>7. Lawful(t, n)
    BY <1>1, <1>2, <1>3, <1>6 DEF Lawful, Own
  <1> QED
    BY <1>0, <1>1, <1>6, <1>7, WriteInv
       DEF closeout_runtime_refresh_authority, mainVars, ledgerVars, hostVars, BookVars

\* The closeout of an unused authority finds it unbound, or changes nothing.
LEMMA UnusedStep ==
  ASSUME RefreshInv, closeout_unused_commit
  PROVE  RefreshInv'
  <1> USE DEF mainVars, ledgerVars, hostVars, BookVars
  <1> DEFINE t == closer.task
             s == [spec[t] EXCEPT !.state = "superseded", !.closeout = "unused"]
  <1>0. RefreshTypeOK /\ t \in Task /\ closer' = NULL
    BY DEF RefreshInv, RefreshTypeOK, closeout_unused_commit
  <1>1. CASE UNCHANGED spec
    BY <1>0, <1>1, QuietInv DEF closeout_unused_commit, RefreshInv, RefreshTypeOK, Sources
  <1>2. CASE ~UNCHANGED spec
    <2>1. /\ spec[t] # NULL /\ spec[t] \in Authority /\ spec[t].state = "ready"
          /\ spec[t].binding = NULL /\ spec[t].consumption = NULL
          /\ Put(t, s)
      BY <1>0, <1>2 DEF closeout_unused_commit, Unused, RefreshTypeOK,
         _validate_unused_authority_closeout_cas_contract
    <2>2. /\ s \in Authority /\ s.state = "superseded" /\ s.binding = NULL
          /\ s.consumption = NULL /\ s.source = spec[t].source
      BY <2>1 DEF Authority
    <2> HIDE DEF s
    <2>3. PICK n \in Authority :
            /\ Writes(t, n) /\ n.state = "superseded" /\ n.source = spec[t].source
            /\ n.binding = NULL /\ n.consumption = NULL
      BY <1>0, <2>1, <2>2, PutWrites
    <2>4. Lawful(t, n)
      BY <2>1, <2>3 DEF Lawful, Own
    <2> QED
      BY <1>0, <2>3, <2>4, WriteInv DEF closeout_unused_commit
  <1> QED
    BY <1>1, <1>2

\* A superseded authority is bound to the intent of an unclear result.
LEMMA SupersedeStep ==
  ASSUME RefreshInv, NEW i \in Intent, NEW j \in Intent, supersede_unclear(i, j)
  PROVE  RefreshInv'
  <1> DEFINE t == intents[i].task
             s == [spec[t] EXCEPT !.state = "superseded", !.closeout = "unclear"]
  <1>0. RefreshTypeOK /\ closer \in [task : Task, rev : Nat] \cup {NULL}
    BY DEF RefreshInv, RefreshTypeOK
  <1>1. intents[i] # NULL /\ t \in Task /\ spec[t] \in Authority /\ spec[t] # NULL
    BY <1>0, IntentType DEF supersede_unclear, RefreshTypeOK, RefreshInv, Sources
  <1>2. spec[t].binding = i /\ spec[t].consumption = NULL
    BY DEF supersede_unclear, preview, _historical_proof, OriginalAuthority, Usable,
       _validated_authority_consumption
  <1>3. Ledger(i, "unclear")
    <2>1. ResultOf(Target(i)) = i /\ attempts[Target(i)].status = "unclear" /\ i # NULL
      BY RefreshAssumption DEF supersede_unclear, preview, _historical_proof, UnclearResult
    <2> QED
      BY <1>1, <2>1, ResultLedger
  <1>4. /\ s \in Authority /\ s.state = "superseded" /\ s.binding = i
        /\ s.consumption = NULL /\ s.source = spec[t].source
    BY <1>1, <1>2 DEF Authority
  <1>5. Put(t, s)
    BY DEF supersede_unclear, _build_candidate_from_preview
  <1> HIDE DEF s
  <1>6. PICK n \in Authority :
          /\ Writes(t, n) /\ n.state = "superseded" /\ n.source = spec[t].source
          /\ n.binding = i /\ n.consumption = NULL
    BY <1>0, <1>1, <1>4, <1>5, PutWrites
  <1>7. Lawful(t, n)
    BY <1>1, <1>2, <1>3, <1>6 DEF Lawful, Own
  <1> QED
    BY <1>0, <1>1, <1>6, <1>7, WriteInv
       DEF supersede_unclear, mainVars, ledgerVars, hostVars, BookVars

\* prepare_intent: a new intent pins a task, its revision and an observed target.
LEMMA PrepareIntentStep ==
  ASSUME RefreshInv, NEW i \in Intent, NEW t \in Task, NEW target \in seen,
         prepare_intent(i, t, target)
  PROVE  RefreshInv'
  <1> DEFINE n == [task |-> t, rev |-> spec[t].rev, target |-> target]
  <1>0. RefreshTypeOK /\ intents[i] = NULL
    BY DEF RefreshInv, prepare_intent
  <1>1. /\ UNCHANGED spec /\ UNCHANGED attempts /\ UNCHANGED noEffect /\ UNCHANGED receipts
        /\ UNCHANGED launched /\ UNCHANGED live /\ UNCHANGED ex /\ UNCHANGED lease
        /\ UNCHANGED main /\ UNCHANGED green /\ UNCHANGED seen /\ UNCHANGED closer
        /\ UNCHANGED sched /\ UNCHANGED overrun
    BY DEF prepare_intent, mainVars, ledgerVars, hostVars
  <1>2. spec[t] # NULL /\ spec[t] \in Authority /\ spec[t].rev \in Nat /\ target \in TargetPayload
    BY <1>0 DEF prepare_intent, Unbound, Usable, _validate_runtime_refresh_authority_contract,
       RefreshTypeOK, Authority
  <1>3. n \in IntentRecord /\ n.task = t /\ n.target = target
    BY <1>2 DEF IntentRecord
  <1>4. intents' = [intents EXCEPT ![i] = n]
    BY DEF prepare_intent, _intent_authority_record
  <1> HIDE DEF n
  <1>5. /\ intents' \in [Intent -> IntentRecord \cup {NULL}]
        /\ intents'[i] = n
        /\ \A k \in Intent \ {i} : intents'[k] = intents[k]
    BY <1>0, <1>3, <1>4 DEF RefreshTypeOK
  <1>6. RefreshTypeOK'
    BY <1>0, <1>1, <1>5 DEF RefreshTypeOK
  <1>7. \A k \in Intent : intents[k] # NULL =>
          intents'[k] = intents[k] /\ Target(k)' = Target(k)
    BY <1>0, <1>5 DEF Target
  <1>8. \A k : BoundTo(k) => BoundTo(k)' /\ Target(k)' = Target(k) /\ intents'[k] = intents[k]
    BY <1>1, <1>7 DEF BoundTo
  <1>9. Sources'
    <2>1. /\ spec[t].source <= target.from.commit /\ target.main \in green
      BY DEF prepare_intent, _validate_candidate_source_precondition,
         _registered_source_ancestry_proof, RefreshInv, Sources
    <2>2. /\ spec'[intents'[i].task] # NULL
          /\ spec'[intents'[i].task].source <= Target(i)'.from.commit
          /\ Target(i)'.main \in green'
      BY <1>1, <1>2, <1>3, <1>5, <2>1 DEF Target
    <2> QED
      BY <1>1, <1>5, <1>7, <2>2 DEF RefreshInv, Sources
  <1>10. Results'
    BY <1>1, <1>8 DEF RefreshInv, Results, HasReceipt
  <1>11. Installs'
    BY <1>1, <1>8 DEF RefreshInv, Installs
  <1>12. \A k, st : Ledger(k, st) => Ledger(k, st)'
    BY <1>1, <1>8, LedgerBound DEF Ledger
  <1>13. Uses'
    <2>1. \A u, k : Own(u, k) => Own(u, k)'
      BY <1>7 DEF Own
    <2> QED
      BY <1>1, <1>12, <2>1 DEF RefreshInv, Uses
  <1>14. Executors'
    <2> SUFFICES ASSUME NEW p \in Proc
                 PROVE  ExShape(ex[p].pc, ex[p].intent)'
      BY <1>1 DEF Executors
    <2>1. ExShape(ex[p].pc, ex[p].intent)
      BY DEF RefreshInv, Executors
    <2>2. CASE ex[p].pc = "idle"
      BY <1>1, <2>2 DEF ExShape, Working
    <2>3. CASE ex[p].pc # "idle"
      <3>1. ex[p].intent \in Intent /\ intents[ex[p].intent] # NULL
        BY <2>1, <2>3 DEF ExShape
      <3>2. HasReceipt(ex[p].intent)' <=> HasReceipt(ex[p].intent)
        BY <1>1 DEF HasReceipt
      <3> QED
        BY <1>1, <1>7, <1>8, <1>12, <2>1, <3>1, <3>2 DEF ExShape
    <2> QED
      BY <2>2, <2>3
  <1>15. OneWorker'
    <2>1. \A p \in Proc : \A u : WorksOn(p, u)' <=> WorksOn(p, u)
      BY <1>1, <1>8 DEF WorksOn, RefreshInv, Executors, ExShape
    <2> QED
      BY ZenonT(100), <1>1, <1>8, <2>1 DEF RefreshInv, OneWorker, Results
  <1>16. Ordered'
    <2>1. \A r \in receipts : Target(r.intent)' = Target(r.intent)
      BY <1>8 DEF RefreshInv, Installs
    <2>2. \A p \in Proc : ex[p].pc # "idle" => Target(ex[p].intent)' = Target(ex[p].intent)
      BY <1>1, <1>7 DEF RefreshInv, Executors, ExShape
    <2> QED
      BY <1>1, <2>1, <2>2 DEF RefreshInv, Ordered, HoldsRow
  <1> QED
    BY <1>6, <1>9, <1>10, <1>11, <1>13, <1>14, <1>15, <1>16 DEF RefreshInv

-----------------------------------------------------------------------------

\* Leases: a row that is taken over, released or runs out was not the live row of a
\* running installer, or the overrun is recorded.
LEMMA LeaseStep ==
  ASSUME RefreshInv,
         lease_runs_out \/ \E p \in Proc : acquire_lease(p) \/ release_lease(p)
  PROVE  RefreshInv'
  <1>0. /\ RefreshTypeOK
        /\ lease \in [holder : Proc \cup {NULL}, live : BOOLEAN, serial : Nat]
        /\ NULL \notin Proc /\ lease.serial \in Nat /\ \A p \in Proc : ex[p].serial \in Nat
    BY RefreshAssumption DEF RefreshInv, RefreshTypeOK
  <1>1. /\ UNCHANGED <<BookVars, ex>> /\ UNCHANGED spec /\ UNCHANGED intents
        /\ UNCHANGED attempts /\ UNCHANGED noEffect /\ UNCHANGED receipts
        /\ UNCHANGED launched /\ UNCHANGED live /\ UNCHANGED ex /\ UNCHANGED main
        /\ UNCHANGED green /\ UNCHANGED seen /\ UNCHANGED closer /\ UNCHANGED sched
    BY DEF lease_runs_out, acquire_lease, release_lease, mainVars, authVars, ledgerVars,
       hostVars, BookVars
  <1>2. /\ lease' \in [holder : Proc \cup {NULL}, live : BOOLEAN, serial : Nat]
        /\ lease.serial <= lease'.serial /\ overrun' \in BOOLEAN /\ (overrun => overrun')
    <2>1. CASE lease_runs_out
      <3>1. PICK b \in BOOLEAN : b = (\E p \in Proc : At(p, "installing") /\ HoldsRow(p))
        BY ZenonT(30)
      <3>2. overrun' \in BOOLEAN /\ (overrun => overrun')
        BY <1>0, <2>1, <3>1, ZenonT(30) DEF lease_runs_out, RefreshTypeOK
      <3>3. lease' = [lease EXCEPT !.live = FALSE]
        BY <2>1 DEF lease_runs_out
      <3>4. /\ lease' \in [holder : Proc \cup {NULL}, live : BOOLEAN, serial : Nat]
            /\ lease'.serial = lease.serial
        BY <1>0, <3>3
      <3>5. lease.serial <= lease'.serial
        BY <1>0, <3>4
      <3> QED
        BY <3>2, <3>4, <3>5, ZenonT(30)
    <2>2. ASSUME NEW p \in Proc, acquire_lease(p)
          PROVE  /\ lease' \in [holder : Proc \cup {NULL}, live : BOOLEAN, serial : Nat]
                 /\ lease.serial <= lease'.serial
      BY <1>0, <2>2 DEF acquire_lease
    <2>3. ASSUME NEW p \in Proc, release_lease(p)
          PROVE  /\ lease' \in [holder : Proc \cup {NULL}, live : BOOLEAN, serial : Nat]
                 /\ lease.serial <= lease'.serial
      <3>1. lease' = [lease EXCEPT !.holder = NULL, !.live = FALSE]
        BY <2>3 DEF release_lease
      <3>2. /\ lease' \in [holder : Proc \cup {NULL}, live : BOOLEAN, serial : Nat]
            /\ lease'.serial = lease.serial
        BY <1>0, <3>1
      <3> QED
        BY <1>0, <3>2
    <2>4. CASE \E p \in Proc : acquire_lease(p) \/ release_lease(p)
      <3>1. overrun' = overrun
        BY <2>4 DEF acquire_lease, release_lease, hostVars
      <3> QED
        BY <1>0, <2>2, <2>3, <2>4, <3>1 DEF RefreshTypeOK
    <2> QED
      BY <2>1, <2>4
  <1>3. RefreshTypeOK'
    BY <1>0, <1>1, <1>2 DEF RefreshTypeOK
  <1>4. \A i : BoundTo(i) <=> BoundTo(i)'
    BY <1>1 DEF BoundTo
  <1>5. Executors' /\ OneWorker'
    BY <1>1, <1>4, ExecutorsFrame
  <1>6. Sources'
    BY <1>1 DEF RefreshInv, Sources, Target
  <1>7. Results'
    BY <1>1, <1>4 DEF RefreshInv, Results, HasReceipt, Target
  <1>8. Installs'
    BY <1>1, <1>4 DEF RefreshInv, Installs, Target
  <1>9. Uses'
    BY ZenonT(30), <1>1 DEF RefreshInv, Uses, Ledger, Target, Own
  <1>10. ASSUME ~overrun', NEW p \in Proc
         PROVE  ex[p].pc # "installing" /\ ~(HoldsRow(p)' /\ lease'.live /\ ex[p].pc # "idle")
    <2>0. /\ ~overrun /\ (ex[p].pc = "installing" => HoldsRow(p) /\ lease.live)
          /\ (ex[p].pc # "idle" => ex[p].serial <= lease.serial)
      BY <1>2, <1>10 DEF RefreshInv, Ordered
    <2>1. CASE lease_runs_out
      BY <1>0, <1>10, <2>0, <2>1 DEF lease_runs_out, At
    <2>2. ASSUME NEW q \in Proc, acquire_lease(q)
          PROVE  ex[p].pc # "installing" /\ ~(HoldsRow(p)' /\ lease'.live /\ ex[p].pc # "idle")
      <3>1. ex[p].pc # "installing"
        BY <1>0, <2>0, <2>2 DEF acquire_lease, HoldsRow
      <3>2. lease'.serial = lease.serial + 1
        BY <2>2 DEF acquire_lease
      <3>3. HoldsRow(p)' => lease'.serial = ex[p].serial
        BY <1>1 DEF HoldsRow
      <3> QED
        BY <1>0, <2>0, <3>1, <3>2, <3>3
    <2>3. ASSUME NEW q \in Proc, release_lease(q)
          PROVE  ex[p].pc # "installing" /\ ~(HoldsRow(p)' /\ lease'.live /\ ex[p].pc # "idle")
      <3>1. ex[p].pc # "installing"
        BY <2>0, <2>3 DEF release_lease, HoldsRow, At
      <3>2. lease'.holder = NULL
        BY <1>0, <2>3 DEF release_lease
      <3> QED
        BY <1>0, <3>1, <3>2 DEF HoldsRow
    <2> QED
      BY <2>1, <2>2, <2>3
  <1>11. Ordered'
    <2>1. ASSUME NEW p \in Proc, ex[p].pc # "idle"
          PROVE  ex[p].serial <= lease'.serial
      <3>1. ex[p].serial <= lease.serial
        BY <2>1 DEF RefreshInv, Ordered
      <3>2. lease'.serial \in Nat
        BY <1>2
      <3> QED
        BY <1>0, <1>2, <3>1, <3>2
    <2>2. ~overrun' => \A r \in receipts : r.from = Target(r.intent)'.from
      BY <1>1, <1>2 DEF RefreshInv, Ordered, Target
    <2> QED
      BY <1>1, <1>10, <2>1, <2>2 DEF Ordered
  <1> QED
    BY <1>3, <1>5, <1>6, <1>7, <1>8, <1>9, <1>11 DEF RefreshInv

-----------------------------------------------------------------------------

ExType == [Proc -> [pc : Pc, intent : Intent \cup {NULL}, serial : Nat]]

\* What Ordered asks of an executor.
InOrder(p) ==
  /\ ex[p].pc # "idle" => ex[p].serial <= lease.serial
  /\ ~overrun =>
       /\ ex[p].pc = "installing" => HoldsRow(p) /\ lease.live
       /\ (ex[p].pc \in {"checked", "bound", "started", "prepared", "installing"}
             /\ HoldsRow(p) /\ lease.live) => live = Target(ex[p].intent).from

\* Ordered is kept when the executor that moves keeps it.
LEMMA OrderedMove ==
  ASSUME RefreshInv, NEW p \in Proc, \A q \in Proc \ {p} : ex'[q] = ex[q], InOrder(p)',
         UNCHANGED <<intents, receipts, lease, live, overrun>>
  PROVE  Ordered'
  <1>1. \A q \in Proc \ {p} : InOrder(q)'
    BY DEF RefreshInv, Ordered, InOrder, HoldsRow, Target
  <1>2. ~overrun' => \A r \in receipts' : r.from = Target(r.intent)'.from
    BY DEF RefreshInv, Ordered, Target
  <1>3. \A q \in Proc : InOrder(q)'
    BY <1>1
  <1> QED
    BY <1>2, <1>3 DEF Ordered, InOrder

\* An executor that has not begun to work, or stops, while the books stand still.
LEMMA RestInv ==
  ASSUME RefreshInv, NEW p \in Proc, \A q \in Proc \ {p} : ex'[q] = ex[q], ex' \in ExType,
         ex'[p].pc \in {"idle", "checked", "current"},
         ex'[p].pc # "idle" => ex'[p].intent \in Intent /\ intents[ex'[p].intent] # NULL,
         InOrder(p)',
         UNCHANGED <<mainVars, lease, authVars, attempts, noEffect, hostVars>>
  PROVE  RefreshInv'
  <1>1. /\ UNCHANGED spec /\ UNCHANGED intents
        /\ UNCHANGED attempts /\ UNCHANGED noEffect /\ UNCHANGED receipts
        /\ UNCHANGED launched /\ UNCHANGED live /\ UNCHANGED lease /\ UNCHANGED main
        /\ UNCHANGED green /\ UNCHANGED seen /\ UNCHANGED closer /\ UNCHANGED sched
        /\ UNCHANGED overrun
    BY DEF mainVars, authVars, hostVars
  <1>2. \A i : BoundTo(i) <=> BoundTo(i)'
    BY <1>1 DEF BoundTo
  <1>3. RefreshTypeOK'
    BY <1>1 DEF RefreshInv, RefreshTypeOK, ExType
  <1>4. Sources'
    BY <1>1 DEF RefreshInv, Sources, Target
  <1>5. Results'
    BY <1>1, <1>2 DEF RefreshInv, Results, HasReceipt, Target
  <1>6. Installs'
    BY <1>1, <1>2 DEF RefreshInv, Installs, Target
  <1>7. Uses'
    BY ZenonT(100), <1>1 DEF RefreshInv, Uses, Ledger, Target, Own
  <1>8. Executors'
    <2>1. ExShape(ex[p].pc, ex[p].intent)'
      BY <1>1 DEF ExShape, Working
    <2>2. ASSUME NEW q \in Proc, q # p
          PROVE  ExShape(ex[q].pc, ex[q].intent)'
      <3>1. ExShape(ex[q].pc, ex[q].intent) /\ ex'[q] = ex[q]
        BY <2>2 DEF RefreshInv, Executors
      <3> QED
        BY ZenonT(30), <1>1, <1>2, <3>1 DEF ExShape, Ledger, HasReceipt, Target
    <2> QED
      BY <2>1, <2>2 DEF Executors
  <1>9. OneWorker'
    <2>1. \A q \in Proc : \A t : WorksOn(q, t)' => WorksOn(q, t)
      BY <1>1 DEF WorksOn, Working
    <2> QED
      BY ZenonT(100), <1>1, <2>1 DEF RefreshInv, OneWorker
  <1>10. Ordered'
    BY <1>1, OrderedMove
  <1> QED
    BY <1>3, <1>4, <1>5, <1>6, <1>7, <1>8, <1>9, <1>10 DEF RefreshInv

\* An executor ends while the books stand still: a crash, or an apply that gives up.
LEMMA EndInv ==
  ASSUME RefreshInv, NEW p \in Proc, Done(p),
         UNCHANGED <<mainVars, lease, authVars, attempts, noEffect, hostVars>>
  PROVE  RefreshInv'
  <1>1. /\ ex' \in ExType /\ ex'[p].pc = "idle" /\ \A q \in Proc \ {p} : ex'[q] = ex[q]
    BY DoneEffect DEF RefreshInv, ExType
  <1>2. InOrder(p)'
    BY <1>1 DEF InOrder
  <1> QED
    BY <1>1, <1>2, RestInv

\* apply_runtime_refresh has compared the deployed manifest with its intent's.
LEMMA CheckStep ==
  ASSUME RefreshInv, NEW p \in Proc, NEW i \in Intent, apply_check(p, i)
  PROVE  RefreshInv'
  <1>1. PICK l \in {"checked", "current"} :
          /\ l = "checked" => _target_payload = Target(i)
          /\ ex' = [ex EXCEPT ![p] = [pc |-> l, intent |-> i, serial |-> lease.serial]]
    <2>1. CASE Deployable
      BY <2>1 DEF apply_check
    <2>2. CASE ~Deployable
      BY <2>2 DEF apply_check
    <2> QED
      BY <2>1, <2>2
  <1> DEFINE e == [pc |-> l, intent |-> i, serial |-> lease.serial]
  <1>2. lease.serial \in Nat /\ ex \in ExType
    BY DEF RefreshInv, RefreshTypeOK, ExType
  <1>3. /\ e \in [pc : Pc, intent : Intent \cup {NULL}, serial : Nat]
        /\ e.pc = l /\ e.intent = i /\ e.serial = lease.serial
    BY <1>2 DEF Pc
  <1>4. ex' = [ex EXCEPT ![p] = e]
    BY <1>1
  <1> HIDE DEF e
  <1>5. /\ ex' \in ExType /\ ex'[p].pc = l /\ ex'[p].intent = i /\ ex'[p].serial = lease.serial
        /\ \A q \in Proc \ {p} : ex'[q] = ex[q]
    BY <1>2, <1>3, <1>4 DEF ExType
  <1>6. /\ intents[i] # NULL
        /\ UNCHANGED <<mainVars, lease, authVars, attempts, noEffect, hostVars>>
    BY DEF apply_check, validate_runtime_refresh_intent, ledgerVars
  <1>7. l = "checked" => live = Target(i).from
    BY <1>1 DEF _target_payload, load_manifest
  <1>8. InOrder(p)'
    BY <1>2, <1>5, <1>6, <1>7 DEF InOrder, Target, hostVars, authVars
  <1> QED
    BY <1>5, <1>6, <1>8, RestInv

-----------------------------------------------------------------------------

\* An entry of the ledger that is new or changed is one of intent i.
OnlyLedger(i) ==
  /\ \A x \in DOMAIN attempts : x \in DOMAIN attempts'
  /\ \A x \in DOMAIN attempts' :
       attempts'[x].intent = i \/ (x \in DOMAIN attempts /\ attempts'[x] = attempts[x])
  /\ \A x \in DOMAIN attempts : attempts[x].intent # i => attempts'[x] = attempts[x]

\* While executor p works for intent i, its task has no result and no other worker.
LEMMA WorkerAlone ==
  ASSUME RefreshInv, NEW p \in Proc, ex[p].pc \in Working, NEW i, i = ex[p].intent
  PROVE  /\ BoundTo(i) /\ i \in Intent /\ i # NULL /\ intents[i] # NULL
         /\ intents[i].task \in Task /\ spec[intents[i].task] # NULL
         /\ Target(i) \in TargetPayload /\ WorksOn(p, intents[i].task)
         /\ \A q \in Proc \ {p} : ~WorksOn(q, intents[i].task)
         /\ \A k \in noEffect : intents[k].task # intents[i].task
         /\ \A k, st : Ledger(k, st) /\ st # "started" => intents[k].task # intents[i].task
  <1>1. BoundTo(i) /\ i \in Intent /\ intents[i] # NULL
    BY DEF RefreshInv, Executors, ExShape, BoundTo
  <1>2. /\ intents[i].task \in Task /\ Target(i) \in TargetPayload
        /\ spec[intents[i].task] # NULL /\ i # NULL
    BY <1>1, IntentType, RefreshAssumption DEF RefreshInv, Sources
  <1>3. WorksOn(p, intents[i].task)
    BY DEF WorksOn
  <1>4. \A q \in Proc \ {p} : ~WorksOn(q, intents[i].task)
    BY <1>2, <1>3 DEF RefreshInv, OneWorker
  <1>5. \A k \in noEffect : intents[k].task # intents[i].task
    BY <1>3 DEF RefreshInv, OneWorker
  <1>6. \A k, st : Ledger(k, st) /\ st # "started" => intents[k].task # intents[i].task
    BY <1>3 DEF RefreshInv, OneWorker, Ledger
  <1> QED
    BY <1>1, <1>2, <1>3, <1>4, <1>5, <1>6

\* A working executor moves: it may write its ledger, its result and the count of
\* its task, and the others know what they knew.
LEMMA WorkerMoves ==
  ASSUME RefreshInv, NEW p \in Proc, ex[p].pc \in Working, NEW i, i = ex[p].intent,
         UNCHANGED <<spec, intents>>,
         \A q \in Proc \ {p} : ex'[q] = ex[q],
         ex'[p].pc # "idle" => ex'[p].intent = i,
         OnlyLedger(i),
         noEffect \subseteq noEffect', noEffect' \subseteq noEffect \cup {i},
         \A u \in Task \ {intents[i].task} : launched'[u] = launched[u],
         \A k : k # i => (HasReceipt(k)' <=> HasReceipt(k)),
         ex'[p].pc \in Working =>
           /\ noEffect' = noEffect
           /\ \A x \in DOMAIN attempts' : attempts'[x].intent = i => attempts'[x].status = "started",
         ExShape(ex[p].pc, ex[p].intent)'
  PROVE  Executors' /\ OneWorker'
  <1>0. UNCHANGED spec /\ UNCHANGED intents
    OBVIOUS
  <1>1. /\ BoundTo(i) /\ i \in Intent /\ i # NULL /\ intents[i] # NULL
        /\ intents[i].task \in Task /\ WorksOn(p, intents[i].task)
        /\ \A q \in Proc \ {p} : ~WorksOn(q, intents[i].task)
        /\ \A k \in noEffect : intents[k].task # intents[i].task
        /\ \A k, st : Ledger(k, st) /\ st # "started" => intents[k].task # intents[i].task
    BY ZenonT(100), WorkerAlone
  <1>2. \A k : BoundTo(k) <=> BoundTo(k)'
    BY <1>0 DEF BoundTo
  <1>3. \A k, st : k # i /\ Ledger(k, st) => Ledger(k, st)'
    BY <1>0 DEF Ledger, Target, OnlyLedger
  <1>4. ASSUME NEW q \in Proc, q # p
        PROVE  ExShape(ex[q].pc, ex[q].intent)'
    <2>1. ExShape(ex[q].pc, ex[q].intent) /\ ex'[q] = ex[q]
      BY <1>4 DEF RefreshInv, Executors
    <2>2. CASE ex[q].pc \in Working
      <3>1. /\ ex[q].intent \in Intent /\ intents[ex[q].intent] # NULL
            /\ intents[ex[q].intent].task \in Task
        BY ZenonT(30), <2>2, WorkerAlone
      <3>2. intents[ex[q].intent].task # intents[i].task
        BY <1>1, <1>4, <2>2 DEF WorksOn
      <3>3. ex[q].intent # i
        BY <3>2
      <3>4. /\ launched'[intents[ex[q].intent].task] = launched[intents[ex[q].intent].task]
            /\ HasReceipt(ex[q].intent)' <=> HasReceipt(ex[q].intent)
        BY ZenonT(100), <2>1, <3>1, <3>2, <3>3 DEF HasReceipt
      <3> QED
        BY <1>0, <1>2, <1>3, <2>1, <2>2, <3>1, <3>3, <3>4 DEF ExShape, Working
    <2>3. CASE ex[q].pc = "success"
      <3>1. ex[q].intent \in noEffect \/ Ledger(ex[q].intent, "deployed")
        BY <2>1, <2>3 DEF ExShape
      <3>2. ex[q].intent \in noEffect' \/ (ex[q].intent # i /\ Ledger(ex[q].intent, "deployed"))
        BY <1>1, <3>1
      <3>3. ex[q].intent \in noEffect' \/ Ledger(ex[q].intent, "deployed")'
        BY <1>3, <2>1, <3>2
      <3> QED
        BY <1>0, <1>2, <2>1, <2>3, <3>3 DEF ExShape, Working
    <2>4. CASE ex[q].pc \notin Working \cup {"success"}
      BY <1>0, <2>1, <2>4 DEF ExShape, Working
    <2> QED
      BY <2>2, <2>3, <2>4
  <1>5. Executors'
    BY <1>4 DEF Executors
  <1>6. \A q \in Proc \ {p} : \A t : WorksOn(q, t)' <=> WorksOn(q, t)
    BY <1>0 DEF WorksOn
  <1>7. \A t : WorksOn(p, t)' => t = intents[i].task /\ ex'[p].pc \in Working
    BY <1>0 DEF WorksOn, Working
  <1>8. OneWorker'
    <2>1. ASSUME NEW q \in Proc, NEW u \in Proc, NEW t \in Task, WorksOn(q, t)', WorksOn(u, t)'
          PROVE  q = u
      <3>1. CASE q = p \/ u = p
        <4>1. t = intents[i].task
          BY <1>7, <2>1, <3>1
        <4>2. \A w \in Proc \ {p} : ~WorksOn(w, t)'
          BY <1>1, <1>6, <4>1
        <4> QED
          BY <2>1, <4>2
      <3>2. CASE q # p /\ u # p
        <4>1. WorksOn(q, t) /\ WorksOn(u, t)
          BY <1>6, <2>1, <3>2
        <4> QED
          BY <4>1 DEF RefreshInv, OneWorker
      <3> QED
        BY <3>1, <3>2
    <2>2. ASSUME NEW q \in Proc, NEW k \in noEffect', WorksOn(q, intents[k].task)'
          PROVE  FALSE
      <3>1. PICK t : t = intents[k].task /\ WorksOn(q, t)'
        BY <1>0, <2>2 DEF WorksOn
      <3>2. CASE q = p
        <4>1. t = intents[i].task /\ k \in noEffect
          BY <1>7, <3>1, <3>2
        <4> QED
          BY <1>1, <3>1, <4>1
      <3>3. CASE q # p
        <4>1. WorksOn(q, t)
          BY <1>6, <3>1, <3>3
        <4>2. k \notin noEffect
          BY <3>1, <4>1 DEF RefreshInv, OneWorker
        <4> QED
          BY <1>1, <3>1, <3>3, <4>1, <4>2
      <3> QED
        BY <3>2, <3>3
    <2>3. ASSUME NEW q \in Proc, NEW x \in DOMAIN attempts', attempts'[x].status # "started",
                 WorksOn(q, intents[attempts[x].intent].task)'
          PROVE  FALSE
      <3>1. PICK t : t = intents[attempts'[x].intent].task /\ WorksOn(q, t)'
        BY <1>0, <2>3 DEF WorksOn
      <3>2. CASE attempts'[x].intent = i
        BY <1>1, <1>6, <1>7, <2>3, <3>1, <3>2
      <3>3. CASE x \in DOMAIN attempts /\ attempts'[x] = attempts[x]
        <4>1. ~WorksOn(q, t)
          BY ZenonT(100), <2>3, <3>1, <3>3 DEF RefreshInv, OneWorker
        <4>2. q = p /\ t = intents[i].task
          BY <1>6, <1>7, <3>1, <4>1
        <4> QED
          BY <1>1, <4>1, <4>2
      <3> QED
        BY <3>2, <3>3 DEF OnlyLedger
    <2> QED
      BY <2>1, <2>2, <2>3 DEF OneWorker
  <1> QED
    BY <1>5, <1>8

\* The tables that an executor leaves alone while it works.
StillVars == <<mainVars, authVars, lease, overrun>>

\* The books after a change of intent i's own ledger entry.
LEMMA LedgerBooks ==
  ASSUME RefreshInv, NEW i, BoundTo(i), OnlyLedger(i),
         UNCHANGED <<StillVars, noEffect, receipts, launched, live, sched>>,
         Target(i) \in DOMAIN attempts', attempts'[Target(i)].intent = i,
         \A x \in DOMAIN attempts' : attempts'[x].intent = i => x = Target(i),
         attempts'[Target(i)].status = "deployed" => HasReceipt(i),
         \A st : st # "started" => ~Ledger(i, st)
  PROVE  Sources' /\ Results' /\ Installs' /\ Uses'
  <1>1. /\ UNCHANGED spec /\ UNCHANGED intents /\ UNCHANGED noEffect /\ UNCHANGED receipts
        /\ UNCHANGED launched /\ UNCHANGED live /\ UNCHANGED main
        /\ UNCHANGED green /\ UNCHANGED seen
    BY DEF StillVars, mainVars, authVars
  <1>2. \A k : BoundTo(k) <=> BoundTo(k)'
    BY <1>1 DEF BoundTo
  <1>3. \A k : Target(k)' = Target(k) /\ (HasReceipt(k)' <=> HasReceipt(k))
    BY <1>1 DEF Target, HasReceipt
  <1>4. Sources'
    BY <1>1 DEF RefreshInv, Sources, Target
  <1>5. Results'
    <2>1. ASSUME NEW x \in DOMAIN attempts'
          PROVE  /\ BoundTo(attempts'[x].intent) /\ Target(attempts'[x].intent) = x
                 /\ attempts'[x].status = "deployed" => HasReceipt(attempts'[x].intent)
      <3>1. CASE attempts'[x].intent = i
        BY <3>1
      <3>2. CASE x \in DOMAIN attempts /\ attempts'[x] = attempts[x]
        BY <3>2 DEF RefreshInv, Results
      <3> QED
        BY <3>1, <3>2 DEF OnlyLedger
    <2>2. \A k \in noEffect : BoundTo(k) /\ launched[intents[k].task] = 0
      BY DEF RefreshInv, Results
    <2> QED
      BY <1>1, <1>2, <1>3, <2>1, <2>2 DEF Results, BoundTo, Target, HasReceipt
  <1>6. Installs'
    <2>1. ASSUME NEW r \in receipts
          PROVE  /\ BoundTo(r.intent) /\ launched[intents[r.intent].task] = 1
                 /\ Target(r.intent) \in DOMAIN attempts'
                 /\ attempts'[Target(r.intent)].intent = r.intent
      <3>1. /\ BoundTo(r.intent) /\ launched[intents[r.intent].task] = 1
            /\ Target(r.intent) \in DOMAIN attempts
            /\ attempts[Target(r.intent)].intent = r.intent
        BY DEF RefreshInv, Installs
      <3>2. CASE r.intent = i
        BY <3>1, <3>2
      <3>3. CASE r.intent # i
        BY <3>1, <3>3 DEF OnlyLedger
      <3> QED
        BY <3>1, <3>2, <3>3
    <2>2. \A r, u \in receipts : r.intent = u.intent => r = u
      BY DEF RefreshInv, Installs
    <2> QED
      BY <1>1, <1>2, <1>3, <2>1, <2>2 DEF Installs
  <1>7. Uses'
    <2>1. \A k, st : st # "started" /\ Ledger(k, st) => Ledger(k, st)'
      BY <1>3 DEF Ledger, OnlyLedger
    <2> QED
      BY ZenonT(30), <1>1, <2>1 DEF RefreshInv, Uses, Own
  <1> QED
    BY <1>4, <1>5, <1>6, <1>7

\* _write_attempt_result: the executor's own entry gets its result, and the
\* executor ends or goes on to consume a deployed one.
LEMMA ResultInv ==
  ASSUME RefreshInv, NEW p \in Proc, NEW i, i = ex[p].intent,
         ex[p].pc \in {"started", "prepared", "installing", "installed"},
         NEW st \in {"failed", "unclear", "deployed"}, WriteResult(i, st),
         Done(p) \/ (Goto(p, "success") /\ st = "deployed"),
         st = "deployed" => HasReceipt(i),
         UNCHANGED <<StillVars, noEffect, receipts, launched, live, sched>>
  PROVE  RefreshInv'
  <1>1. /\ BoundTo(i) /\ i \in Intent /\ intents[i] # NULL /\ Target(i) \in TargetPayload
        /\ intents[i].task \in Task
        /\ \A k, s : Ledger(k, s) /\ s # "started" => intents[k].task # intents[i].task
    BY WorkerAlone DEF Working
  <1>2. Target(i) \in DOMAIN attempts /\ attempts[Target(i)].intent = i
    BY DEF RefreshInv, Executors, ExShape, Ledger
  <1>3. /\ UNCHANGED spec /\ UNCHANGED intents /\ UNCHANGED noEffect /\ UNCHANGED receipts
        /\ UNCHANGED launched /\ UNCHANGED live /\ UNCHANGED main /\ UNCHANGED lease
        /\ UNCHANGED green /\ UNCHANGED seen /\ UNCHANGED closer /\ UNCHANGED sched
        /\ UNCHANGED overrun
    BY DEF StillVars, mainVars, authVars
  <1>4. PICK a \in Attempt : a = [intent |-> i, status |-> st] /\ a.intent = i /\ a.status = st
    <2>1. [intent |-> i, status |-> st] \in Attempt
      BY <1>1 DEF Attempt
    <2> QED
      BY <2>1
  <1>5. attempts' = [attempts EXCEPT ![Target(i)] = a]
    BY <1>4 DEF WriteResult
  <1>6. /\ attempts' \in [DOMAIN attempts' -> Attempt] /\ DOMAIN attempts' = DOMAIN attempts
        /\ attempts'[Target(i)] = a
        /\ \A x \in DOMAIN attempts : x # Target(i) => attempts'[x] = attempts[x]
    BY <1>2, <1>5 DEF RefreshInv, RefreshTypeOK
  <1>7. \A x \in DOMAIN attempts : attempts[x].intent = i => x = Target(i)
    BY DEF RefreshInv, Results
  <1>8. OnlyLedger(i) /\ \A x \in DOMAIN attempts' : attempts'[x].intent = i => x = Target(i)
    BY <1>2, <1>4, <1>6, <1>7 DEF OnlyLedger
  <1>9. Sources' /\ Results' /\ Installs' /\ Uses'
    BY <1>1, <1>2, <1>4, <1>6, <1>8, LedgerBooks
  <1>10. /\ ex' \in ExType /\ \A q \in Proc \ {p} : ex'[q] = ex[q]
         /\ \/ ex'[p].pc = "idle"
            \/ ex'[p].pc = "success" /\ ex'[p].intent = i /\ ex'[p].serial = ex[p].serial
               /\ st = "deployed"
    BY DoneEffect, GotoEffect DEF RefreshInv, ExType, Pc
  <1>11. ExShape(ex[p].pc, ex[p].intent)'
    <2>1. CASE ex'[p].pc = "idle"
      BY <2>1 DEF ExShape, Working
    <2>2. CASE ex'[p].pc = "success" /\ ex'[p].intent = i /\ st = "deployed"
      <3>1. BoundTo(i)' /\ Ledger(i, "deployed")'
        BY <1>1, <1>2, <1>3, <1>4, <1>6, <2>2 DEF BoundTo, Ledger, Target
      <3> QED
        BY <1>1, <1>3, <2>2, <3>1 DEF ExShape, Working, BoundTo
    <2> QED
      BY <1>10, <2>1, <2>2
  <1>12. Executors' /\ OneWorker'
    <2>1. ex[p].pc \in Working /\ ex'[p].pc \notin Working
      BY <1>10 DEF Working
    <2>2. \A k : HasReceipt(k)' <=> HasReceipt(k)
      BY <1>3 DEF HasReceipt
    <2> QED
      BY <1>3, <1>8, <1>10, <1>11, <2>1, <2>2, WorkerMoves
  <1>13. Ordered'
    <2>1. InOrder(p)'
      BY <1>3, <1>10 DEF InOrder, RefreshInv, Ordered
    <2> QED
      BY <1>3, <1>10, <2>1, OrderedMove
  <1>14. RefreshTypeOK'
    BY <1>3, <1>6, <1>10 DEF RefreshInv, RefreshTypeOK, ExType
  <1> QED
    BY <1>9, <1>12, <1>13, <1>14 DEF RefreshInv

\* apply_start: the ledger of the target is opened, or another authority has it.
LEMMA StartStep ==
  ASSUME RefreshInv, NEW p \in Proc, apply_start(p)
  PROVE  RefreshInv'
  <1> USE DEF StillVars, mainVars, authVars, hostVars
  <1>1. CASE Done(p) /\ UNCHANGED attempts
    BY <1>1, EndInv DEF apply_start
  <1>2. CASE ~(Done(p) /\ UNCHANGED attempts)
    <2>1. PICK i : i = ex[p].intent
      OBVIOUS
    <2>2. /\ ex[p].pc = "bound" /\ Target(i) \notin DOMAIN attempts
          /\ StartRecord(i) /\ Goto(p, "started")
          /\ UNCHANGED <<StillVars, noEffect, receipts, launched, live, sched>>
      BY <1>2, <2>1 DEF apply_start, At
    <2>3. /\ BoundTo(i) /\ i \in Intent /\ intents[i] # NULL /\ intents[i].task \in Task
          /\ launched[intents[i].task] = 0
      BY <2>1, <2>2, WorkerAlone DEF Working, RefreshInv, Executors, ExShape
    <2>4. /\ UNCHANGED spec /\ UNCHANGED intents /\ UNCHANGED noEffect /\ UNCHANGED receipts
          /\ UNCHANGED launched /\ UNCHANGED live /\ UNCHANGED main /\ UNCHANGED lease
          /\ UNCHANGED green /\ UNCHANGED seen /\ UNCHANGED closer /\ UNCHANGED sched
          /\ UNCHANGED overrun
      BY <2>2
    <2>5. PICK a \in Attempt :
            a = [intent |-> i, status |-> "started"] /\ a.intent = i /\ a.status = "started"
      <3>1. [intent |-> i, status |-> "started"] \in Attempt
        BY <2>3 DEF Attempt
      <3> QED
        BY <3>1
    <2>6. /\ DOMAIN attempts' = DOMAIN attempts \cup {Target(i)}
          /\ attempts'[Target(i)] = a
          /\ \A x \in DOMAIN attempts : attempts'[x] = attempts[x]
      BY <2>2, <2>5 DEF StartRecord
    <2>7. attempts' \in [DOMAIN attempts' -> Attempt]
      BY <2>2, <2>5 DEF StartRecord, RefreshInv, RefreshTypeOK
    <2>8. /\ \A x \in DOMAIN attempts : attempts[x].intent = i => x = Target(i)
          /\ \A st : ~Ledger(i, st)
      BY <2>2 DEF RefreshInv, Results, Ledger
    <2>9. OnlyLedger(i) /\ \A x \in DOMAIN attempts' : attempts'[x].intent = i => x = Target(i)
      BY <2>2, <2>5, <2>6, <2>8 DEF OnlyLedger
    <2>10. Sources' /\ Results' /\ Installs' /\ Uses'
      BY <2>2, <2>3, <2>5, <2>6, <2>8, <2>9, LedgerBooks
    <2>11. /\ ex' \in ExType /\ \A q \in Proc \ {p} : ex'[q] = ex[q]
           /\ ex'[p].pc = "started" /\ ex'[p].intent = i /\ ex'[p].serial = ex[p].serial
      BY <2>1, <2>2, GotoEffect DEF RefreshInv, ExType, Pc, Working
    <2>12. ExShape(ex[p].pc, ex[p].intent)'
      <3>1. BoundTo(i)' /\ Ledger(i, "started")'
        BY <2>3, <2>4, <2>5, <2>6 DEF BoundTo, Ledger, Target
      <3> QED
        BY <2>3, <2>4, <2>11, <3>1 DEF ExShape, BoundTo
    <2>13. Executors' /\ OneWorker'
      <3>1. ex[p].pc \in Working /\ \A k : HasReceipt(k)' <=> HasReceipt(k)
        BY <2>2, <2>4 DEF Working, HasReceipt
      <3>2. \A x \in DOMAIN attempts' : attempts'[x].intent = i => attempts'[x].status = "started"
        BY <2>5, <2>6, <2>9
      <3> QED
        BY <2>1, <2>4, <2>9, <2>11, <2>12, <3>1, <3>2, WorkerMoves
    <2>14. Ordered'
      <3>1. InOrder(p)
        BY DEF InOrder, RefreshInv, Ordered
      <3>2. HoldsRow(p)' <=> HoldsRow(p)
        BY <2>4, <2>11 DEF HoldsRow
      <3>3. Target(ex[p].intent)' = Target(ex[p].intent)
        BY <2>1, <2>4, <2>11 DEF Target
      <3>4. InOrder(p)'
        BY <2>2, <2>4, <2>11, <3>1, <3>2, <3>3 DEF InOrder
      <3> QED
        BY <2>4, <2>11, <3>4, OrderedMove
    <2>15. RefreshTypeOK'
      BY <2>4, <2>7, <2>11 DEF RefreshInv, RefreshTypeOK, ExType
    <2> QED
      BY <2>10, <2>13, <2>14, <2>15 DEF RefreshInv
  <1> QED
    BY <1>1, <1>2

\* A working executor goes on while the books stand still.
LEMMA GoOnInv ==
  ASSUME RefreshInv, NEW p \in Proc, NEW i, i = ex[p].intent, ex[p].pc \in Working,
         NEW l \in Working, Goto(p, l), ExShape(l, i), InOrder(p)',
         UNCHANGED <<StillVars, attempts, noEffect, receipts, launched, live, sched>>
  PROVE  RefreshInv'
  <1>1. /\ UNCHANGED spec /\ UNCHANGED intents /\ UNCHANGED attempts
        /\ UNCHANGED noEffect /\ UNCHANGED receipts
        /\ UNCHANGED launched /\ UNCHANGED live /\ UNCHANGED main /\ UNCHANGED lease
        /\ UNCHANGED green /\ UNCHANGED seen /\ UNCHANGED closer /\ UNCHANGED sched
        /\ UNCHANGED overrun
    BY DEF StillVars, mainVars, authVars
  <1>2. /\ ex' \in ExType /\ \A q \in Proc \ {p} : ex'[q] = ex[q]
        /\ ex'[p].pc = l /\ ex'[p].intent = i /\ ex'[p].serial = ex[p].serial
    BY GotoEffect DEF RefreshInv, ExType, Pc
  <1>3. \A k : BoundTo(k) <=> BoundTo(k)'
    BY <1>1 DEF BoundTo
  <1>4. RefreshTypeOK'
    BY <1>1, <1>2 DEF RefreshInv, RefreshTypeOK, ExType
  <1>5. Sources'
    BY <1>1 DEF RefreshInv, Sources, Target
  <1>6. Results'
    BY ZenonT(30), <1>1, <1>3 DEF RefreshInv, Results, HasReceipt, Target
  <1>7. Installs'
    BY <1>1, <1>3 DEF RefreshInv, Installs, Target
  <1>8. Uses'
    BY ZenonT(100), <1>1 DEF RefreshInv, Uses, Ledger, Target, Own
  <1>9. ExShape(ex[p].pc, ex[p].intent)'
    BY <1>1, <1>2, <1>3 DEF ExShape, Ledger, HasReceipt, Target
  <1>10. Executors' /\ OneWorker'
    <2>1. OnlyLedger(i) /\ \A k : HasReceipt(k)' <=> HasReceipt(k)
      BY <1>1 DEF OnlyLedger, HasReceipt
    <2>2. ASSUME NEW x \in DOMAIN attempts, attempts[x].intent = i
          PROVE  attempts[x].status = "started"
      <3>1. Target(i) = x
        BY <2>2 DEF RefreshInv, Results
      <3>2. Ledger(i, attempts[x].status)
        BY <2>2, <3>1 DEF Ledger
      <3> QED
        BY <3>2, WorkerAlone
    <2> QED
      BY ZenonT(30), <1>1, <1>2, <1>9, <2>1, <2>2, WorkerMoves
  <1>11. Ordered'
    BY <1>1, <1>2, OrderedMove
  <1> QED
    BY <1>4, <1>5, <1>6, <1>7, <1>8, <1>10, <1>11 DEF RefreshInv

-----------------------------------------------------------------------------

\* The source is checked out, or the attempt fails.
LEMMA PrepareStep ==
  ASSUME RefreshInv, NEW p \in Proc, apply_prepare(p)
  PROVE  RefreshInv'
  <1> USE DEF StillVars, mainVars, authVars, hostVars
  <1>1. PICK i : i = ex[p].intent
    OBVIOUS
  <1>2. /\ ex[p].pc = "started"
        /\ UNCHANGED <<StillVars, noEffect, receipts, launched, live, sched>>
        /\ \/ Goto(p, "prepared") /\ UNCHANGED attempts
           \/ WriteResult(i, "failed") /\ Done(p)
    BY <1>1 DEF apply_prepare, At
  <1>3. CASE Goto(p, "prepared") /\ UNCHANGED attempts
    <2>1. ExShape("started", i)
      BY <1>1, <1>2 DEF RefreshInv, Executors
    <2>2. ExShape("prepared", i)
      BY <2>1 DEF ExShape, Working
    <2>3. /\ ex'[p].pc = "prepared" /\ ex'[p].intent = i /\ ex'[p].serial = ex[p].serial
      BY <1>1, <1>3, GotoEffect DEF RefreshInv, Pc, Working
    <2>4. InOrder(p)'
      BY <1>1, <1>2, <2>3 DEF InOrder, RefreshInv, Ordered, HoldsRow, Target
    <2> QED
      BY <1>1, <1>2, <1>3, <2>2, <2>4, GoOnInv DEF Working
  <1>4. CASE WriteResult(i, "failed") /\ Done(p)
    BY <1>1, <1>2, <1>4, ResultInv
  <1> QED
    BY <1>2, <1>3, <1>4

\* The installer failed and rolled back, or its readback did.
LEMMA InstallFailedStep ==
  ASSUME RefreshInv, NEW p \in Proc, apply_install_failed(p)
  PROVE  RefreshInv'
  BY ResultInv DEF apply_install_failed, StillVars, mainVars, authVars, hostVars

\* The result of an install that was read back.
LEMMA ResultStep ==
  ASSUME RefreshInv, NEW p \in Proc, apply_result(p)
  PROVE  RefreshInv'
  <1>1. PICK i : i = ex[p].intent
    OBVIOUS
  <1>2. /\ ex[p].pc = "installed" /\ WriteResult(i, "deployed") /\ Goto(p, "success")
        /\ UNCHANGED <<StillVars, noEffect, receipts, launched, live, sched>>
    BY <1>1 DEF apply_result, At, StillVars, mainVars, authVars, hostVars
  <1>3. HasReceipt(i)
    BY <1>1, <1>2 DEF RefreshInv, Executors, ExShape
  <1> QED
    BY <1>1, <1>2, <1>3, ResultInv

\* The already-current result.
LEMMA NoEffectStep ==
  ASSUME RefreshInv, NEW p \in Proc, apply_no_effect(p)
  PROVE  RefreshInv'
  <1>0. PICK i : i = ex[p].intent
    OBVIOUS
  <1>1. /\ ex[p].pc = "boundCurrent" /\ Goto(p, "success")
        /\ noEffect' = noEffect \cup {i}
        /\ UNCHANGED spec /\ UNCHANGED intents /\ UNCHANGED attempts
        /\ UNCHANGED receipts
        /\ UNCHANGED launched /\ UNCHANGED live /\ UNCHANGED main /\ UNCHANGED lease
        /\ UNCHANGED green /\ UNCHANGED seen /\ UNCHANGED closer /\ UNCHANGED sched
        /\ UNCHANGED overrun
    BY <1>0 DEF apply_no_effect, At, mainVars, authVars, hostVars
  <1>2. /\ BoundTo(i) /\ i \in Intent /\ intents[i] # NULL /\ intents[i].task \in Task
        /\ launched[intents[i].task] = 0 /\ ex[p].pc \in Working
    BY <1>0, <1>1, WorkerAlone DEF Working, RefreshInv, Executors, ExShape
  <1>3. /\ ex' \in ExType /\ \A q \in Proc \ {p} : ex'[q] = ex[q]
        /\ ex'[p].pc = "success" /\ ex'[p].intent = i /\ ex'[p].serial = ex[p].serial
    BY <1>0, <1>1, GotoEffect DEF RefreshInv, ExType, Pc
  <1>4. \A k : BoundTo(k) <=> BoundTo(k)'
    BY <1>1 DEF BoundTo
  <1>5. RefreshTypeOK'
    BY <1>1, <1>2, <1>3 DEF RefreshInv, RefreshTypeOK, ExType
  <1>6. Sources'
    BY <1>1 DEF RefreshInv, Sources, Target
  <1>7. Results'
    BY ZenonT(30), <1>1, <1>2, <1>4 DEF RefreshInv, Results, HasReceipt, Target
  <1>8. Installs'
    BY <1>1, <1>4 DEF RefreshInv, Installs, Target
  <1>9. Uses'
    BY ZenonT(30), <1>1 DEF RefreshInv, Uses, Ledger, Target, Own
  <1>10. ExShape(ex[p].pc, ex[p].intent)'
    BY <1>1, <1>2, <1>3, <1>4 DEF ExShape, Working
  <1>11. Executors' /\ OneWorker'
    <2>1. OnlyLedger(i) /\ (\A k : HasReceipt(k)' <=> HasReceipt(k)) /\ ex'[p].pc \notin Working
      BY <1>1, <1>3 DEF OnlyLedger, HasReceipt, Working
    <2> QED
      BY <1>0, <1>1, <1>2, <1>3, <1>10, <2>1, WorkerMoves
  <1>12. Ordered'
    <2>1. InOrder(p)'
      BY <1>1, <1>3 DEF InOrder, RefreshInv, Ordered
    <2> QED
      BY <1>1, <1>3, <2>1, OrderedMove
  <1> QED
    BY <1>5, <1>6, <1>7, <1>8, <1>9, <1>11, <1>12 DEF RefreshInv

\* The installer's own boundary: the one launch of the authority, or an unclear
\* result without effect.
LEMMA BoundaryStep ==
  ASSUME RefreshInv, NEW p \in Proc, apply_boundary(p)
  PROVE  RefreshInv'
  <1>0. PICK i : i = ex[p].intent
    OBVIOUS
  <1>1. CASE WriteResult(i, "unclear") /\ Done(p) /\ UNCHANGED launched
    BY <1>0, <1>1, ResultInv DEF apply_boundary, At, StillVars
  <1>2. CASE ~(WriteResult(i, "unclear") /\ Done(p) /\ UNCHANGED launched)
    <2>1. /\ ex[p].pc = "prepared" /\ InstallAuthorised(p) /\ Goto(p, "installing")
          /\ launched' = [launched EXCEPT ![intents[i].task] = @ + 1]
          /\ UNCHANGED spec /\ UNCHANGED intents /\ UNCHANGED attempts /\ UNCHANGED noEffect
          /\ UNCHANGED receipts /\ UNCHANGED live /\ UNCHANGED main /\ UNCHANGED lease
          /\ UNCHANGED green /\ UNCHANGED seen /\ UNCHANGED closer /\ UNCHANGED sched
          /\ UNCHANGED overrun
      BY <1>0, <1>2 DEF apply_boundary, At, mainVars, authVars
    <2>2. /\ BoundTo(i) /\ i \in Intent /\ i # NULL /\ intents[i] # NULL
          /\ intents[i].task \in Task /\ spec[intents[i].task] # NULL
          /\ ex[p].pc \in Working
          /\ \A k \in noEffect : intents[k].task # intents[i].task
      BY <1>0, <2>1, WorkerAlone DEF Working
    <2>3. launched[intents[i].task] = 0 /\ Ledger(i, "started")
      BY <1>0, <2>1 DEF RefreshInv, Executors, ExShape
    <2>4. /\ launched' \in [Task -> {0, 1}] /\ launched'[intents[i].task] = 1
          /\ \A u \in Task \ {intents[i].task} : launched'[u] = launched[u]
      BY <2>1, <2>2, <2>3 DEF RefreshInv, RefreshTypeOK
    <2>5. /\ ex' \in ExType /\ \A q \in Proc \ {p} : ex'[q] = ex[q]
          /\ ex'[p].pc = "installing" /\ ex'[p].intent = i /\ ex'[p].serial = ex[p].serial
      BY <1>0, <2>1, GotoEffect DEF RefreshInv, ExType, Pc, Working
    <2>6. \A k : (BoundTo(k) <=> BoundTo(k)') /\ (HasReceipt(k)' <=> HasReceipt(k))
      BY <2>1 DEF BoundTo, HasReceipt
    <2>7. ~HasReceipt(i)
      BY <2>3 DEF RefreshInv, Installs, HasReceipt
    <2>8. RefreshTypeOK'
      BY <2>1, <2>4, <2>5 DEF RefreshInv, RefreshTypeOK, ExType
    <2>9. Sources'
      BY <2>1 DEF RefreshInv, Sources, Target
    <2>10. Results'
      <3>1. ASSUME NEW k \in noEffect
            PROVE  BoundTo(k) /\ launched'[intents[k].task] = 0
        <4>1. BoundTo(k) /\ launched[intents[k].task] = 0 /\ intents[k].task # intents[i].task
          BY <2>2 DEF RefreshInv, Results
        <4>2. intents[k].task \in Task
          BY <4>1, IntentType DEF BoundTo, RefreshInv
        <4> QED
          BY <2>4, <4>1, <4>2
      <3> QED
        BY <2>1, <2>6, <3>1 DEF RefreshInv, Results, Target
    <2>11. Installs'
      <3>1. ASSUME NEW r \in receipts
            PROVE  launched'[intents[r.intent].task] = 1
        <4>1. BoundTo(r.intent) /\ launched[intents[r.intent].task] = 1
          BY DEF RefreshInv, Installs
        <4>2. intents[r.intent].task \in Task
          BY <4>1, IntentType DEF BoundTo, RefreshInv
        <4> QED
          BY <2>4, <4>1, <4>2
      <3> QED
        BY <2>1, <2>6, <3>1 DEF RefreshInv, Installs, Target
    <2>12. Uses'
      <3>1. spec[intents[i].task].binding # NULL
        BY <2>2 DEF BoundTo
      <3>2. \A k, st : Ledger(k, st)' <=> Ledger(k, st)
        BY <2>1 DEF Ledger, Target
      <3> QED
        BY ZenonT(30), <2>1, <2>2, <2>4, <3>1, <3>2 DEF RefreshInv, Uses, Own
    <2>13. ExShape(ex[p].pc, ex[p].intent)'
      <3>1. Ledger(i, "started")'
        BY <2>1, <2>3 DEF Ledger, Target
      <3> QED
        BY <2>1, <2>2, <2>4, <2>5, <2>6, <2>7, <3>1 DEF ExShape, Working
    <2>14. Executors' /\ OneWorker'
      <3>1. OnlyLedger(i)
        BY <2>1 DEF OnlyLedger
      <3>2. \A x \in DOMAIN attempts : attempts[x].intent = i => attempts[x].status = "started"
        BY <2>3 DEF RefreshInv, Results, Ledger
      <3> QED
        BY ZenonT(30), <1>0, <2>1, <2>2, <2>4, <2>5, <2>6, <2>13, <3>1, <3>2, WorkerMoves
    <2>15. Ordered'
      <3>1. HoldsRow(p) /\ lease.live
        BY <2>1 DEF InstallAuthorised
      <3>2. ~overrun => live = Target(i).from
        BY <1>0, <2>1, <3>1 DEF RefreshInv, Ordered
      <3>3. ex[p].serial <= lease.serial
        BY <2>1 DEF RefreshInv, Ordered
      <3>4. InOrder(p)'
        BY ZenonT(30), <1>0, <2>1, <2>5, <3>1, <3>2, <3>3 DEF InOrder, HoldsRow, Target
      <3> QED
        BY <2>1, <2>5, <3>4, OrderedMove
    <2> QED
      BY <2>8, <2>9, <2>10, <2>11, <2>12, <2>14, <2>15 DEF RefreshInv
  <1> QED
    BY <1>1, <1>2

\* The installer switches the runtime: the one receipt of its intent, from the
\* manifest the intent was prepared for unless a lease ran out under an installer.
LEMMA InstallStep ==
  ASSUME RefreshInv, NEW p \in Proc, apply_install(p)
  PROVE  RefreshInv'
  <1>0. PICK i : i = ex[p].intent
    OBVIOUS
  <1>1. PICK gen : gen = live.gen + 1
    OBVIOUS
  <1> DEFINE r0 == [intent |-> i, gen |-> gen, from |-> live]
  <1>2. /\ ex[p].pc = "installing" /\ Goto(p, "installed")
        /\ live' = [commit |-> Target(i).main, gen |-> gen] /\ sched' = "converged"
        /\ receipts' = receipts \cup {r0}
        /\ UNCHANGED spec /\ UNCHANGED intents /\ UNCHANGED attempts /\ UNCHANGED noEffect
        /\ UNCHANGED launched /\ UNCHANGED main /\ UNCHANGED lease
        /\ UNCHANGED green /\ UNCHANGED seen /\ UNCHANGED closer /\ UNCHANGED overrun
    BY <1>0, <1>1 DEF apply_install, At, mainVars, authVars, ledgerVars
  <1>3. /\ BoundTo(i) /\ i \in Intent /\ intents[i] # NULL /\ intents[i].task \in Task
        /\ ex[p].pc \in Working /\ Target(i) \in TargetPayload
    BY <1>0, <1>2, WorkerAlone DEF Working
  <1>4. launched[intents[i].task] = 1 /\ Ledger(i, "started") /\ ~HasReceipt(i)
    BY <1>0, <1>2 DEF RefreshInv, Executors, ExShape
  <1>5. gen \in Nat /\ live \in Manifest
    <2>1. live \in Manifest
      BY DEF RefreshInv, RefreshTypeOK
    <2> QED
      BY <1>1, <2>1 DEF Manifest
  <1>6. r0 \in Receipt /\ r0.intent = i /\ r0.from = live
    BY <1>3, <1>5 DEF Receipt
  <1> HIDE DEF r0
  <1>7. /\ live' \in Manifest /\ live'.commit = Target(i).main
        /\ receipts' \subseteq Receipt
    <2>1. Target(i).main \in Nat
      BY <1>3 DEF TargetPayload
    <2>2. live' \in Manifest /\ live'.commit = Target(i).main
      BY <1>2, <1>5, <2>1 DEF Manifest
    <2>3. receipts' \subseteq Receipt
      BY <1>2, <1>6 DEF RefreshInv, RefreshTypeOK
    <2> QED
      BY <2>2, <2>3
  <1>8. /\ ex' \in ExType /\ \A q \in Proc \ {p} : ex'[q] = ex[q]
        /\ ex'[p].pc = "installed" /\ ex'[p].intent = i /\ ex'[p].serial = ex[p].serial
    BY <1>0, <1>2, GotoEffect DEF RefreshInv, ExType, Pc, Working
  <1>9. /\ \A k : BoundTo(k) <=> BoundTo(k)'
        /\ \A k : HasReceipt(k)' <=> HasReceipt(k) \/ k = i
    <2>1. \A k : BoundTo(k) <=> BoundTo(k)'
      BY <1>2 DEF BoundTo
    <2>2. \A k : HasReceipt(k)' <=> HasReceipt(k) \/ k = i
      BY <1>2, <1>6, ZenonT(30) DEF HasReceipt
    <2> QED
      BY <2>1, <2>2
  <1>10. RefreshTypeOK'
    BY <1>2, <1>7, <1>8 DEF RefreshInv, RefreshTypeOK, ExType
  <1>11. Sources'
    BY <1>2, <1>3, <1>7 DEF RefreshInv, Sources, Target
  <1>12. Results'
    BY <1>2, <1>9 DEF RefreshInv, Results, Target
  <1>13. Installs'
    <2>1. ASSUME NEW r \in receipts'
          PROVE  /\ BoundTo(r.intent) /\ launched[intents[r.intent].task] = 1
                 /\ Target(r.intent) \in DOMAIN attempts
                 /\ attempts[Target(r.intent)].intent = r.intent
      <3>1. CASE r \in receipts
        BY <3>1 DEF RefreshInv, Installs
      <3>2. CASE r = r0
        BY <1>3, <1>4, <1>6, <3>2 DEF Ledger
      <3> QED
        BY <1>2, <3>1, <3>2
    <2>2. ASSUME NEW r \in receipts', NEW u \in receipts', r.intent = u.intent
          PROVE  r = u
      BY <1>2, <1>4, <1>6, <2>2 DEF RefreshInv, Installs, HasReceipt
    <2> QED
      BY <1>2, <1>9, <2>1, <2>2 DEF Installs, Target
  <1>14. Uses'
    BY ZenonT(30), <1>2 DEF RefreshInv, Uses, Ledger, Target, Own
  <1>15. ExShape(ex[p].pc, ex[p].intent)'
    <2>1. Ledger(i, "started")'
      BY <1>2, <1>4 DEF Ledger, Target
    <2> QED
      BY <1>2, <1>3, <1>4, <1>8, <1>9, <2>1 DEF ExShape, Working
  <1>16. Executors' /\ OneWorker'
    <2>1. OnlyLedger(i)
      BY <1>2 DEF OnlyLedger
    <2>2. \A x \in DOMAIN attempts : attempts[x].intent = i => attempts[x].status = "started"
      BY <1>4 DEF RefreshInv, Results, Ledger
    <2> QED
      BY <1>0, <1>2, <1>3, <1>8, <1>9, <1>15, <2>1, <2>2, WorkerMoves
  <1>17. Ordered'
    <2>1. ~overrun => HoldsRow(p) /\ lease.live /\ live = Target(i).from
      BY <1>0, <1>2 DEF RefreshInv, Ordered
    <2>2. ASSUME NEW q \in Proc PROVE InOrder(q)'
      <3>1. CASE q = p
        BY <1>2, <1>8, <3>1 DEF InOrder, RefreshInv, Ordered
      <3>2. CASE q # p
        <4>1. ex'[q] = ex[q] /\ (ex[q].pc # "idle" => ex[q].serial <= lease.serial)
          BY <1>8, <3>2 DEF RefreshInv, Ordered
        <4>2. ~overrun => ~HoldsRow(q)
          BY <2>1, <3>2 DEF HoldsRow
        <4>3. ~overrun => ex[q].pc # "installing"
          BY <4>2 DEF RefreshInv, Ordered
        <4> QED
          BY <1>2, <4>1, <4>2, <4>3 DEF InOrder, HoldsRow
      <3> QED
        BY <3>1, <3>2
    <2>3. ~overrun => \A r \in receipts' : r.from = Target(r.intent).from
      BY <1>2, <1>6, <2>1 DEF RefreshInv, Ordered
    <2> QED
      BY <1>2, <2>2, <2>3 DEF Ordered, InOrder, Target
  <1> QED
    BY <1>10, <1>11, <1>12, <1>13, <1>14, <1>16, <1>17 DEF RefreshInv

\* A lawful write of an executor that goes on or ends.
LEMMA MoveInv ==
  ASSUME RefreshInv, NEW t \in Task, NEW n, Writes(t, n), Lawful(t, n),
         NEW p \in Proc, ex' \in ExType, \A q \in Proc \ {p} : ex'[q] = ex[q],
         UNCHANGED <<intents, attempts, noEffect, receipts, launched, main, green, live, seen,
                     lease, overrun, sched, closer>>,
         ex'[p].pc # "idle" =>
           /\ ExShape(ex[p].pc, ex[p].intent)' /\ InOrder(p)'
           /\ \A q \in Proc : ~WorksOn(q, t)
           /\ \A u : WorksOn(p, u)' => u = t
           /\ \A k \in noEffect : intents[k].task # t
           /\ \A x \in DOMAIN attempts : intents[attempts[x].intent].task # t
  PROVE  RefreshInv'
  <1>0. /\ UNCHANGED intents /\ UNCHANGED attempts /\ UNCHANGED noEffect
        /\ UNCHANGED receipts /\ UNCHANGED launched
        /\ UNCHANGED <<BookVars, main, green, live, seen>>
    BY DEF BookVars
  <1>1. Sources' /\ Results' /\ Installs' /\ Uses' /\ \A i : BoundTo(i) => BoundTo(i)'
    BY <1>0, WriteKeeps
  <1>2. RefreshTypeOK'
    BY DEF RefreshInv, RefreshTypeOK, ExType, Writes
  <1>3. ExShape(ex[p].pc, ex[p].intent)'
    <2>1. CASE ex'[p].pc = "idle"
      BY <2>1 DEF ExShape, Working
    <2> QED
      BY <2>1
  <1>4. Executors'
    <2>1. ASSUME NEW q \in Proc \ {p} PROVE ExShape(ex[q].pc, ex[q].intent)'
      <3>1. ExShape(ex[q].pc, ex[q].intent) /\ ex'[q] = ex[q]
        BY DEF RefreshInv, Executors
      <3>2. /\ \A k, st : Ledger(k, st) => Ledger(k, st)'
            /\ \A k : HasReceipt(k)' <=> HasReceipt(k)
        BY <1>0 DEF Ledger, Target, HasReceipt
      <3> QED
        BY <1>0, <1>1, <3>1, <3>2 DEF ExShape
    <2> QED
      BY <1>3, <2>1 DEF Executors
  <1>5. \A q \in Proc \ {p} : \A u : WorksOn(q, u)' <=> WorksOn(q, u)
    BY <1>0 DEF WorksOn
  <1>6. OneWorker'
    <2>1. CASE ex'[p].pc = "idle"
      <3>1. \A u : ~WorksOn(p, u)'
        BY <2>1 DEF WorksOn, Working
      <3>2. \A q \in Proc : \A u : WorksOn(q, u)' => WorksOn(q, u)
        BY <1>5, <3>1
      <3>3. \A q, v \in Proc : \A u \in Task : WorksOn(q, u)' /\ WorksOn(v, u)' => q = v
        BY <3>2 DEF RefreshInv, OneWorker
      <3>4. ASSUME NEW q \in Proc, NEW u, WorksOn(q, u)'
            PROVE  /\ \A k \in noEffect : u # intents[k].task
                   /\ \A x \in DOMAIN attempts : attempts[x].status # "started" =>
                        u # intents[attempts[x].intent].task
        BY ZenonT(100), <3>2, <3>4 DEF RefreshInv, OneWorker
      <3> QED
        BY ZenonT(30), <1>0, <3>3, <3>4 DEF OneWorker
    <2>2. CASE ex'[p].pc # "idle"
      <3>1. ASSUME NEW q \in Proc, NEW v \in Proc, NEW u \in Task, WorksOn(q, u)', WorksOn(v, u)'
            PROVE  q = v
        BY ZenonT(100), <1>5, <2>2, <3>1 DEF RefreshInv, OneWorker
      <3>2. ASSUME NEW q \in Proc, NEW k \in noEffect PROVE ~WorksOn(q, intents[k].task)'
        <4>1. CASE q = p
          BY ZenonT(30), <1>0, <2>2, <4>1 DEF WorksOn
        <4>2. CASE q # p
          BY ZenonT(100), <1>0, <4>2 DEF RefreshInv, OneWorker, WorksOn
        <4> QED
          BY <4>1, <4>2
      <3>3. ASSUME NEW q \in Proc, NEW x \in DOMAIN attempts, attempts[x].status # "started"
            PROVE  ~WorksOn(q, intents[attempts[x].intent].task)'
        <4>1. CASE q = p
          BY ZenonT(30), <1>0, <2>2, <4>1 DEF WorksOn
        <4>2. CASE q # p
          BY ZenonT(100), <1>0, <3>3, <4>2 DEF RefreshInv, OneWorker, WorksOn
        <4> QED
          BY <4>1, <4>2
      <3> QED
        BY <1>0, <3>1, <3>2, <3>3 DEF OneWorker
    <2> QED
      BY <2>1, <2>2
  <1>7. InOrder(p)'
    BY DEF InOrder
  <1>8. Ordered'
    BY <1>0, <1>7, OrderedMove
  <1> QED
    BY <1>1, <1>2, <1>4, <1>6, <1>8 DEF RefreshInv

\* The consumption that ends an attempt with a result.
LEMMA ConsumeStep ==
  ASSUME RefreshInv, NEW p \in Proc, apply_consume(p)
  PROVE  RefreshInv'
  <1>0. PICK i : i = ex[p].intent
    OBVIOUS
  <1>1. /\ ex[p].pc = "success" /\ Done(p)
        /\ (IF CanConsume(i) THEN consume_runtime_refresh_authority(i) ELSE UNCHANGED spec)
        /\ UNCHANGED <<mainVars, lease, intents, expired, seen, closer, records,
                       attempts, noEffect, hostVars>>
    BY <1>0 DEF apply_consume, At
  <1>2. i \in Intent /\ intents[i] # NULL /\ (i \in noEffect \/ Ledger(i, "deployed"))
    BY <1>0, <1>1 DEF RefreshInv, Executors, ExShape
  <1>3. CASE ~CanConsume(i)
    <2>1. UNCHANGED <<mainVars, lease, authVars, attempts, noEffect, hostVars>>
      BY <1>1, <1>3 DEF authVars
    <2> QED
      BY <1>1, <2>1, EndInv
  <1>4. CASE CanConsume(i)
    <2>1. PICK n : Writes(intents[i].task, n) /\ Lawful(intents[i].task, n)
      BY <1>1, <1>2, <1>4, ConsumeWrites
    <2>2. /\ ex' \in ExType /\ ex'[p].pc = "idle" /\ \A q \in Proc \ {p} : ex'[q] = ex[q]
      BY <1>1, DoneEffect DEF RefreshInv, ExType
    <2>3. intents[i].task \in Task
      BY <1>2, IntentType DEF RefreshInv
    <2> QED
      BY <1>1, <2>1, <2>2, <2>3, MoveInv DEF hostVars, mainVars
  <1> QED
    BY <1>3, <1>4

\* The compare-and-swap that binds an authority, or its loss.
LEMMA BindStep ==
  ASSUME RefreshInv, NEW p \in Proc, apply_bind(p)
  PROVE  RefreshInv'
  <1>0. PICK i : i = ex[p].intent
    OBVIOUS
  <1>1. /\ ex[p].pc \in {"checked", "current"}
        /\ UNCHANGED <<mainVars, lease, intents, expired, seen, closer, records,
                       ledgerVars, hostVars>>
    BY <1>0 DEF apply_bind
  <1>2. i \in Intent /\ intents[i] # NULL /\ RefreshTypeOK
    BY <1>0, <1>1 DEF RefreshInv, Executors, ExShape
  <1>3. CASE ~CanBind(i)
    <2>1. Done(p) /\ UNCHANGED spec
      BY <1>0, <1>3 DEF apply_bind
    <2>2. UNCHANGED <<mainVars, lease, authVars, attempts, noEffect, hostVars>>
      BY <1>1, <2>1 DEF authVars, ledgerVars
    <2> QED
      BY <2>1, <2>2, EndInv
  <1>4. CASE CanBind(i)
    <2> DEFINE t == intents[i].task
               s == [spec[t] EXCEPT !.binding = i]
    <2>1. t \in Task /\ spec[t] \in Authority /\ spec[t] # NULL
      BY <1>2, IntentType DEF RefreshInv, RefreshTypeOK, Sources
    <2>2. spec[t].state = "ready" /\ spec[t].binding = NULL /\ spec[t].consumption = NULL
      BY <1>4 DEF CanBind, Unbound, Usable, _validate_runtime_refresh_authority_contract,
                  _validated_authority_target_binding, _validated_authority_consumption
    <2>3. /\ s \in Authority /\ s.state = "ready" /\ s.binding = i /\ s.consumption = NULL
          /\ s.source = spec[t].source
      BY <1>2, <2>1, <2>2 DEF Authority
    <2>4. Put(t, s) /\ Goto(p, IF At(p, "checked") THEN "bound" ELSE "boundCurrent")
      BY <1>0, <1>4 DEF apply_bind, bind_runtime_refresh_authority
    <2> HIDE DEF s
    <2>5. PICK n \in Authority :
            /\ Writes(t, n) /\ n.state = "ready" /\ n.source = spec[t].source
            /\ n.binding = i /\ n.consumption = NULL
      BY <1>2, <2>1, <2>3, <2>4, PutWrites
    <2>6. Lawful(t, n)
      BY <1>2, <2>2, <2>5 DEF Lawful, Own
    <2>7. PICK l \in {"bound", "boundCurrent"} :
            /\ Goto(p, l) /\ (l = "bound" => ex[p].pc = "checked")
      <3>1. CASE At(p, "checked")
        BY <2>4, <3>1 DEF At
      <3>2. CASE ~At(p, "checked")
        BY <2>4, <3>2
      <3> QED
        BY <3>1, <3>2
    <2>8. /\ ex' \in ExType /\ ex'[p].pc = l /\ ex'[p].intent = i
          /\ ex'[p].serial = ex[p].serial /\ \A q \in Proc \ {p} : ex'[q] = ex[q]
      BY <1>0, <1>2, <2>7, GotoEffect DEF ExType, Pc, Working
    <2>9. launched[t] = 0
      BY <2>1, <2>2 DEF RefreshInv, Uses
    <2>10. BoundTo(i)'
      BY <1>1, <1>2, <2>5 DEF BoundTo, Writes
    <2>11. ExShape(ex[p].pc, ex[p].intent)'
      BY <1>1, <1>2, <2>8, <2>9, <2>10 DEF ExShape, Working, hostVars
    <2>12. \A q \in Proc : ~WorksOn(q, t)
      <3> SUFFICES ASSUME NEW q \in Proc, WorksOn(q, t) PROVE FALSE
        OBVIOUS
      <3>1. BoundTo(ex[q].intent) /\ intents[ex[q].intent].task = t /\ ex[q].intent # NULL
        BY WorkerAlone DEF WorksOn
      <3> QED
        BY <2>2, <3>1 DEF BoundTo
    <2>13. \A k \in noEffect : intents[k].task # t
      BY ZenonT(100), <2>2, RefreshAssumption DEF RefreshInv, Results, BoundTo
    <2>15. \A x \in DOMAIN attempts : intents[attempts[x].intent].task # t
      BY <2>2, RefreshAssumption DEF RefreshInv, Results, BoundTo
    <2>16. InOrder(p)'
      <3>1. InOrder(p)
        BY DEF RefreshInv, Ordered, InOrder
      <3> QED
        BY ZenonT(30), <1>0, <1>1, <2>7, <2>8, <3>1 DEF InOrder, HoldsRow, Target, hostVars
    <2>17. WorksOn(p, t)' /\ \A u : WorksOn(p, u)' => u = t
      BY <1>1, <2>8 DEF WorksOn, Working
    <2> QED
      BY <1>1, <2>1, <2>5, <2>6, <2>8, <2>11, <2>12, <2>13, <2>15, <2>16, <2>17,
         MoveInv
      DEF hostVars, mainVars, ledgerVars
  <1> QED
    BY <1>3, <1>4

-----------------------------------------------------------------------------

\* Nothing has been observed, authorised or installed yet.
LEMMA RefreshInitial == RRInit => RefreshInv
  <1> SUFFICES ASSUME RRInit PROVE RefreshInv
    OBVIOUS
  <1>1. /\ receipts = {} /\ seen = {} /\ noEffect = {}
        /\ \A x : x \notin DOMAIN attempts
    BY DEF RRInit
  <1>2. /\ spec = [t \in Task |-> NULL] /\ intents = [k \in Intent |-> NULL]
        /\ launched = [t \in Task |-> 0] /\ ex = [p \in Proc |-> Idle]
        /\ live = [commit |-> 0, gen |-> 0] /\ main = 1
    BY DEF RRInit
  <1>3. \A p \in Proc : ex[p].pc = "idle"
    BY <1>2 DEF Idle
  <1>4. RefreshTypeOK
    <2>1. attempts \in [DOMAIN attempts -> Attempt]
      BY DEF RRInit
    <2>2. ex \in [Proc -> [pc : Pc, intent : Intent \cup {NULL}, serial : Nat]]
      BY <1>2 DEF Idle, Pc
    <2>3. lease \in [holder : Proc \cup {NULL}, live : BOOLEAN, serial : Nat]
      BY DEF RRInit
    <2>4. /\ live \in Manifest /\ sched \in {"converged", "drift"} /\ closer = NULL
          /\ overrun \in BOOLEAN
      BY DEF RRInit, Manifest
    <2> QED
      BY <1>1, <1>2, <2>1, <2>2, <2>3, <2>4 DEF RefreshTypeOK
  <1>5. Sources /\ Results /\ Installs /\ Uses
    BY <1>1, <1>2 DEF Sources, Results, Installs, Uses
  <1>6. Executors /\ OneWorker /\ Ordered
    BY <1>1, <1>3 DEF Executors, ExShape, OneWorker, WorksOn, Ordered, Working
  <1> QED
    BY <1>4, <1>5, <1>6 DEF RefreshInv

\* Every step of an executor, a closeout, the lease store or the world keeps it.
LEMMA RefreshStep == RefreshInv /\ [RRNext]_rrVars => RefreshInv'
  <1> SUFFICES ASSUME RefreshInv, [RRNext]_rrVars PROVE RefreshInv'
    OBVIOUS
  <1>1. CASE \/ observe \/ checks_pass \/ verifier_runs \/ scheduler_touched
             \/ \E ts \in SUBSET Protected : advance_main(ts)
             \/ UNCHANGED rrVars
    BY <1>1, QuietSteps
  <1>2. CASE lease_runs_out
    BY <1>2, LeaseStep
  <1>3. CASE closeout_unused_commit
    BY <1>3, UnusedStep
  <1>4. ASSUME NEW t \in Task,
               \/ register(t)
               \/ \E source \in 0..MaxMain : adopt_runtime_refresh_authority(t, source)
               \/ activate_runtime_refresh_authority(t) \/ closeout_unused_begin(t)
        PROVE  RefreshInv'
    BY <1>4, OfferStep, QuietSteps
  <1>5. ASSUME NEW i \in Intent,
               \/ expire(i) \/ closeout_runtime_refresh_authority(i)
               \/ reconcile_after_effect_unclear(i)
               \/ \E t \in Task, target \in seen : prepare_intent(i, t, target)
               \/ \E j \in Intent : supersede_unclear(i, j)
        PROVE  RefreshInv'
    <2>1. CASE expire(i) \/ reconcile_after_effect_unclear(i)
      BY <2>1, QuietSteps
    <2>2. CASE closeout_runtime_refresh_authority(i)
      BY <2>2, CloseoutStep
    <2>3. ASSUME NEW t \in Task, NEW target \in seen, prepare_intent(i, t, target)
          PROVE  RefreshInv'
      BY <2>3, PrepareIntentStep
    <2>4. ASSUME NEW j \in Intent, supersede_unclear(i, j) PROVE RefreshInv'
      BY <2>4, SupersedeStep
    <2> QED
      BY <1>5, <2>1, <2>2, <2>3, <2>4
  <1>6. ASSUME NEW p \in Proc,
               \/ acquire_lease(p) \/ release_lease(p) \/ crash(p) \/ apply_step(p)
               \/ \E i \in Intent : apply_reused(p, i) \/ apply_check(p, i)
        PROVE  RefreshInv'
    <2>1. CASE acquire_lease(p) \/ release_lease(p)
      BY <2>1, LeaseStep
    <2>2. CASE crash(p)
      BY <2>2, EndInv DEF crash, ledgerVars
    <2>3. CASE apply_step(p)
      BY <2>3, BindStep, NoEffectStep, StartStep, PrepareStep, BoundaryStep, InstallStep,
         InstallFailedStep, ResultStep, ConsumeStep DEF apply_step
    <2>4. ASSUME NEW i \in Intent, apply_reused(p, i) \/ apply_check(p, i) PROVE RefreshInv'
      BY <2>4, ReusedStep, CheckStep
    <2> QED
      BY <1>6, <2>1, <2>2, <2>3, <2>4
  <1> QED
    BY <1>1, <1>2, <1>3, <1>4, <1>5, <1>6 DEF RRNext

\* The inductive invariant holds of every behaviour.
THEOREM RefreshSafe == RRSpec => []RefreshInv
  BY RefreshInitial, RefreshStep, PTL DEF RRSpec

\* What the invariant says of every deployed result, consumption and install.
LEMMA RefreshAccounts == RefreshInv => SuccessAccounted
  <1> SUFFICES ASSUME RefreshInv PROVE SuccessAccounted
    OBVIOUS
  <1>0. NULL \notin Intent
    BY RefreshAssumption
  <1>1. InstallsInOrder
    BY DEF RefreshInv, Ordered, Installs, BoundTo, Sources, InstallsInOrder
  <1>2. ASSUME NEW i \in Intent, intents[i] # NULL, Deployed(i)
        PROVE  LET s == spec[intents[i].task]
               IN /\ s.binding = i /\ s.consumption \in {NULL, i}
                  /\ s.state \in {"ready", "verified"}
                  /\ EffectHistory(intents[i].task) = {i}
    <2>1. Ledger(i, "deployed") /\ i # NULL
      BY <1>0, <1>2 DEF Deployed, ResultOf, Ledger
    <2>2. intents[i].task \in Task /\ spec[intents[i].task].binding = i
      BY <1>2, <2>1, LedgerBound, IntentType DEF RefreshInv, BoundTo
    <2>3. spec[intents[i].task] \in Authority /\ spec[intents[i].task] # NULL
      BY <1>2, <2>2 DEF RefreshInv, RefreshTypeOK, Sources
    <2>4. ~Ledger(i, "unclear")
      BY <2>1 DEF Ledger
    <2>5. /\ spec[intents[i].task].consumption \in {NULL, i}
          /\ spec[intents[i].task].state \notin {"planned", "superseded"}
      BY <2>1, <2>2, <2>3, <2>4 DEF RefreshInv, Uses
    <2>6. spec[intents[i].task].state \in {"ready", "verified"}
      BY <2>3, <2>5 DEF Authority
    <2>7. i \in EffectHistory(intents[i].task)
      BY <1>2, <2>1 DEF EffectHistory, IntentsOf, Ledger
    <2>8. ASSUME NEW k \in EffectHistory(intents[i].task) PROVE k = i
      <3>1. intents[k].task = intents[i].task /\ Ledger(k, attempts[Target(k)].status)
        BY DEF EffectHistory, IntentsOf, Ledger
      <3>2. BoundTo(k)
        BY <3>1, LedgerBound
      <3> QED
        BY <2>2, <3>1, <3>2 DEF BoundTo
    <2> QED
      BY <2>2, <2>5, <2>6, <2>7, <2>8
  <1>3. ASSUME NEW t \in Task, spec[t] # NULL, spec[t].consumption # NULL
        PROVE  LET i == spec[t].consumption
               IN /\ spec[t].binding = i
                  /\ \/ i \in noEffect /\ launched[t] = 0
                     \/ Deployed(i) /\ \E r \in receipts : r.intent = i
    <2>1. PICK i : i = spec[t].consumption
      OBVIOUS
    <2>2. spec[t].binding = i /\ (i \in noEffect \/ Ledger(i, "deployed")) /\ Own(t, i)
      BY <1>3, <2>1 DEF RefreshInv, Uses
    <2>3. CASE i \in noEffect
      <3>1. launched[t] = 0
        BY <2>2, <2>3 DEF RefreshInv, Results, Own
      <3> QED
        BY <2>1, <2>2, <2>3, <3>1
    <2>4. CASE Ledger(i, "deployed")
      <3>1. Deployed(i)
        BY <2>4 DEF Deployed, ResultOf, Ledger
      <3>2. HasReceipt(i)
        BY <2>4 DEF RefreshInv, Results, Ledger
      <3> QED
        BY <2>1, <2>2, <3>1, <3>2 DEF HasReceipt
    <2> QED
      BY <2>2, <2>3, <2>4
  <1>4. \A r, s \in receipts : Target(r.intent) = Target(s.intent) => r = s
    BY DEF RefreshInv, Installs
  <1> QED
    BY <1>1, <1>2, <1>3, <1>4 DEF SuccessAccounted

\* A deployed result stays with the authority bound to it and has no second effect,
\* every consumption rests on a result, no target is installed twice, and an install
\* replaces the manifest of its intent as long as no lease ran out under an
\* installer: for any number of authorities, executors and crashes.
THEOREM SuccessAccountedHolds == RRSpec => []SuccessAccounted
  BY RefreshSafe, RefreshAccounts, PTL

-----------------------------------------------------------------------------

\* A change of one authority that moves its stage is a move of SingleUse.
LEMMA StageMove ==
  ASSUME NEW t \in Task, NEW from, NEW to, AuthorityStage(t) \in from,
         AuthorityStage(t)' = to, \A u \in Task \ {t} : spec'[u] = spec[u],
         UNCHANGED launched
  PROVE  SU!Move(t, from, to)
  <1>1. \A u \in Task \ {t} : AuthorityStage(u)' = AuthorityStage(u)
    BY DEF AuthorityStage
  <1> HIDE DEF AuthorityStage
  <1>2. [u \in Task |-> AuthorityStage(u)'] =
          [[u \in Task |-> AuthorityStage(u)] EXCEPT ![t] = to]
    BY <1>1
  <1> QED
    BY <1>2 DEF SU!Move

\* The stage of an authority, read off its record.
LEMMA Stages ==
  ASSUME NEW t \in Task
  PROVE  /\ spec[t] = NULL => AuthorityStage(t) = "none"
         /\ spec[t] # NULL /\ spec[t].closeout = NULL =>
              /\ spec[t].state = "planned" => AuthorityStage(t) = "planned"
              /\ spec[t].state = "ready" =>
                   /\ spec[t].consumption # NULL => AuthorityStage(t) = "consumed"
                   /\ spec[t].consumption = NULL /\ spec[t].binding # NULL =>
                        AuthorityStage(t) = "bound"
                   /\ spec[t].consumption = NULL /\ spec[t].binding = NULL =>
                        AuthorityStage(t) = "ready"
  <1>1. spec[t].closeout = NULL => spec[t].closeout # "unused" /\ spec[t].closeout # "unclear"
    BY RefreshNullAssumption
  <1> QED
    BY <1>1 DEF AuthorityStage

\* The stage that a write leaves an authority in.
LEMMA StagesNext ==
  ASSUME NEW t \in Task, NEW n, Writes(t, n)
  PROVE  /\ n.closeout = NULL =>
              /\ n.state = "planned" => AuthorityStage(t)' = "planned"
              /\ n.state = "ready" =>
                   /\ n.consumption # NULL => AuthorityStage(t)' = "consumed"
                   /\ n.consumption = NULL /\ n.binding # NULL => AuthorityStage(t)' = "bound"
                   /\ n.consumption = NULL /\ n.binding = NULL => AuthorityStage(t)' = "ready"
         /\ n.closeout = "verified" /\ n.state = "verified" => AuthorityStage(t)' = "verified"
         /\ n.closeout = "unused" /\ n.state = "superseded" => AuthorityStage(t)' = "retired"
         /\ n.closeout = "unclear" /\ n.state = "superseded" => AuthorityStage(t)' = "superseded"
  <1>1. spec'[t] = n /\ spec'[t] # NULL
    BY DEF Writes
  <1>2. n.closeout = NULL => n.closeout # "unused" /\ n.closeout # "unclear"
    BY RefreshNullAssumption
  <1> QED
    BY <1>1, <1>2 DEF AuthorityStage

\* A registration, adoption or activation offers the authority.
LEMMA OfferMove ==
  ASSUME RefreshInv, NEW t \in Task,
         \/ register(t)
         \/ \E source \in 0..MaxMain : adopt_runtime_refresh_authority(t, source)
         \/ activate_runtime_refresh_authority(t)
  PROVE  SU!Offer(t)
  <1>0. UNCHANGED launched
    BY DEF register, adopt_runtime_refresh_authority, activate_runtime_refresh_authority, hostVars
  <1>1. ASSUME NEW st \in {"planned", "ready"}, NEW source \in Nat, spec[t] = NULL,
               spec' = [spec EXCEPT ![t] = Fresh(st, source)]
        PROVE  SU!Offer(t)
    <2>1. /\ Fresh(st, source) \in Authority /\ Fresh(st, source).state = st
          /\ Fresh(st, source).binding = NULL /\ Fresh(st, source).consumption = NULL
          /\ Fresh(st, source).closeout = NULL
      BY <1>1 DEF Fresh, Authority
    <2>2. Writes(t, Fresh(st, source))
      BY <1>1, <2>1, RefreshNullAssumption DEF Writes, RefreshInv, RefreshTypeOK
    <2>3. AuthorityStage(t) = "none" /\ AuthorityStage(t)' = st
      BY <1>1, <2>1, <2>2, Stages, StagesNext
    <2>4. \A u \in Task \ {t} : spec'[u] = spec[u]
      BY <2>2 DEF Writes
    <2>5. SU!Move(t, {"none"}, st) /\ SU!Move(t, {"none", "planned"}, st)
      BY <1>0, <2>3, <2>4, StageMove
    <2> QED
      BY <2>5 DEF SU!Offer
  <1>2. CASE register(t)
    BY <1>1, <1>2 DEF register
  <1>3. ASSUME NEW source \in 0..MaxMain, adopt_runtime_refresh_authority(t, source)
        PROVE  SU!Offer(t)
    <2>1. source \in Nat
      BY RefreshAssumption
    <2> QED
      BY <1>1, <1>3, <2>1 DEF adopt_runtime_refresh_authority
  <1>4. CASE activate_runtime_refresh_authority(t)
    <2> DEFINE s == [[spec[t] EXCEPT !.state = "ready"] EXCEPT !.pin = _target_payload]
    <2>1. spec[t] # NULL /\ spec[t].state = "planned" /\ spec[t] \in Authority
      BY <1>4 DEF activate_runtime_refresh_authority, CanActivate, RefreshInv, RefreshTypeOK
    <2>2. spec[t].binding = NULL /\ spec[t].consumption = NULL /\ spec[t].closeout = NULL
      BY <2>1 DEF RefreshInv, Uses
    <2>3. _target_payload \in TargetPayload
      BY DEF _target_payload, TargetPayload, load_manifest, scheduler_target_state, RefreshInv,
         RefreshTypeOK
    <2>4. /\ s \in Authority /\ s.state = "ready" /\ s.binding = NULL /\ s.consumption = NULL
          /\ s.closeout = NULL
      BY <2>1, <2>2, <2>3 DEF Authority
    <2>5. Put(t, s)
      BY <1>4 DEF activate_runtime_refresh_authority, _protected_publication_activation_evidence,
         _expected_protected_publication_activation_spec
    <2> HIDE DEF s
    <2>6. PICK n \in Authority :
            /\ Writes(t, n) /\ n.state = "ready" /\ n.binding = NULL
            /\ n.consumption = NULL /\ n.closeout = NULL
      BY <2>1, <2>4, <2>5, PutWrites DEF RefreshInv
    <2>7. AuthorityStage(t) = "planned" /\ AuthorityStage(t)' = "ready"
      BY <2>1, <2>2, <2>6, Stages, StagesNext
    <2>8. SU!Move(t, {"none", "planned"}, "ready")
      BY <1>0, <2>6, <2>7, StageMove DEF Writes
    <2> QED
      BY <2>8 DEF SU!Offer
  <1> QED
    BY <1>2, <1>3, <1>4

\* A successful compare-and-swap binds the authority.
LEMMA BindMove ==
  ASSUME RefreshInv, NEW i \in Intent, intents[i] # NULL, NEW t, t = intents[i].task, CanBind(i),
         bind_runtime_refresh_authority(i), UNCHANGED launched
  PROVE  SU!Bind(t)
  <1> DEFINE s == [spec[t] EXCEPT !.binding = i]
  <1>1. t \in Task /\ spec[t] \in Authority /\ spec[t] # NULL /\ i # NULL
    BY IntentType, RefreshAssumption DEF RefreshInv, RefreshTypeOK, Sources
  <1>2. /\ spec[t].state = "ready" /\ spec[t].binding = NULL /\ spec[t].consumption = NULL
        /\ spec[t].closeout = NULL
    BY DEF CanBind, Unbound, Usable, _validate_runtime_refresh_authority_contract,
           _validated_authority_target_binding, _validated_authority_consumption
  <1>3. /\ s \in Authority /\ s.state = "ready" /\ s.binding = i /\ s.consumption = NULL
        /\ s.closeout = NULL
    BY <1>1, <1>2 DEF Authority
  <1>4. Put(t, s)
    BY DEF bind_runtime_refresh_authority
  <1> HIDE DEF s
  <1>5. PICK n \in Authority :
          /\ Writes(t, n) /\ n.state = "ready" /\ n.binding = i
          /\ n.consumption = NULL /\ n.closeout = NULL
    BY <1>1, <1>3, <1>4, PutWrites DEF RefreshInv
  <1>6. AuthorityStage(t) = "ready" /\ AuthorityStage(t)' = "bound"
    BY <1>1, <1>2, <1>5, Stages, StagesNext
  <1> QED
    BY <1>1, <1>5, <1>6, StageMove DEF Writes, SU!Bind

\* A first consumption consumes a bound authority.
LEMMA ConsumeMove ==
  ASSUME RefreshInv, NEW i \in Intent, intents[i] # NULL, NEW t, t = intents[i].task, CanConsume(i),
         consume_runtime_refresh_authority(i), UNCHANGED launched
  PROVE  SU!Consume(t)
  <1> DEFINE s == [spec[t] EXCEPT !.consumption = i]
  <1>1. t \in Task /\ spec[t] \in Authority /\ spec[t] # NULL /\ i # NULL
    BY ZenonT(30), IntentType, RefreshAssumption DEF RefreshInv, RefreshTypeOK, Sources
  <1>2. /\ spec[t].state = "ready" /\ spec[t].binding = i /\ spec[t].consumption = NULL
        /\ spec[t].closeout = NULL
    BY DEF CanConsume, Usable, _validate_runtime_refresh_authority_contract,
           _validated_authority_consumption
  <1>3. /\ s \in Authority /\ s.state = "ready" /\ s.consumption = i /\ s.closeout = NULL
    BY <1>1, <1>2 DEF Authority
  <1>4. Put(t, s)
    BY DEF consume_runtime_refresh_authority
  <1> HIDE DEF s
  <1>5. PICK n \in Authority :
          Writes(t, n) /\ n.state = "ready" /\ n.consumption = i /\ n.closeout = NULL
    BY <1>1, <1>3, <1>4, PutWrites DEF RefreshInv
  <1>6. AuthorityStage(t) = "bound" /\ AuthorityStage(t)' = "consumed"
    BY <1>1, <1>2, <1>5, Stages, StagesNext
  <1> QED
    BY <1>1, <1>5, <1>6, StageMove DEF Writes, SU!Consume

\* A closeout verifies an authority that a success was bound to.
LEMMA VerifyMove ==
  ASSUME RefreshInv, NEW i \in Intent, NEW t, t = intents[i].task,
         closeout_runtime_refresh_authority(i)
  PROVE  t \in Task /\ SU!Verify(t)
  <1> DEFINE s == [spec[t] EXCEPT !.state = "verified", !.binding = i, !.consumption = i,
                                  !.closeout = "verified"]
  <1>0. UNCHANGED launched /\ intents[i] # NULL
    BY DEF closeout_runtime_refresh_authority, hostVars
  <1>1. t \in Task /\ spec[t] \in Authority /\ spec[t] # NULL /\ i # NULL
    BY <1>0, IntentType, RefreshAssumption DEF RefreshInv, RefreshTypeOK, Sources
  <1>2. BoundTo(i)
    <2>1. CASE i \in noEffect
      BY <2>1 DEF RefreshInv, Results
    <2>2. CASE Deployed(i)
      BY <1>0, <1>1, <2>2, ResultLedger DEF Deployed
    <2> QED
      BY <2>1, <2>2 DEF closeout_runtime_refresh_authority, SuccessfulResult
  <1>3. spec[t].state = "ready" /\ spec[t].closeout = NULL /\ spec[t].binding = i
    BY <1>2 DEF closeout_runtime_refresh_authority, BoundTo,
                _validate_runtime_refresh_authority_contract
  <1>4. s \in Authority /\ s.state = "verified" /\ s.closeout = "verified"
    BY <1>1 DEF Authority
  <1>5. Put(t, s)
    BY DEF closeout_runtime_refresh_authority
  <1> HIDE DEF s
  <1>6. PICK n \in Authority :
          Writes(t, n) /\ n.state = "verified" /\ n.closeout = "verified"
    BY <1>1, <1>4, <1>5, PutWrites DEF RefreshInv
  <1>7. AuthorityStage(t) \in {"bound", "consumed"} /\ AuthorityStage(t)' = "verified"
    BY <1>1, <1>3, <1>6, Stages, StagesNext
  <1> QED
    BY <1>0, <1>1, <1>6, <1>7, StageMove DEF Writes, SU!Verify

\* The unused closeout retires an authority that is still ready, or does nothing.
LEMMA RetireMove ==
  ASSUME RefreshInv, closeout_unused_commit
  PROVE  UNCHANGED <<spec, launched>> \/ \E t \in Task : SU!Retire(t)
  <1>0. PICK t : t = closer.task
    OBVIOUS
  <1> DEFINE s == [spec[t] EXCEPT !.state = "superseded", !.closeout = "unused"]
  <1>1. t \in Task /\ UNCHANGED launched
    BY <1>0 DEF closeout_unused_commit, RefreshInv, RefreshTypeOK, hostVars
  <1>2. CASE ~UNCHANGED spec
    <2>1. Unused(t) /\ Put(t, s)
      BY <1>0, <1>2 DEF closeout_unused_commit, _validate_unused_authority_closeout_cas_contract
    <2>2. /\ spec[t] # NULL /\ spec[t].state = "ready" /\ spec[t].binding = NULL
          /\ spec[t].consumption = NULL /\ spec[t].closeout = NULL
      BY <2>1 DEF Unused
    <2>3. spec[t] \in Authority
      BY <1>1, <2>2 DEF RefreshInv, RefreshTypeOK
    <2>4. s \in Authority /\ s.state = "superseded" /\ s.closeout = "unused"
      BY <2>3 DEF Authority
    <2> HIDE DEF s
    <2>5. PICK n \in Authority :
            Writes(t, n) /\ n.state = "superseded" /\ n.closeout = "unused"
      BY <1>1, <2>1, <2>2, <2>4, PutWrites DEF RefreshInv
    <2>6. AuthorityStage(t) = "ready" /\ AuthorityStage(t)' = "retired"
      BY <1>1, <2>2, <2>5, Stages, StagesNext
    <2>7. SU!Retire(t)
      BY <1>1, <2>5, <2>6, StageMove DEF Writes, SU!Retire
    <2> QED
      BY <1>1, <2>7
  <1> QED
    BY <1>1, <1>2

\* The authority of an unclear effect is superseded after its one install.
LEMMA SupersedeMove ==
  ASSUME RefreshInv, NEW i \in Intent, NEW j \in Intent, NEW t, t = intents[i].task,
         supersede_unclear(i, j)
  PROVE  t \in Task /\ SU!Supersede(t)
  <1> DEFINE s == [spec[t] EXCEPT !.state = "superseded", !.closeout = "unclear"]
  <1>0. UNCHANGED launched /\ intents[i] # NULL /\ OriginalAuthority(i) /\ OriginalInstall(i)
    BY DEF supersede_unclear, preview, _historical_proof, hostVars
  <1>1. t \in Task /\ spec[t] \in Authority /\ spec[t] # NULL /\ i # NULL
    BY <1>0, IntentType, RefreshAssumption DEF RefreshInv, RefreshTypeOK, Sources
  <1>2. /\ spec[t].state = "ready" /\ spec[t].binding = i /\ spec[t].consumption = NULL
        /\ spec[t].closeout = NULL
    BY <1>0 DEF OriginalAuthority, Usable, _validate_runtime_refresh_authority_contract,
                _validated_authority_consumption
  <1>3. launched[t] = 1
    BY <1>0 DEF OriginalInstall, _validate_historical_install_receipt, RefreshInv, Installs
  <1>4. s \in Authority /\ s.state = "superseded" /\ s.closeout = "unclear"
    BY <1>1 DEF Authority
  <1>5. Put(t, s)
    BY DEF supersede_unclear, _build_candidate_from_preview
  <1> HIDE DEF s
  <1>6. PICK n \in Authority :
          Writes(t, n) /\ n.state = "superseded" /\ n.closeout = "unclear"
    BY <1>1, <1>4, <1>5, PutWrites DEF RefreshInv
  <1>7. AuthorityStage(t) = "bound" /\ AuthorityStage(t)' = "superseded"
    BY <1>1, <1>2, <1>6, Stages, StagesNext
  <1> QED
    BY <1>0, <1>1, <1>3, <1>6, <1>7, StageMove DEF Writes, SU!Supersede

\* Past the installer's boundary the installer runs for the first time.
LEMMA EffectMove ==
  ASSUME RefreshInv, NEW p \in Proc, apply_boundary(p)
  PROVE  UNCHANGED <<spec, launched>> \/ \E t \in Task : SU!Effect(t)
  <1>0. PICK i, t : i = ex[p].intent /\ t = intents[i].task
    OBVIOUS
  <1>1. UNCHANGED spec /\ ex[p].pc = "prepared"
    BY DEF apply_boundary, authVars, At
  <1>2. CASE InstallAuthorised(p)
    <2>1. t \in Task /\ spec[t] # NULL /\ i # NULL /\ launched[t] = 0
      BY <1>0, <1>1, WorkerAlone DEF RefreshInv, Executors, ExShape, Working
    <2>2. /\ spec[t].state = "ready" /\ spec[t].binding = i /\ spec[t].consumption = NULL
          /\ spec[t].closeout = NULL
      BY <1>0, <1>2 DEF InstallAuthorised, Usable, _validate_runtime_refresh_authority_contract,
                        _validated_authority_consumption
    <2>3. launched' = [launched EXCEPT ![t] = 1]
      BY <1>0, <1>2, <2>1 DEF apply_boundary, RefreshInv, RefreshTypeOK
    <2>4. AuthorityStage(t) = "bound"
      BY <2>1, <2>2, Stages
    <2>5. [u \in Task |-> AuthorityStage(u)'] = [u \in Task |-> AuthorityStage(u)]
      BY <1>1 DEF AuthorityStage
    <2>6. SU!Effect(t)
      BY <2>1, <2>3, <2>4, <2>5 DEF SU!Effect
    <2> QED
      BY <2>1, <2>6
  <1>3. CASE ~InstallAuthorised(p)
    BY <1>1, <1>3 DEF apply_boundary
  <1> QED
    BY <1>2, <1>3

\* A step that leaves the authorities and the count of installer runs alone.
LEMMA StageStill ==
  ASSUME UNCHANGED <<spec, launched>>
  PROVE  UNCHANGED SU!suVars
  <1>1. [u \in Task |-> AuthorityStage(u)'] = [u \in Task |-> AuthorityStage(u)]
    BY DEF AuthorityStage
  <1> QED
    BY <1>1 DEF SU!suVars

\* Every step of RuntimeRefresh is a step of SingleUse, or none.
LEMMA RefreshRefines == RefreshInv /\ [RRNext]_rrVars => [SU!SUNext]_(SU!suVars)
  <1> SUFFICES ASSUME RefreshInv, [RRNext]_rrVars PROVE [SU!SUNext]_(SU!suVars)
    OBVIOUS
  <1>0. /\ UNCHANGED <<spec, launched>> => [SU!SUNext]_(SU!suVars)
        /\ (\E t \in Task : \/ SU!Offer(t) \/ SU!Bind(t) \/ SU!Effect(t) \/ SU!Consume(t)
                            \/ SU!Verify(t) \/ SU!Retire(t) \/ SU!Supersede(t))
             => [SU!SUNext]_(SU!suVars)
    BY StageStill DEF SU!SUNext
  <1>1. CASE \/ observe \/ checks_pass \/ verifier_runs \/ scheduler_touched \/ lease_runs_out
             \/ \E ts \in SUBSET Protected : advance_main(ts)
             \/ \E t \in Task : closeout_unused_begin(t)
             \/ UNCHANGED rrVars
    BY <1>0, <1>1 DEF observe, checks_pass, verifier_runs, scheduler_touched, lease_runs_out,
       advance_main, closeout_unused_begin, rrVars, authVars, hostVars
  <1>2. CASE closeout_unused_commit
    BY <1>0, <1>2, RetireMove
  <1>3. ASSUME NEW t \in Task,
               \/ register(t)
               \/ \E source \in 0..MaxMain : adopt_runtime_refresh_authority(t, source)
               \/ activate_runtime_refresh_authority(t)
        PROVE  [SU!SUNext]_(SU!suVars)
    BY <1>0, <1>3, OfferMove
  <1>4. ASSUME NEW i \in Intent,
               \/ expire(i) \/ closeout_runtime_refresh_authority(i)
               \/ reconcile_after_effect_unclear(i)
               \/ \E t \in Task, target \in seen : prepare_intent(i, t, target)
               \/ \E j \in Intent : supersede_unclear(i, j)
        PROVE  [SU!SUNext]_(SU!suVars)
    <2>1. CASE \/ expire(i) \/ reconcile_after_effect_unclear(i)
               \/ \E t \in Task, target \in seen : prepare_intent(i, t, target)
      BY <1>0, <2>1 DEF expire, reconcile_after_effect_unclear, prepare_intent, hostVars
    <2>2. CASE closeout_runtime_refresh_authority(i)
      BY <1>0, <2>2, VerifyMove
    <2>3. ASSUME NEW j \in Intent, supersede_unclear(i, j) PROVE [SU!SUNext]_(SU!suVars)
      BY <1>0, <2>3, SupersedeMove
    <2> QED
      BY <1>4, <2>1, <2>2, <2>3
  <1>5. ASSUME NEW p \in Proc,
               \/ acquire_lease(p) \/ release_lease(p) \/ crash(p) \/ apply_step(p)
               \/ \E i \in Intent : apply_reused(p, i) \/ apply_check(p, i)
        PROVE  [SU!SUNext]_(SU!suVars)
    <2>1. CASE \/ acquire_lease(p) \/ release_lease(p) \/ crash(p) \/ apply_no_effect(p)
               \/ apply_start(p) \/ apply_prepare(p) \/ apply_install(p)
               \/ apply_install_failed(p) \/ apply_result(p)
               \/ \E i \in Intent : apply_check(p, i)
      BY <1>0, <2>1 DEF acquire_lease, release_lease, crash, apply_no_effect, apply_start,
         apply_prepare, apply_install, apply_install_failed, apply_result, apply_check,
         authVars, hostVars
    <2>2. CASE apply_boundary(p)
      BY <1>0, <2>2, EffectMove
    <2>3. CASE apply_bind(p)
      <3>1. PICK i, t : i = ex[p].intent /\ t = intents[i].task
        OBVIOUS
      <3>2. i \in Intent /\ intents[i] # NULL /\ UNCHANGED launched /\ t \in Task
        BY <2>3, <3>1, IntentType DEF apply_bind, RefreshInv, Executors, ExShape, hostVars
      <3>3. CASE CanBind(i)
        <4>1. bind_runtime_refresh_authority(i)
          BY <2>3, <3>1, <3>3 DEF apply_bind
        <4> QED
          BY <1>0, <3>1, <3>2, <3>3, <4>1, BindMove
      <3>4. CASE ~CanBind(i)
        BY ZenonT(30), <1>0, <2>3, <3>1, <3>2, <3>4 DEF apply_bind
      <3> QED
        BY <3>3, <3>4
    <2>4. CASE apply_consume(p)
      <3>1. PICK i, t : i = ex[p].intent /\ t = intents[i].task
        OBVIOUS
      <3>2. i \in Intent /\ intents[i] # NULL /\ UNCHANGED launched /\ t \in Task
        BY <2>4, <3>1, IntentType DEF apply_consume, At, RefreshInv, Executors, ExShape, hostVars
      <3>3. CASE CanConsume(i)
        <4>1. consume_runtime_refresh_authority(i)
          BY <2>4, <3>1, <3>3 DEF apply_consume
        <4> QED
          BY <1>0, <3>1, <3>2, <3>3, <4>1, ConsumeMove
      <3>4. CASE ~CanConsume(i)
        BY <1>0, <2>4, <3>1, <3>2, <3>4 DEF apply_consume
      <3> QED
        BY <3>3, <3>4
    <2>5. ASSUME NEW k \in Intent, apply_reused(p, k) PROVE [SU!SUNext]_(SU!suVars)
      <3>1. PICK i : /\ i = (IF k \in noEffect THEN k ELSE ResultOf(Target(k)))
                     /\ i # NULL /\ CanConsume(i) /\ consume_runtime_refresh_authority(i)
                     /\ intents[k] # NULL /\ UNCHANGED launched
        BY <2>5 DEF apply_reused, validate_runtime_refresh_intent, hostVars
      <3>2. i \in Intent /\ intents[i] # NULL
        <4>1. CASE k \in noEffect
          BY <3>1, <4>1
        <4>2. CASE k \notin noEffect
          BY <3>1, <4>2, ResultLedger DEF BoundTo
        <4> QED
          BY <4>1, <4>2
      <3>3. PICK t \in Task : t = intents[i].task
        BY <3>2, IntentType DEF RefreshInv
      <3> QED
        BY <1>0, <3>1, <3>2, <3>3, ConsumeMove
    <2> QED
      BY <1>5, <2>1, <2>2, <2>3, <2>4, <2>5 DEF apply_step
  <1> QED
    BY <1>1, <1>2, <1>3, <1>4, <1>5 DEF RRNext

\* Whatever executors, crashes, replays and closeouts do in whatever order, the life
\* of every authority is one that SingleUse allows: one binding, at most one run of
\* the installer, and one end.
THEOREM RefreshImplementsSingleUse == RRSpec => AuthoritySingleUse
  <1>1. RRInit => SU!SUInit
    BY DEF RRInit, SU!SUInit, AuthorityStage
  <1> QED
    BY <1>1, RefreshSafe, RefreshRefines, PTL DEF RRSpec, AuthoritySingleUse, SU!SUSpec


SUP == INSTANCE SingleUseProofs WITH stage <- [t \in Task |-> AuthorityStage(t)],
                                     effects <- launched

\* So the runtime refresh keeps what SingleUse promises: the installer runs at most
\* once for an authority, never for one that is unbound or retired as unused, and an
\* authority that has ended neither comes back nor installs again.
THEOREM RefreshKeepsPromises ==
  RRSpec => []SU!UsedAtMostOnce /\ [][SUP!EndsForGood]_(SU!suVars)
  <1>1. SU!SUInit => SUP!SUInit
    BY Zenon DEF SU!SUInit, SUP!SUInit
  <1>2. [SU!SUNext]_(SU!suVars) => [SUP!SUNext]_(SUP!suVars)
    BY Zenon DEF SU!SUNext, SU!Offer, SU!Bind, SU!Effect, SU!Consume, SU!Verify, SU!Retire,
       SU!Supersede, SU!Move, SU!suVars, SUP!SUNext, SUP!Offer, SUP!Bind, SUP!Effect,
       SUP!Consume, SUP!Verify, SUP!Retire, SUP!Supersede, SUP!Move, SUP!suVars
  <1>3. SUP!UsedAtMostOnce => SU!UsedAtMostOnce
    BY Zenon DEF SU!UsedAtMostOnce, SUP!UsedAtMostOnce, SU!Stage, SUP!Stage
  <1>4. [SUP!EndsForGood]_(SUP!suVars) => [SUP!EndsForGood]_(SU!suVars)
    BY Zenon DEF SU!suVars, SUP!suVars
  <1> QED
    BY <1>1, <1>2, <1>3, <1>4, RefreshImplementsSingleUse, SUP!UsedAtMostOnceHolds,
       SUP!EndsForGoodHolds, PTL DEF AuthoritySingleUse, SU!SUSpec, SUP!SUSpec

-----------------------------------------------------------------------------
\* The installer's scheduler transaction.

ScPc == {"idle", "switch", "write", "link", "reload", "start", "readback", "activated",
         "converged", "restore", "files", "links", "reload_back", "timers_back", "verify",
         "effect", "rolled-back", "recovery-required"}

HostType == [file : [Unit -> {"absent", "old", "release"}],
             loaded : [Unit -> {"absent", "old", "release"}],
             enabled : [Unit -> BOOLEAN], active : [Unit -> BOOLEAN],
             runtime : {"old", "release"}]

ConvType == [pc : ScPc, pre : HostType, intent : [Unit -> {"absent", "enabled", "disabled"}],
             linked : BOOLEAN, mutated : BOOLEAN, failed : BOOLEAN, runs : Nat]

SchedulerTypeOK == Host \in HostType /\ conv \in ConvType

\* What a transaction leaves alone: the links of the other timers, and what systemd
\* has loaded as long as it was not told to reload.
Untouched ==
  /\ \A u \in Unit \ {Required} : enabled[u] = conv.pre.enabled[u]
  /\ ~conv.mutated => loaded = conv.pre.loaded
  /\ conv.pc \in {"reload", "start", "readback", "activated", "reload_back", "timers_back",
                  "verify"} => conv.mutated

\* The forward path: the runtime is switched before the units are written, and what
\* was read back stays.
Forward ==
  /\ conv.pc \in {"write", "link", "reload", "start", "readback", "activated", "converged"}
       => runtime = "release"
  /\ conv.pc \in {"activated", "converged"} => _scheduler_readback

\* The preimage, with the timers only where systemd was touched.
Restored ==
  /\ unitFile = conv.pre.file /\ loaded = conv.pre.loaded /\ enabled = conv.pre.enabled
  /\ conv.mutated => active = conv.pre.active

\* The way back: without a recorded failure its operations have had their effect.
Backward ==
  /\ conv.pc \in {"links", "reload_back", "timers_back", "verify", "effect"} /\ ~conv.failed
       => unitFile = conv.pre.file
  /\ conv.pc = "effect" /\ ~conv.failed => Restored
  /\ conv.pc = "rolled-back" => Restored /\ runtime = conv.pre.runtime

SchedulerInv == SchedulerTypeOK /\ Untouched /\ Forward /\ Backward


\* A step that only moves the transaction on.
LEMMA StepEffect ==
  ASSUME conv \in ConvType, NEW l \in ScPc, Step(l)
  PROVE  /\ conv' \in ConvType /\ conv'.pc = l /\ conv'.pre = conv.pre
         /\ conv'.intent = conv.intent /\ conv'.mutated = conv.mutated
         /\ conv'.failed = conv.failed
  BY DEF Step, ConvType

\* An operation of the way back: a failure is recorded.
LEMMA AttemptedEffect ==
  ASSUME conv \in ConvType, NEW l \in ScPc, NEW ok \in BOOLEAN, Attempted(l, ok)
  PROVE  /\ conv' \in ConvType /\ conv'.pc = l /\ conv'.pre = conv.pre
         /\ conv'.intent = conv.intent /\ conv'.mutated = conv.mutated
         /\ conv'.failed = (conv.failed \/ ~ok)
  <1>1. (conv.failed \/ ~ok) \in BOOLEAN
    OBVIOUS
  <1>2. conv' = [conv EXCEPT !.pc = l, !.failed = conv.failed \/ ~ok]
    BY DEF Attempted
  <1> QED
    BY <1>1, <1>2 DEF ConvType

\* The host, part by part.
LEMMA HostParts ==
  /\ Host \in HostType <=>
       /\ unitFile \in [Unit -> {"absent", "old", "release"}]
       /\ loaded \in [Unit -> {"absent", "old", "release"}]
       /\ enabled \in [Unit -> BOOLEAN] /\ active \in [Unit -> BOOLEAN]
       /\ runtime \in {"old", "release"}
  /\ Host.enabled = enabled /\ Host.loaded = loaded
  BY DEF Host, HostType

\* The first snapshot is of the host as it is.
LEMMA SchedulerInitial == ScInit => SchedulerInv
  <1> SUFFICES ASSUME ScInit PROVE SchedulerInv
    OBVIOUS
  <1>1. Host \in HostType
    BY HostParts DEF ScInit
  <1>2. [u \in Unit |-> _timer_intent(u)] \in [Unit -> {"absent", "enabled", "disabled"}]
    BY DEF _timer_intent
  <1>3. conv \in ConvType /\ conv.pc = "idle" /\ conv.pre = Host
    BY <1>1, <1>2 DEF ScInit, ConvType, ScPc
  <1> QED
    BY <1>1, <1>3, HostParts DEF SchedulerInv, SchedulerTypeOK, Untouched, Forward, Backward

\* A step within one transaction, in what remains to be shown of it.
LEMMA Within ==
  ASSUME SchedulerInv, conv' \in ConvType, conv'.pre = conv.pre,
         unitFile' \in [Unit -> {"absent", "old", "release"}],
         loaded' \in [Unit -> {"absent", "old", "release"}],
         enabled' \in [Unit -> BOOLEAN], active' \in [Unit -> BOOLEAN],
         runtime' \in {"old", "release"},
         \A u \in Unit \ {Required} : enabled'[u] = enabled[u],
         conv.mutated => conv'.mutated, conv'.mutated \/ loaded' = loaded,
         conv'.pc \in {"reload", "start", "readback", "activated", "reload_back",
                       "timers_back", "verify"} => conv'.mutated,
         Forward', Backward'
  PROVE  SchedulerInv'
  <1>1. SchedulerTypeOK'
    BY DEF SchedulerTypeOK, Host, HostType
  <1>2. \A u \in Unit \ {Required} : enabled'[u] = conv'.pre.enabled[u]
    BY DEF SchedulerInv, Untouched
  <1>3. ~conv'.mutated => loaded' = conv'.pre.loaded
    BY DEF SchedulerInv, Untouched
  <1> QED
    BY <1>1, <1>2, <1>3 DEF SchedulerInv, Untouched

\* A step in the middle of a transaction has no outcome to answer for.
LEMMA MiddleStep ==
  ASSUME conv'.pc \notin {"activated", "converged", "effect", "rolled-back", "links",
                          "reload_back", "timers_back", "verify"},
         conv'.pc \in {"write", "link", "reload", "start", "readback"} => runtime' = "release"
  PROVE  Forward' /\ Backward'
  BY DEF Forward, Backward

\* Writing, validating, linking, reloading, starting, reading back, publishing.
LEMMA ForwardStep ==
  ASSUME SchedulerInv,
         \/ before_validation \/ _validate_scheduler_candidate \/ enable_required_timer
         \/ daemon_reload \/ start_required_timer \/ readback \/ after_activation
         \/ \E u \in Unit : write_artifact(u)
  PROVE  SchedulerInv'
  <1>0. /\ conv \in ConvType /\ Required \in Unit
        /\ unitFile \in [Unit -> {"absent", "old", "release"}]
        /\ loaded \in [Unit -> {"absent", "old", "release"}]
        /\ enabled \in [Unit -> BOOLEAN] /\ active \in [Unit -> BOOLEAN]
        /\ runtime \in {"old", "release"}
    BY HostParts, SchedulerAssumption DEF SchedulerInv, SchedulerTypeOK
  <1>1. CASE before_validation
    <2>1. Step("write") /\ runtime' = "release" /\ UNCHANGED <<unitFile, loaded, enabled, active>>
      BY <1>1 DEF before_validation
    <2> QED
      BY <1>0, <2>1, StepEffect, MiddleStep, Within DEF ScPc
  <1>2. CASE _validate_scheduler_candidate
    <2>1. /\ conv.pc = "write" /\ Step("link")
          /\ UNCHANGED <<unitFile, loaded, enabled, active, runtime>>
      BY <1>2 DEF _validate_scheduler_candidate
    <2>2. runtime = "release"
      BY <2>1 DEF SchedulerInv, Forward
    <2> QED
      BY <1>0, <2>1, <2>2, StepEffect, MiddleStep, Within DEF ScPc
  <1>3. CASE enable_required_timer
    <2>1. PICK fix \in BOOLEAN :
            /\ enabled' = (IF fix THEN [enabled EXCEPT ![Required] = TRUE] ELSE enabled)
            /\ conv' = [conv EXCEPT !.pc = "reload", !.linked = fix, !.mutated = TRUE]
            /\ conv.pc = "link" /\ UNCHANGED <<unitFile, loaded, active, runtime>>
      BY <1>3 DEF enable_required_timer
    <2>2. runtime = "release"
      BY <2>1 DEF SchedulerInv, Forward
    <2>3. conv' \in ConvType /\ conv'.pc = "reload" /\ conv'.pre = conv.pre /\ conv'.mutated
      BY <1>0, <2>1 DEF ConvType, ScPc
    <2>4. /\ enabled' \in [Unit -> BOOLEAN]
          /\ \A u \in Unit \ {Required} : enabled'[u] = enabled[u]
      BY <1>0, <2>1
    <2> QED
      BY <1>0, <2>1, <2>2, <2>3, <2>4, MiddleStep, Within
  <1>4. CASE daemon_reload
    <2>1. /\ conv.pc = "reload" /\ Step("start") /\ loaded' = unitFile
          /\ UNCHANGED <<unitFile, enabled, active, runtime>>
      BY <1>4 DEF daemon_reload
    <2>2. runtime = "release" /\ conv.mutated
      BY <2>1 DEF SchedulerInv, Forward, Untouched
    <2> QED
      BY <1>0, <2>1, <2>2, StepEffect, MiddleStep, Within DEF ScPc
  <1>5. CASE start_required_timer
    <2>1. /\ conv.pc = "start" /\ Step("readback")
          /\ active' = (IF OptedOut THEN active ELSE [active EXCEPT ![Required] = TRUE])
          /\ UNCHANGED <<unitFile, loaded, enabled, runtime>>
      BY <1>5 DEF start_required_timer
    <2>2. runtime = "release" /\ conv.mutated
      BY <2>1 DEF SchedulerInv, Forward, Untouched
    <2>3. active' \in [Unit -> BOOLEAN]
      BY <1>0, <2>1
    <2> QED
      BY <1>0, <2>1, <2>2, <2>3, StepEffect, MiddleStep, Within DEF ScPc
  <1>6. CASE readback
    <2>1. PICK l \in {"activated", "restore"} :
            /\ conv.pc = "readback" /\ Step(l) /\ (l = "activated" => _scheduler_readback)
            /\ UNCHANGED <<unitFile, loaded, enabled, active, runtime>>
      BY <1>6 DEF readback
    <2>2. runtime = "release" /\ conv.mutated
      BY <2>1 DEF SchedulerInv, Forward, Untouched
    <2>3. /\ conv' \in ConvType /\ conv'.pc = l /\ conv'.pre = conv.pre
          /\ conv'.intent = conv.intent /\ conv'.mutated = conv.mutated
      BY <1>0, <2>1, StepEffect DEF ScPc
    <2>4. l = "activated" => _scheduler_readback'
      BY ZenonT(100), <2>1, <2>3 DEF _scheduler_readback, OptedOut
    <2>5. Forward' /\ Backward'
      BY <2>1, <2>2, <2>3, <2>4 DEF Forward, Backward
    <2> QED
      BY <1>0, <2>1, <2>2, <2>3, <2>5, Within
  <1>7. CASE after_activation
    <2>1. /\ conv.pc = "activated" /\ Step("converged")
          /\ UNCHANGED <<unitFile, loaded, enabled, active, runtime>>
      BY <1>7 DEF after_activation
    <2>2. runtime = "release" /\ _scheduler_readback
      BY <2>1 DEF SchedulerInv, Forward
    <2>3. /\ conv' \in ConvType /\ conv'.pc = "converged" /\ conv'.pre = conv.pre
          /\ conv'.intent = conv.intent /\ conv'.mutated = conv.mutated
      BY <1>0, <2>1, StepEffect DEF ScPc
    <2>4. _scheduler_readback'
      BY <2>1, <2>2, <2>3 DEF _scheduler_readback, OptedOut
    <2>5. Forward' /\ Backward'
      BY <2>1, <2>2, <2>3, <2>4 DEF Forward, Backward
    <2> QED
      BY <1>0, <2>1, <2>3, <2>5, Within
  <1>8. ASSUME NEW u \in Unit, write_artifact(u) PROVE SchedulerInv'
    <2>1. /\ conv.pc = "write" /\ unitFile' = [unitFile EXCEPT ![u] = "release"]
          /\ UNCHANGED <<loaded, enabled, active, runtime, conv>>
      BY <1>8 DEF write_artifact
    <2>2. runtime = "release" /\ unitFile' \in [Unit -> {"absent", "old", "release"}]
      BY <1>0, <2>1 DEF SchedulerInv, Forward
    <2> QED
      BY <1>0, <2>1, <2>2, MiddleStep, Within
  <1> QED
    BY <1>1, <1>2, <1>3, <1>4, <1>5, <1>6, <1>7, <1>8

\* A step of the forward path raises, with or without its effect.
LEMMA RaiseStep ==
  ASSUME SchedulerInv,
         step_raises \/ command_raises_after_effect \/ \E done \in BOOLEAN : link_raises(done)
  PROVE  SchedulerInv'
  <1>0. /\ conv \in ConvType /\ Required \in Unit
        /\ unitFile \in [Unit -> {"absent", "old", "release"}]
        /\ loaded \in [Unit -> {"absent", "old", "release"}]
        /\ enabled \in [Unit -> BOOLEAN] /\ active \in [Unit -> BOOLEAN]
        /\ runtime \in {"old", "release"}
    BY HostParts, SchedulerAssumption DEF SchedulerInv, SchedulerTypeOK
  <1>1. CASE step_raises
    <2>1. Step("restore") /\ UNCHANGED <<unitFile, loaded, enabled, active, runtime>>
      BY <1>1 DEF step_raises
    <2> QED
      BY <1>0, <2>1, StepEffect, MiddleStep, Within DEF ScPc
  <1>2. CASE command_raises_after_effect
    <2>1. /\ conv.pc \in {"reload", "start"} /\ Step("restore")
          /\ loaded' \in {loaded, unitFile}
          /\ active' \in {active, [active EXCEPT ![Required] = TRUE]}
          /\ UNCHANGED <<unitFile, enabled, runtime>>
      BY <1>2 DEF command_raises_after_effect
    <2>2. conv.mutated
      BY <2>1 DEF SchedulerInv, Untouched
    <2>3. active' \in [Unit -> BOOLEAN] /\ loaded' \in [Unit -> {"absent", "old", "release"}]
      BY <1>0, <2>1
    <2> QED
      BY <1>0, <2>1, <2>2, <2>3, StepEffect, MiddleStep, Within DEF ScPc
  <1>3. ASSUME NEW done \in BOOLEAN, link_raises(done) PROVE SchedulerInv'
    <2>1. /\ enabled' \in {enabled, [enabled EXCEPT ![Required] = TRUE]}
          /\ conv' = [conv EXCEPT !.pc = "restore", !.linked = TRUE]
          /\ UNCHANGED <<unitFile, loaded, active, runtime>>
      BY <1>3 DEF link_raises
    <2>2. /\ conv' \in ConvType /\ conv'.pc = "restore" /\ conv'.pre = conv.pre
          /\ conv'.mutated = conv.mutated
      BY <1>0, <2>1 DEF ConvType, ScPc
    <2>3. /\ enabled' \in [Unit -> BOOLEAN]
          /\ \A u \in Unit \ {Required} : enabled'[u] = enabled[u]
      BY <1>0, <2>1
    <2> QED
      BY <1>0, <2>1, <2>2, <2>3, MiddleStep, Within
  <1> QED
    BY <1>1, <1>2, <1>3

\* Every operation of the way back, down to the last comparison with the snapshot.
LEMMA BackStep ==
  ASSUME SchedulerInv,
         \/ restore_begin \/ verify_preimage
         \/ \E lost \in SUBSET Unit : _restore_scheduler_files(lost)
         \/ \E ok \in BOOLEAN : \/ _restore_scheduler_enablement_links(ok)
                                \/ restore_daemon_reload(ok) \/ restore_timers(ok)
                                \/ rollback_effect(ok)
  PROVE  SchedulerInv'
  <1>0. /\ conv \in ConvType /\ Required \in Unit
        /\ unitFile \in [Unit -> {"absent", "old", "release"}]
        /\ loaded \in [Unit -> {"absent", "old", "release"}]
        /\ enabled \in [Unit -> BOOLEAN] /\ active \in [Unit -> BOOLEAN]
        /\ runtime \in {"old", "release"} /\ conv.pre \in HostType
    BY HostParts, SchedulerAssumption DEF SchedulerInv, SchedulerTypeOK, ConvType
  <1>1. CASE restore_begin
    <2>1. PICK ok \in BOOLEAN :
            /\ Step("files") \/ Attempted("files", ok)
            /\ active' \in {active, [u \in Unit |-> FALSE]}
            /\ UNCHANGED <<unitFile, loaded, enabled, runtime>>
      BY <1>1, ZenonT(30) DEF restore_begin
    <2>2. conv' \in ConvType /\ conv'.pc = "files" /\ conv'.pre = conv.pre
          /\ conv'.mutated = conv.mutated
      BY <1>0, <2>1, StepEffect, AttemptedEffect DEF ScPc
    <2>3. active' \in [Unit -> BOOLEAN]
      BY <1>0, <2>1
    <2> QED
      BY <1>0, <2>1, <2>2, <2>3, MiddleStep, Within
  <1>2. ASSUME NEW lost \in SUBSET Unit, _restore_scheduler_files(lost) PROVE SchedulerInv'
    <2>1. PICK ok \in BOOLEAN :
            /\ ok = (unitFile' = conv.pre.file) /\ Attempted("links", ok)
            /\ unitFile' = [u \in Unit |-> IF u \in lost THEN unitFile[u] ELSE conv.pre.file[u]]
            /\ UNCHANGED <<loaded, enabled, active, runtime>>
      BY <1>2, ZenonT(30) DEF _restore_scheduler_files
    <2>2. /\ conv' \in ConvType /\ conv'.pc = "links" /\ conv'.pre = conv.pre
          /\ conv'.mutated = conv.mutated /\ conv'.failed = (conv.failed \/ ~ok)
      BY <1>0, <2>1, AttemptedEffect DEF ScPc
    <2>3. unitFile' \in [Unit -> {"absent", "old", "release"}]
      BY <1>0, <2>1 DEF HostType
    <2>4. Forward' /\ Backward'
      BY <2>1, <2>2 DEF Forward, Backward
    <2> QED
      BY <1>0, <2>1, <2>2, <2>3, <2>4, Within
  <1>3. ASSUME NEW done \in BOOLEAN, _restore_scheduler_enablement_links(done)
        PROVE  SchedulerInv'
    <2>1. PICK ok \in BOOLEAN :
            /\ ok = (done /\ enabled'[Required] = conv.pre.enabled[Required])
            /\ Attempted(IF conv.mutated THEN "reload_back" ELSE "effect", ok)
            /\ enabled' = (IF conv.linked /\ done
                           THEN [enabled EXCEPT ![Required] = conv.pre.enabled[Required]]
                           ELSE enabled)
            /\ conv.pc = "links" /\ UNCHANGED <<unitFile, loaded, active, runtime>>
      BY <1>3, ZenonT(30) DEF _restore_scheduler_enablement_links
    <2>2. PICK l \in {"reload_back", "effect"} :
            Attempted(l, ok) /\ (l = "reload_back" <=> conv.mutated)
      BY <2>1
    <2>3. /\ conv' \in ConvType /\ conv'.pc = l /\ conv'.pre = conv.pre
          /\ conv'.mutated = conv.mutated /\ conv'.failed = (conv.failed \/ ~ok)
      BY <1>0, <2>2, AttemptedEffect DEF ScPc
    <2>4. /\ enabled' \in [Unit -> BOOLEAN]
          /\ \A u \in Unit \ {Required} : enabled'[u] = enabled[u]
      BY ZenonT(100), <1>0, <2>1 DEF HostType
    <2>5. ~conv'.failed => unitFile' = conv'.pre.file
      BY <2>1, <2>3 DEF SchedulerInv, Backward
    <2>6. ASSUME ~conv'.failed, l = "effect" PROVE Restored'
      <3>1. ~conv.mutated /\ loaded' = conv'.pre.loaded
        BY <2>1, <2>2, <2>3, <2>6 DEF SchedulerInv, Untouched
      <3>2. enabled'[Required] = conv.pre.enabled[Required]
        BY <2>1, <2>3, <2>6
      <3>3. \A u \in Unit : enabled'[u] = conv.pre.enabled[u]
        BY <2>4, <3>2 DEF SchedulerInv, Untouched
      <3>4. conv.pre.enabled \in [Unit -> BOOLEAN]
        BY <1>0 DEF HostType
      <3>5. enabled' = conv'.pre.enabled
        BY <2>3, <2>4, <3>3, <3>4
      <3> QED
        BY <2>3, <2>5, <2>6, <3>1, <3>5 DEF Restored
    <2>7. Forward' /\ Backward'
      BY <2>2, <2>3, <2>5, <2>6 DEF Forward, Backward
    <2> QED
      BY <1>0, <2>1, <2>2, <2>3, <2>4, <2>7, Within
  <1>4. ASSUME NEW ok \in BOOLEAN, restore_daemon_reload(ok) PROVE SchedulerInv'
    <2>1. /\ conv.pc = "reload_back" /\ Attempted("timers_back", ok)
          /\ loaded' \in {loaded, unitFile} /\ UNCHANGED <<unitFile, enabled, active, runtime>>
      BY <1>4 DEF restore_daemon_reload
    <2>2. /\ conv' \in ConvType /\ conv'.pc = "timers_back" /\ conv'.pre = conv.pre
          /\ conv'.mutated = conv.mutated /\ conv'.failed = (conv.failed \/ ~ok)
      BY <1>0, <2>1, AttemptedEffect DEF ScPc
    <2>3. conv.mutated /\ loaded' \in [Unit -> {"absent", "old", "release"}]
      BY <1>0, <2>1 DEF SchedulerInv, Untouched
    <2>4. Forward' /\ Backward'
      BY <2>1, <2>2 DEF SchedulerInv, Forward, Backward
    <2> QED
      BY <1>0, <2>1, <2>2, <2>3, <2>4, Within
  <1>5. ASSUME NEW ok \in BOOLEAN, restore_timers(ok) PROVE SchedulerInv'
    <2>1. /\ conv.pc = "timers_back" /\ Attempted("verify", ok)
          /\ active' = (IF ok THEN [u \in Unit |-> conv.pre.active[u] /\ loaded[u] # "absent"]
                              ELSE active)
          /\ UNCHANGED <<unitFile, loaded, enabled, runtime>>
      BY <1>5 DEF restore_timers
    <2>2. /\ conv' \in ConvType /\ conv'.pc = "verify" /\ conv'.pre = conv.pre
          /\ conv'.mutated = conv.mutated /\ conv'.failed = (conv.failed \/ ~ok)
      BY <1>0, <2>1, AttemptedEffect DEF ScPc
    <2>3. conv.mutated /\ active' \in [Unit -> BOOLEAN]
      BY <1>0, <2>1 DEF SchedulerInv, Untouched
    <2>4. Forward' /\ Backward'
      BY <2>1, <2>2 DEF SchedulerInv, Forward, Backward
    <2> QED
      BY <1>0, <2>1, <2>2, <2>3, <2>4, Within
  <1>6. CASE verify_preimage
    <2>1. PICK ok \in BOOLEAN :
            /\ ok = (active = conv.pre.active /\ enabled = conv.pre.enabled
                       /\ loaded = conv.pre.loaded)
            /\ conv.pc = "verify" /\ Attempted("effect", ok)
            /\ UNCHANGED <<unitFile, loaded, enabled, active, runtime>>
      BY <1>6, ZenonT(30) DEF verify_preimage
    <2>2. /\ conv' \in ConvType /\ conv'.pc = "effect" /\ conv'.pre = conv.pre
          /\ conv'.mutated = conv.mutated /\ conv'.failed = (conv.failed \/ ~ok)
      BY <1>0, <2>1, AttemptedEffect DEF ScPc
    <2>3. Forward' /\ Backward'
      BY <2>1, <2>2 DEF SchedulerInv, Forward, Backward, Restored
    <2> QED
      BY <1>0, <2>1, <2>2, <2>3, Within
  <1>7. ASSUME NEW ok \in BOOLEAN, rollback_effect(ok) PROVE SchedulerInv'
    <2>1. PICK l \in {"recovery-required", "rolled-back"} :
            /\ conv.pc = "effect" /\ conv' = [conv EXCEPT !.pc = l]
            /\ l = "rolled-back" => ~conv.failed /\ runtime' = conv.pre.runtime
            /\ runtime' \in {runtime, conv.pre.runtime}
            /\ UNCHANGED <<unitFile, loaded, enabled, active>>
      BY <1>7 DEF rollback_effect
    <2>2. /\ conv' \in ConvType /\ conv'.pc = l /\ conv'.pre = conv.pre
          /\ conv'.mutated = conv.mutated /\ conv'.failed = conv.failed
      BY <1>0, <2>1, StepEffect DEF ScPc, Step
    <2>3. runtime' \in {"old", "release"}
      BY <1>0, <2>1 DEF HostType
    <2>4. Forward' /\ Backward'
      BY <2>1, <2>2 DEF SchedulerInv, Forward, Backward, Restored
    <2> QED
      BY <1>0, <2>1, <2>2, <2>3, <2>4, Within
  <1> QED
    BY <1>1, <1>2, <1>3, <1>4, <1>5, <1>6, <1>7

\* Every step of a convergence, of its failures and of the operator keeps it.
LEMMA SchedulerStep == SchedulerInv /\ [ScNext]_scVars => SchedulerInv'
  <1> SUFFICES ASSUME SchedulerInv, [ScNext]_scVars PROVE SchedulerInv'
    OBVIOUS
  <1>0. /\ conv \in ConvType /\ Required \in Unit
        /\ unitFile \in [Unit -> {"absent", "old", "release"}]
        /\ loaded \in [Unit -> {"absent", "old", "release"}]
        /\ enabled \in [Unit -> BOOLEAN] /\ active \in [Unit -> BOOLEAN]
        /\ runtime \in {"old", "release"} /\ Host \in HostType
    BY HostParts, SchedulerAssumption DEF SchedulerInv, SchedulerTypeOK, ConvType
  <1>1. CASE UNCHANGED scVars
    BY ZenonT(100), <1>1 DEF scVars, SchedulerInv, SchedulerTypeOK, Host, Untouched, Forward, Backward,
       Restored, _scheduler_readback, OptedOut
  <1>2. CASE snapshot
    <2>1. [u \in Unit |-> _timer_intent(u)] \in [Unit -> {"absent", "enabled", "disabled"}]
      BY DEF _timer_intent
    <2>2. /\ conv' \in ConvType /\ conv'.pc = "switch" /\ conv'.pre = Host
          /\ UNCHANGED <<unitFile, loaded, enabled, active, runtime>>
      BY <1>0, <1>2, <2>1 DEF snapshot, ConvType, ScPc
    <2>3. Host' = Host
      BY <2>2 DEF Host
    <2>4. Forward' /\ Backward'
      BY <2>2, MiddleStep
    <2> QED
      BY <1>0, <2>2, <2>3, <2>4, HostParts DEF SchedulerInv, SchedulerTypeOK, Untouched
  <1>3. CASE operator_disables
    <2>1. /\ conv.pc \notin {"idle", "activated", "effect", "converged", "rolled-back",
                             "recovery-required"}
          /\ enabled' = [enabled EXCEPT ![Required] = FALSE]
          /\ active' = [active EXCEPT ![Required] = FALSE]
          /\ UNCHANGED <<unitFile, loaded, runtime, conv>>
      BY <1>3 DEF operator_disables
    <2>2. /\ enabled' \in [Unit -> BOOLEAN] /\ active' \in [Unit -> BOOLEAN]
          /\ \A u \in Unit \ {Required} : enabled'[u] = enabled[u]
      BY <1>0, <2>1
    <2>3. Forward' /\ Backward'
      BY <2>1 DEF SchedulerInv, Forward, Backward
    <2> QED
      BY <1>0, <2>1, <2>2, <2>3, Within DEF SchedulerInv, Untouched
  <1> QED
    BY <1>1, <1>2, <1>3, ForwardStep, RaiseStep, BackStep DEF ScNext

\* A convergence that says it restored the exact preimage has restored it, and one
\* that reports success runs the release everywhere, for any set of units and any
\* pattern of failing operations.
THEOREM ConvergenceIsExact == ScInit /\ [][ScNext]_scVars => []ConvergenceExact
  <1>1. SchedulerInv => ConvergenceExact
    <2> SUFFICES ASSUME SchedulerInv PROVE ConvergenceExact
      OBVIOUS
    <2>1. enabled \in [Unit -> BOOLEAN] /\ Required \in Unit
      BY HostParts, SchedulerAssumption DEF SchedulerInv, SchedulerTypeOK
    <2>2. conv.pc = "converged" /\ OptedOut =>
            ~enabled[Required] /\ active[Required] = conv.pre.active[Required]
      BY <2>1 DEF SchedulerInv, Forward, _scheduler_readback, OptedOut
    <2> QED
      BY <2>2 DEF ConvergenceExact, SchedulerInv, Forward, Backward, Restored
  <1> QED
    BY <1>1, SchedulerInitial, SchedulerStep, PTL
=============================================================================
