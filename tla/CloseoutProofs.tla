--------------------------- MODULE CloseoutProofs ---------------------------
(***************************************************************************)
(* Machine-checked proofs about what is closed beside the close path.  The *)
(* three parts share no state.                                             *)
(*                                                                         *)
(* NoRunCloseout, for every set of tasks, clients, reviewers and bundles:  *)
(* what a closeout without a run records is what was shown and reviewed.   *)
(*                                                                         *)
(* EvidenceCloseout, for every set of runs, observers and criteria and any *)
(* evidence: the observer closes a run only on an attested bundle, through *)
(* quarantines, crashes and power losses.                                  *)
(*                                                                         *)
(* LiveRegister, for every set of callers, keys and contents and a journal *)
(* of any length: the history of a candidate is one chain of events, and   *)
(* only a closeout of an open candidate closes it.                         *)
(***************************************************************************)
EXTENDS NoRunCloseout, EvidenceCloseout, LiveRegister, TLAPS

\* Time for each leaf: the provers are given more than their default.
USE ZenonT(60), SMTT(60)

-----------------------------------------------------------------------------
\* Closing without a run (NoRunCloseout).

NrBasis == [kind : {"preview"}, t : NrTask, rev : Nat, task : Nat, plan : Nat,
            bundle : NrBundles, reviewer : NrReviewer]
NrStamp == [kind : {"stamp"}, basis : NrBasis, at : NrTimes \cup {0}]
NrRow == [state : {"verified"}, task : Nat, plan : Nat, receipt : NrStamp]

\* Types: a task carries a stamp of _receipt or none, a client holds a basis of
\* _preview_from_connection or none.
NrTypeOK ==
  /\ tasks \in [NrTask -> [state : {"ready", "verified"}, rev : Nat, body : Nat,
                           stamp : NrStamp \cup {NoStamp}]]
  /\ planNow \in Nat /\ ran \in [NrTask -> BOOLEAN]
  /\ rowOf \in [NrTask -> NrRow \cup {NoRow}]
  /\ replayed \in [NrTask -> NrRow \cup {NoRow}]
  /\ evidence \in NrBundles /\ nrNow \in NrTimes \cup {0}
  /\ clients \in [NrClient -> NrBasis \cup {NoPreview}]

\* What preview_task_no_run_closeout gave to a client was shown to it.
NrGiven == \A c \in NrClient : clients[c] # NoPreview => clients[c] \in shown

\* The inductive invariant: a task still open carries no stamp, so that the
\* apply of a preview is the first closeout of its task.
NoRunInv ==
  /\ NrTypeOK /\ NrGiven /\ ClosedAsShown
  /\ \A t \in NrTask : tasks[t].state = "ready" => tasks[t].stamp = NoStamp

\* What ClosedAsShown says of one task.
NrClosed(t) ==
  LET stamp == tasks[t].stamp
      basis == stamp.basis
  IN /\ basis \in shown /\ basis.t = t
     /\ basis.rev + 1 = tasks[t].rev /\ basis.task = tasks[t].body
     /\ _manual_authentications(basis.bundle, basis.reviewer)
     /\ Passes(basis.bundle, basis.task, basis.plan, stamp.at)
     /\ ~ran[t]
     /\ rowOf[t] = Row(t, stamp) /\ replayed[t] \in {rowOf[t], NoRow}

\* ClosedAsShown is that of every task apply_task_no_run_closeout has closed.
LEMMA ClosedEach == ClosedAsShown <=> \A t \in NrTask : Replaying(t) => NrClosed(t)
  BY DEF ClosedAsShown, NrClosed

\* The same after a step.
LEMMA ClosedEachNext ==
  ClosedAsShown' <=> \A t \in NrTask : Replaying(t)' => NrClosed(t)'
  BY DEF ClosedAsShown, NrClosed, Replaying

\* The states a database may start in, tasks closed by an earlier version of
\* apply_task_no_run_closeout included.
LEMMA NoRunInitial == NrInit => NoRunInv
<1> SUFFICES ASSUME NrInit PROVE NoRunInv
  OBVIOUS
<1>1. PICK old \in SUBSET NrTask, b \in NrBundles, who \in NrReviewer :
        LET basis(t) == [kind |-> "preview", t |-> t, rev |-> 1, task |-> 1, plan |-> 1,
                         bundle |-> b, reviewer |-> who]
            stamp(t) == _receipt(basis(t), 0)
        IN /\ \A t \in old : _validate_bundle_binding(b, 1, 1) /\ _manual_authentications(b, who)
                          /\ Passes(b, 1, 1, 0)
           /\ tasks = [t \in NrTask |->
                         IF t \in old THEN [state |-> "verified", rev |-> 2, body |-> 1,
                                            stamp |-> stamp(t)]
                         ELSE [state |-> "ready", rev |-> 1, body |-> 1, stamp |-> NoStamp]]
           /\ rowOf = [t \in NrTask |-> IF t \in old THEN Row(t, stamp(t)) ELSE NoRow]
           /\ shown = {basis(t) : t \in old}
           /\ replayed = [t \in NrTask |-> NoRow]
           /\ strange \in BOOLEAN
           /\ evidence = b /\ planNow = 1 /\ nrNow = 0
           /\ ran = [t \in NrTask |-> FALSE]
           /\ clients = [c \in NrClient |-> NoPreview]
  BY Zenon DEF NrInit
<1> DEFINE basis(t) == [kind |-> "preview", t |-> t, rev |-> 1, task |-> 1, plan |-> 1,
                        bundle |-> b, reviewer |-> who]
           stamp(t) == _receipt(basis(t), 0)
<1>2. /\ tasks = [t \in NrTask |->
                    IF t \in old THEN [state |-> "verified", rev |-> 2, body |-> 1,
                                       stamp |-> stamp(t)]
                    ELSE [state |-> "ready", rev |-> 1, body |-> 1, stamp |-> NoStamp]]
      /\ rowOf = [t \in NrTask |-> IF t \in old THEN Row(t, stamp(t)) ELSE NoRow]
      /\ shown = {basis(t) : t \in old}
      /\ replayed = [t \in NrTask |-> NoRow]
      /\ evidence = b /\ planNow = 1 /\ nrNow = 0
      /\ ran = [t \in NrTask |-> FALSE]
      /\ clients = [c \in NrClient |-> NoPreview]
  BY <1>1, Zenon
<1>3. \A t \in old : _manual_authentications(b, who) /\ Passes(b, 1, 1, 0)
  BY <1>1, Zenon
<1>4. \A t \in NrTask : basis(t) \in NrBasis /\ stamp(t) \in NrStamp
                        /\ stamp(t) = [kind |-> "stamp", basis |-> basis(t), at |-> 0]
                        /\ Row(t, stamp(t)) \in NrRow
  BY DEF NrBasis, NrStamp, NrRow, _receipt, Row
<1> HIDE DEF stamp
<1>5. NrTypeOK
  <2>1. tasks \in [NrTask -> [state : {"ready", "verified"}, rev : Nat, body : Nat,
                              stamp : NrStamp \cup {NoStamp}]]
    BY <1>2, <1>4
  <2>2. rowOf \in [NrTask -> NrRow \cup {NoRow}] /\ replayed \in [NrTask -> NrRow \cup {NoRow}]
    BY <1>2, <1>4
  <2> QED
    BY <2>1, <2>2, <1>2 DEF NrTypeOK
<1>6. NrGiven
  BY <1>2 DEF NrGiven
<1>7. ASSUME NEW t \in NrTask, Replaying(t)  PROVE NrClosed(t)
  <2>1. t \in old
    BY <1>2, <1>7 DEF Replaying
  <2>2. tasks[t] = [state |-> "verified", rev |-> 2, body |-> 1, stamp |-> stamp(t)]
    BY <2>1, <1>2
  <2>3. tasks[t].stamp = stamp(t) /\ tasks[t].rev = 2 /\ tasks[t].body = 1
    BY <2>2
  <2>4. /\ stamp(t).at = 0 /\ stamp(t).basis = basis(t)
        /\ basis(t).t = t /\ basis(t).rev = 1 /\ basis(t).task = 1 /\ basis(t).plan = 1
        /\ basis(t).bundle = b /\ basis(t).reviewer = who
    BY <1>4
  <2>5. basis(t) \in shown
    BY <1>2, <2>1
  <2>6. ~ran[t] /\ rowOf[t] = Row(t, stamp(t)) /\ replayed[t] = NoRow
    BY <1>2, <2>1
  <2>7. _manual_authentications(b, who) /\ Passes(b, 1, 1, 0)
    BY <1>3, <2>1
  <2> HIDE DEF basis
  <2> QED
    BY <2>3, <2>4, <2>5, <2>6, <2>7 DEF NrClosed
<1>8. \A t \in NrTask : tasks[t].state = "ready" => tasks[t].stamp = NoStamp
  BY <1>2
<1> QED
  BY <1>5, <1>6, <1>7, <1>8, ClosedEach DEF NoRunInv

\* A closed task stays closed as it was shown when a step leaves it, its
\* status row and its runs alone, and shows no less.
LEMMA ClosedStays ==
  ASSUME NEW t \in NrTask, Replaying(t)' => Replaying(t), Replaying(t) => NrClosed(t),
         tasks'[t] = tasks[t], ran'[t] = ran[t], rowOf'[t] = rowOf[t],
         replayed'[t] = replayed[t], shown \subseteq shown'
  PROVE  Replaying(t)' => NrClosed(t)'
<1> SUFFICES ASSUME Replaying(t)' PROVE NrClosed(t)'
  OBVIOUS
<1>1. NrClosed(t)
  OBVIOUS
<1> QED
  BY <1>1 DEF NrClosed

\* apply_task_no_run_closeout keeps the invariant: the task it closes was open,
\* and what it stores is the preview its client was given.
LEMMA NoRunApply ==
  ASSUME NoRunInv, NEW c \in NrClient, apply_task_no_run_closeout(c)
  PROVE  NoRunInv'
<1> DEFINE who == clients[c].reviewer
           basis == clients[c]
           stamp == _receipt(basis, nrNow)
<1>1. PICK t \in NrTask : t = clients[c].t
  BY DEF apply_task_no_run_closeout, NoRunInv, NrTypeOK, NrBasis
<1>2. basis \in NrBasis /\ basis \in shown /\ basis.t = t
  BY <1>1 DEF apply_task_no_run_closeout, NoRunInv, NrTypeOK, NrGiven
<1>3. /\ Previewable(t, who) /\ ~Replaying(t)
      /\ _preview_from_connection(t, who) = basis
      /\ tasks' = [tasks EXCEPT ![t].state = "verified", ![t].rev = @ + 1,
                                ![t].stamp = stamp]
      /\ rowOf' = [rowOf EXCEPT ![t] = Row(t, stamp)]
      /\ replayed' = [replayed EXCEPT ![t] = Row(t, stamp)]
      /\ UNCHANGED <<planNow, ran, strange, evidence, nrNow, clients, shown>>
  <2>1. SamePreview(basis)
    BY DEF apply_task_no_run_closeout
  <2>2. _preview_from_connection(t, who) = basis
    BY <1>1, <2>1, Zenon DEF SamePreview
  <2> HIDE DEF basis
  <2>3. clients[c] = basis
    BY DEF basis
  <2> QED
    BY <1>1, <2>2, <2>3, Zenon DEF apply_task_no_run_closeout
<1>4. /\ tasks[t].state = "ready" /\ ~ran[t]
      /\ _manual_authentications(evidence, who)
      /\ Passes(evidence, tasks[t].body, planNow, nrNow)
  BY <1>3 DEF Previewable, _load_bundle
<1>5. /\ basis.rev = tasks[t].rev /\ basis.task = tasks[t].body /\ basis.plan = planNow
      /\ basis.bundle = evidence /\ basis.reviewer = who
  <2>1. basis = [kind |-> "preview", t |-> t, rev |-> tasks[t].rev, task |-> tasks[t].body,
                 plan |-> planNow, bundle |-> evidence, reviewer |-> who]
    BY <1>3 DEF _preview_from_connection, _load_bundle
  <2> QED
    BY <2>1
<1> HIDE DEF basis
<1>6. stamp = [kind |-> "stamp", basis |-> basis, at |-> nrNow] /\ stamp \in NrStamp
      /\ stamp # NoStamp
  BY <1>2 DEF _receipt, NrStamp, NoRunInv, NrTypeOK, NoStamp
<1>7. stamp.basis = basis /\ stamp.at = nrNow /\ Row(t, stamp) \in NrRow
  BY SMTT(60), <1>6, <1>2 DEF Row, NrRow, NrBasis
<1> HIDE DEF stamp
<1>8. tasks \in [NrTask -> [state : {"ready", "verified"}, rev : Nat, body : Nat,
                            stamp : NrStamp \cup {NoStamp}]]
  BY DEF NoRunInv, NrTypeOK
<1>9. /\ tasks'[t] = [tasks[t] EXCEPT !.state = "verified", !.rev = tasks[t].rev + 1,
                                      !.stamp = stamp]
      /\ \A u \in NrTask \ {t} : tasks'[u] = tasks[u]
  BY <1>3, <1>8
<1>10. /\ tasks'[t].state = "verified" /\ tasks'[t].rev = tasks[t].rev + 1
       /\ tasks'[t].body = tasks[t].body /\ tasks'[t].stamp = stamp
  BY SMTT(60), <1>8, <1>9
<1>11. tasks' \in [NrTask -> [state : {"ready", "verified"}, rev : Nat, body : Nat,
                              stamp : NrStamp \cup {NoStamp}]]
  BY SMTT(60), <1>3, <1>6, <1>8
<1>12. rowOf' \in [NrTask -> NrRow \cup {NoRow}] /\ replayed' \in [NrTask -> NrRow \cup {NoRow}]
  BY <1>3, <1>7 DEF NoRunInv, NrTypeOK
<1>13. NrTypeOK'
  BY <1>3, <1>11, <1>12 DEF NoRunInv, NrTypeOK
<1>14. NrGiven'
  BY <1>3 DEF NoRunInv, NrGiven
<1>15. \A u \in NrTask : tasks'[u].state = "ready" => tasks'[u].stamp = NoStamp
  BY <1>9, <1>10 DEF NoRunInv
<1>16. rowOf'[t] = Row(t, stamp) /\ replayed'[t] = Row(t, stamp)
  BY <1>3 DEF NoRunInv, NrTypeOK
<1>17. NrClosed(t)'
  BY SMTT(60), <1>2, <1>3, <1>4, <1>5, <1>7, <1>10, <1>16 DEF NrClosed
<1>18. ASSUME NEW u \in NrTask, u # t  PROVE Replaying(u)' => NrClosed(u)'
  <2>1. /\ tasks'[u] = tasks[u] /\ ran'[u] = ran[u] /\ rowOf'[u] = rowOf[u]
        /\ replayed'[u] = replayed[u] /\ shown \subseteq shown'
    BY <1>3, <1>9, <1>18 DEF NoRunInv, NrTypeOK
  <2>2. Replaying(u)' => Replaying(u)
    BY <2>1 DEF Replaying
  <2>3. Replaying(u) => NrClosed(u)
    BY ClosedEach DEF NoRunInv
  <2> QED
    BY <2>1, <2>2, <2>3, ClosedStays
<1> QED
  BY <1>13, <1>14, <1>15, <1>17, <1>18, ClosedEachNext DEF NoRunInv

\* Every step of a client or of its surroundings keeps the invariant.
LEMMA NoRunStep == NoRunInv /\ [NrNext]_nrVars => NoRunInv'
<1> SUFFICES ASSUME NoRunInv, [NrNext]_nrVars PROVE NoRunInv'
  OBVIOUS
<1>0. /\ \A t \in NrTask : Replaying(t) => NrClosed(t)
      /\ NrTypeOK /\ NrGiven
      /\ \A t \in NrTask : tasks[t].state = "ready" => tasks[t].stamp = NoStamp
  BY ClosedEach DEF NoRunInv
<1>1. ASSUME NEW c \in NrClient, NEW t \in NrTask, NEW who \in NrReviewer,
             preview_task_no_run_closeout(c, t, who)
      PROVE  NoRunInv'
  <2> DEFINE basis == _preview_from_connection(t, who)
  <2>1. basis \in NrBasis
    <3>1. Replaying(t) => tasks[t].stamp \in NrStamp
      BY <1>0 DEF NrTypeOK, Replaying
    <3>2. Replaying(t) => tasks[t].stamp.basis.rev \in Nat
      BY <3>1 DEF NrStamp, NrBasis
    <3>3. tasks[t].rev \in Nat /\ tasks[t].body \in Nat /\ planNow \in Nat
          /\ evidence \in NrBundles
      BY <1>0 DEF NrTypeOK
    <3> QED
      BY <3>2, <3>3 DEF _preview_from_connection, NrBasis, _load_bundle
  <2>2. /\ clients' = [clients EXCEPT ![c] = basis] /\ shown' = shown \cup {basis}
        /\ UNCHANGED <<tasks, planNow, ran, rowOf, replayed, strange, evidence, nrNow>>
    BY <1>1 DEF preview_task_no_run_closeout
  <2> HIDE DEF basis
  <2>3. NrTypeOK' /\ NrGiven'
    BY <1>0, <2>1, <2>2 DEF NrTypeOK, NrGiven
  <2>4. ASSUME NEW u \in NrTask PROVE Replaying(u)' => NrClosed(u)'
    BY <2>2, <1>0, ClosedStays DEF Replaying
  <2> QED
    BY <1>0, <2>2, <2>3, <2>4, ClosedEachNext DEF NoRunInv
<1>2. ASSUME NEW c \in NrClient, apply_task_no_run_closeout(c) PROVE NoRunInv'
  BY <1>2, NoRunApply
<1>3. ASSUME NEW c \in NrClient, _backfill_replayed_task_projection(c) PROVE NoRunInv'
  <2>1. /\ replayed' \in {rowOf, replayed}
        /\ UNCHANGED <<tasks, planNow, ran, rowOf, strange, evidence, nrNow, clients, shown>>
    BY <1>3 DEF _backfill_replayed_task_projection
  <2>2. NrTypeOK' /\ NrGiven'
    BY <1>0, <2>1 DEF NrTypeOK, NrGiven
  <2>3. ASSUME NEW u \in NrTask PROVE Replaying(u)' => NrClosed(u)'
    <3>1. Replaying(u)' => NrClosed(u)
      BY <2>1, <1>0 DEF Replaying
    <3> QED
      BY <3>1, <2>1 DEF NrClosed
  <2> QED
    BY <1>0, <2>1, <2>2, <2>3, ClosedEachNext DEF NoRunInv
<1>4. ASSUME NEW t \in NrTask, revise_task(t) PROVE NoRunInv'
  <2>1. /\ tasks[t].state = "ready"
        /\ tasks' = [tasks EXCEPT ![t].rev = @ + 1, ![t].body = @ + 1]
        /\ UNCHANGED <<planNow, ran, rowOf, replayed, strange, evidence, nrNow, clients, shown>>
    BY <1>4 DEF revise_task
  <2>2. tasks \in [NrTask -> [state : {"ready", "verified"}, rev : Nat, body : Nat,
                              stamp : NrStamp \cup {NoStamp}]]
    BY <1>0 DEF NrTypeOK
  <2>3. /\ tasks' \in [NrTask -> [state : {"ready", "verified"}, rev : Nat, body : Nat,
                                  stamp : NrStamp \cup {NoStamp}]]
        /\ \A u \in NrTask \ {t} : tasks'[u] = tasks[u]
        /\ tasks'[t] = [tasks[t] EXCEPT !.rev = tasks[t].rev + 1, !.body = tasks[t].body + 1]
    BY SMTT(60), <2>1, <2>2
  <2>4. tasks'[t].state = "ready" /\ tasks'[t].stamp = tasks[t].stamp
    BY SMTT(60), <2>1, <2>2, <2>3
  <2>5. NrTypeOK' /\ NrGiven'
    BY <1>0, <2>1, <2>3 DEF NrTypeOK, NrGiven
  <2>6. ASSUME NEW u \in NrTask PROVE Replaying(u)' => NrClosed(u)'
    <3>1. CASE u = t
      BY <3>1, <2>4 DEF Replaying
    <3>2. CASE u # t
      BY <3>2, <2>1, <2>3, <1>0, ClosedStays DEF Replaying
    <3> QED
      BY <3>1, <3>2
  <2> QED
    BY <1>0, <2>3, <2>4, <2>5, <2>6, ClosedEachNext DEF NoRunInv
<1>5. ASSUME NEW t \in NrTask, claim_task(t) PROVE NoRunInv'
  <2>1. /\ tasks[t].state = "ready" /\ ran' = [ran EXCEPT ![t] = TRUE]
        /\ UNCHANGED <<tasks, planNow, rowOf, replayed, strange, evidence, nrNow, clients,
                       shown>>
    BY <1>5 DEF claim_task
  <2>2. NrTypeOK' /\ NrGiven'
    BY <1>0, <2>1 DEF NrTypeOK, NrGiven
  <2>3. ASSUME NEW u \in NrTask PROVE Replaying(u)' => NrClosed(u)'
    <3>1. CASE u = t
      BY <3>1, <2>1 DEF Replaying
    <3>2. CASE u # t
      <4>1. ran'[u] = ran[u]
        BY <3>2, <2>1, <1>0 DEF NrTypeOK
      <4> QED
        BY <4>1, <2>1, <1>0, ClosedStays DEF Replaying
    <3> QED
      BY <3>1, <3>2
  <2> QED
    BY <1>0, <2>1, <2>2, <2>3, ClosedEachNext DEF NoRunInv
<1>6. ASSUME \/ \E b \in NrBundles : write_evidence(b)
             \/ revise_plan \/ nr_time_passes
             \/ \E c \in NrClient : client_ends(c)
             \/ UNCHANGED nrVars
      PROVE  NoRunInv'
  <2>1. UNCHANGED <<tasks, ran, rowOf, replayed, shown>>
    BY <1>6 DEF write_evidence, revise_plan, nr_time_passes, client_ends, nrVars
  <2>2. /\ planNow' \in {planNow, planNow + 1} /\ evidence' \in NrBundles
        /\ nrNow' \in NrTimes \cup {0}
    BY <1>6, <1>0 DEF write_evidence, revise_plan, nr_time_passes, client_ends, nrVars, NrTypeOK
  <2>3. clients' \in [NrClient -> NrBasis \cup {NoPreview}] /\ NrGiven'
    BY <1>6, <1>0 DEF write_evidence, revise_plan, nr_time_passes, client_ends, nrVars,
                      NrTypeOK, NrGiven
  <2>4. NrTypeOK'
    BY SMTT(60), <1>0, <2>1, <2>2, <2>3 DEF NrTypeOK
  <2>5. ASSUME NEW u \in NrTask PROVE Replaying(u)' => NrClosed(u)'
    BY <2>1, <1>0, ClosedStays DEF Replaying
  <2> QED
    BY <1>0, <2>1, <2>3, <2>4, <2>5, ClosedEachNext DEF NoRunInv
<1> QED
  BY <1>1, <1>2, <1>3, <1>4, <1>5, <1>6, ZenonT(100) DEF NrNext

\* ClosedAsShown for any number of tasks, clients, reviewers and evidence files
\* and without a bound on revisions and time: a closeout that
\* apply_task_no_run_closeout wrote is one that was shown.
THEOREM NoRunClosedAsShown == NrInit /\ [][NrNext]_nrVars => []ClosedAsShown
<1>1. NoRunInv => ClosedAsShown
  BY DEF NoRunInv
<1> QED
  BY <1>1, NoRunInitial, NoRunStep, PTL

-----------------------------------------------------------------------------
\* Closing on evidence bundles (EvidenceCloseout).

\* Where an observer is: closing a run, unlinking its bundle, or in one of the
\* steps of a quarantine; Reads are those that work on a content it read,
\* InTxn those that work in a transaction directory.
Closing == {"authenticate", "evaluate", "complete"}
Reads == {"mkdir", "manifest", "move", "sync1", "sync2", "staged", "seal", "freeze", "rebind"}
InTxn == {"manifest", "move", "sync1", "sync2", "staged", "unstage", "seal", "freeze",
          "rebind", "item", "preserve", "preserved", "rmdir"}
ObsPc == {"rest", "unlink", "mkdir"} \cup Closing \cup InTxn

EcFile == [v : Nat, kind : EntryKind, private : BOOLEAN]
EcTxn == [at : {"pending", "item", "preserved", "gone"}, run : EvRun,
          manifest : [v : Nat, ino : Nat], payload : Nat, synced : Nat, note : BOOLEAN]
EcObs == [pc : ObsPc, run : EvRun \cup {0}, ino : Nat, v : Nat, txn : Nat,
          seen : SUBSET Nat, auth : SUBSET DOMAIN EvCriteria]

\* Types, and that every reference is to something that exists: a file to its
\* content, an entry and a payload to a file, an observer to what it read and
\* to its transaction.
RunsShape ==
  /\ runAt \in [EvRun -> {"unknown", "active"} \cup TERMINAL_RUN_STATES]
  /\ closedOn \in [EvRun -> Nat] /\ attested = [r \in EvRun |-> attested[r]]
  /\ pull \in PullState
FilesShape ==
  /\ inodes \in Seq(EcFile)
  /\ \A i \in 1..Len(inodes) : inodes[i].v \in 1..Len(claims)
LinksShape ==
  /\ link \in [EvRun -> 0..Len(inodes)] /\ linkSynced \in [EvRun -> 0..Len(inodes)]
TxnOK(txn) == txn \in EcTxn /\ {txn.payload, txn.synced} \subseteq 0..Len(inodes)
TxnsShape == txns \in Seq(EcTxn) /\ \A t \in 1..Len(txns) : TxnOK(txns[t])
ObsOK(o) ==
  /\ o \in EcObs
  /\ o.pc # "rest" => o.run \in EvRun
  /\ o.pc \in Closing => o.v \in 1..Len(claims)
  /\ o.pc \in Reads => o.v \in 1..Len(claims) /\ o.ino \in 1..Len(inodes)
  /\ o.pc \in InTxn => o.txn \in 1..Len(txns)
ObsShape == obs \in [Observer -> EcObs] /\ \A p \in Observer : ObsOK(obs[p])
EcTypeOK ==
  /\ RunsShape /\ FilesShape /\ LinksShape /\ TxnsShape /\ ObsShape
  /\ claims \in Seq(EvBundles \cup {NoEvidence})

\* What authenticate_state_evidence accepted is still what was attested, and a
\* merge it found is still there.
Justified(r, c, item) ==
  /\ item # NoItem
  /\ EvCriteria[c].verifier = "manual_observation" => <<c, item>> \in attested[r]
  /\ EvCriteria[c].verifier = "code_merged" /\ item.facts.merged = "yes" =>
       pull.merged = "yes" /\ pull.head = EvCriteria[c].target

\* A content that evaluate_run let pass: every criterion is authenticated, about
\* the run's task and plan, and its facts show what was asked.
Passed(c, item) ==
  /\ item.task = TASK /\ item.plan = PLAN
  /\ _fact_state(EvCriteria[c].verifier, item.facts, EvCriteria[c]) = PASSED
Supported(r, v) ==
  \A c \in DOMAIN EvCriteria : Justified(r, c, claims[v][c]) /\ Passed(c, claims[v][c])

\* The inductive invariant of the closeout.
EcClosing(o) ==
  /\ o.pc = "evaluate" => \A c \in o.auth : Justified(o.run, c, claims[o.v][c])
  /\ o.pc = "complete" => Supported(o.run, o.v)
EcClosed(r) ==
  /\ runAt[r] = "succeeded" <=> closedOn[r] # 0
  /\ closedOn[r] # 0 => closedOn[r] \in 1..Len(claims) /\ Supported(r, closedOn[r])
CloseoutInv ==
  /\ EcTypeOK
  /\ \A p \in Observer : EcClosing(obs[p])
  /\ \A r \in EvRun : EcClosed(r)

\* A merge that _fact_state accepts is one the facts call merged.
LEMMA MergedFact ==
  ASSUME NEW f, NEW k, _fact_state("code_merged", f, k) = PASSED
  PROVE  f.merged = "yes"
  BY DEF _fact_state, Said, PASSED, FAILED, UNKNOWN

\* evaluate_criterion passes only what is claimed, authenticated and about this
\* task and plan.
LEMMA CriterionPassed ==
  ASSUME NEW k, NEW item, NEW task, NEW plan, NEW now, NEW known,
         evaluate_criterion(k, item, task, plan, now, known) = PASSED
  PROVE  /\ item # NoItem /\ known
         /\ item.task = task /\ item.plan = plan
         /\ _fact_state(k.verifier, item.facts, k) = PASSED
  BY DEF evaluate_criterion, _revision_valid, PASSED, UNKNOWN

\* evaluate_acceptance passes only when every criterion does.
LEMMA AcceptancePassed ==
  ASSUME NEW criteria, NEW e, NEW task, NEW plan, NEW now, NEW known,
         evaluate_acceptance(criteria, e, task, plan, now, known) = PASSED,
         NEW c \in DOMAIN criteria
  PROVE  evaluate_criterion(criteria[c], e[c], task, plan, now, c \in known) = PASSED
<1> DEFINE result == [d \in DOMAIN criteria |->
                        evaluate_criterion(criteria[d], e[d], task, plan, now, d \in known)]
           In(state) == {d \in DOMAIN criteria : result[d] = state}
<1>1. In(PASSED) = DOMAIN criteria
  BY DEF evaluate_acceptance, PASSED, FAILED, UNKNOWN
<1>2. result[c] = PASSED
  BY ZenonT(100), <1>1
<1> QED
  BY <1>2

\* Every state the observers may start in.
LEMMA CloseoutInitial == EcInit => CloseoutInv
<1> SUFFICES ASSUME EcInit PROVE CloseoutInv
  OBVIOUS
<1>1. RunsShape
  BY DEF EcInit, RunsShape
<1>2. FilesShape /\ TxnsShape /\ claims \in Seq(EvBundles \cup {NoEvidence})
  BY DEF EcInit, FilesShape, TxnsShape
<1>3. LinksShape
  BY DEF EcInit, LinksShape
<1>4. Resting \in EcObs /\ Resting.pc = "rest"
  BY DEF Resting, EcObs, ObsPc
<1>5. ObsOK(Resting)
  BY <1>4 DEF ObsOK, Closing, Reads, InTxn
<1>6. obs = [p \in Observer |-> Resting]
  BY DEF EcInit
<1>7. ObsShape
  BY <1>4, <1>5, <1>6 DEF ObsShape
<1>8. \A p \in Observer : EcClosing(obs[p])
  BY <1>4, <1>6 DEF EcClosing
<1>9. \A r \in EvRun : EcClosed(r)
  BY DEF EcInit, EcClosed
<1> QED
  BY <1>1, <1>2, <1>3, <1>7, <1>8, <1>9 DEF CloseoutInv, EcTypeOK

\* What an observer refers to stays there while files, contents and
\* transactions are only added.
LEMMA ObsKept ==
  ASSUME NEW o, ObsOK(o), claims \in Seq(EvBundles \cup {NoEvidence}), inodes \in Seq(EcFile), txns \in Seq(EcTxn),
         Len(claims') \in Nat, Len(inodes') \in Nat, Len(txns') \in Nat,
         Len(claims) <= Len(claims'), Len(inodes) <= Len(inodes'), Len(txns) <= Len(txns')
  PROVE  /\ o \in EcObs
         /\ o.pc # "rest" => o.run \in EvRun
         /\ o.pc \in Closing => o.v \in 1..Len(claims')
         /\ o.pc \in Reads => o.v \in 1..Len(claims') /\ o.ino \in 1..Len(inodes')
         /\ o.pc \in InTxn => o.txn \in 1..Len(txns')
  BY DEF ObsOK

\* Nothing that justified a closeout goes away: contents are only added, so are
\* attestations, and a merged pull request stays merged.
Onward ==
  /\ Len(claims') \in Nat /\ Len(claims) <= Len(claims')
  /\ \A v \in 1..Len(claims) : claims'[v] = claims[v]
  /\ \A r \in EvRun : attested[r] \subseteq attested'[r]
  /\ pull.merged = "yes" => pull'.merged = "yes" /\ pull'.head = pull.head

\* What is justified stays justified, and what supports a run goes on to.
LEMMA SupportKept ==
  ASSUME Onward, NEW r \in EvRun
  PROVE  /\ \A c, item : Justified(r, c, item) => Justified(r, c, item)'
         /\ \A v \in 1..Len(claims) : Supported(r, v) => Supported(r, v)'
<1>1. ASSUME NEW c, NEW item, Justified(r, c, item)  PROVE Justified(r, c, item)'
  BY <1>1 DEF Justified, Onward
<1>2. ASSUME NEW v \in 1..Len(claims), Supported(r, v)  PROVE Supported(r, v)'
  <2>1. claims'[v] = claims[v]
    BY DEF Onward
  <2>2. ASSUME NEW c \in DOMAIN EvCriteria
        PROVE  Justified(r, c, claims[v][c])' /\ Passed(c, claims[v][c])'
    <3>1. Justified(r, c, claims[v][c]) /\ Passed(c, claims[v][c])
      BY <1>2 DEF Supported
    <3>2. ASSUME NEW item, item = claims[v][c]
          PROVE  Justified(r, c, claims[v][c])' /\ Passed(c, claims[v][c])'
      <4>1. Justified(r, c, item)' /\ Passed(c, item)
        BY <1>1, <3>1, <3>2
      <4>2. claims'[v][c] = item
        BY <2>1, <3>2
      <4> QED
        BY <4>1, <4>2 DEF Justified, Passed
    <3> QED
      BY <3>2
  <2> QED
    BY <2>2 DEF Supported
<1> QED
  BY <1>1, <1>2

\* A step that neither evaluates evidence nor closes a run keeps what is known
\* about those that do.
LEMMA ClosingKept ==
  ASSUME CloseoutInv, Onward, closedOn' = closedOn,
         \A r \in EvRun : runAt'[r] = "succeeded" <=> runAt[r] = "succeeded",
         \A p \in Observer : obs'[p] = obs[p] \/ obs'[p].pc \notin {"evaluate", "complete"}
  PROVE  (\A p \in Observer : EcClosing(obs[p])') /\ (\A r \in EvRun : EcClosed(r)')
<1>1. ASSUME NEW p \in Observer PROVE EcClosing(obs[p])'
  <2>1. CASE obs'[p].pc \notin {"evaluate", "complete"}
    BY <2>1 DEF EcClosing
  <2>2. CASE obs'[p] = obs[p] /\ obs[p].pc \in {"evaluate", "complete"}
    <3>1. PICK o : o = obs[p]
      OBVIOUS
    <3>2. o.run \in EvRun /\ o.v \in 1..Len(claims)
      BY <2>2, <3>1 DEF CloseoutInv, EcTypeOK, ObsShape, ObsOK, Closing
    <3>3. EcClosing(o)
      BY <3>1 DEF CloseoutInv
    <3>4. claims'[o.v] = claims[o.v]
      BY <3>2 DEF Onward
    <3>5. o.pc = "evaluate" => \A c \in o.auth : Justified(o.run, c, claims[o.v][c])'
      <4> SUFFICES ASSUME o.pc = "evaluate", NEW c \in o.auth
                   PROVE  Justified(o.run, c, claims[o.v][c])'
        OBVIOUS
      <4>1. PICK item : item = claims[o.v][c]
        OBVIOUS
      <4>2. Justified(o.run, c, item)'
        BY <4>1, <3>2, <3>3, SupportKept DEF EcClosing
      <4>3. claims'[o.v][c] = item
        BY <4>1, <3>4
      <4> QED
        BY <4>2, <4>3 DEF Justified
    <3>6. o.pc = "complete" => Supported(o.run, o.v)'
      BY <3>2, <3>3, SupportKept DEF EcClosing
    <3>7. obs'[p] = o
      BY <2>2, <3>1
    <3> QED
      BY <3>5, <3>6, <3>7 DEF EcClosing
  <2> QED
    BY <2>1, <2>2
<1>2. ASSUME NEW r \in EvRun PROVE EcClosed(r)'
  <2>1. EcClosed(r)
    BY DEF CloseoutInv
  <2>2. PICK v : v = closedOn[r]
    OBVIOUS
  <2>3. v # 0 => v \in 1..Len(claims) /\ Supported(r, v)'
    BY <2>1, <2>2, SupportKept DEF EcClosed
  <2>4. closedOn'[r] = v
    BY <2>2
  <2>5. v # 0 => v \in 1..Len(claims')
    BY SMTT(60), <2>3 DEF Onward, CloseoutInv, EcTypeOK
  <2>6. v # 0 => Supported(r, closedOn[r])'
    BY <2>3, <2>4 DEF Supported
  <2> QED
    BY <2>1, <2>2, <2>4, <2>5, <2>6 DEF EcClosed
<1> QED
  BY <1>1, <1>2

\* The shape of the state after a step that adds files, contents and
\* transactions, and moves some observers.
LEMMA ShapeKept ==
  ASSUME EcTypeOK, RunsShape', FilesShape', LinksShape', TxnsShape',
         claims' \in Seq(EvBundles \cup {NoEvidence}),
         Len(claims) <= Len(claims'), Len(inodes) <= Len(inodes'), Len(txns) <= Len(txns'),
         obs' \in [Observer -> EcObs],
         \A p \in Observer : obs'[p] = obs[p] \/ ObsOK(obs[p])'
  PROVE  EcTypeOK'
<1>1. ASSUME NEW p \in Observer PROVE ObsOK(obs[p])'
  <2>1. CASE obs'[p] = obs[p]
    <3>1. PICK o : o = obs[p]
      OBVIOUS
    <3>2. ObsOK(o)
      BY <3>1 DEF EcTypeOK, ObsShape
    <3>3. Len(claims') \in Nat /\ Len(inodes') \in Nat /\ Len(txns') \in Nat
      BY DEF FilesShape, TxnsShape
    <3>4. /\ o \in EcObs
          /\ o.pc # "rest" => o.run \in EvRun
          /\ o.pc \in Closing => o.v \in 1..Len(claims')
          /\ o.pc \in Reads => o.v \in 1..Len(claims') /\ o.ino \in 1..Len(inodes')
          /\ o.pc \in InTxn => o.txn \in 1..Len(txns')
      BY <3>2, <3>3, ObsKept DEF EcTypeOK, FilesShape, TxnsShape
    <3>5. obs'[p] = o
      BY <2>1, <3>1
    <3> QED
      BY <3>4, <3>5 DEF ObsOK
  <2> QED
    BY <2>1
<1> QED
  BY <1>1 DEF EcTypeOK, ObsShape

\* One observer moves, without closing a run or judging its evidence.
LEMMA ObserverStep ==
  ASSUME CloseoutInv, NEW p \in Observer, NEW rec, obs' = [obs EXCEPT ![p] = rec],
         UNCHANGED <<runSide, claims>>, ObsOK(rec)', rec.pc \notin {"evaluate", "complete"},
         Len(inodes) <= Len(inodes'), Len(txns) <= Len(txns'),
         FilesShape', LinksShape', TxnsShape'
  PROVE  CloseoutInv'
<1>1. obs \in [Observer -> EcObs] /\ claims \in Seq(EvBundles \cup {NoEvidence}) /\ RunsShape
  BY DEF CloseoutInv, EcTypeOK, ObsShape
<1>2. rec \in EcObs
  BY DEF ObsOK
<1>3. obs' \in [Observer -> EcObs] /\ obs'[p] = rec /\ \A q \in Observer \ {p} : obs'[q] = obs[q]
  BY <1>1, <1>2
<1>4. ObsOK(obs[p])'
  BY <1>3 DEF ObsOK
<1>5. Onward
  BY <1>1 DEF Onward, runSide
<1>6. RunsShape'
  BY <1>1 DEF RunsShape, runSide
<1>7. EcTypeOK'
  BY SMTT(60), <1>1, <1>3, <1>4, <1>6, ShapeKept DEF CloseoutInv
<1>8. (\A q \in Observer : EcClosing(obs[q])') /\ (\A r \in EvRun : EcClosed(r)')
  BY <1>3, <1>5, ClosingKept DEF runSide
<1> QED
  BY <1>7, <1>8 DEF CloseoutInv

\* A step that leaves the directories alone leaves them in shape.
LEMMA SameFiles ==
  ASSUME EcTypeOK, UNCHANGED <<inodes, link, linkSynced, txns, claims>>
  PROVE  /\ FilesShape' /\ LinksShape' /\ TxnsShape'
         /\ Len(inodes) <= Len(inodes') /\ Len(txns) <= Len(txns')
  BY DEF EcTypeOK, FilesShape, LinksShape, TxnsShape, TxnOK

\* An observer that rests refers to nothing.
LEMMA RestingOK ==
  ASSUME EcTypeOK, NEW p \in Observer
  PROVE  LET rec == [Resting EXCEPT !.seen = obs[p].seen]
         IN rec \in EcObs /\ rec.pc = "rest" /\ ObsOK(Resting)' /\ Resting.pc = "rest"
<1>1. obs[p].seen \in SUBSET Nat
  BY DEF EcTypeOK, ObsShape, EcObs
<1>2. Resting \in EcObs /\ Resting.pc = "rest"
  BY DEF Resting, EcObs, ObsPc
<1> QED
  BY <1>1, <1>2 DEF EcObs, ObsOK, Closing, Reads, InTxn

\* Rests: an observer gives up what it did.
LEMMA RestStep ==
  ASSUME CloseoutInv, NEW p \in Observer, Rests(p) \/ Set(p, Resting),
         UNCHANGED <<runSide, claims>>,
         Len(inodes) <= Len(inodes'), Len(txns) <= Len(txns'),
         FilesShape', LinksShape', TxnsShape'
  PROVE  CloseoutInv'
<1>1. PICK rec : rec \in EcObs /\ rec.pc = "rest" /\ obs' = [obs EXCEPT ![p] = rec]
  BY ZenonT(100), RestingOK DEF CloseoutInv, Rests, Set, ObsOK
<1>2. ObsOK(rec)'
  BY <1>1 DEF ObsOK, Closing, Reads, InTxn
<1> QED
  BY ZenonT(100), <1>1, <1>2, ObserverStep

\* An observer goes on to another step with what it has.
LEMMA GoesOn ==
  ASSUME EcTypeOK, NEW p \in Observer, NEW pc \in ObsPc \ {"rest"},
         Len(claims') \in Nat, Len(inodes') \in Nat, Len(txns') \in Nat,
         Len(claims) <= Len(claims'), Len(inodes) <= Len(inodes'), Len(txns) <= Len(txns'),
         obs[p].pc # "rest",
         pc \in Closing => obs[p].pc \in Closing,
         pc \in Reads => obs[p].pc \in Reads,
         pc \in InTxn => obs[p].pc \in InTxn
  PROVE  \E rec : rec = [obs[p] EXCEPT !.pc = pc] /\ rec.pc = pc /\ ObsOK(rec)'
<1>1. PICK o \in EcObs : o = obs[p]
  BY DEF EcTypeOK, ObsShape
<1>2. ObsOK(o)
  BY <1>1 DEF EcTypeOK, ObsShape
<1>3. /\ o.pc # "rest" => o.run \in EvRun
      /\ o.pc \in Closing => o.v \in 1..Len(claims')
      /\ o.pc \in Reads => o.v \in 1..Len(claims') /\ o.ino \in 1..Len(inodes')
      /\ o.pc \in InTxn => o.txn \in 1..Len(txns')
  BY <1>2, ObsKept DEF EcTypeOK, FilesShape, TxnsShape
<1>4. PICK rec : rec = [o EXCEPT !.pc = pc]
  BY ZenonT(100)
<1>5. rec \in EcObs /\ rec.pc = pc /\ rec.run = o.run /\ rec.v = o.v /\ rec.ino = o.ino
      /\ rec.txn = o.txn
  BY <1>4 DEF EcObs
<1>6. ObsOK(rec)'
  BY <1>1, <1>3, <1>5 DEF ObsOK
<1> QED
  BY ZenonT(100), <1>1, <1>4, <1>5, <1>6

\* Then: an observer goes on, within closing or within its quarantine.
LEMMA ThenStep ==
  ASSUME CloseoutInv, NEW p \in Observer, NEW pc \in ObsPc \ {"rest", "evaluate", "complete"},
         Then(p, pc), UNCHANGED <<runSide, claims>>,
         Len(inodes) <= Len(inodes'), Len(txns) <= Len(txns'),
         FilesShape', LinksShape', TxnsShape', obs[p].pc # "rest",
         pc \in Closing => obs[p].pc \in Closing,
         pc \in Reads => obs[p].pc \in Reads,
         pc \in InTxn => obs[p].pc \in InTxn
  PROVE  CloseoutInv'
<1>1. /\ Len(claims') \in Nat /\ Len(inodes') \in Nat /\ Len(txns') \in Nat
      /\ Len(claims) <= Len(claims')
  BY DEF CloseoutInv, EcTypeOK, FilesShape, TxnsShape
<1>2. PICK rec : rec = [obs[p] EXCEPT !.pc = pc] /\ rec.pc = pc /\ ObsOK(rec)'
  BY <1>1, GoesOn DEF CloseoutInv
<1> QED
  BY ZenonT(100), <1>2, ObserverStep DEF Then, Set

\* One transaction changes.
LEMMA TxnChanged ==
  ASSUME EcTypeOK, NEW t \in 1..Len(txns), NEW txn, txn \in EcTxn,
         {txn.payload, txn.synced} \subseteq 0..Len(inodes'),
         Len(inodes') \in Nat, Len(inodes) <= Len(inodes'),
         txns' = [txns EXCEPT ![t] = txn]
  PROVE  TxnsShape' /\ Len(txns') = Len(txns)
<1>1. txns \in Seq(EcTxn) /\ Len(inodes) \in Nat
  BY DEF EcTypeOK, TxnsShape, FilesShape
<1>2. txns' \in Seq(EcTxn) /\ Len(txns') = Len(txns) /\ txns'[t] = txn
      /\ \A u \in 1..Len(txns) : u # t => txns'[u] = txns[u]
  BY SMTT(60), <1>1
<1>3. ASSUME NEW u \in 1..Len(txns) PROVE TxnOK(txns[u])'
  <2>1. CASE u = t
    BY <1>2, <2>1 DEF TxnOK
  <2>2. CASE u # t
    BY SMTT(60), <1>1, <1>2, <2>2 DEF EcTypeOK, TxnsShape, TxnOK
  <2> QED
    BY <2>1, <2>2
<1> QED
  BY <1>2, <1>3 DEF TxnsShape

\* A transaction directory whose payload, manifest, state or note changes is
\* still one.
LEMMA TxnFields ==
  ASSUME EcTypeOK, NEW t \in 1..Len(txns)
  PROVE  LET txn == txns[t]
         IN /\ txn \in EcTxn /\ {txn.payload, txn.synced} \subseteq 0..Len(inodes)
            /\ txn.run \in EvRun
            /\ \A at \in {"pending", "item", "preserved", "gone"} :
                 LET new == [txn EXCEPT !.at = at]
                 IN new \in EcTxn /\ new.payload = txn.payload /\ new.synced = txn.synced
            /\ \A v, i \in Nat :
                 LET new == [txn EXCEPT !.manifest = [v |-> v, ino |-> i]]
                 IN new \in EcTxn /\ new.payload = txn.payload /\ new.synced = txn.synced
            /\ LET new == [txn EXCEPT !.note = TRUE]
               IN new \in EcTxn /\ new.payload = txn.payload /\ new.synced = txn.synced
            /\ \A i \in Nat :
                 LET new == [txn EXCEPT !.payload = i]
                 IN new \in EcTxn /\ new.payload = i /\ new.synced = txn.synced
<1>1. PICK txn \in EcTxn : txn = txns[t]
  BY DEF EcTypeOK, TxnsShape
<1>2. {txn.payload, txn.synced} \subseteq 0..Len(inodes)
  BY <1>1 DEF EcTypeOK, TxnsShape, TxnOK
<1>3. /\ txn.run \in EvRun
      /\ \A at \in {"pending", "item", "preserved", "gone"} :
           LET new == [txn EXCEPT !.at = at]
           IN new \in EcTxn /\ new.payload = txn.payload /\ new.synced = txn.synced
  BY DEF EcTxn
<1>4. \A v, i \in Nat :
        LET new == [txn EXCEPT !.manifest = [v |-> v, ino |-> i]]
        IN new \in EcTxn /\ new.payload = txn.payload /\ new.synced = txn.synced
  BY DEF EcTxn
<1>5. LET new == [txn EXCEPT !.note = TRUE]
      IN new \in EcTxn /\ new.payload = txn.payload /\ new.synced = txn.synced
  BY ZenonT(100) DEF EcTxn
<1>6. \A i \in Nat :
        LET new == [txn EXCEPT !.payload = i]
        IN new \in EcTxn /\ new.payload = i /\ new.synced = txn.synced
  BY DEF EcTxn
<1> QED
  BY SMTT(60), <1>1, <1>2, <1>3, <1>4, <1>5, <1>6

\* Syncing a transaction directory.
LEMMA SyncedOK ==
  ASSUME NEW txn \in EcTxn, NEW n \in Nat, txn.payload \in 0..n
  PROVE  LET new == [txn EXCEPT !.synced = txn.payload]
         IN new \in EcTxn /\ {new.payload, new.synced} \subseteq 0..n
            /\ new.payload = txn.payload
  BY DEF EcTxn

\* The step of _sync_directory on a changed transaction directory.
LEMMA SyncedChange ==
  ASSUME EcTypeOK, NEW t \in 1..Len(txns), NEW txn \in EcTxn, NEW v,
         txn.payload \in 0..Len(inodes'), Len(inodes') \in Nat, Len(inodes) <= Len(inodes'),
         SyncedTxn(t, txn, v)
  PROVE  TxnsShape' /\ Len(txns') = Len(txns)
<1>1. PICK new \in EcTxn : new = [txn EXCEPT !.synced = txn.payload]
                           /\ {new.payload, new.synced} \subseteq 0..Len(inodes')
  BY ZenonT(100), SyncedOK
<1>2. txns' = [txns EXCEPT ![t] = new]
  BY <1>1 DEF SyncedTxn, SetTxn
<1> QED
  BY ZenonT(100), <1>1, <1>2, TxnChanged

\* What reading a file that is there gives.
LEMMA LinkedFile ==
  ASSUME EcTypeOK, NEW r \in EvRun, link[r] # 0
  PROVE  link[r] \in 1..Len(inodes) /\ V(link[r]) \in 1..Len(claims)
<1>1. link[r] \in 1..Len(inodes)
  BY DEF EcTypeOK, LinksShape, FilesShape
<1> QED
  BY <1>1 DEF EcTypeOK, FilesShape, V

\* The steps that read a bundle file: reconcile_runs, the retirement of a
\* finished run's bundle, and the first step of a quarantine.
LEMMA ReadSteps ==
  ASSUME CloseoutInv, NEW p \in Observer, NEW r \in EvRun,
         reconcile_runs(p, r) \/ retire_terminal_evidence_bundles(p, r) \/ quarantine_read(p, r)
  PROVE  CloseoutInv'
<1>0. EcTypeOK /\ obs[p] \in EcObs
  BY DEF CloseoutInv, EcTypeOK, ObsShape
<1>1. UNCHANGED <<runSide, fileSide, failures>>
  BY DEF reconcile_runs, retire_terminal_evidence_bundles, quarantine_read
<1>2. UNCHANGED runSide /\ UNCHANGED claims /\ UNCHANGED inodes /\ UNCHANGED txns
      /\ UNCHANGED link /\ UNCHANGED linkSynced
  BY <1>1 DEF fileSide
<1>3. /\ FilesShape' /\ LinksShape' /\ TxnsShape'
      /\ Len(inodes) <= Len(inodes') /\ Len(txns) <= Len(txns')
  BY <1>0, <1>2, SameFiles
<1>4. link[r] # 0
  BY DEF reconcile_runs, retire_terminal_evidence_bundles, quarantine_read,
         load_state_evidence_bundle
<1>5. link[r] \in 1..Len(inodes) /\ V(link[r]) \in 1..Len(claims)
  BY <1>0, <1>4, LinkedFile
<1>6. link[r] \in Nat /\ V(link[r]) \in Nat
  BY <1>5
<1>7. \E rec : obs' = [obs EXCEPT ![p] = rec] /\ rec.pc \notin {"evaluate", "complete"} /\ ObsOK(rec)'
  <2>1. CASE reconcile_runs(p, r)
    <3>1. PICK rec : rec = [obs[p] EXCEPT !.pc = "authenticate", !.run = r, !.v = V(link[r])]
      OBVIOUS
    <3>2. rec \in EcObs /\ rec.pc = "authenticate" /\ rec.run = r /\ rec.v = V(link[r])
      BY ZenonT(100), <1>0, <1>6, <3>1 DEF EcObs, ObsPc, Closing
    <3>3. ObsOK(rec)'
      BY <1>2, <1>5, <3>2 DEF ObsOK, Closing, Reads, InTxn
    <3> QED
      BY ZenonT(100), <2>1, <3>1, <3>2, <3>3 DEF reconcile_runs, Set
  <2>2. CASE retire_terminal_evidence_bundles(p, r)
    <3>1. PICK rec : rec = [obs[p] EXCEPT !.pc = "unlink", !.run = r]
      OBVIOUS
    <3>2. rec \in EcObs /\ rec.pc = "unlink" /\ rec.run = r
      BY ZenonT(100), <1>0, <3>1 DEF EcObs, ObsPc
    <3>3. ObsOK(rec)'
      BY <3>2 DEF ObsOK, Closing, Reads, InTxn
    <3> QED
      BY ZenonT(100), <2>2, <3>1, <3>2, <3>3 DEF retire_terminal_evidence_bundles, Set
  <2>3. CASE quarantine_read(p, r)
    <3>1. PICK rec : rec = [obs[p] EXCEPT !.pc = "mkdir", !.run = r, !.ino = link[r],
                                          !.v = V(link[r])]
      OBVIOUS
    <3>2. rec \in EcObs /\ rec.pc = "mkdir" /\ rec.run = r /\ rec.v = V(link[r])
          /\ rec.ino = link[r]
      BY ZenonT(100), <1>0, <1>6, <3>1 DEF EcObs, ObsPc
    <3>3. ObsOK(rec)'
      BY <1>2, <1>5, <3>2 DEF ObsOK, Closing, Reads, InTxn
    <3> QED
      BY ZenonT(100), <2>3, <3>1, <3>2, <3>3 DEF quarantine_read, Set
  <2> QED
    BY <2>1, <2>2, <2>3
<1>8. PICK rec : obs' = [obs EXCEPT ![p] = rec] /\ rec.pc \notin {"evaluate", "complete"} /\ ObsOK(rec)'
  BY ZenonT(100), <1>7
<1> QED
  BY ZenonT(100), <1>2, <1>3, <1>8, ObserverStep

\* An observer that judges a bundle moves, and nothing else does.
LEMMA JudgeStep ==
  ASSUME CloseoutInv, NEW p \in Observer, NEW rec, obs' = [obs EXCEPT ![p] = rec],
         UNCHANGED <<runSide, fileSide>>, ObsOK(rec)', EcClosing(rec)
  PROVE  CloseoutInv'
<1>0. EcTypeOK /\ obs \in [Observer -> EcObs] /\ claims \in Seq(EvBundles \cup {NoEvidence})
  BY DEF CloseoutInv, EcTypeOK, ObsShape
<1>1. UNCHANGED <<inodes, link, linkSynced, txns, claims>>
  BY DEF fileSide
<1>2. UNCHANGED <<runAt, closedOn, attested, pull>>
  BY DEF runSide
<1>3. rec \in EcObs
  BY DEF ObsOK
<1>4. obs' \in [Observer -> EcObs] /\ obs'[p] = rec /\ \A q \in Observer \ {p} : obs'[q] = obs[q]
  BY <1>0, <1>3
<1>5. EcTypeOK'
  <2>1. /\ FilesShape' /\ LinksShape' /\ TxnsShape'
        /\ Len(inodes) <= Len(inodes') /\ Len(txns) <= Len(txns')
    BY <1>0, <1>1, SameFiles
  <2>2. RunsShape'
    BY <1>0, <1>2 DEF EcTypeOK, RunsShape
  <2>3. \A q \in Observer : obs'[q] = obs[q] \/ ObsOK(obs[q])'
    BY <1>4 DEF ObsOK
  <2> QED
    BY SMTT(60), <1>0, <1>1, <1>4, <2>1, <2>2, <2>3, ShapeKept
<1>6. ASSUME NEW o, EcClosing(o) PROVE EcClosing(o)'
  BY <1>1, <1>2, <1>6 DEF EcClosing, Supported, Justified, Passed
<1>7. ASSUME NEW q \in Observer PROVE EcClosing(obs[q])'
  <2>1. PICK o : o = obs'[q] /\ EcClosing(o)
    BY <1>4 DEF CloseoutInv
  <2> QED
    BY <1>6, <2>1 DEF EcClosing
<1>8. \A r \in EvRun : EcClosed(r)'
  BY ZenonT(100), <1>1, <1>2 DEF CloseoutInv, EcClosed, Supported, Justified, Passed
<1> QED
  BY <1>5, <1>7, <1>8 DEF CloseoutInv

\* authenticate: what is accepted is what was attested or what GitHub shows now.
LEMMA AuthenticateStep ==
  ASSUME CloseoutInv, NEW p \in Observer, authenticate(p)
  PROVE  CloseoutInv'
<1>0. EcTypeOK /\ obs \in [Observer -> EcObs] /\ ObsOK(obs[p]) /\ claims \in Seq(EvBundles \cup {NoEvidence})
  BY DEF CloseoutInv, EcTypeOK, ObsShape
<1>1. PICK o \in EcObs : o = obs[p]
  BY <1>0
<1>2. PICK known : known = authenticate_state_evidence(o.run, claims[o.v])
  OBVIOUS
<1>3. PICK rec : rec = [o EXCEPT !.pc = "evaluate", !.auth = known]
  OBVIOUS
<1>4. obs' = [obs EXCEPT ![p] = rec] /\ UNCHANGED <<runSide, fileSide, failures>>
      /\ o.pc = "authenticate"
  BY <1>1, <1>2, <1>3 DEF authenticate, Set, Does
<1>5. UNCHANGED runSide /\ UNCHANGED claims /\ UNCHANGED inodes /\ UNCHANGED txns
      /\ UNCHANGED link /\ UNCHANGED linkSynced
  BY <1>4 DEF fileSide
<1>6. UNCHANGED <<runAt, closedOn, attested, pull>>
  BY <1>5 DEF runSide
<1>7. known \in SUBSET DOMAIN EvCriteria
  BY <1>2 DEF authenticate_state_evidence
<1>8. \A c \in known : Justified(o.run, c, claims[o.v][c])
  <2> SUFFICES ASSUME NEW c \in known PROVE Justified(o.run, c, claims[o.v][c])
    OBVIOUS
  <2>1. PICK item : item = claims[o.v][c]
    OBVIOUS
  <2>2. /\ item # NoItem
        /\ IF EvCriteria[c].verifier = "manual_observation"
           THEN <<c, item>> \in attested[o.run]
           ELSE _github_evidence_matches_live(EvCriteria[c], item)
    BY <1>2, <2>1 DEF authenticate_state_evidence
  <2>3. EvCriteria[c].verifier = "code_merged" =>
          pull.head = EvCriteria[c].target /\ item.facts.merged = pull.merged
    BY <2>2 DEF _github_evidence_matches_live
  <2>4. Justified(o.run, c, item)
    BY <2>2, <2>3 DEF Justified
  <2> QED
    BY <2>1, <2>4
<1>9. rec \in EcObs /\ rec.pc = "evaluate" /\ rec.run = o.run /\ rec.v = o.v /\ rec.auth = known
  BY ZenonT(100), <1>3, <1>7 DEF EcObs, ObsPc, Closing
<1>10. o.run \in EvRun /\ o.v \in 1..Len(claims)
  BY <1>0, <1>1, <1>4 DEF ObsOK, Closing
<1>11. ObsOK(rec)'
  BY <1>5, <1>9, <1>10 DEF ObsOK, Closing, Reads, InTxn
<1>12. EcClosing(rec)
  BY <1>8, <1>9 DEF EcClosing
<1>13. UNCHANGED <<runSide, fileSide>>
  BY <1>4
<1> QED
  BY ZenonT(100), <1>4, <1>11, <1>12, <1>13, JudgeStep

\* evaluate_run lets only evidence through that supports the run.
LEMMA EvaluateStep ==
  ASSUME CloseoutInv, NEW p \in Observer, evaluate_run(p)
  PROVE  CloseoutInv'
<1>0. EcTypeOK /\ EcClosing(obs[p]) /\ obs[p] \in EcObs /\ obs[p].pc = "evaluate"
  BY DEF CloseoutInv, EcTypeOK, ObsShape, evaluate_run, Does
<1>1. UNCHANGED <<runSide, fileSide>>
  BY DEF evaluate_run
<1>2. UNCHANGED <<inodes, link, linkSynced, txns, claims>>
  BY <1>1 DEF fileSide
<1>3. /\ FilesShape' /\ LinksShape' /\ TxnsShape'
      /\ Len(inodes) <= Len(inodes') /\ Len(txns) <= Len(txns')
  BY <1>0, <1>2, SameFiles
<1>4. CASE Rests(p)
  BY <1>1, <1>2, <1>3, <1>4, RestStep
<1>5. CASE /\ Then(p, "complete")
           /\ evaluate_acceptance(EvCriteria, claims[obs[p].v], TASK, PLAN, clock,
                                  obs[p].auth) = PASSED
  <2>1. PICK o \in EcObs : o = obs[p]
    BY <1>0
  <2>2. ASSUME NEW c \in DOMAIN EvCriteria
        PROVE  Justified(o.run, c, claims[o.v][c]) /\ Passed(c, claims[o.v][c])
    <3>1. evaluate_criterion(EvCriteria[c], claims[o.v][c], TASK, PLAN, clock, c \in o.auth) = PASSED
      BY <1>5, <2>1, AcceptancePassed
    <3>2. PICK item : item = claims[o.v][c]
      OBVIOUS
    <3>3. evaluate_criterion(EvCriteria[c], item, TASK, PLAN, clock, c \in o.auth) = PASSED
      BY <3>1, <3>2
    <3>4. /\ c \in o.auth /\ item.task = TASK /\ item.plan = PLAN
          /\ _fact_state(EvCriteria[c].verifier, item.facts, EvCriteria[c]) = PASSED
      BY ZenonT(100), <3>3, CriterionPassed
    <3>5. Justified(o.run, c, item)
      BY <1>0, <2>1, <3>2, <3>4 DEF EcClosing
    <3> QED
      BY <3>2, <3>4, <3>5 DEF Passed
  <2>3. Len(claims') \in Nat /\ Len(inodes') \in Nat /\ Len(txns') \in Nat
        /\ Len(claims) <= Len(claims')
    BY <1>0, <1>2 DEF EcTypeOK, FilesShape, TxnsShape
  <2>4. PICK rec : rec = [obs[p] EXCEPT !.pc = "complete"] /\ rec.pc = "complete" /\ ObsOK(rec)'
    BY ZenonT(100), <1>0, <1>3, <2>3, GoesOn DEF ObsPc, Closing, Reads, InTxn
  <2>5. rec.run = o.run /\ rec.v = o.v
    BY <2>1, <2>4 DEF EcObs
  <2>6. EcClosing(rec)
    BY <2>2, <2>4, <2>5 DEF EcClosing, Supported
  <2>7. obs' = [obs EXCEPT ![p] = rec]
    BY <1>5, <2>4 DEF Then, Set
  <2> QED
    BY ZenonT(100), <1>1, <2>4, <2>6, <2>7, JudgeStep
<1> QED
  BY <1>4, <1>5 DEF evaluate_run

\* reconcile_run closes the run it judged, if that is still open.
LEMMA CompleteStep ==
  ASSUME CloseoutInv, NEW p \in Observer, reconcile_run(p)
  PROVE  CloseoutInv'
<1>0. /\ EcTypeOK /\ EcClosing(obs[p]) /\ ObsOK(obs[p]) /\ obs[p].pc = "complete"
      /\ obs \in [Observer -> EcObs] /\ claims \in Seq(EvBundles \cup {NoEvidence}) /\ RunsShape
  BY DEF CloseoutInv, EcTypeOK, ObsShape, reconcile_run, Does
<1>1. PICK r \in EvRun, v \in 1..Len(claims) :
        r = obs[p].run /\ v = obs[p].v /\ Supported(r, v)
  BY <1>0 DEF ObsOK, Closing, EcClosing
<1>2. UNCHANGED <<attested, pull, inodes, link, linkSynced, txns, claims>>
  BY DEF reconcile_run, fileSide
<1>3. /\ FilesShape' /\ LinksShape' /\ TxnsShape'
      /\ Len(inodes) <= Len(inodes') /\ Len(txns) <= Len(txns')
  BY <1>0, <1>2, SameFiles
<1>4. PICK rec : rec \in EcObs /\ rec.pc = "rest" /\ obs' = [obs EXCEPT ![p] = rec]
  BY ZenonT(100), <1>0, RestingOK DEF reconcile_run, Rests, Set
<1>5. obs' \in [Observer -> EcObs] /\ obs'[p] = rec /\ \A q \in Observer \ {p} : obs'[q] = obs[q]
  BY <1>0, <1>4
<1>6. /\ runAt' = IF runAt[r] = "active" THEN [runAt EXCEPT ![r] = "succeeded"] ELSE runAt
      /\ closedOn' = IF runAt[r] = "active" THEN [closedOn EXCEPT ![r] = v] ELSE closedOn
  BY <1>1 DEF reconcile_run
<1>7. RunsShape'
  <2>1. v \in Nat
    BY <1>0, <1>1
  <2>2. runAt' \in [EvRun -> {"unknown", "active"} \cup TERMINAL_RUN_STATES]
        /\ closedOn' \in [EvRun -> Nat]
    BY <1>0, <1>6, <2>1 DEF RunsShape, TERMINAL_RUN_STATES
  <2> QED
    BY <1>0, <1>2, <2>2 DEF RunsShape
<1>8. EcTypeOK'
  <2>1. ObsOK(obs[p])'
    BY <1>4, <1>5 DEF ObsOK, Closing, Reads, InTxn
  <2> QED
    BY <1>0, <1>2, <1>3, <1>5, <1>7, <2>1, ShapeKept
<1>9. ASSUME NEW s, NEW w, Supported(s, w) PROVE Supported(s, w)'
  BY <1>2, <1>9 DEF Supported, Justified, Passed
<1>10. ASSUME NEW q \in Observer PROVE EcClosing(obs[q])'
  <2>1. PICK o : o = obs'[q] /\ EcClosing(o)
    BY <1>4, <1>5 DEF CloseoutInv, EcClosing
  <2>2. EcClosing(o)'
    BY ZenonT(100), <1>2, <1>9, <2>1 DEF EcClosing, Justified
  <2> QED
    BY ZenonT(100), <2>1, <2>2 DEF EcClosing
<1>11. ASSUME NEW s \in EvRun PROVE EcClosed(s)'
  <2>1. EcClosed(s)
    BY DEF CloseoutInv
  <2>2. CASE s = r /\ runAt[r] = "active"
    <3>1. runAt'[s] = "succeeded" /\ closedOn'[s] = v /\ v # 0
      BY SMTT(60), <1>0, <1>6, <2>2 DEF RunsShape
    <3>2. Supported(s, v)'
      BY <1>1, <1>9, <2>2
    <3>3. v \in 1..Len(claims')
      BY <1>2
    <3> QED
      BY <3>1, <3>2, <3>3 DEF EcClosed, Supported
  <2>3. CASE ~(s = r /\ runAt[r] = "active")
    <3>1. runAt'[s] = runAt[s] /\ closedOn'[s] = closedOn[s]
      BY <1>0, <1>6, <2>3 DEF RunsShape
    <3>2. PICK w : w = closedOn[s]
      OBVIOUS
    <3> QED
      BY ZenonT(100), <1>2, <1>9, <2>1, <3>1, <3>2 DEF EcClosed, Supported
  <2> QED
    BY <2>2, <2>3
<1> QED
  BY <1>8, <1>10, <1>11 DEF CloseoutInv

\* A step that leaves files and entries alone leaves them in shape.
LEMMA SameEntries ==
  ASSUME EcTypeOK, UNCHANGED <<inodes, link, linkSynced, claims>>
  PROVE  /\ FilesShape' /\ LinksShape' /\ Len(inodes) <= Len(inodes')
         /\ Len(inodes') \in Nat /\ Len(inodes') = Len(inodes)
  BY DEF EcTypeOK, FilesShape, LinksShape

\* A step of an observer inside its transaction, after which the transactions
\* are in shape.
LEMMA InTxnStep ==
  ASSUME CloseoutInv, NEW p \in Observer, obs[p].pc \in InTxn,
         UNCHANGED <<runSide, claims>>, FilesShape', LinksShape', TxnsShape',
         Len(inodes) <= Len(inodes'), Len(txns) <= Len(txns'),
         \/ Rests(p)
         \/ \E pc \in InTxn : Then(p, pc) /\ (pc \in Reads => obs[p].pc \in Reads)
  PROVE  CloseoutInv'
<1>1. CASE Rests(p)
  BY <1>1, RestStep
<1>2. CASE \E pc \in InTxn : Then(p, pc) /\ (pc \in Reads => obs[p].pc \in Reads)
  <2>1. PICK pc \in InTxn : Then(p, pc) /\ (pc \in Reads => obs[p].pc \in Reads)
    BY <1>2
  <2>2. pc \in ObsPc \ {"rest", "evaluate", "complete"} /\ pc \notin Closing /\ obs[p].pc # "rest"
    BY DEF ObsPc, InTxn, Closing
  <2> QED
    BY <2>1, <2>2, ThenStep
<1> QED
  BY <1>1, <1>2

\* The transaction an observer works in.
LEMMA OwnTxn ==
  ASSUME CloseoutInv, NEW p \in Observer, obs[p].pc \in InTxn
  PROVE  EcTypeOK /\ obs[p].txn \in 1..Len(txns) /\ TxnsShape /\ Len(txns) \in Nat
  BY DEF CloseoutInv, EcTypeOK, ObsShape, ObsOK, TxnsShape

\* One field of one transaction changes.
LEMMA FieldChanged ==
  ASSUME EcTypeOK, UNCHANGED <<inodes, link, linkSynced, claims>>, NEW t \in 1..Len(txns),
         \/ \E at \in {"pending", "item", "preserved", "gone"} :
              txns' = [txns EXCEPT ![t] = [txns[t] EXCEPT !.at = at]]
         \/ \E v, i \in Nat : txns' = [txns EXCEPT ![t] =
                                        [txns[t] EXCEPT !.manifest = [v |-> v, ino |-> i]]]
         \/ \E i \in 0..Len(inodes) : txns' = [txns EXCEPT ![t] = [txns[t] EXCEPT !.payload = i]]
  PROVE  TxnsShape' /\ Len(txns) <= Len(txns')
<1>1. Len(inodes') \in Nat /\ Len(inodes') = Len(inodes) /\ Len(txns) \in Nat
  BY SMTT(60), SameEntries DEF EcTypeOK, TxnsShape
<1>2. txns[t].payload \in 0..Len(inodes) /\ txns[t].synced \in 0..Len(inodes)
  BY ZenonT(100), TxnFields
<1>3. ASSUME NEW new \in EcTxn, txns' = [txns EXCEPT ![t] = new],
             new.payload \in 0..Len(inodes), new.synced \in 0..Len(inodes)
      PROVE  TxnsShape' /\ Len(txns) <= Len(txns')
  <2>1. {new.payload, new.synced} \subseteq 0..Len(inodes')
    BY <1>1, <1>3
  <2>2. Len(inodes) <= Len(inodes')
    BY SMTT(60), <1>1
  <2>3. TxnsShape' /\ Len(txns') = Len(txns)
    BY ZenonT(100), <1>1, <1>3, <2>1, <2>2, TxnChanged
  <2> QED
    BY SMTT(60), <1>1, <2>3
<1>4. CASE \E at \in {"pending", "item", "preserved", "gone"} :
             txns' = [txns EXCEPT ![t] = [txns[t] EXCEPT !.at = at]]
  <2>1. PICK at \in {"pending", "item", "preserved", "gone"} :
          txns' = [txns EXCEPT ![t] = [txns[t] EXCEPT !.at = at]]
    BY ZenonT(100), <1>4
  <2>2. PICK new : new = [txns[t] EXCEPT !.at = at]
    BY ZenonT(100)
  <2>3. new \in EcTxn /\ new.payload = txns[t].payload /\ new.synced = txns[t].synced
    BY ZenonT(100), <2>2, TxnFields
  <2> QED
    BY ZenonT(100), <1>2, <1>3, <2>1, <2>2, <2>3
<1>5. CASE \E v, i \in Nat : txns' = [txns EXCEPT ![t] =
                                       [txns[t] EXCEPT !.manifest = [v |-> v, ino |-> i]]]
  <2>1. PICK v, i \in Nat : txns' = [txns EXCEPT ![t] =
                                       [txns[t] EXCEPT !.manifest = [v |-> v, ino |-> i]]]
    BY ZenonT(100), <1>5
  <2>2. PICK new : new = [txns[t] EXCEPT !.manifest = [v |-> v, ino |-> i]]
    BY ZenonT(100)
  <2>3. new \in EcTxn /\ new.payload = txns[t].payload /\ new.synced = txns[t].synced
    BY ZenonT(100), <2>2, TxnFields
  <2> QED
    BY ZenonT(100), <1>2, <1>3, <2>1, <2>2, <2>3
<1>6. CASE \E i \in 0..Len(inodes) :
             txns' = [txns EXCEPT ![t] = [txns[t] EXCEPT !.payload = i]]
  <2>1. PICK i \in 0..Len(inodes) : txns' = [txns EXCEPT ![t] = [txns[t] EXCEPT !.payload = i]]
    BY ZenonT(100), <1>6
  <2>2. PICK new : new = [txns[t] EXCEPT !.payload = i]
    BY ZenonT(100)
  <2>3. i \in Nat
    BY SMTT(60), <1>1
  <2>4. new \in EcTxn /\ new.payload = i /\ new.synced = txns[t].synced
    BY ZenonT(100), <2>2, <2>3, TxnFields
  <2> QED
    BY ZenonT(100), <1>2, <1>3, <2>1, <2>2, <2>4
<1> QED
  BY <1>4, <1>5, <1>6

\* rename_transaction and _cleanup_pre_move_transaction.
LEMMA EndSteps ==
  ASSUME CloseoutInv, NEW p \in Observer,
         \/ \E to \in {"item", "preserved"} : rename_transaction(p, to)
         \/ _cleanup_pre_move_transaction(p)
  PROVE  CloseoutInv'
<1>1. obs[p].pc \in InTxn /\ UNCHANGED onlyTxns /\ Rests(p)
  BY DEF rename_transaction, _cleanup_pre_move_transaction, Does, InTxn
<1>2. EcTypeOK /\ obs[p].txn \in 1..Len(txns) /\ TxnsShape /\ Len(txns) \in Nat
  BY <1>1, OwnTxn
<1>3. UNCHANGED <<runSide, claims>> /\ UNCHANGED <<inodes, link, linkSynced, claims>>
  BY <1>1 DEF onlyTxns
<1>4. FilesShape' /\ LinksShape' /\ Len(inodes) <= Len(inodes') /\ Len(inodes') = Len(inodes)
  BY <1>2, <1>3, SameEntries
<1>5. PICK t \in 1..Len(txns) : t = obs[p].txn
  BY <1>2
<1>6. TxnsShape' /\ Len(txns) <= Len(txns')
  <2>1. CASE txns' = txns
    BY <1>2, <1>4, <2>1 DEF TxnsShape, TxnOK
  <2>2. CASE txns' # txns
    <3>1. \E at \in {"item", "preserved", "gone"} : txns' = [txns EXCEPT ![t].at = at]
      BY <1>5, <2>2 DEF rename_transaction, _cleanup_pre_move_transaction
    <3>2. \E at \in {"pending", "item", "preserved", "gone"} :
            txns' = [txns EXCEPT ![t] = [txns[t] EXCEPT !.at = at]]
      BY ZenonT(100), <3>1
    <3> QED
      BY ZenonT(100), <1>2, <1>3, <3>2, FieldChanged
  <2> QED
    BY <2>1, <2>2
<1> QED
  BY <1>1, <1>3, <1>4, <1>6, InTxnStep

\* Steps that leave every file, entry and transaction alone.
LEMMA PauseSteps ==
  ASSUME CloseoutInv, NEW p \in Observer,
         observer_stops(p) \/ _finalize_quarantine_transaction(p)
  PROVE  CloseoutInv'
<1>1. EcTypeOK
  BY DEF CloseoutInv
<1>2. UNCHANGED <<runSide, claims>> /\ UNCHANGED <<inodes, link, linkSynced, txns, claims>>
  BY DEF observer_stops, _finalize_quarantine_transaction, fileSide
<1>3. /\ FilesShape' /\ LinksShape' /\ TxnsShape'
      /\ Len(inodes) <= Len(inodes') /\ Len(txns) <= Len(txns')
  BY <1>1, <1>2, SameFiles
<1>4. CASE observer_stops(p)
  <2>1. Set(p, Resting)
    BY <1>4 DEF observer_stops
  <2> QED
    BY <1>2, <1>3, <2>1, RestStep
<1>5. CASE _finalize_quarantine_transaction(p)
  <2>1. obs[p].pc \in InTxn /\ obs[p].pc \in Reads /\ (Rests(p) \/ Then(p, "freeze"))
    BY <1>5 DEF _finalize_quarantine_transaction, Does, InTxn, Reads
  <2>2. "freeze" \in InTxn
    BY DEF InTxn
  <2> QED
    BY <1>2, <1>3, <2>1, <2>2, InTxnStep
<1> QED
  BY <1>4, <1>5

\* The manifest of a new transaction.
LEMMA ManifestStep ==
  ASSUME CloseoutInv, NEW p \in Observer, _create_quarantine_transaction(p)
  PROVE  CloseoutInv'
<1>1. obs[p].pc \in InTxn /\ obs[p].pc \in Reads /\ UNCHANGED onlyTxns
  BY DEF _create_quarantine_transaction, Does, InTxn, Reads
<1>2. EcTypeOK /\ obs[p].txn \in 1..Len(txns) /\ TxnsShape /\ Len(txns) \in Nat
      /\ obs[p].v \in Nat /\ obs[p].ino \in Nat
  BY <1>1, OwnTxn DEF EcTypeOK, ObsShape, EcObs
<1>3. UNCHANGED <<runSide, claims>> /\ UNCHANGED <<inodes, link, linkSynced, claims>>
  BY <1>1 DEF onlyTxns
<1>4. FilesShape' /\ LinksShape' /\ Len(inodes) <= Len(inodes') /\ Len(inodes') = Len(inodes)
  BY <1>2, <1>3, SameEntries
<1>5. PICK t \in 1..Len(txns) : t = obs[p].txn
  BY <1>2
<1>6. TxnsShape' /\ Len(txns) <= Len(txns')
  <2>1. CASE txns' = txns
    BY SMTT(60), <1>2, <1>4, <2>1 DEF TxnsShape, TxnOK
  <2>2. CASE txns' # txns
    <3>1. txns' = [txns EXCEPT ![t] = [txns[t] EXCEPT
                                        !.manifest = [v |-> obs[p].v, ino |-> obs[p].ino]]]
      BY <1>5, <2>2 DEF _create_quarantine_transaction, SetTxn, T
    <3> QED
      BY ZenonT(100), <1>2, <1>3, <3>1, FieldChanged
  <2> QED
    BY <2>1, <2>2
<1>7. Rests(p) \/ Then(p, "move")
  BY DEF _create_quarantine_transaction
<1>8. "move" \in InTxn
  BY DEF InTxn
<1> QED
  BY <1>1, <1>3, <1>4, <1>6, <1>7, <1>8, InTxnStep

\* An entry is set or removed, and its directory perhaps synced.
LEMMA LinkChanged ==
  ASSUME EcTypeOK, UNCHANGED inodes, NEW r \in EvRun, NEW i \in 0..Len(inodes),
         link' = [link EXCEPT ![r] = i], linkSynced' \in {linkSynced, link'}
  PROVE  LinksShape'
  BY ZenonT(100) DEF EcTypeOK, LinksShape, FilesShape

\* The bundle of a finished run is unlinked.
LEMMA UnlinkStep ==
  ASSUME CloseoutInv, NEW p \in Observer, unlink_bundle(p)
  PROVE  CloseoutInv'
<1>1. EcTypeOK /\ obs[p].run \in EvRun /\ Len(inodes) \in Nat
  BY DEF CloseoutInv, EcTypeOK, ObsShape, ObsOK, unlink_bundle, Does, FilesShape
<1>2. UNCHANGED <<runSide, claims>> /\ UNCHANGED <<inodes, linkSynced, txns>> /\ Rests(p)
      /\ link' = [link EXCEPT ![obs[p].run] = 0]
  BY DEF unlink_bundle
<1>3. LinksShape'
  <2>1. 0 \in 0..Len(inodes) /\ linkSynced' \in {linkSynced, link'}
    BY SMTT(60), <1>1, <1>2
  <2> QED
    BY ZenonT(100), <1>1, <1>2, <2>1, LinkChanged
<1>4. FilesShape' /\ TxnsShape' /\ Len(inodes) <= Len(inodes') /\ Len(txns) <= Len(txns')
  BY <1>1, <1>2 DEF EcTypeOK, FilesShape, TxnsShape, TxnOK
<1> QED
  BY <1>2, <1>3, <1>4, RestStep

\* A transaction directory is made.
LEMMA MkdirStep ==
  ASSUME CloseoutInv, NEW p \in Observer, quarantine_mkdir(p)
  PROVE  CloseoutInv'
<1>1. EcTypeOK /\ ObsOK(obs[p]) /\ obs[p].pc = "mkdir" /\ Len(txns) \in Nat
  BY DEF CloseoutInv, EcTypeOK, ObsShape, quarantine_mkdir, Does, TxnsShape
<1>2. PICK o \in EcObs : o = obs[p]
  BY <1>1 DEF EcTypeOK, ObsShape
<1>3. o.run \in EvRun /\ o.v \in 1..Len(claims) /\ o.ino \in 1..Len(inodes)
  BY <1>1, <1>2 DEF ObsOK, Reads
<1>4. UNCHANGED <<runSide, claims>> /\ UNCHANGED <<inodes, link, linkSynced, claims>>
  BY DEF quarantine_mkdir, onlyTxns
<1>5. FilesShape' /\ LinksShape' /\ Len(inodes) <= Len(inodes') /\ Len(inodes') = Len(inodes)
      /\ Len(inodes') \in Nat
  BY <1>1, <1>4, SameEntries
<1>6. PICK new : new = [at |-> "pending", run |-> o.run, manifest |-> NoManifest, payload |-> 0,
                        synced |-> 0, note |-> FALSE]
  BY ZenonT(100)
<1>7. new \in EcTxn /\ new.payload = 0 /\ new.synced = 0
  BY <1>3, <1>6 DEF EcTxn, NoManifest
<1>8. txns' = Append(txns, new)
  BY <1>2, <1>6 DEF quarantine_mkdir
<1>9. TxnsShape' /\ Len(txns') = Len(txns) + 1
  <2>1. txns' \in Seq(EcTxn) /\ Len(txns') = Len(txns) + 1 /\ txns'[Len(txns) + 1] = new
        /\ \A u \in 1..Len(txns) : txns'[u] = txns[u]
    BY SMTT(60), <1>1, <1>7, <1>8 DEF EcTypeOK, TxnsShape
  <2>2. ASSUME NEW u \in 1..Len(txns') PROVE TxnOK(txns[u])'
    <3>1. CASE u = Len(txns) + 1
      BY SMTT(60), <1>5, <1>7, <2>1, <3>1 DEF TxnOK
    <3>2. CASE u \in 1..Len(txns)
      BY <1>1, <1>5, <2>1, <3>2 DEF TxnOK, EcTypeOK, TxnsShape
    <3> QED
      BY <1>1, <2>1, <3>1, <3>2
  <2> QED
    BY <2>1, <2>2 DEF TxnsShape
<1>10. PICK rec : rec = [o EXCEPT !.pc = "manifest", !.txn = Len(txns) + 1,
                                  !.seen = o.seen \cup {Len(txns) + 1}]
  OBVIOUS
<1>11. obs' = [obs EXCEPT ![p] = rec]
  BY <1>2, <1>10 DEF quarantine_mkdir, Set
<1>12. o.seen \cup {Len(txns) + 1} \in SUBSET Nat /\ Len(txns) + 1 \in Nat
  BY SMTT(60), <1>1 DEF EcObs
<1>13. rec \in EcObs /\ rec.pc = "manifest" /\ rec.txn = Len(txns) + 1 /\ rec.v = o.v
       /\ rec.ino = o.ino /\ rec.run = o.run
  BY ZenonT(100), <1>10, <1>12 DEF EcObs, ObsPc, InTxn
<1>14. ObsOK(rec)'
  <2>1. rec.txn \in 1..Len(txns')
    BY <1>1, <1>9, <1>13
  <2> QED
    BY <1>3, <1>4, <1>5, <1>13, <2>1 DEF ObsOK, Closing, Reads, InTxn
<1>15. Len(txns) <= Len(txns')
  BY <1>1, <1>9
<1> QED
  BY ZenonT(100), <1>4, <1>5, <1>9, <1>11, <1>13, <1>14, <1>15, ObserverStep

\* The bundle is moved into the transaction.
LEMMA MoveStep ==
  ASSUME CloseoutInv, NEW p \in Observer, _atomic_quarantine_move(p)
  PROVE  CloseoutInv'
<1>1. obs[p].pc = "move" /\ obs[p].pc \in InTxn /\ obs[p].pc \in Reads
  BY DEF _atomic_quarantine_move, Does, InTxn, Reads
<1>2. EcTypeOK /\ obs[p].txn \in 1..Len(txns) /\ TxnsShape /\ Len(txns) \in Nat
      /\ Len(inodes) \in Nat
  BY <1>1, OwnTxn DEF EcTypeOK, FilesShape
<1>3. obs[p].run \in EvRun
  BY <1>1, <1>2 DEF EcTypeOK, ObsShape, ObsOK
<1>4. PICK t \in 1..Len(txns), r \in EvRun : t = obs[p].txn /\ r = obs[p].run
  BY <1>2, <1>3
<1>5. UNCHANGED <<runSide, claims>> /\ UNCHANGED <<inodes, linkSynced>>
  BY DEF _atomic_quarantine_move
<1>6. FilesShape' /\ Len(inodes) <= Len(inodes') /\ Len(inodes') = Len(inodes)
  BY <1>2, <1>5 DEF EcTypeOK, FilesShape
<1>7. CASE link' = link /\ (txns' = txns \/ txns' = [txns EXCEPT ![t] = [txns[t] EXCEPT !.at = "gone"]])
           /\ Rests(p)
  <2>1. LinksShape'
    BY <1>2, <1>5, <1>7 DEF EcTypeOK, LinksShape
  <2>2. TxnsShape' /\ Len(txns) <= Len(txns')
    <3>1. CASE txns' = txns
      BY SMTT(60), <1>2, <1>6, <3>1 DEF TxnsShape, TxnOK
    <3>2. CASE txns' = [txns EXCEPT ![t] = [txns[t] EXCEPT !.at = "gone"]]
      BY ZenonT(100), <1>2, <1>5, <1>7, <3>2, FieldChanged
    <3> QED
      BY <1>7, <3>1, <3>2
  <2> QED
    BY <1>1, <1>5, <1>6, <1>7, <2>1, <2>2, InTxnStep
<1>8. CASE link[r] # 0 /\ link' = [link EXCEPT ![r] = 0] /\ Then(p, "sync1")
           /\ txns' = [txns EXCEPT ![t] = [txns[t] EXCEPT !.payload = link[r]]]
  <2>1. LinksShape'
    <3>1. 0 \in 0..Len(inodes) /\ linkSynced' \in {linkSynced, link'}
      BY SMTT(60), <1>2, <1>5
    <3> QED
      BY ZenonT(100), <1>2, <1>5, <1>8, <3>1, LinkChanged
  <2>2. link[r] \in 0..Len(inodes) /\ link[r] \in Nat
    BY <1>2 DEF EcTypeOK, LinksShape
  <2>3. PICK new : new = [txns[t] EXCEPT !.payload = link[r]]
    BY ZenonT(100)
  <2>4. /\ new \in EcTxn /\ new.payload = link[r] /\ new.synced = txns[t].synced
        /\ txns[t].synced \in 0..Len(inodes)
    BY ZenonT(100), <1>2, <2>2, <2>3, TxnFields
  <2>5. {new.payload, new.synced} \subseteq 0..Len(inodes')
    BY <1>6, <2>2, <2>4
  <2>6. TxnsShape' /\ Len(txns') = Len(txns)
    BY ZenonT(100), <1>2, <1>6, <1>8, <2>3, <2>4, <2>5, TxnChanged
  <2>7. "sync1" \in InTxn /\ Len(txns) <= Len(txns')
    BY SMTT(60), <1>2, <2>6 DEF InTxn
  <2> QED
    BY <1>1, <1>5, <1>6, <1>8, <2>1, <2>6, <2>7, InTxnStep
<1> QED
  BY <1>4, <1>7, <1>8 DEF _atomic_quarantine_move, SetTxn, T

\* A transaction directory changes and is synced.
LEMMA SyncedField ==
  ASSUME EcTypeOK, NEW t \in 1..Len(txns), NEW new, NEW v, SyncedTxn(t, new, v),
         Len(inodes') = Len(inodes),
         \/ \E w, i \in Nat : new = [txns[t] EXCEPT !.manifest = [v |-> w, ino |-> i]]
         \/ new = [txns[t] EXCEPT !.note = TRUE]
  PROVE  TxnsShape' /\ Len(txns) <= Len(txns')
<1>0. txns[t].payload \in 0..Len(inodes)
  BY ZenonT(100), TxnFields
<1>1. Len(inodes) \in Nat /\ Len(txns) \in Nat /\ txns[t].payload \in 0..Len(inodes)
  BY SMTT(60), <1>0 DEF EcTypeOK, FilesShape, TxnsShape
<1>2. new \in EcTxn /\ new.payload = txns[t].payload
  <2>1. CASE \E w, i \in Nat : new = [txns[t] EXCEPT !.manifest = [v |-> w, ino |-> i]]
    <3>1. PICK w, i \in Nat : new = [txns[t] EXCEPT !.manifest = [v |-> w, ino |-> i]]
      BY <2>1
    <3> QED
      BY ZenonT(100), <3>1, TxnFields
  <2>2. CASE new = [txns[t] EXCEPT !.note = TRUE]
    BY ZenonT(100), <2>2, TxnFields
  <2> QED
    BY <2>1, <2>2
<1>3. /\ new.payload \in 0..Len(inodes') /\ Len(inodes') \in Nat
      /\ Len(inodes) <= Len(inodes')
  BY <1>1, <1>2
<1>4. TxnsShape' /\ Len(txns') = Len(txns)
  BY <1>2, <1>3, SyncedChange
<1> QED
  BY SMTT(60), <1>1, <1>4

\* The note of an unreadable payload, and the manifest of a frozen one.
LEMMA NoteSteps ==
  ASSUME CloseoutInv, NEW p \in Observer,
         \/ _preserve_unreadable_quarantine_transaction(p)
         \/ _rebind_quarantine_transaction_to_payload(p)
  PROVE  CloseoutInv'
<1>1. obs[p].pc \in InTxn /\ UNCHANGED onlyTxns
  BY DEF _preserve_unreadable_quarantine_transaction, _rebind_quarantine_transaction_to_payload,
         Does, InTxn
<1>2. EcTypeOK /\ obs[p].txn \in 1..Len(txns) /\ TxnsShape /\ Len(txns) \in Nat
      /\ obs[p].v \in Nat
  BY <1>1, OwnTxn DEF EcTypeOK, ObsShape, EcObs
<1>3. UNCHANGED <<runSide, claims>> /\ UNCHANGED <<inodes, link, linkSynced, claims>>
  BY <1>1 DEF onlyTxns
<1>4. FilesShape' /\ LinksShape' /\ Len(inodes) <= Len(inodes') /\ Len(inodes') = Len(inodes)
  BY <1>2, <1>3, SameEntries
<1>5. PICK t \in 1..Len(txns) : t = obs[p].txn
  BY <1>2
<1>6. txns[t].payload \in Nat
  BY ZenonT(100), <1>2, TxnFields DEF EcTxn
<1>7. TxnsShape' /\ Len(txns) <= Len(txns')
  <2>1. CASE txns' = txns
    BY SMTT(60), <1>2, <1>4, <2>1 DEF TxnsShape, TxnOK
  <2>2. CASE txns' # txns
    <3>1. \/ SyncedTxn(t, [txns[t] EXCEPT !.note = TRUE], V(txns[t].payload))
          \/ SyncedTxn(t, [txns[t] EXCEPT !.manifest = [v |-> obs[p].v, ino |-> txns[t].payload]],
                       obs[p].v)
      BY <1>5, <2>2 DEF _preserve_unreadable_quarantine_transaction,
                        _rebind_quarantine_transaction_to_payload, T, sameTxns
    <3> QED
      BY <1>2, <1>4, <1>6, <3>1, SyncedField
  <2> QED
    BY <2>1, <2>2
<1>8. Rests(p) \/ Then(p, "preserved") \/ Then(p, "item")
  BY DEF _preserve_unreadable_quarantine_transaction, _rebind_quarantine_transaction_to_payload
<1>9. {"preserved", "item"} \subseteq InTxn \ Reads
  BY DEF InTxn, Reads
<1> QED
  BY <1>1, <1>3, <1>4, <1>7, <1>8, <1>9, InTxnStep

\* The staged name of a restored file goes.
LEMMA UnstageStep ==
  ASSUME CloseoutInv, NEW p \in Observer, _restore_mismatched_quarantine_entry(p)
  PROVE  CloseoutInv'
<1>1. obs[p].pc \in InTxn /\ UNCHANGED onlyTxns /\ Rests(p)
  BY DEF _restore_mismatched_quarantine_entry, Does, InTxn
<1>2. EcTypeOK /\ obs[p].txn \in 1..Len(txns) /\ TxnsShape /\ Len(txns) \in Nat
      /\ Len(inodes) \in Nat
  BY SMTT(60), <1>1, OwnTxn DEF EcTypeOK, FilesShape
<1>3. UNCHANGED <<runSide, claims>> /\ UNCHANGED <<inodes, link, linkSynced, claims>>
  BY <1>1 DEF onlyTxns
<1>4. FilesShape' /\ LinksShape' /\ Len(inodes) <= Len(inodes') /\ Len(inodes') = Len(inodes)
  BY <1>2, <1>3, SameEntries
<1>5. PICK t \in 1..Len(txns) : t = obs[p].txn
  BY <1>2
<1>6. TxnsShape' /\ Len(txns) <= Len(txns')
  <2>1. CASE txns' = txns
    BY SMTT(60), <1>2, <1>4, <2>1 DEF TxnsShape, TxnOK
  <2>2. CASE txns' # txns
    <3>1. PICK old \in EcTxn : old = txns[t]
      BY <1>2 DEF TxnsShape
    <3>2. PICK new : new = [old EXCEPT !.payload = 0, !.synced = 0]
      OBVIOUS
    <3>3. new \in EcTxn /\ new.payload = 0 /\ new.synced = 0
      BY ZenonT(100), <3>2 DEF EcTxn
    <3>4. txns' = [txns EXCEPT ![t] = new]
      BY ZenonT(100), <1>2, <1>5, <2>2, <3>1, <3>2 DEF _restore_mismatched_quarantine_entry, TxnsShape
    <3>5. {new.payload, new.synced} \subseteq 0..Len(inodes') /\ Len(inodes') \in Nat
      BY SMTT(60), <1>2, <1>4, <3>3
    <3>6. TxnsShape' /\ Len(txns') = Len(txns)
      BY ZenonT(100), <1>2, <1>4, <3>3, <3>4, <3>5, TxnChanged
    <3> QED
      BY SMTT(60), <1>2, <3>6
  <2> QED
    BY <2>1, <2>2
<1> QED
  BY <1>1, <1>3, <1>4, <1>6, InTxnStep

\* The two syncs of a move.
LEMMA SyncStep ==
  ASSUME CloseoutInv, NEW p \in Observer, NEW n \in 1..2, _sync_directory(p, n)
  PROVE  CloseoutInv'
<1>1. obs[p].pc \in InTxn /\ obs[p].pc \in Reads
  BY DEF _sync_directory, Does, InTxn, Reads
<1>2. EcTypeOK /\ obs[p].txn \in 1..Len(txns) /\ TxnsShape /\ Len(txns) \in Nat
      /\ Len(inodes) \in Nat
  BY SMTT(60), <1>1, OwnTxn DEF EcTypeOK, FilesShape
<1>3. UNCHANGED <<runSide, claims>> /\ UNCHANGED <<inodes, link, claims>>
      /\ linkSynced' \in {linkSynced, link}
  BY DEF _sync_directory
<1>4. FilesShape' /\ LinksShape' /\ Len(inodes) <= Len(inodes') /\ Len(inodes') = Len(inodes)
  BY <1>2, <1>3 DEF EcTypeOK, FilesShape, LinksShape
<1>5. PICK t \in 1..Len(txns) : t = obs[p].txn
  BY <1>2
<1>6. TxnsShape' /\ Len(txns) <= Len(txns')
  <2>1. CASE txns' = txns
    BY SMTT(60), <1>2, <1>4, <2>1 DEF TxnsShape, TxnOK
  <2>2. CASE txns' # txns
    <3>1. PICK old \in EcTxn : old = txns[t] /\ old.payload \in 0..Len(inodes)
      BY ZenonT(100), <1>2, TxnFields
    <3>2. PICK new \in EcTxn : new = [old EXCEPT !.synced = old.payload]
                               /\ {new.payload, new.synced} \subseteq 0..Len(inodes')
      BY ZenonT(100), <1>2, <1>4, <3>1, SyncedOK
    <3>3. txns' = [txns EXCEPT ![t] = new]
      BY <1>2, <1>5, <2>2, <3>1, <3>2 DEF _sync_directory, TxnsShape, T
    <3>4. TxnsShape' /\ Len(txns') = Len(txns)
      BY ZenonT(100), <1>2, <1>4, <3>2, <3>3, TxnChanged
    <3> QED
      BY SMTT(60), <1>2, <3>4
  <2> QED
    BY <2>1, <2>2
<1>7. Then(p, "sync2") \/ Then(p, "staged")
  BY DEF _sync_directory
<1>8. {"sync2", "staged"} \subseteq InTxn
  BY DEF InTxn
<1> QED
  BY <1>1, <1>3, <1>4, <1>6, <1>7, <1>8, InTxnStep

\* What was moved is compared with what was read.
LEMMA CheckStep ==
  ASSUME CloseoutInv, NEW p \in Observer, quarantine_check(p)
  PROVE  CloseoutInv'
<1>1. obs[p].pc = "staged" /\ obs[p].pc \in InTxn /\ obs[p].pc \in Reads
  BY DEF quarantine_check, Does, InTxn, Reads
<1>2. EcTypeOK /\ obs[p].txn \in 1..Len(txns) /\ TxnsShape /\ Len(txns) \in Nat
      /\ Len(inodes) \in Nat /\ obs[p].run \in EvRun
  BY SMTT(60), <1>1, OwnTxn DEF EcTypeOK, FilesShape, ObsShape, ObsOK
<1>3. PICK t \in 1..Len(txns), r \in EvRun : t = obs[p].txn /\ r = obs[p].run
  BY <1>2
<1>4. PICK i \in 0..Len(inodes) : i = txns[t].payload
  BY ZenonT(100), <1>2, TxnFields
<1>5. UNCHANGED <<runSide, claims>> /\ UNCHANGED inodes
  BY DEF quarantine_check
<1>6. FilesShape' /\ Len(inodes) <= Len(inodes') /\ Len(inodes') = Len(inodes)
  BY SMTT(60), <1>2, <1>5 DEF EcTypeOK, FilesShape
<1>7. i # 0 => i \in 1..Len(inodes) /\ V(i) \in 1..Len(claims) /\ V(i) \in Nat /\ i \in Nat
  BY <1>2 DEF EcTypeOK, FilesShape, V
<1>8. CASE /\ txns' = txns /\ link' = link /\ linkSynced' = linkSynced
           /\ Rests(p) \/ Then(p, "seal") \/ Then(p, "preserve")
  <2>1. LinksShape' /\ TxnsShape' /\ Len(txns) <= Len(txns')
    BY SMTT(60), <1>2, <1>6, <1>8 DEF EcTypeOK, LinksShape, TxnsShape, TxnOK
  <2>2. {"seal", "preserve"} \subseteq InTxn
    BY DEF InTxn
  <2> QED
    BY <1>1, <1>5, <1>6, <1>8, <2>1, <2>2, InTxnStep
<1>9. CASE /\ link' = [link EXCEPT ![r] = i] /\ linkSynced' = link'
           /\ txns' = txns /\ Then(p, "unstage")
  <2>1. LinksShape'
    BY ZenonT(100), <1>2, <1>5, <1>9, LinkChanged
  <2>2. TxnsShape' /\ Len(txns) <= Len(txns')
    BY SMTT(60), <1>2, <1>6, <1>9 DEF TxnsShape, TxnOK
  <2>3. "unstage" \in InTxn
    BY DEF InTxn
  <2> QED
    BY <1>1, <1>5, <1>6, <1>9, <2>1, <2>2, <2>3, InTxnStep
<1>10. CASE /\ i # 0 /\ link' = link /\ linkSynced' = linkSynced
            /\ SyncedTxn(t, [txns[t] EXCEPT !.manifest = [v |-> V(i), ino |-> i]], V(i))
            /\ Set(p, [obs[p] EXCEPT !.pc = "seal", !.v = V(i), !.ino = i])
  <2>1. LinksShape'
    BY <1>2, <1>6, <1>10 DEF EcTypeOK, LinksShape
  <2>2. TxnsShape' /\ Len(txns) <= Len(txns')
    BY <1>2, <1>6, <1>7, <1>10, SyncedField
  <2>3. PICK o \in EcObs : o = obs[p]
    BY <1>2 DEF EcTypeOK, ObsShape
  <2>4. PICK rec : rec = [o EXCEPT !.pc = "seal", !.v = V(i), !.ino = i]
    OBVIOUS
  <2>5. rec \in EcObs /\ rec.pc = "seal" /\ rec.v = V(i) /\ rec.ino = i /\ rec.run = o.run
        /\ rec.txn = o.txn
    BY ZenonT(100), <1>7, <1>10, <2>4 DEF EcObs, ObsPc, InTxn
  <2>6. t \in 1..Len(txns')
    BY <1>2, <2>2 DEF TxnsShape
  <2>7. ObsOK(rec)'
    BY <1>3, <1>5, <1>7, <1>10, <2>3, <2>5, <2>6 DEF ObsOK, Closing, Reads, InTxn
  <2>8. obs' = [obs EXCEPT ![p] = rec]
    BY <1>10, <2>3, <2>4 DEF Set
  <2> QED
    BY ZenonT(100), <1>5, <1>6, <2>1, <2>2, <2>5, <2>7, <2>8, ObserverStep
<1> QED
  BY <1>3, <1>4, <1>8, <1>9, <1>10 DEF quarantine_check, T, sameTxns

\* A copy of what was read replaces the payload.
LEMMA FreezeStep ==
  ASSUME CloseoutInv, NEW p \in Observer, _freeze_quarantine_payload(p)
  PROVE  CloseoutInv'
<1>1. obs[p].pc = "freeze" /\ obs[p].pc \in InTxn /\ obs[p].pc \in Reads
  BY DEF _freeze_quarantine_payload, Does, InTxn, Reads
<1>2. EcTypeOK /\ obs[p].txn \in 1..Len(txns) /\ TxnsShape /\ Len(txns) \in Nat
  BY <1>1, OwnTxn
<1>3. PICK o \in EcObs, t \in 1..Len(txns) : o = obs[p] /\ t = obs[p].txn
  BY <1>2 DEF EcTypeOK, ObsShape
<1>4. /\ o.run \in EvRun /\ o.v \in 1..Len(claims) /\ o.ino \in 1..Len(inodes)
      /\ inodes \in Seq(EcFile) /\ Len(inodes) \in Nat /\ link \in [EvRun -> 0..Len(inodes)]
      /\ linkSynced \in [EvRun -> 0..Len(inodes)]
  BY SMTT(60), <1>1, <1>2, <1>3 DEF EcTypeOK, ObsShape, ObsOK, FilesShape, LinksShape, Reads
<1>5. UNCHANGED <<runSide, claims>> /\ UNCHANGED <<link, linkSynced, claims>>
  BY ZenonT(100) DEF _freeze_quarantine_payload
<1>6. CASE txns' = txns /\ inodes' = inodes /\ Rests(p)
  <2>1. /\ FilesShape' /\ LinksShape' /\ TxnsShape'
        /\ Len(inodes) <= Len(inodes') /\ Len(txns) <= Len(txns')
    BY <1>2, <1>5, <1>6, SameFiles
  <2> QED
    BY <1>5, <1>6, <2>1, RestStep
<1>7. CASE /\ NewFile(o.v, inodes[o.ino].kind, TRUE)
           /\ SyncedTxn(t, [txns[t] EXCEPT !.payload = Len(inodes) + 1], o.v)
           /\ Set(p, [o EXCEPT !.pc = "rebind", !.ino = Len(inodes) + 1])
  <2>1. PICK f : f = [v |-> o.v, kind |-> inodes[o.ino].kind, private |-> TRUE]
    BY ZenonT(100)
  <2>2. f \in EcFile /\ f.v = o.v
    <3>1. inodes[o.ino].kind \in EntryKind /\ o.v \in Nat
      <4>1. inodes[o.ino] \in EcFile
        BY SMTT(60), <1>4
      <4> QED
        BY <4>1 DEF EcFile, EcObs
    <3> QED
      BY ZenonT(100), <2>1, <3>1 DEF EcFile
  <2>3. /\ inodes' \in Seq(EcFile) /\ Len(inodes') = Len(inodes) + 1
        /\ inodes'[Len(inodes) + 1] = f
        /\ \A j \in 1..Len(inodes) : inodes'[j] = inodes[j]
    BY <1>4, <1>7, <2>1, <2>2 DEF NewFile
  <2>4. FilesShape'
    <3>1. ASSUME NEW j \in 1..Len(inodes') PROVE inodes'[j].v \in 1..Len(claims')
      <4>1. CASE j = Len(inodes) + 1
        BY <1>4, <1>5, <2>2, <2>3, <4>1
      <4>2. CASE j \in 1..Len(inodes)
        BY <1>2, <1>5, <2>3, <4>2 DEF EcTypeOK, FilesShape
      <4> QED
        BY Z3T(60), <1>4, <2>3, <4>1, <4>2
    <3> QED
      BY <2>3, <3>1 DEF FilesShape
  <2>5. LinksShape'
    BY SMTT(60), <1>4, <1>5, <2>3 DEF LinksShape
  <2>6. PICK new : new = [txns[t] EXCEPT !.payload = Len(inodes) + 1]
    BY ZenonT(100)
  <2>7. Len(inodes) + 1 \in Nat
    BY <1>4
  <2>8. new \in EcTxn /\ new.payload = Len(inodes) + 1
    BY ZenonT(100), <1>2, <2>6, <2>7, TxnFields
  <2>9. Len(inodes') \in Nat /\ Len(inodes) <= Len(inodes') /\ new.payload \in 0..Len(inodes')
    BY SMTT(60), <1>4, <2>3, <2>8
  <2>10. TxnsShape' /\ Len(txns') = Len(txns)
    BY ZenonT(100), <1>2, <1>7, <2>6, <2>8, <2>9, SyncedChange
  <2>11. PICK rec : rec = [o EXCEPT !.pc = "rebind", !.ino = Len(inodes) + 1]
    OBVIOUS
  <2>12. rec \in EcObs /\ rec.pc = "rebind" /\ rec.ino = Len(inodes) + 1 /\ rec.v = o.v
         /\ rec.run = o.run /\ rec.txn = o.txn
    BY ZenonT(100), <2>7, <2>11 DEF EcObs, ObsPc, InTxn
  <2>13. rec.txn \in 1..Len(txns') /\ rec.ino \in 1..Len(inodes') /\ rec.v \in 1..Len(claims')
    BY SMTT(60), <1>3, <1>4, <1>5, <2>3, <2>10, <2>12
  <2>14. ObsOK(rec)'
    BY <1>4, <2>12, <2>13 DEF ObsOK, Closing, Reads, InTxn
  <2>15. obs' = [obs EXCEPT ![p] = rec] /\ Len(txns) <= Len(txns')
    BY <1>2, <1>7, <2>10, <2>11 DEF Set
  <2> QED
    BY ZenonT(100), <1>5, <2>4, <2>5, <2>9, <2>10, <2>12, <2>14, <2>15, ObserverStep
<1> QED
  BY ZenonT(100), <1>3, <1>6, <1>7 DEF _freeze_quarantine_payload, T, sameTxns

\* A transaction an earlier reconcile left is taken up.
LEMMA RecoverStep ==
  ASSUME CloseoutInv, NEW p \in Observer, NEW t \in 1..Len(txns),
         _recover_quarantine_transactions(p, t)
  PROVE  CloseoutInv'
<1>1. EcTypeOK /\ TxnsShape /\ Len(txns) \in Nat /\ Len(inodes) \in Nat
  BY DEF CloseoutInv, EcTypeOK, TxnsShape, FilesShape
<1>2. PICK o \in EcObs : o = obs[p]
  BY <1>1 DEF EcTypeOK, ObsShape
<1>3. PICK i \in 0..Len(inodes) : i = txns[t].payload
  BY ZenonT(100), <1>1, TxnFields
<1>4. PICK v : v = IF i = 0 THEN 0 ELSE V(i)
  OBVIOUS
<1>5. v \in Nat /\ i \in Nat /\ t \in Nat /\ (i # 0 => i \in 1..Len(inodes) /\ v \in 1..Len(claims) /\ v = V(i))
  BY <1>1, <1>4 DEF EcTypeOK, FilesShape, V
<1>6. txns[t].run \in EvRun
  BY ZenonT(100), <1>1, TxnFields
<1>7. UNCHANGED <<runSide, claims>> /\ UNCHANGED <<inodes, link, linkSynced, claims>>
  BY DEF _recover_quarantine_transactions, onlyTxns
<1>8. FilesShape' /\ LinksShape' /\ Len(inodes) <= Len(inodes') /\ Len(inodes') = Len(inodes)
  BY <1>1, <1>7, SameEntries
<1>9. PICK seen \in SUBSET Nat : seen = o.seen \cup {t}
  <2>1. o.seen \in SUBSET Nat
    BY DEF EcObs
  <2> QED
    BY ZenonT(100), <1>5, <2>1
<1> DEFINE Going(pc) == [Resting EXCEPT !.seen = seen, !.pc = pc, !.run = txns[t].run,
                                        !.txn = t, !.v = v, !.ino = i]
<1>10. \/ sameTxns /\ Set(p, [o EXCEPT !.seen = seen])
       \/ sameTxns /\ \E pc \in {"preserve", "preserved"} : Set(p, Going(pc))
       \/ SyncedTxn(t, [txns[t] EXCEPT !.manifest = NoManifest], 0) /\ Set(p, Going("rmdir"))
       \/ i # 0 /\ Set(p, Going("seal"))
          /\ (sameTxns \/ SyncedTxn(t, [txns[t] EXCEPT !.manifest = [v |-> v, ino |-> i]], v))
  BY ZenonT(100), <1>2, <1>3, <1>4, <1>9 DEF _recover_quarantine_transactions
<1>11. TxnsShape' /\ Len(txns) <= Len(txns') /\ t \in 1..Len(txns')
  <2>1. CASE sameTxns
    BY <1>1, <1>8, <2>1 DEF sameTxns, TxnsShape, TxnOK
  <2>2. ASSUME NEW w \in Nat, NEW j \in Nat, NEW u,
               SyncedTxn(t, [txns[t] EXCEPT !.manifest = [v |-> w, ino |-> j]], u)
        PROVE  TxnsShape' /\ Len(txns) <= Len(txns')
    BY <1>1, <1>8, <2>2, SyncedField
  <2>3. TxnsShape' /\ Len(txns) <= Len(txns')
    BY <1>5, <1>10, <2>1, <2>2 DEF NoManifest
  <2> QED
    BY <1>1, <2>3 DEF TxnsShape
<1>12. CASE Set(p, [o EXCEPT !.seen = seen])
  <2>1. PICK rec : rec = [o EXCEPT !.seen = seen]
    BY ZenonT(100)
  <2>2. rec \in EcObs /\ rec.pc = "rest"
    BY <1>2, <1>9, <2>1 DEF EcObs, _recover_quarantine_transactions, Does
  <2>3. ObsOK(rec)'
    BY <2>2 DEF ObsOK, Closing, Reads, InTxn
  <2>4. obs' = [obs EXCEPT ![p] = rec]
    BY <1>12, <2>1 DEF Set
  <2> QED
    BY ZenonT(100), <1>7, <1>8, <1>11, <2>2, <2>3, <2>4, ObserverStep
<1>13. ASSUME NEW pc \in {"preserve", "preserved", "rmdir", "seal"}, Set(p, Going(pc)),
              pc = "seal" => i # 0
       PROVE  CloseoutInv'
  <2>1. PICK rec : rec = Going(pc)
    OBVIOUS
  <2>2. rec = [pc |-> pc, run |-> txns[t].run, ino |-> i, v |-> v, txn |-> t, seen |-> seen,
               auth |-> {}]
    BY ZenonT(100), <2>1 DEF Resting
  <2>3. rec \in EcObs /\ rec.pc = pc /\ rec.run \in EvRun /\ rec.ino = i /\ rec.v = v
        /\ rec.txn = t
    BY <1>5, <1>6, <1>9, <2>2 DEF EcObs, ObsPc, InTxn
  <2>4. ObsOK(rec)'
    BY <1>5, <1>7, <1>11, <1>13, <2>3 DEF ObsOK, Closing, Reads, InTxn
  <2>5. obs' = [obs EXCEPT ![p] = rec]
    BY <1>13, <2>1 DEF Set
  <2> QED
    BY ZenonT(100), <1>7, <1>8, <1>11, <2>3, <2>4, <2>5, ObserverStep
<1> QED
  BY <1>10, <1>12, <1>13

\* The runs and observers go on when only files change hands.
LEMMA WorldStep ==
  ASSUME CloseoutInv, UNCHANGED closedOn, Onward,
         \A r \in EvRun : runAt'[r] = "succeeded" <=> runAt[r] = "succeeded",
         RunsShape', FilesShape', LinksShape', TxnsShape',
         claims' \in Seq(EvBundles \cup {NoEvidence}),
         Len(inodes) <= Len(inodes'), Len(txns) <= Len(txns'),
         UNCHANGED obs \/ obs' = [p \in Observer |-> Resting]
  PROVE  CloseoutInv'
<1>1. EcTypeOK /\ obs \in [Observer -> EcObs]
  BY DEF CloseoutInv, EcTypeOK, ObsShape
<1>2. Resting \in EcObs /\ Resting.pc = "rest"
  BY ZenonT(100) DEF Resting, EcObs, ObsPc
<1>3. ObsOK(Resting)'
  BY <1>2 DEF ObsOK, Closing, Reads, InTxn
<1>4. obs' \in [Observer -> EcObs] /\ \A p \in Observer : obs'[p] = obs[p] \/ obs'[p] = Resting
  BY <1>1, <1>2
<1>5. \A p \in Observer : obs'[p] = obs[p] \/ ObsOK(obs[p])'
  BY <1>3, <1>4 DEF ObsOK
<1>6. EcTypeOK'
  BY <1>1, <1>4, <1>5, ShapeKept DEF Onward
<1>7. (\A p \in Observer : EcClosing(obs[p])') /\ (\A r \in EvRun : EcClosed(r)')
  BY <1>2, <1>4, ClosingKept
<1> QED
  BY <1>6, <1>7 DEF CloseoutInv

\* A producer replaces the bundle file of a run.
LEMMA PublishStep ==
  ASSUME CloseoutInv, NEW r \in EvRun, NEW kind \in EntryKind,
         NEW e \in EvBundles \cup {NoEvidence}, publish_bundle(r, kind, e)
  PROVE  CloseoutInv'
<1>1. /\ EcTypeOK /\ claims \in Seq(EvBundles \cup {NoEvidence}) /\ inodes \in Seq(EcFile)
      /\ Len(claims) \in Nat /\ Len(inodes) \in Nat /\ Len(txns) \in Nat
  BY DEF CloseoutInv, EcTypeOK, FilesShape, TxnsShape
<1>2. UNCHANGED <<runSide, txns, obs>>
  BY DEF publish_bundle
<1>3. UNCHANGED <<runAt, closedOn, attested, pull>>
  BY <1>2 DEF runSide
<1>4. PICK f : f = [v |-> Len(claims) + 1, kind |-> kind, private |-> FALSE]
  BY ZenonT(100)
<1>5. Len(claims) + 1 \in Nat
  BY <1>1
<1>6. f \in EcFile /\ f.v = Len(claims) + 1
  BY ZenonT(100), <1>4, <1>5 DEF EcFile
<1>7. claims' = Append(claims, e) /\ inodes' = Append(inodes, f)
  BY <1>4 DEF publish_bundle, NewFile, contents
<1>8. /\ claims' \in Seq(EvBundles \cup {NoEvidence}) /\ Len(claims') = Len(claims) + 1
      /\ \A v \in 1..Len(claims) : claims'[v] = claims[v]
  BY SMTT(60), <1>1, <1>7
<1>9. /\ inodes' \in Seq(EcFile) /\ Len(inodes') = Len(inodes) + 1
      /\ inodes'[Len(inodes) + 1] = f /\ \A i \in 1..Len(inodes) : inodes'[i] = inodes[i]
  BY <1>1, <1>6, <1>7
<1>10. FilesShape'
  <2>1. ASSUME NEW i \in 1..Len(inodes') PROVE inodes'[i].v \in 1..Len(claims')
    <3>1. CASE i = Len(inodes) + 1
      BY SMTT(60), <1>1, <1>6, <1>8, <1>9, <3>1
    <3>2. CASE i \in 1..Len(inodes)
      <4>1. inodes[i].v \in 1..Len(claims)
        BY <1>1, <3>2 DEF EcTypeOK, FilesShape
      <4> QED
        BY SMTT(60), <1>1, <1>8, <1>9, <3>2, <4>1
    <3> QED
      BY SMTT(60), <1>1, <1>9, <3>1, <3>2
  <2> QED
    BY <1>9, <2>1 DEF FilesShape
<1>11. LinksShape'
  <2>1. link \in [EvRun -> 0..Len(inodes')] /\ linkSynced \in [EvRun -> 0..Len(inodes')]
        /\ Len(inodes) + 1 \in 0..Len(inodes')
    BY <1>1, <1>9 DEF EcTypeOK, LinksShape
  <2>2. link' = [link EXCEPT ![r] = Len(inodes) + 1] /\ linkSynced' \in {link', linkSynced}
    BY DEF publish_bundle
  <2> QED
    BY <2>1, <2>2 DEF LinksShape
<1>12. TxnsShape'
  BY <1>1, <1>2, <1>9 DEF EcTypeOK, TxnsShape, TxnOK
<1>13. Onward
  BY SMTT(60), <1>1, <1>3, <1>8 DEF Onward
<1>14. RunsShape'
  BY <1>1, <1>3 DEF EcTypeOK, RunsShape
<1>15. Len(inodes) <= Len(inodes') /\ Len(txns) <= Len(txns')
  BY SMTT(60), <1>1, <1>2, <1>9
<1> QED
  BY <1>2, <1>3, <1>8, <1>10, <1>11, <1>12, <1>13, <1>14, <1>15, WorldStep

\* A producer writes to the file it holds open.
LEMMA InPlaceStep ==
  ASSUME CloseoutInv, NEW i \in 1..Len(inodes), write_in_place(i)
  PROVE  CloseoutInv'
<1>1. /\ EcTypeOK /\ claims \in Seq(EvBundles \cup {NoEvidence}) /\ inodes \in Seq(EcFile)
      /\ Len(claims) \in Nat /\ Len(inodes) \in Nat /\ Len(txns) \in Nat
  BY DEF CloseoutInv, EcTypeOK, FilesShape, TxnsShape
<1>2. UNCHANGED <<runSide, link, linkSynced, txns, obs>>
  BY DEF write_in_place
<1>3. UNCHANGED <<runAt, closedOn, attested, pull>>
  BY <1>2 DEF runSide
<1>4. /\ claims' \in Seq(EvBundles \cup {NoEvidence}) /\ Len(claims') = Len(claims) + 1
      /\ \A v \in 1..Len(claims) : claims'[v] = claims[v]
  BY <1>1 DEF write_in_place
<1>5. PICK f \in EcFile : inodes' = [inodes EXCEPT ![i] = f] /\ f.v = Len(claims) + 1
  <2>1. PICK old \in EcFile : old = inodes[i]
    BY <1>1
  <2>2. PICK f : f = [old EXCEPT !.v = Len(claims) + 1]
    BY ZenonT(100)
  <2>3. Len(claims) + 1 \in Nat
    BY SMTT(60), <1>1
  <2>4. f \in EcFile /\ f.v = Len(claims) + 1
    BY <2>2, <2>3 DEF EcFile
  <2> QED
    BY ZenonT(100), <2>1, <2>2, <2>4 DEF write_in_place, contents
<1>6. /\ inodes' \in Seq(EcFile) /\ Len(inodes') = Len(inodes) /\ inodes'[i] = f
      /\ \A j \in 1..Len(inodes) : j # i => inodes'[j] = inodes[j]
  BY SMTT(60), <1>1, <1>5
<1>7. FilesShape'
  <2>1. ASSUME NEW j \in 1..Len(inodes') PROVE inodes'[j].v \in 1..Len(claims')
    <3>1. CASE j = i
      BY SMTT(60), <1>1, <1>4, <1>5, <1>6, <3>1
    <3>2. CASE j # i
      <4>1. inodes[j].v \in 1..Len(claims)
        BY <1>1, <1>6 DEF EcTypeOK, FilesShape
      <4> QED
        BY <1>1, <1>4, <1>6, <3>2, <4>1
    <3> QED
      BY <3>1, <3>2
  <2> QED
    BY <1>6, <2>1 DEF FilesShape
<1>8. LinksShape' /\ TxnsShape'
  BY <1>1, <1>2, <1>6 DEF EcTypeOK, LinksShape, TxnsShape, TxnOK
<1>9. Onward
  BY <1>1, <1>3, <1>4 DEF Onward
<1>10. RunsShape'
  BY <1>1, <1>3 DEF EcTypeOK, RunsShape
<1>11. Len(inodes) <= Len(inodes') /\ Len(txns) <= Len(txns')
  BY SMTT(60), <1>1, <1>2, <1>6
<1> QED
  BY <1>2, <1>3, <1>4, <1>7, <1>8, <1>9, <1>10, <1>11, WorldStep

\* A power loss: every entry is one that was there before.
LEMMA PowerStep ==
  ASSUME CloseoutInv, power_loss
  PROVE  CloseoutInv'
<1>1. /\ EcTypeOK /\ claims \in Seq(EvBundles \cup {NoEvidence}) /\ txns \in Seq(EcTxn)
      /\ Len(txns) \in Nat /\ \A t \in 1..Len(txns) : TxnOK(txns[t])
  BY DEF CloseoutInv, EcTypeOK, TxnsShape
<1>2. UNCHANGED <<runSide, inodes, claims>> /\ obs' = [p \in Observer |-> Resting]
      /\ linkSynced' = link'
  BY ZenonT(100) DEF power_loss
<1>3. UNCHANGED <<runAt, closedOn, attested, pull>>
  BY <1>2 DEF runSide
<1>4. PICK kept \in BOOLEAN :
        /\ link' = IF kept THEN link ELSE linkSynced
        /\ txns' = [t \in 1..Len(txns) |->
                      LET i == IF kept THEN txns[t].payload ELSE txns[t].synced
                      IN [txns[t] EXCEPT !.payload = i, !.synced = i]]
  BY ZenonT(100) DEF power_loss
<1>5. FilesShape' /\ LinksShape' /\ Len(inodes') = Len(inodes) /\ Len(inodes) <= Len(inodes')
  <2>1. link' \in {link, linkSynced}
    BY ZenonT(100), <1>4
  <2> QED
    BY SMTT(60), <1>1, <1>2, <2>1 DEF EcTypeOK, FilesShape, LinksShape
<1>6. ASSUME NEW t \in 1..Len(txns)
      PROVE  txns'[t] \in EcTxn /\ {txns'[t].payload, txns'[t].synced} \subseteq 0..Len(inodes)
  <2>1. PICK old \in EcTxn : old = txns[t] /\ {old.payload, old.synced} \subseteq 0..Len(inodes)
    BY <1>1 DEF TxnOK
  <2>2. PICK i \in {old.payload, old.synced} : txns'[t] = [old EXCEPT !.payload = i, !.synced = i]
    <3>1. CASE kept
      BY ZenonT(100), <1>4, <2>1, <3>1
    <3>2. CASE ~kept
      BY ZenonT(100), <1>4, <2>1, <3>2
    <3> QED
      BY <3>1, <3>2
  <2>3. PICK new : new = [old EXCEPT !.payload = i, !.synced = i]
    OBVIOUS
  <2>4. new \in EcTxn /\ new.payload = i /\ new.synced = i
    BY ZenonT(100), <2>3 DEF EcTxn
  <2> QED
    BY <2>1, <2>2, <2>3, <2>4
<1>7. DOMAIN txns' = 1..Len(txns)
  BY ZenonT(100), <1>4
<1>8. txns' \in Seq(EcTxn) /\ Len(txns') = Len(txns)
  <2>1. txns' = [t \in 1..Len(txns) |-> txns'[t]]
    BY ZenonT(100), <1>4
  <2>2. txns' \in [1..Len(txns) -> EcTxn]
    BY <1>6, <2>1
  <2> QED
    BY <1>1, <2>2
<1>9. TxnsShape' /\ Len(txns) <= Len(txns')
  BY SMTT(60), <1>1, <1>5, <1>6, <1>8 DEF TxnsShape, TxnOK
<1>10. Onward
  BY SMTT(60), <1>1, <1>2, <1>3 DEF Onward
<1>11. RunsShape'
  BY <1>1, <1>3 DEF EcTypeOK, RunsShape
<1> QED
  BY <1>1, <1>2, <1>3, <1>5, <1>9, <1>10, <1>11, WorldStep

\* Runs appear and end elsewhere, time passes, the pull request moves, and
\* someone attests an item.
LEMMA ElsewhereStep ==
  ASSUME CloseoutInv,
         \/ time_passes \/ pull_request_moves
         \/ \E r \in EvRun : run_moves(r)
         \/ \E r \in EvRun, c \in DOMAIN EvCriteria, who \in {"producer", "worker", "reviewer"} :
              record_manual_acceptance_authentication(r, c, who)
  PROVE  CloseoutInv'
<1>1. EcTypeOK /\ claims \in Seq(EvBundles \cup {NoEvidence}) /\ Len(claims) \in Nat /\ RunsShape
  BY DEF CloseoutInv, EcTypeOK
<1>2. UNCHANGED <<closedOn, fileSide, obs>>
  BY ZenonT(100) DEF time_passes, pull_request_moves, run_moves, record_manual_acceptance_authentication
<1>3. UNCHANGED <<inodes, link, linkSynced, txns, claims>> /\ closedOn' = closedOn /\ obs' = obs
  BY <1>2 DEF fileSide
<1>4. /\ FilesShape' /\ LinksShape' /\ TxnsShape'
      /\ Len(inodes) <= Len(inodes') /\ Len(txns) <= Len(txns')
  BY <1>1, <1>3, SameFiles
<1>5. SUFFICES /\ RunsShape'
               /\ \A r \in EvRun : runAt'[r] = "succeeded" <=> runAt[r] = "succeeded"
               /\ \A r \in EvRun : attested[r] \subseteq attested'[r]
               /\ pull.merged = "yes" => pull'.merged = "yes" /\ pull'.head = pull.head
  <2>1. Onward
    BY SMTT(60), <1>1, <1>3, <1>5 DEF Onward
  <2> QED
    BY <1>1, <1>3, <1>4, <1>5, <2>1, WorldStep
<1>6. CASE time_passes
  BY <1>1, <1>6 DEF time_passes, RunsShape
<1>7. CASE pull_request_moves
  <2>1. pull' \in PullState /\ pull \in PullState /\ UNCHANGED <<runAt, closedOn, attested>>
    BY <1>1, <1>7 DEF pull_request_moves, RunsShape
  <2>2. pull.merged = "yes" => pull'.merged = "yes" /\ pull'.head = pull.head
    <3>1. DOMAIN pull = {"head", "merged", "checks"}
      BY <2>1, PullAssumption
    <3>2. pull.merged = "yes" => pull' = [pull EXCEPT !.checks = pull'.checks]
      BY <1>7 DEF pull_request_moves
    <3> QED
      BY <3>1, <3>2
  <2> QED
    BY <1>1, <2>1, <2>2 DEF RunsShape
<1>8. ASSUME NEW r \in EvRun, run_moves(r)
      PROVE  /\ RunsShape'
             /\ \A s \in EvRun : runAt'[s] = "succeeded" <=> runAt[s] = "succeeded"
             /\ attested' = attested /\ pull' = pull
  <2>1. PICK s \in {"active", "failed", "stale_worker"} :
          runAt' = [runAt EXCEPT ![r] = s] /\ runAt[r] \in {"unknown", "active"}
    BY <1>8 DEF run_moves
  <2>2. UNCHANGED <<closedOn, attested, pull>>
    BY <1>8 DEF run_moves
  <2>3. runAt' \in [EvRun -> {"unknown", "active"} \cup TERMINAL_RUN_STATES]
    BY <1>1, <2>1 DEF RunsShape, TERMINAL_RUN_STATES
  <2>4. \A u \in EvRun : runAt'[u] = "succeeded" <=> runAt[u] = "succeeded"
    BY <1>1, <2>1 DEF RunsShape
  <2> QED
    BY <1>1, <2>2, <2>3, <2>4 DEF RunsShape
<1>9. ASSUME NEW r \in EvRun, NEW c \in DOMAIN EvCriteria, NEW who,
             record_manual_acceptance_authentication(r, c, who)
      PROVE  /\ RunsShape' /\ runAt' = runAt /\ pull' = pull
             /\ \A s \in EvRun : attested[s] \subseteq attested'[s]
  <2>1. PICK item : attested' = [attested EXCEPT ![r] = attested[r] \cup {<<c, item>>}]
    BY ZenonT(100), <1>9 DEF record_manual_acceptance_authentication
  <2>2. UNCHANGED <<runAt, closedOn, pull>>
    BY ZenonT(100), <1>9 DEF record_manual_acceptance_authentication
  <2>3. attested = [s \in EvRun |-> attested[s]]
    BY <1>1 DEF RunsShape
  <2>4. attested' = [s \in EvRun |-> attested'[s]] /\ \A s \in EvRun : attested[s] \subseteq attested'[s]
    BY <2>1, <2>3
  <2> QED
    BY <1>1, <2>2, <2>4 DEF RunsShape
<1> QED
  BY <1>6, <1>7, <1>8, <1>9

\* Every step keeps what the closeouts rest on.
LEMMA CloseoutStep == CloseoutInv /\ [EcNext]_ecVars => CloseoutInv'
<1> SUFFICES ASSUME CloseoutInv, [EcNext]_ecVars PROVE CloseoutInv'
  OBVIOUS
<1>1. CASE UNCHANGED ecVars
  <2>1. /\ UNCHANGED <<runAt, closedOn, attested, pull>>
        /\ UNCHANGED <<inodes, link, linkSynced, txns, claims, obs>>
    BY <1>1 DEF ecVars, runSide, fileSide
  <2> QED
    BY ZenonT(100), <2>1 DEF CloseoutInv, EcTypeOK, RunsShape, FilesShape, LinksShape, TxnsShape, TxnOK,
                ObsShape, ObsOK, EcClosing, EcClosed, Supported, Justified, Passed
<1>2. ASSUME NEW p \in Observer, EcProcess(p) PROVE CloseoutInv'
  <2>1. CASE \E r \in EvRun : \/ reconcile_runs(p, r) \/ retire_terminal_evidence_bundles(p, r)
                              \/ quarantine_read(p, r)
    BY <2>1, ReadSteps
  <2>2. CASE authenticate(p) \/ evaluate_run(p) \/ reconcile_run(p) \/ unlink_bundle(p)
    BY <2>2, AuthenticateStep, EvaluateStep, CompleteStep, UnlinkStep
  <2>3. CASE quarantine_mkdir(p) \/ _create_quarantine_transaction(p) \/ _atomic_quarantine_move(p)
    BY <2>3, MkdirStep, ManifestStep, MoveStep
  <2>4. CASE \E n \in 1..2 : _sync_directory(p, n)
    BY <2>4, SyncStep
  <2>5. CASE quarantine_check(p) \/ _restore_mismatched_quarantine_entry(p)
             \/ _finalize_quarantine_transaction(p) \/ _freeze_quarantine_payload(p)
    BY <2>5, CheckStep, UnstageStep, PauseSteps, FreezeStep
  <2>6. CASE \/ _rebind_quarantine_transaction_to_payload(p)
             \/ _preserve_unreadable_quarantine_transaction(p)
    BY <2>6, NoteSteps
  <2>7. CASE \/ \E to \in {"item", "preserved"} : rename_transaction(p, to)
             \/ _cleanup_pre_move_transaction(p)
    BY <2>7, EndSteps
  <2>8. CASE \E t \in 1..Len(txns) : _recover_quarantine_transactions(p, t)
    BY <2>8, RecoverStep
  <2>9. CASE observer_stops(p)
    BY <2>9, PauseSteps
  <2> QED
    BY ZenonT(100), <1>2, <2>1, <2>2, <2>3, <2>4, <2>5, <2>6, <2>7, <2>8, <2>9 DEF EcProcess
<1>3. ASSUME NEW r \in EvRun,
             \/ \E e \in EvBundles : publish_bundle(r, "bundle", e)
             \/ \E kind \in EntryKind \ {"bundle"} : publish_bundle(r, kind, NoEvidence)
      PROVE  CloseoutInv'
  BY ZenonT(100), <1>3, PublishStep DEF EntryKind
<1> QED
  BY ZenonT(100), <1>1, <1>2, <1>3, InPlaceStep, PowerStep, ElsewhereStep DEF EcNext

\* A run that reconcile_run closed was closed on evidence that was authenticated,
\* is about the run's own task and plan, shows what was asked, and whose merge
\* GitHub still shows; for any number of runs, observers, bundles and
\* transactions, and with every interleaving, crash and power loss.
THEOREM RunsClosedAsAttested == EcInit /\ [][EcNext]_ecVars => []AttestedCloseout
<1>1. CloseoutInv => AttestedCloseout
  <2> SUFFICES ASSUME CloseoutInv, NEW r \in EvRun
               PROVE  /\ runAt[r] = "succeeded" <=> closedOn[r] # 0
                      /\ closedOn[r] # 0 =>
                           \A c \in DOMAIN EvCriteria :
                             LET item == claims[closedOn[r]][c]
                                 criterion == EvCriteria[c]
                             IN /\ item # NoItem /\ item.task = TASK /\ item.plan = PLAN
                                /\ _fact_state(criterion.verifier, item.facts, criterion) = PASSED
                                /\ criterion.verifier = "manual_observation" =>
                                     <<c, item>> \in attested[r]
                                /\ criterion.verifier = "code_merged" =>
                                     pull.merged = "yes" /\ pull.head = criterion.target
    BY Zenon DEF AttestedCloseout
  <2>1. EcClosed(r)
    BY DEF CloseoutInv
  <2>2. ASSUME closedOn[r] # 0, NEW c \in DOMAIN EvCriteria, NEW item,
               item = claims[closedOn[r]][c]
        PROVE  /\ item # NoItem /\ item.task = TASK /\ item.plan = PLAN
               /\ _fact_state(EvCriteria[c].verifier, item.facts, EvCriteria[c]) = PASSED
               /\ EvCriteria[c].verifier = "manual_observation" => <<c, item>> \in attested[r]
               /\ EvCriteria[c].verifier = "code_merged" =>
                    pull.merged = "yes" /\ pull.head = EvCriteria[c].target
    <3>1. Justified(r, c, item) /\ Passed(c, item)
      BY <2>1, <2>2 DEF EcClosed, Supported
    <3>2. EvCriteria[c].verifier = "code_merged" => item.facts.merged = "yes"
      BY <3>1, MergedFact DEF Passed
    <3> QED
      BY <3>1, <3>2 DEF Justified, Passed
  <2> QED
    BY ZenonT(100), <2>1, <2>2 DEF EcClosed
<1> QED
  BY <1>1, CloseoutInitial, CloseoutStep, PTL

-----------------------------------------------------------------------------
\* Candidates in the live register (LiveRegister).

\* The journal is a sequence.
IsJournal ==
  /\ Len(journal) \in Nat
  /\ journal = [i \in 1..Len(journal) |-> journal[i]]

\* What a request to record, to close, or to the live-register command leaves of
\* itself in the event it appended.
EventOk(e) ==
  CASE e.act.op = "close" -> e.act.sup # 0 /\ e.sup = e.act.sup
    [] e.act.op \in {"record", "cli"} ->
         /\ e.act.sup # 0 => e.sup = e.act.sup
         /\ e.act.sup = 0 /\ e.act.id # NULL => e.sup = 0 /\ e.id = e.act.id
         /\ e.act.op = "record" => e.ev.key = e.act.key
         /\ e.act.op = "cli" /\ e.act.sup = 0 => e.ev.key = <<e.act.content>>
    [] OTHER -> FALSE

\* What a call in progress hands to the transaction.
RecordOf(g) ==
  /\ g.act \in RecordRequest
  /\ g.ev = [key |-> g.act.key, req |-> g.act] /\ g.ctx.key = g.act.key
  /\ g.sup = g.act.sup /\ (g.sup # 0 => g.status = NULL)
  /\ g.act.id # NULL => g.id = g.act.id
  /\ g.dedup = (g.act.id = NULL /\ g.act.sup = 0)

CloseOf(g) ==
  /\ g.act.op = "close" /\ g.act.sup = g.sup /\ g.sup \in Events
  /\ journal[g.sup].status \in ACTIVE_LIVE_STATUSES
  /\ g.ev = NULL /\ g.status = "closed" /\ g.dedup = FALSE

CliOf(g) ==
  /\ g.act \in CliRequest
  /\ g.ctx = NULL /\ (g.sup = 0 => g.ev = [key |-> <<g.act.content>>, req |-> g.act])
  /\ g.sup = g.act.sup /\ g.status = g.act.status
  /\ g.act.id # NULL => g.id = g.act.id
  /\ g.dedup = (g.act.id = NULL /\ g.act.sup = 0)

\* The inductive invariant: the history as stated, every event with the marks of
\* its request, and no event ahead of the one it supersedes; a closeout under way
\* was checked against an open event, and events never change.
RegisterInv ==
  /\ IsJournal /\ CandidateHistory
  /\ \A i \in Events : EventOk(journal[i]) /\ journal[i].sup \in 0..(i - 1)
  /\ DOMAIN calls = Caller
  /\ \A p \in Caller : calls[p].pc # "idle" => RecordOf(calls[p].q) \/ CloseOf(calls[p].q)

\* Appending to the journal adds one event at its end.
LEMMA JournalAppends ==
  ASSUME NEW e, IsJournal, journal' = Append(journal, e)
  PROVE  /\ IsJournal' /\ Events = 1..Len(journal) /\ Events' = 1..(Len(journal) + 1)
         /\ journal'[Len(journal) + 1] = e
         /\ \A i \in Events : journal'[i] = journal[i]
  <1> DEFINE S == {journal[i] : i \in 1..Len(journal)} \cup {e}
  <1>1. PICK n \in Nat : n = Len(journal)
    BY DEF IsJournal
  <1>2. PICK j : j = journal
    OBVIOUS
  <1>3. j = [i \in 1..n |-> j[i]] /\ \A i \in 1..n : j[i] \in S
    BY <1>1, <1>2 DEF IsJournal
  <1>4. j \in [1..n -> S]
    BY <1>3
  <1>5. j \in Seq(S) /\ e \in S
    BY <1>4
  <1> HIDE DEF S
  <1>6. PICK k : k = Append(j, e)
    OBVIOUS
  <1>7. /\ k \in Seq(S) /\ Len(j) = n /\ Len(k) = n + 1 /\ DOMAIN j = 1..n /\ DOMAIN k = 1..(n + 1)
        /\ k[n + 1] = e /\ \A i \in 1..n : k[i] = j[i]
    BY SMTT(60), <1>1, <1>2, <1>5, <1>6
  <1>8. k = [i \in 1..(n + 1) |-> k[i]]
    BY <1>7
  <1>9. journal' = k
    BY <1>2, <1>6
  <1>10. Len(journal') = n + 1 /\ DOMAIN journal' = 1..(n + 1) /\ DOMAIN journal = 1..n
    BY <1>2, <1>7, <1>9
  <1>11. IsJournal'
    BY SMTT(60), <1>8, <1>9, <1>10 DEF IsJournal
  <1>12. Events = 1..Len(journal) /\ Events' = 1..(Len(journal) + 1)
    BY <1>1, <1>10 DEF Events
  <1>13. journal'[Len(journal) + 1] = e /\ \A i \in Events : journal'[i] = journal[i]
    BY <1>1, <1>2, <1>7, <1>9, <1>12
  <1> QED
    BY <1>11, <1>12, <1>13

\* What an event that passed the checks of the transaction is, and what it
\* supersedes.
LEMMA Appended ==
  ASSUME NEW g, CanAppend(g)
  PROVE  /\ NewEvent(g).act = g.act /\ NewEvent(g).id = g.id
         /\ NewEvent(g).sup = Predecessor(g)
         /\ Predecessor(g) = 0 => \A i \in Events : journal[i].id # g.id
         /\ Predecessor(g) # 0 =>
              /\ Predecessor(g) \in Events /\ journal[Predecessor(g)].id = g.id
              /\ \A i \in Events : journal[i].sup # Predecessor(g)
  <1>1. PICK s : s = Predecessor(g)
    OBVIOUS
  <1>2. /\ s = 0 => \A i \in Events : journal[i].id # g.id
        /\ s # 0 => s \in Events /\ journal[s].id = g.id /\ \A i \in Events : journal[i].sup # s
    BY <1>1 DEF CanAppend, Unsuperseded, superseded_event_ids
  <1>3. PICK e : e = NewEvent(g)
    OBVIOUS
  <1>4. CASE s = 0
    <2>1. e.act = g.act /\ e.id = g.id /\ e.sup = 0
      BY <1>1, <1>3, <1>4 DEF NewEvent
    <2> QED
      BY <1>1, <1>2, <1>3, <1>4, <2>1
  <1>5. CASE s # 0
    <2>1. e.act = g.act /\ e.id = journal[s].id /\ e.sup = s
      BY <1>1, <1>3, <1>5 DEF NewEvent
    <2> QED
      BY <1>1, <1>2, <1>3, <1>5, <2>1
  <1> QED
    BY <1>4, <1>5

\* The predecessor of an append is the one its request names; an observation
\* without one of its own meets the current event, if any.
LEMMA PredecessorOf ==
  ASSUME NEW g
  PROVE  /\ g.sup # 0 => Predecessor(g) = g.sup /\ ~Enriches(g)
         /\ g.sup = 0 /\ g.dedup = FALSE => Predecessor(g) = 0
         /\ g.sup = 0 /\ Predecessor(g) # 0 => Enriches(g)
  BY DEF Predecessor, Enriches

\* A candidate event that is brought along is the event's own.
LEMMA EventBrought ==
  ASSUME NEW g, g.ev # NULL
  PROVE  NewEvent(g).ev = g.ev
  BY DEF NewEvent

\* An observation brings its candidate event, under the key of its request.
LEMMA BringsEvent ==
  ASSUME NEW g, RecordOf(g) \/ (CliOf(g) /\ g.sup = 0)
  PROVE  /\ g.ev # NULL
         /\ RecordOf(g) => g.ev.key = g.act.key
         /\ CliOf(g) /\ g.sup = 0 => g.ev.key = <<g.act.content>>
  <1>1. CASE RecordOf(g)
    <2>1. g.act \in RecordRequest /\ g.act.key \in Key /\ g.ev = [key |-> g.act.key, req |-> g.act]
      BY <1>1 DEF RecordOf, RecordRequest
    <2>2. g.ev \in [key : Key \cup {<<c>> : c \in Content}, req : RecordRequest \cup CliRequest]
      BY <2>1
    <2>3. g.ev.key = g.act.key /\ g.act.op = "record"
      BY SMTT(60), <2>1 DEF RecordRequest
    <2>4. ~CliOf(g)
      BY <2>3 DEF CliOf, CliRequest
    <2> QED
      BY <2>2, <2>3, <2>4, RegisterAssumption
  <1>2. CASE CliOf(g) /\ g.sup = 0
    <2>1. /\ g.act \in CliRequest /\ g.act.content \in Content
          /\ g.ev = [key |-> <<g.act.content>>, req |-> g.act]
      BY <1>2 DEF CliOf, CliRequest
    <2>2. g.ev \in [key : Key \cup {<<c>> : c \in Content}, req : RecordRequest \cup CliRequest]
      BY <2>1
    <2>3. g.ev.key = <<g.act.content>> /\ g.act.op = "cli"
      BY SMTT(60), <2>1 DEF CliRequest
    <2>4. ~RecordOf(g)
      BY <2>3 DEF RecordOf, RecordRequest
    <2> QED
      BY <2>2, <2>3, <2>4, RegisterAssumption
  <1> QED
    BY <1>1, <1>2

\* The three kinds of request are told apart.
LEMMA RequestOps ==
  ASSUME NEW g
  PROVE  /\ RecordOf(g) => g.act.op = "record"
         /\ CloseOf(g) => g.act.op = "close"
         /\ CliOf(g) => g.act.op = "cli"
  BY DEF RecordOf, CloseOf, CliOf, RecordRequest, CliRequest

\* An appended event carries the marks of its request.
LEMMA NewEventOk ==
  ASSUME NEW g, RecordOf(g) \/ CloseOf(g) \/ CliOf(g), CanAppend(g), IsJournal
  PROVE  EventOk(NewEvent(g))
  <1>1. PICK e : e = NewEvent(g)
    OBVIOUS
  <1>2. e.act = g.act /\ e.id = g.id /\ e.sup = Predecessor(g)
    BY <1>1, Appended
  <1>3. /\ g.sup # 0 => e.sup = g.sup
        /\ g.sup = 0 /\ g.dedup = FALSE => e.sup = 0
    BY <1>2, PredecessorOf
  <1>4. CASE RecordOf(g)
    <2>1. e.act.op = "record" /\ e.ev.key = e.act.key
      BY <1>1, <1>2, <1>4, RequestOps, BringsEvent, EventBrought
    <2>2. /\ e.act.sup # 0 => e.sup = e.act.sup
          /\ e.act.sup = 0 /\ e.act.id # NULL => e.sup = 0 /\ e.id = e.act.id
      BY <1>2, <1>3, <1>4 DEF RecordOf
    <2> QED
      BY <1>1, <2>1, <2>2 DEF EventOk
  <1>5. CASE CloseOf(g)
    <2>1. g.sup # 0
      BY SMTT(60), <1>5 DEF CloseOf, IsJournal, Events
    <2>2. e.act.op = "close" /\ e.act.sup # 0 /\ e.sup = e.act.sup
      BY <1>2, <1>3, <1>5, <2>1 DEF CloseOf
    <2> QED
      BY <1>1, <2>2 DEF EventOk
  <1>6. CASE CliOf(g)
    <2>1. e.act.op = "cli"
      BY <1>2, <1>6, RequestOps
    <2>2. /\ e.act.sup # 0 => e.sup = e.act.sup
          /\ e.act.sup = 0 /\ e.act.id # NULL => e.sup = 0 /\ e.id = e.act.id
      BY <1>2, <1>3, <1>6 DEF CliOf
    <2>3. e.act.sup = 0 => e.ev.key = <<e.act.content>>
      <3>1. e.act.sup = g.sup
        BY <1>2, <1>6 DEF CliOf
      <3> QED
        BY <1>1, <1>2, <1>6, <3>1, BringsEvent, EventBrought
    <2> QED
      BY <1>1, <2>1, <2>2, <2>3 DEF EventOk
  <1> QED
    BY <1>4, <1>5, <1>6

\* A deduplicated observation that is appended finds its key in no event.
LEMMA KeyUnused ==
  ASSUME NEW g, RecordOf(g) \/ CliOf(g), g.sup = 0, g.dedup = TRUE, ~KeyedReplay(g), NEW i \in Events
  PROVE  journal[i].ev.key # g.ev.key
  <1>1. g.ev.key = IF g.ctx = NULL THEN g.ev.key ELSE g.ctx.key
    <2>1. CASE RecordOf(g)
      BY <2>1, BringsEvent DEF RecordOf
    <2>2. CASE CliOf(g)
      BY <2>2 DEF CliOf
    <2> QED
      BY <2>1, <2>2
  <1> QED
    BY <1>1 DEF KeyedReplay

\* No request is applied twice, and a key that stands for a request is not taken
\* by another that leaves its candidate open.
LEMMA RequestFresh ==
  ASSUME NEW g, RecordOf(g) \/ CloseOf(g) \/ CliOf(g), CanAppend(g), ~KeyedReplay(g), IsJournal,
         NEW i \in Events, EventOk(journal[i])
  PROVE  /\ journal[i].act # g.act
         /\ journal[i].act.op = "record" /\ g.act.op = "record" /\ journal[i].act.key = g.act.key
              => g.act.id # NULL \/ g.act.sup # 0
  <1>1. PICK f : f = journal[i]
    OBVIOUS
  <1>2. /\ Predecessor(g) = 0 => f.id # g.id
        /\ Predecessor(g) # 0 => f.sup # Predecessor(g)
    BY <1>1, Appended
  <1>3. /\ g.sup # 0 => f.sup # g.sup
        /\ g.sup = 0 /\ g.dedup = FALSE => f.id # g.id
    BY <1>2, PredecessorOf
  <1>4. EventOk(f)
    BY <1>1
  <1>5. CASE CloseOf(g)
    <2>1. g.act.op = "close" /\ g.sup = g.act.sup /\ g.sup # 0
      BY SMTT(60), <1>5 DEF CloseOf, IsJournal, Events
    <2>2. f.act.op = "close" => f.sup = f.act.sup
      BY <1>4 DEF EventOk
    <2>3. f.act # g.act
      BY <1>3, <2>1, <2>2
    <2> QED
      BY <1>1, <2>1, <2>3
  <1>6. CASE RecordOf(g) \/ CliOf(g)
    <2>1. /\ g.act.op \in {"record", "cli"} /\ g.sup = g.act.sup
          /\ g.act.id # NULL => g.id = g.act.id
          /\ g.dedup = (g.act.id = NULL /\ g.act.sup = 0)
      BY <1>6, RequestOps DEF RecordOf, CliOf
    <2>2. f.act.op \in {"record", "cli"} =>
            /\ f.act.sup # 0 => f.sup = f.act.sup
            /\ f.act.sup = 0 /\ f.act.id # NULL => f.sup = 0 /\ f.id = f.act.id
            /\ f.act.op = "record" => f.ev.key = f.act.key
            /\ f.act.op = "cli" /\ f.act.sup = 0 => f.ev.key = <<f.act.content>>
      BY <1>4 DEF EventOk
    <2>3. CASE g.act.sup # 0
      BY <1>1, <1>3, <2>1, <2>2, <2>3
    <2>4. CASE g.act.sup = 0 /\ g.act.id # NULL
      BY <1>1, <1>3, <2>1, <2>2, <2>4
    <2>5. CASE g.act.sup = 0 /\ g.act.id = NULL
      <3>1. f.ev.key # g.ev.key
        BY <1>1, <1>6, <2>1, <2>5, KeyUnused
      <3>2. CASE RecordOf(g)
        <4>1. g.ev.key = g.act.key /\ g.act.op = "record"
          BY <3>2, BringsEvent, RequestOps
        <4>2. ~(f.act.op = "record" /\ f.act.key = g.act.key)
          BY <2>2, <3>1, <4>1
        <4> QED
          BY <1>1, <4>1, <4>2
      <3>3. CASE CliOf(g)
        <4>1. g.ev.key = <<g.act.content>> /\ g.act.op = "cli"
          BY <2>1, <2>5, <3>3, BringsEvent, RequestOps
        <4>2. f.act # g.act
          BY <2>2, <2>5, <3>1, <4>1
        <4> QED
          BY <1>1, <4>1, <4>2
      <3> QED
        BY <1>6, <3>2, <3>3
    <2> QED
      BY <2>3, <2>4, <2>5
  <1> QED
    BY <1>5, <1>6

\* The status an appended event gives a known candidate.
StatusEarned(e, old) ==
  CASE e.act.op = "record" -> e.status = old
    [] e.act.op = "close" -> /\ e.act.sup = e.sup /\ e.status = "closed"
                             /\ old \in ACTIVE_LIVE_STATUSES
    [] OTHER -> e.status \in {old, e.act.status}

\* Only a closeout of an open candidate and the live-register command move it.
LEMMA StatusMoves ==
  ASSUME NEW g, RecordOf(g) \/ CloseOf(g) \/ CliOf(g), CanAppend(g), Predecessor(g) # 0, IsJournal
  PROVE  StatusEarned(NewEvent(g), journal[Predecessor(g)].status)
  <1>1. PICK e, s : e = NewEvent(g) /\ s = Predecessor(g)
    OBVIOUS
  <1>2. e.act = g.act /\ e.sup = s /\ s # 0
    BY <1>1, Appended
  <1>3. e.status = IF Enriches(g) \/ g.status = NULL THEN journal[s].status ELSE g.status
    BY <1>1, <1>2 DEF NewEvent, NextStatus
  <1>4. CASE RecordOf(g)
    <2>1. Enriches(g) \/ g.status = NULL
      BY <1>1, <1>2, <1>4, PredecessorOf DEF RecordOf
    <2> QED
      BY <1>1, <1>2, <1>3, <1>4, <2>1, RequestOps DEF StatusEarned
  <1>5. CASE CloseOf(g)
    <2>1. g.sup # 0
      BY SMTT(60), <1>5 DEF CloseOf, IsJournal, Events
    <2>2. s = g.sup /\ ~Enriches(g)
      BY <1>1, <2>1, PredecessorOf
    <2>3. g.status = "closed" /\ "closed" # NULL
      BY <1>5, RegisterAssumption DEF CloseOf, LIVE_REGISTER_STATUSES
    <2>4. e.act.op = "close" /\ e.act.sup = e.sup /\ journal[s].status \in ACTIVE_LIVE_STATUSES
      BY <1>2, <1>5, <2>2 DEF CloseOf
    <2> QED
      BY <1>1, <1>3, <2>2, <2>3, <2>4 DEF StatusEarned
  <1>6. CASE CliOf(g)
    <2>1. e.act.op = "cli" /\ g.status = e.act.status
      BY <1>2, <1>6, RequestOps DEF CliOf
    <2> QED
      BY <1>1, <1>3, <2>1 DEF StatusEarned
  <1> QED
    BY <1>4, <1>5, <1>6

\* What the invariant says of the journal alone.
JournalInv ==
  /\ IsJournal /\ CandidateHistory
  /\ \A i \in Events : EventOk(journal[i]) /\ journal[i].sup \in 0..(i - 1)

\* One transaction of the register keeps the history of every candidate.
LEMMA RegisterKept ==
  ASSUME JournalInv, NEW g, RecordOf(g) \/ CloseOf(g) \/ CliOf(g), live_register_record(g)
  PROVE  /\ JournalInv'
         /\ Events \subseteq Events' /\ \A i \in Events : journal'[i] = journal[i]
  <1>1. CASE journal' = journal
    BY SMTT(60), <1>1 DEF JournalInv, IsJournal, CandidateHistory, OneChain, ClosedStaysClosed, Events
  <1>2. CASE ~KeyedReplay(g) /\ CanAppend(g) /\ journal' = Append(journal, NewEvent(g))
    <2>1. PICK e, s, n : e = NewEvent(g) /\ s = Predecessor(g) /\ n = Len(journal) + 1
      OBVIOUS
    <2>2. /\ IsJournal' /\ Events = 1..(n - 1) /\ Events' = 1..n /\ n \in Nat \ {0}
          /\ journal'[n] = e /\ \A i \in Events : journal'[i] = journal[i]
      <3>1. Len(journal) \in Nat /\ IsJournal
        BY DEF JournalInv, IsJournal
      <3>2. journal' = Append(journal, e)
        BY <1>2, <2>1
      <3>3. /\ IsJournal' /\ Events = 1..Len(journal) /\ Events' = 1..(Len(journal) + 1)
            /\ journal'[Len(journal) + 1] = e
            /\ \A i \in Events : journal'[i] = journal[i]
        BY <3>1, <3>2, JournalAppends
      <3>4. n - 1 = Len(journal) /\ n \in Nat \ {0}
        BY SMTT(60), <2>1, <3>1
      <3> QED
        BY <2>1, <3>3, <3>4
    <2>3. /\ e.act = g.act /\ e.id = g.id /\ e.sup = s
          /\ s = 0 => \A i \in Events : journal[i].id # e.id
          /\ s # 0 => s \in Events /\ journal[s].id = e.id /\ \A i \in Events : journal[i].sup # s
      BY SMTT(60), <1>2, <2>1, Appended
    <2>4. EventOk(e)
      BY <1>2, <2>1, NewEventOk DEF JournalInv
    <2>5. \A i \in Events :
            /\ journal[i].act # e.act
            /\ journal[i].act.op = "record" /\ e.act.op = "record" /\ journal[i].act.key = e.act.key
                 => e.act.id # NULL \/ e.act.sup # 0
      BY <1>2, <2>3, RequestFresh DEF JournalInv
    <2>6. s # 0 => StatusEarned(e, journal[s].status)
      BY <1>2, <2>1, StatusMoves DEF JournalInv
    <2>7. Events' = Events \cup {n} /\ n \notin Events /\ \A i \in Events : i < n /\ i \in Nat /\ i # 0
      BY <2>2
    <2>8. \A i \in Events' : EventOk(journal'[i]) /\ journal'[i].sup \in 0..(i - 1)
      <3>1. s \in 0..(n - 1)
        BY <2>2, <2>3
      <3> QED
        BY <2>2, <2>3, <2>4, <2>7, <3>1 DEF JournalInv
    <2>9. OneChain'
      <3>1. SUFFICES ASSUME NEW i \in Events', NEW j \in Events'
            PROVE  /\ journal'[i].sup = j => j < i /\ journal'[j].id = journal'[i].id
                   /\ i < j /\ journal'[i].id = journal'[j].id =>
                        /\ \E k \in Events' : journal'[k].sup = i
                        /\ journal'[i].sup # journal'[j].sup
                   /\ i # j => journal'[i].act # journal'[j].act
                   /\ LET a == journal'[i].act
                          b == journal'[j].act
                      IN i < j /\ a.op = "record" /\ b.op = "record" /\ a.key = b.key
                           => b.id # NULL \/ b.sup # 0
        BY Zenon DEF OneChain
      <3>2. CASE i \in Events /\ j \in Events
        <4>1. journal'[i] = journal[i] /\ journal'[j] = journal[j]
          BY <2>2, <3>2
        <4>2. (\E k \in Events : journal[k].sup = i) => \E k \in Events' : journal'[k].sup = i
          BY <2>2, <2>7
        <4>3. /\ journal[i].sup = j => j < i /\ journal[j].id = journal[i].id
              /\ i < j /\ journal[i].id = journal[j].id =>
                   /\ \E k \in Events : journal[k].sup = i
                   /\ journal[i].sup # journal[j].sup
              /\ i # j => journal[i].act # journal[j].act
              /\ i < j /\ journal[i].act.op = "record" /\ journal[j].act.op = "record"
                   /\ journal[i].act.key = journal[j].act.key
                   => journal[j].act.id # NULL \/ journal[j].act.sup # 0
          BY ZenonT(100), <3>2 DEF JournalInv, CandidateHistory, OneChain
        <4> QED
          BY <4>1, <4>2, <4>3
      <3>3. CASE i = n /\ j \in Events
        <4>1. ~(i < j) /\ j < i
          BY SMTT(60), <2>2, <2>7, <3>3
        <4>2. journal'[i].sup = j => journal'[j].id = journal'[i].id
          BY <2>2, <2>3, <2>7, <3>3
        <4>3. journal'[i].act # journal'[j].act
          BY <2>2, <2>5, <3>3
        <4> QED
          BY <4>1, <4>2, <4>3
      <3>4. CASE i \in Events /\ j = n
        <4>1. journal'[i].sup # j /\ i < j /\ i # j
          BY SMTT(60), <2>2, <2>7, <3>4 DEF JournalInv
        <4>2. ASSUME journal'[i].id = journal'[j].id
              PROVE  journal'[i].sup # journal'[j].sup /\ \E k \in Events' : journal'[k].sup = i
          <5>1. journal[i].id = e.id /\ s \in Events /\ journal[s].id = e.id
            BY <2>2, <2>3, <3>4, <4>2
          <5>2. s # 0 /\ \A k \in Events : journal[k].sup # s
            BY <2>3, <2>7, <5>1
          <5>3. ~(s < i)
            BY ZenonT(100), <3>4, <5>1, <5>2 DEF JournalInv, CandidateHistory, OneChain
          <5>4. i < s => \E k \in Events : journal[k].sup = i
            BY <3>4, <5>1 DEF JournalInv, CandidateHistory, OneChain
          <5>5. s = i \/ i < s
            BY <2>7, <3>4, <5>1, <5>3
          <5>6. \E k \in Events' : journal'[k].sup = i
            BY <2>2, <2>3, <2>7, <5>4, <5>5
          <5> QED
            BY <2>2, <2>3, <3>4, <5>2, <5>6
        <4>3. journal'[i].act # journal'[j].act
          BY <2>2, <2>5, <3>4
        <4>4. journal'[i].act.op = "record" /\ journal'[j].act.op = "record"
                /\ journal'[i].act.key = journal'[j].act.key
                => journal'[j].act.id # NULL \/ journal'[j].act.sup # 0
          BY <2>2, <2>5, <3>4
        <4> QED
          BY <4>1, <4>2, <4>3, <4>4
      <3>5. CASE i = n /\ j = n
        <4>1. s # n /\ ~(n < n)
          BY SMTT(60), <2>2, <2>3, <2>7
        <4> QED
          BY <2>2, <2>3, <3>5, <4>1
      <3> QED
        BY <2>7, <3>2, <3>3, <3>4, <3>5
    <2>10. ClosedStaysClosed'
      <3>1. \A i \in Events : journal[i].sup # 0 =>
              /\ journal[i].sup \in Events
              /\ StatusEarned(journal[i], journal[journal[i].sup].status)
        <4>1. \A i \in Events : journal[i].sup # 0 => journal[i].sup \in Events
          BY SMTT(60), <2>2 DEF JournalInv
        <4> QED
          BY <4>1 DEF JournalInv, CandidateHistory, ClosedStaysClosed, StatusEarned
      <3>2. \A i \in Events' : journal'[i].sup # 0 =>
              StatusEarned(journal'[i], journal'[journal'[i].sup].status)
        <4>1. ASSUME NEW i \in Events, journal'[i].sup # 0
              PROVE  StatusEarned(journal'[i], journal'[journal'[i].sup].status)
          <5>1. PICK k : k = journal[i].sup
            OBVIOUS
          <5>2. k # 0 /\ journal'[i] = journal[i]
            BY <2>2, <4>1, <5>1
          <5>3. journal'[k] = journal[k] /\ StatusEarned(journal[i], journal[k].status)
            BY <2>2, <3>1, <5>1, <5>2
          <5> QED
            BY <5>1, <5>2, <5>3
        <4>2. ASSUME journal'[n].sup # 0
              PROVE  StatusEarned(journal'[n], journal'[journal'[n].sup].status)
          BY <2>2, <2>3, <2>6, <4>2
        <4> QED
          BY <2>7, <4>1, <4>2
      <3> QED
        BY <3>2 DEF ClosedStaysClosed, StatusEarned
    <2> QED
      BY <2>2, <2>7, <2>8, <2>9, <2>10 DEF JournalInv, CandidateHistory
  <1> QED
    BY <1>1, <1>2 DEF live_register_record

\* Every step of the register and of its callers keeps the invariant.
LEMMA RegisterStep ==
  ASSUME RegisterInv, [LrNext]_lrVars
  PROVE  RegisterInv'
  <1>0. JournalInv /\ DOMAIN calls = Caller
    BY DEF RegisterInv, JournalInv
  <1>1. ASSUME JournalInv', Events \subseteq Events', \A i \in Events : journal'[i] = journal[i],
               DOMAIN calls' = Caller,
               \A p \in Caller : calls'[p].pc = "idle" \/ calls'[p] = calls[p]
        PROVE  RegisterInv'
    <2>1. ASSUME NEW p \in Caller, calls'[p].pc # "idle"
          PROVE  (RecordOf(calls[p].q) \/ CloseOf(calls[p].q))'
      <3>1. calls'[p] = calls[p] /\ (RecordOf(calls[p].q) \/ CloseOf(calls[p].q))
        BY <1>1, <2>1 DEF RegisterInv
      <3>2. PICK g : g = calls[p].q
        OBVIOUS
      <3>3. calls'[p].q = g
        BY <3>1, <3>2
      <3>4. CASE RecordOf(g)
        BY <3>3, <3>4 DEF RecordOf
      <3>5. CASE CloseOf(g)
        <4>1. g.sup \in Events' /\ journal'[g.sup] = journal[g.sup]
          BY <1>1, <3>5 DEF CloseOf
        <4> QED
          BY <3>3, <3>5, <4>1 DEF CloseOf
      <3> QED
        BY <3>1, <3>2, <3>4, <3>5
    <2> QED
      BY <1>1, <2>1 DEF RegisterInv, JournalInv
  <1>2. ASSUME UNCHANGED journal
        PROVE  JournalInv' /\ Events' = Events /\ \A i \in Events : journal'[i] = journal[i]
    BY SMTT(60), <1>0, <1>2 DEF JournalInv, IsJournal, CandidateHistory, OneChain, ClosedStaysClosed, Events
  <1>3. CASE UNCHANGED lrVars
    BY <1>0, <1>1, <1>2, <1>3 DEF lrVars
  <1>4. ASSUME NEW p \in Caller, append_event(p)
        PROVE  RegisterInv'
    <2>1. calls' = [calls EXCEPT ![p] = NoCall] /\ live_register_record(calls[p].q)
          /\ calls[p].pc # "idle"
      BY <1>4 DEF append_event, Returns, At_
    <2>2. JournalInv' /\ Events \subseteq Events' /\ \A i \in Events : journal'[i] = journal[i]
      BY <1>0, <2>1, RegisterKept DEF RegisterInv
    <2>3. DOMAIN calls' = Caller /\ \A q \in Caller : calls'[q].pc = "idle" \/ calls'[q] = calls[q]
      BY <1>0, <2>1 DEF NoCall
    <2> QED
      BY <1>1, <2>2, <2>3
  <1>5. ASSUME NEW p \in Caller, caller_crash(p)
        PROVE  RegisterInv'
    <2>1. DOMAIN calls' = Caller /\ \A q \in Caller : calls'[q].pc = "idle" \/ calls'[q] = calls[q]
      BY <1>0, <1>5 DEF caller_crash, Returns, NoCall
    <2> QED
      BY <1>1, <1>2, <1>5, <2>1 DEF caller_crash
  <1>6. ASSUME NEW p \in Caller, NEW g, UNCHANGED journal, RecordOf(g) \/ CloseOf(g),
               calls' = [calls EXCEPT ![p] = [pc |-> "record", q |-> g]]
        PROVE  RegisterInv'
    <2>1. /\ DOMAIN calls' = Caller /\ calls'[p].q = g
          /\ \A q \in Caller \ {p} : calls'[q] = calls[q]
      BY <1>0, <1>6
    <2>2. ASSUME NEW q \in Caller, calls'[q].pc # "idle"
          PROVE  (RecordOf(calls[q].q) \/ CloseOf(calls[q].q))'
      <3>1. PICK h : h = calls'[q].q
        OBVIOUS
      <3>2. RecordOf(h) \/ CloseOf(h)
        BY <1>6, <2>1, <2>2, <3>1 DEF RegisterInv
      <3>3. calls'[q].q = h
        BY <3>1
      <3>4. CASE RecordOf(h)
        BY <3>3, <3>4 DEF RecordOf
      <3>5. CASE CloseOf(h)
        <4>1. h.sup \in Events' /\ journal'[h.sup] = journal[h.sup]
          BY <1>2, <1>6, <3>5 DEF CloseOf
        <4> QED
          BY <3>3, <3>5, <4>1 DEF CloseOf
      <3> QED
        BY <3>2, <3>4, <3>5
    <2> QED
      BY <1>2, <1>6, <2>1, <2>2 DEF RegisterInv, JournalInv
  <1>7. ASSUME NEW p \in Caller, NEW q \in RecordRequest, candidate_record(p, q)
        PROVE  RegisterInv'
    <2>1. PICK g : g = Given(q, [key |-> q.key, req |-> q, close |-> NULL, seen |-> {q}],
                    [key |-> q.key, req |-> q], q.content, selected_candidate_id(q),
                    q.sup, IF q.sup # 0 THEN NULL ELSE "observed",
                    q.id = NULL /\ q.sup = 0)
      OBVIOUS
    <2>2. calls' = [calls EXCEPT ![p] = [pc |-> "record", q |-> g]] /\ UNCHANGED journal
      BY <1>7, <2>1 DEF candidate_record
    <2>3. /\ g.act = q /\ g.ev = [key |-> q.key, req |-> q] /\ g.ctx.key = q.key
          /\ g.sup = q.sup /\ g.status = (IF q.sup # 0 THEN NULL ELSE "observed")
          /\ g.id = selected_candidate_id(q) /\ g.dedup = (q.id = NULL /\ q.sup = 0)
      BY <2>1 DEF Given
    <2>4. q.id # NULL => selected_candidate_id(q) = q.id
      BY DEF selected_candidate_id
    <2>5. RecordOf(g)
      BY <2>3, <2>4 DEF RecordOf
    <2> QED
      BY <1>6, <2>2, <2>5
  <1>8. ASSUME NEW p \in Caller, NEW i \in Events, NEW k \in Key,
               candidate_close(p, [op |-> "close", key |-> k, id |-> journal[i].id, sup |-> i])
        PROVE  RegisterInv'
    <2>1. PICK q : q = [op |-> "close", key |-> k, id |-> journal[i].id, sup |-> i]
      OBVIOUS
    <2>2. q.op = "close" /\ q.sup = i
      BY <2>1
    <2>3. PICK c : c = IF journal[current_candidate_record(q.id)].ctx = NULL
                       THEN [key |-> NULL, req |-> NULL, close |-> q, seen |-> {}]
                       ELSE [journal[current_candidate_record(q.id)].ctx EXCEPT !.close = q]
      OBVIOUS
    <2>4. PICK g : g = Given(q, c, NULL, NULL, q.id, q.sup, "closed", FALSE)
      OBVIOUS
    <2>5. /\ calls' = [calls EXCEPT ![p] = [pc |-> "record", q |-> g]] /\ UNCHANGED journal
          /\ journal[i].status \in ACTIVE_LIVE_STATUSES
      BY <1>8, <2>1, <2>2, <2>3, <2>4 DEF candidate_close
    <2>6. g.act = q /\ g.ev = NULL /\ g.sup = i /\ g.status = "closed" /\ g.dedup = FALSE
      BY <2>2, <2>4 DEF Given
    <2>7. CloseOf(g)
      BY <2>2, <2>5, <2>6 DEF CloseOf
    <2> QED
      BY <1>6, <2>5, <2>7
  <1>9. ASSUME NEW c \in Content, retire_repo(c)
        PROVE  RegisterInv'
    BY <1>0, <1>1, <1>2, <1>9 DEF retire_repo
  <1>10. ASSUME NEW c \in Content, NEW id \in NamedId \cup {NULL},
                NEW status \in LIVE_REGISTER_STATUSES \cup {NULL}, NEW sup \in Events \cup {0},
                live_register(c, id, sup, status)
         PROVE  RegisterInv'
    <2>1. PICK a : a = [op |-> "cli", content |-> c, id |-> id, sup |-> sup, status |-> status]
      OBVIOUS
    <2>2. PICK ev : ev = IF sup # 0 THEN NULL ELSE [key |-> <<c>>, req |-> a]
      OBVIOUS
    <2>3. PICK name : name = IF id # NULL THEN id ELSE IF sup \in Events THEN journal[sup].id ELSE c
      OBVIOUS
    <2>4. PICK g : g = Given(a, NULL, ev, c, name, sup, status, id = NULL /\ sup = 0)
      OBVIOUS
    <2>5. live_register_record(g) /\ UNCHANGED calls /\ Room
      BY <1>10, <2>1, <2>2, <2>3, <2>4 DEF live_register
    <2>6. sup \in 0..MaxEvent
      BY SMTT(60), <1>0, <2>5, RegisterAssumption DEF Room, Events, JournalInv, IsJournal
    <2>7. /\ a \in CliRequest /\ a.content = c /\ a.id = id /\ a.sup = sup /\ a.status = status
      BY <2>1, <2>6 DEF CliRequest
    <2>8. /\ g.act = a /\ g.ctx = NULL /\ g.ev = ev /\ g.id = name /\ g.sup = sup
          /\ g.status = status /\ g.dedup = (id = NULL /\ sup = 0)
      BY <2>4 DEF Given
    <2>9. CliOf(g)
      BY <2>2, <2>3, <2>7, <2>8 DEF CliOf
    <2> QED
      BY <1>0, <1>1, <2>5, <2>9, RegisterKept
  <1> QED
    BY <1>3, <1>4, <1>5, <1>7, <1>8, <1>9, <1>10 DEF LrNext

\* Whatever candidate_record, candidate_close and the live-register command
\* interleave, for every set of callers, keys and contents and a journal of any
\* length, the history of every candidate is one chain of reviewed decisions and
\* no request is applied twice (live_register_record, candidate_close).
THEOREM HistoryIsOneChain == LrSpec => []CandidateHistory
  <1>1. LrInit => RegisterInv
    BY SMTT(60) DEF LrInit, RegisterInv, IsJournal, CandidateHistory, OneChain, ClosedStaysClosed, Events,
       NoCall
  <1>2. RegisterInv /\ [LrNext]_lrVars => RegisterInv'
    BY RegisterStep
  <1>3. RegisterInv => CandidateHistory
    BY DEF RegisterInv
  <1> QED
    BY <1>1, <1>2, <1>3, PTL DEF LrSpec
=============================================================================
