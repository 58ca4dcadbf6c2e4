--------------------------- MODULE TaskSpecReplay ---------------------------
(***************************************************************************)
(* The replay of the TaskSpec journal (task_specs.py: replay and           *)
(* verify_replay), which has to reproduce the tables of TaskSpecs.         *)
(***************************************************************************)
EXTENDS TaskSpecs, SequencesExt

\* What replay computes from the journal: NULL when it raises.
replay_step(acc, e) ==
    IF acc = NULL \/ e.key \in acc.keys \/ e.revision # acc.tasks[e.task].revision + 1 THEN NULL
    ELSE [tasks |-> [acc.tasks EXCEPT ![e.task] = [revision |-> e.revision, doc |-> e.doc]],
          keys |-> acc.keys \cup {e.key}]
replay(journal) ==
    FoldLeft(replay_step,
             [tasks |-> [t \in Task |-> [revision |-> 0, doc |-> NULL]], keys |-> {}],
             journal)

current_projection(s) ==
    [t \in Task |-> IF s.revs[t] = <<>> THEN [revision |-> 0, doc |-> NULL]
                    ELSE [revision |-> Len(s.revs[t]), doc |-> get_current(s, t).doc]]

\* The tables have their types and verify_replay never fails: whichever entries wrote the tables, and also
\* when a put changed nothing, the journal alone reproduces them.
ReplayMatches ==
    LET replayed == replay(store.events)
    IN  SpecTypeOK /\ replayed # NULL /\ replayed.tasks = current_projection(store)
=============================================================================
