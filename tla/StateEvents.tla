----------------------------- MODULE StateEvents -----------------------------
(***************************************************************************)
(* The projection journal of the StateStore (state_events.py and the event *)
(* methods of StateStore in v2.py).  Every transition appends, in its own  *)
(* transaction, an event and a projection delta: the new values of the     *)
(* entities it is about, and the root digest of the whole projection.      *)
(* Replaying the journal from its baseline must give the tables; a journal *)
(* that fell behind is repaired by a reviewed checkpoint.  A digest is     *)
(* modelled by the value it is taken of.                                   *)
(***************************************************************************)
EXTENDS Naturals, Sequences, SequencesExt, FiniteSets

CONSTANTS
    Run, Task, Initiative,
    TaskOf,       \* TaskOf[r]: the task of run r
    InitiativeOf, \* InitiativeOf[r]: the initiative named in the envelope of r
    Operator,     \* operators that assess and repair
    NULL,
    MaxEvents     \* bound on the rows of the journal

ASSUME StateEventsAssumption ==
    /\ TaskOf \in [Run -> Task] /\ InitiativeOf \in [Run -> Initiative]
    /\ MaxEvents \in Nat

VARIABLES
    tables,       \* tables[e]: the projected value of entity e, NULL without a row
    events,       \* the rows of the table events, ordered by event_id
    version,      \* PRAGMA user_version: 3 before the migration
    assessed,     \* assessed[o]: the candidate operator o reviewed, or NULL
    unjournaled   \* history: a row changed without an event since the last repair

eventVars == <<tables, events, version, assessed, unjournaled>>

\* PROJECTION_KEYS: an entity is a task, an initiative, or one of the three
\* rows of a run.
Entity ==
    ({"tasks"} \X Task) \cup ({"initiatives"} \X Initiative)
        \cup ({"runs", "claims", "acceptances"} \X Run)

\* The rows that occur.  A claims list belongs to every run, and may be empty.
Value(e) ==
    CASE e[1] = "runs" -> {"active", "active, expanded", "ended"}
      [] e[1] = "claims" -> {"none", "held", "held, expanded"}
      [] e[1] = "acceptances" -> {"receipt"}
      [] e[1] = "tasks" -> {"verified", "normalized"}
      [] e[1] = "initiatives" -> {"active", "waiting"}
AnyValue == UNION {Value(e) : e \in Entity}

Projections == [Entity -> AnyValue \cup {NULL}]

\* row is a version-0 row, a version-1 event, or a projection event.
Row(kind) == [kind : {kind}]
IsRow(row) ==
    \/ row \in Row("v0") \cup Row("event")
    \/ row.kind = "baseline" /\ row.projection \in Projections /\ row.root = row.projection
    \/ row.kind = "delta" /\ DOMAIN row.changes \subseteq Entity /\ row.root \in Projections
    \/ row.kind = "repair" /\ row.candidate.current \in Projections

EventsTypeOK ==
    /\ tables \in Projections
    /\ \A e \in Entity : tables[e] \in Value(e) \cup {NULL}
    /\ \A r \in Run : (tables[<<"claims", r>>] = NULL) <=> (tables[<<"runs", r>>] = NULL)
    /\ \A i \in DOMAIN events : IsRow(events[i])
    /\ version \in {3, 4}
    /\ \A o \in Operator : assessed[o] # NULL => assessed[o].current \in Projections
    /\ unjournaled \in BOOLEAN

\* A version-3 database, empty or with runs and the rows they wrote.
EventsInit ==
    /\ tables \in {[e \in Entity |-> NULL],
                   [e \in Entity |-> CASE e[1] = "runs" -> "active"
                                       [] e[1] = "claims" -> "held" [] OTHER -> NULL]}
    /\ events \in {<<>>, <<[kind |-> "v0"]>>}
    /\ version = 3
    /\ assessed = [o \in Operator |-> NULL]
    /\ unjournaled = FALSE

-----------------------------------------------------------------------------

\* Mutant: the claims of the run are left out.
run_scope_unclaimed(r) ==
    {<<"runs", r>>, <<"acceptances", r>>, <<"tasks", TaskOf[r]>>,
     <<"initiatives", InitiativeOf[r]>>}

\* The entities a delta of run r carries.
run_scope(r) ==
    {<<"runs", r>>, <<"claims", r>>, <<"acceptances", r>>, <<"tasks", TaskOf[r]>>,
     <<"initiatives", InitiativeOf[r]>>}

delta_payload(after, scope) ==
    [kind |-> "delta", changes |-> [e \in scope |-> after[e]], root |-> after]

\* event(): the operational event, and a delta when it is about an entity; a
\* run without a row gives none.
event_rows(after, scope) ==
    <<[kind |-> "event"]>>
        \o (IF \E r \in Run : <<"runs", r>> \in scope /\ after[<<"runs", r>>] = NULL THEN <<>>
            ELSE <<delta_payload(after, scope)>>)

projection_diff(replayed, current) ==
    [e \in {e \in Entity : replayed[e] # current[e]} |->
        [replayed |-> replayed[e], current |-> current[e]]]

apply_delta(projection, changes) ==
    [e \in Entity |-> IF e \in DOMAIN changes THEN changes[e] ELSE projection[e]]

\* What a candidate says of a journal.  The rows of a journal are never changed,
\* so its horizon determines the digest of the segment.
candidate_of(acc, current) ==
    [previous |-> acc.repaired, through |-> acc.last, mismatches |-> acc.pending,
     historical |-> acc.projection, current |-> current,
     diff |-> projection_diff(acc.projection, current)]

\* A checkpoint must describe exactly the segment before it.
replay_repair(acc, c) ==
    IF acc.pending = <<>> \/ c # candidate_of(acc, c.current) THEN NULL
    ELSE [acc EXCEPT !.projection = c.current, !.repaired = acc.at, !.last = 0,
                     !.pending = <<>>]

\* A baseline or a delta whose root is not the replayed one is a mismatch.
replay_projection_event(acc, row) ==
    LET projection == IF row.kind = "baseline" THEN row.projection
                      ELSE apply_delta(acc.projection, row.changes)
    IN  IF (row.kind = "baseline") = acc.baseline THEN NULL
        ELSE [acc EXCEPT !.projection = projection, !.baseline = TRUE, !.last = acc.at,
                         !.pending = IF projection = row.root THEN @
                                     ELSE Append(@, [at |-> acc.at, stored |-> row.root,
                                                     observed |-> projection])]

\* _replay_internal, row by row; NULL when it raises.
replay_row(before, row) ==
    LET acc == [before EXCEPT !.at = @ + 1]
    IN  IF before = NULL THEN NULL
        ELSE CASE row.kind \in {"v0", "event"} -> [acc EXCEPT !.last = acc.at]
               [] row.kind = "repair" ->
                      IF acc.baseline THEN replay_repair(acc, row.candidate) ELSE NULL
               [] OTHER -> replay_projection_event(acc, row)

replay_internal(rows) ==
    LET acc == FoldLeft(replay_row,
                   [at |-> 0, projection |-> [e \in Entity |-> NULL], baseline |-> FALSE,
                    pending |-> <<>>, repaired |-> 0, last |-> 0], rows)
    IN  IF acc = NULL THEN NULL ELSE IF acc.baseline THEN acc ELSE NULL

\* replay: the projection, or NULL when the journal does not verify.
replay(rows) ==
    LET acc == replay_internal(rows)
    IN  IF acc = NULL THEN NULL ELSE IF acc.pending = <<>> THEN acc.projection ELSE NULL

\* projection_repair_candidate: only an unrepaired mismatch that left the
\* tables behind can be repaired.
projection_repair_candidate(rows, current) ==
    LET acc == replay_internal(rows)
    IN  IF acc = NULL THEN NULL
        ELSE IF acc.pending = <<>> \/ acc.projection = current THEN NULL
        ELSE candidate_of(acc, current)

-----------------------------------------------------------------------------

CanAppend(n) == Len(events) + n <= MaxEvents

\* StateStore.__init__: the schema-v4 migration.  The baseline gets event id 0
\* and is read before the rows of version 3.
ensure_projection_baseline ==
    /\ version = 3
    /\ events' = <<[kind |-> "baseline", projection |-> tables, root |-> tables]>> \o events
    /\ version' = 4
    /\ UNCHANGED <<tables, assessed, unjournaled>>

\* A transaction that changes rows and ends with event().
journaled(after, scope) ==
    /\ version = 4
    /\ CanAppend(2)
    /\ tables' = after
    /\ events' = events \o event_rows(after, scope)
    /\ UNCHANGED <<version, assessed, unjournaled>>

\* run-claimed and run-claimed-coordinated.
run_claimed(r) ==
    /\ tables[<<"runs", r>>] = NULL
    /\ journaled([tables EXCEPT ![<<"runs", r>>] = "active", ![<<"claims", r>>] = "held"],
                 run_scope(r))

\* fail, reconcile: the run ends and its reservations are deleted.
run_ended(r) ==
    /\ tables[<<"runs", r>>] \in {"active", "active, expanded"}
    /\ journaled([tables EXCEPT ![<<"runs", r>>] = "ended", ![<<"claims", r>>] = "none"],
                 run_scope(r))

run_completed(r) ==
    /\ tables[<<"runs", r>>] \in {"active", "active, expanded"}
    /\ journaled([tables EXCEPT ![<<"runs", r>>] = "ended", ![<<"claims", r>>] = "none",
                                ![<<"acceptances", r>>] = "receipt",
                                ![<<"tasks", TaskOf[r]>>] = "verified"],
                 run_scope(r))

\* Events that change no projected column, of a run or before there is one.
run_noted(r) == journaled(tables, run_scope(r))

\* An unchanged state is not written again.
set_initiative_state(i, state) ==
    /\ tables[<<"initiatives", i>>] # state
    /\ journaled([tables EXCEPT ![<<"initiatives", i>>] = state], {<<"initiatives", i>>})

\* task_closeout: a delta without an operational event.
append_task_projection_delta(t) ==
    /\ version = 4
    /\ tables[<<"tasks", t>>] # "verified"
    /\ CanAppend(1)
    /\ tables' = [tables EXCEPT ![<<"tasks", t>>] = "verified"]
    /\ events' = Append(events, delta_payload(tables', {<<"tasks", t>>}))
    /\ UNCHANGED <<version, assessed, unjournaled>>

\* Dispatcher.expand_claim writes the reservation and the run, and no event.
expand_claim(r) ==
    /\ version = 4
    /\ tables[<<"runs", r>>] = "active"
    /\ tables' = [tables EXCEPT ![<<"runs", r>>] = "active, expanded",
                                ![<<"claims", r>>] = "held, expanded"]
    /\ unjournaled' = TRUE
    /\ UNCHANGED <<events, version, assessed>>

\* receipt_normalize rewrites an overlay; its own row has no schema version, so
\* replay passes over it.
receipt_normalize(t) ==
    /\ version = 4
    /\ tables[<<"tasks", t>>] = "verified"
    /\ CanAppend(1)
    /\ tables' = [tables EXCEPT ![<<"tasks", t>>] = "normalized"]
    /\ events' = Append(events, [kind |-> "v0"])
    /\ unjournaled' = TRUE
    /\ UNCHANGED <<version, assessed>>

\* projection-repair --assess: a read whose candidate an operator reviews.
assess(o) ==
    /\ version = 4
    /\ projection_repair_candidate(events, tables) # NULL
    /\ assessed' = [assessed EXCEPT ![o] = projection_repair_candidate(events, tables)]
    /\ UNCHANGED <<tables, events, version, unjournaled>>

Applied(c) == \E i \in DOMAIN events : events[i].kind = "repair" /\ events[i].candidate = c

\* Mutant: the candidate is computed again and not compared.
apply_projection_repair_fresh(o) ==
    LET fresh == projection_repair_candidate(events, tables)
        rows == Append(events, [kind |-> "repair", candidate |-> fresh])
    IN  /\ assessed[o] # NULL
        /\ ~Applied(assessed[o])
        /\ fresh # NULL
        /\ CanAppend(1)
        /\ events' = rows
        /\ unjournaled' = FALSE
        /\ UNCHANGED <<tables, version, assessed>>

\* projection-repair --apply.  A repeated candidate only reads back; a new one
\* must be the candidate of this moment, and the repaired journal must replay
\* to the tables, or everything is rolled back.
apply_projection_repair(o) ==
    LET c == assessed[o]
        rows == Append(events, [kind |-> "repair", candidate |-> c])
    IN  /\ c # NULL
        /\ ~Applied(c)
        /\ projection_repair_candidate(events, tables) = c
        /\ replay(rows) = tables
        /\ CanAppend(1)
        /\ events' = rows
        /\ unjournaled' = FALSE
        /\ UNCHANGED <<tables, version, assessed>>

EventsNext ==
    \/ ensure_projection_baseline
    \/ \E r \in Run : run_claimed(r)
    \/ \E r \in Run : run_ended(r)
    \/ \E r \in Run : run_completed(r)
    \/ \E r \in Run : run_noted(r)
    \/ \E i \in Initiative, z \in {"active", "waiting"} : set_initiative_state(i, z)
    \/ \E t \in Task : append_task_projection_delta(t)
    \/ \E r \in Run : expand_claim(r)
    \/ \E t \in Task : receipt_normalize(t)
    \/ \E o \in Operator : assess(o)
    \/ \E o \in Operator : apply_projection_repair(o)

StateEventsSpec == EventsInit /\ [][EventsNext]_eventVars

-----------------------------------------------------------------------------

\* As long as every writer appends its event, and again after each repair, the
\* journal replays without a mismatch to exactly the tables, whichever runs,
\* tasks and initiatives the transactions were about.
JournaledReplays == (version = 4 /\ ~unjournaled) => replay(events) = tables

\* A candidate that can be assessed can be applied: the checkpoint verifies
\* against the very journal it was computed from, also after earlier repairs.
CandidateVerifies ==
    LET c == projection_repair_candidate(events, tables)
    IN  (version = 4 /\ c # NULL) =>
            replay(Append(events, [kind |-> "repair", candidate |-> c])) = tables

\* The variables have their types, and the journal verifies while it is complete
\* and can be made to verify after.
ReplayVerifies == EventsTypeOK /\ JournaledReplays /\ CandidateVerifies

\* Two operators with the same candidate, or one who repeats an answered apply,
\* never append it twice.
OneCheckpoint ==
    \A i, j \in DOMAIN events :
        (events[i].kind = "repair" /\ events[j].kind = "repair"
            /\ events[i].candidate = events[j].candidate) => i = j

\* No row and no journal entry changed between the assessment and the repair it
\* authorises.
RepairIsReviewedStep ==
    \A i \in DOMAIN events' \ DOMAIN events : events'[i].kind = "repair" =>
        \E o \in Operator : events'[i].candidate = assessed[o]
                            /\ assessed[o].current = tables
                            /\ assessed[o].through = Len(events)
\* A checkpoint carries what an operator reviewed, and it is appended once
\* (projection-repair --apply).
RepairIsReviewed == [][RepairIsReviewedStep /\ OneCheckpoint']_eventVars

\* registry/tasks/BUREAU-CONTROL-PLANE-V3-T002.json: every transition binds its
\* event and the projection atomically, and replay gives the current states.
DeterministicReplay == version = 4 => replay(events) = tables

=============================================================================
