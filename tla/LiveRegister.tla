---------------------------- MODULE LiveRegister ----------------------------
(***************************************************************************)
(* Candidates in the live register (live_register.py) and the intake       *)
(* operations over them, candidate_record and candidate_close              *)
(* (operator_intake.py).                                                   *)
(*                                                                         *)
(* The register is an append-only journal. An event of a candidate may     *)
(* supersede an earlier one, and the candidate's current event is the one  *)
(* nothing supersedes. The intake operations read the journal first and    *)
(* append later, in a transaction of their own that repeats some of the    *)
(* checks, so two callers can interleave between the two. A request stands *)
(* for its own digest and a content for its fingerprint; a candidate id    *)
(* derived from a content is that content.                                 *)
(***************************************************************************)
EXTENDS Naturals, Sequences, FiniteSets, FiniteSetsExt, TLC

CONSTANTS NULL, Content, NamedId, Key, Caller,
          MaxEvent    \* bound: events in the journal

VARIABLES journal,    \* the candidate_task events, in event order
          retired,    \* contents whose repository is retired in the catalogue
          calls       \* caller -> intake call in progress

lrVars == <<journal, retired, calls>>

ACTIVE_LIVE_STATUSES == {"active", "observed"}
LIVE_REGISTER_STATUSES == {"active", "paused", "closed", "observed", "promoted", "dropped"}

NoCall == [pc |-> "idle", q |-> NULL]

LrInit == journal = <<>> /\ retired = {} /\ calls = [p \in Caller |-> NoCall]

\* ------------------------------------------------------------- projection

Events == DOMAIN journal
superseded_event_ids == {journal[i].sup : i \in Events}

\* _candidate_projection: the latest event of each identity that no event
\* supersedes; 0 if the candidate is unknown.
_candidate_projection(id) ==
  LET heads == {i \in Events : journal[i].id = id /\ i \notin superseded_event_ids}
  IN IF heads = {} THEN 0 ELSE Max(heads)

current_candidate_record(id) == _candidate_projection(id)
IsCurrent(i) == i \in Events /\ current_candidate_record(journal[i].id) = i

\* The latest event whose operator context carries an idempotency key.
KeyOf(i) == IF journal[i].ctx = NULL THEN NULL ELSE journal[i].ctx.key
_candidate_by_idempotency_key(k) == Max({0} \cup {i \in Events : KeyOf(i) = k})

\* _candidate_idempotency_result: nothing, a replay, or a conflict.
_candidate_idempotency_result(k, req) ==
  LET i == _candidate_by_idempotency_key(k)
  IN IF i = 0 THEN "none"
     ELSE IF journal[i].ctx.req = req THEN "replay" ELSE "conflict"

\* ---------------------------------------------------- live_register_record

\* What a call hands to the transaction: the request it acts for, the operator
\* context and the candidate event it brings (NULL to inherit both), the
\* identity, the event it supersedes (0 for none), the status (NULL to
\* inherit), and whether it is a deduplicated observation.
Given(act, ctx, ev, content, id, sup, status, dedup) ==
  [act |-> act, ctx |-> ctx, ev |-> ev, content |-> content, id |-> id,
   sup |-> sup, status |-> status, dedup |-> dedup]

\* The event an append supersedes: the one named, or for a deduplicated
\* observation the current event of the same identity.
Predecessor(g) ==
  IF g.sup # 0 THEN g.sup ELSE IF g.dedup THEN current_candidate_record(g.id) ELSE 0

\* A deduplicated call whose key some event carries, in its context or in its
\* candidate event, appends nothing: it is a replay or a conflict.
KeyedReplay(g) ==
  /\ g.dedup
  /\ LET k == IF g.ctx = NULL THEN g.ev.key ELSE g.ctx.key
     IN \E i \in Events : KeyOf(i) = k \/ journal[i].ev.key = k

Unsuperseded(i) == i \notin superseded_event_ids

\* The predecessor is not asked whether something else supersedes it already.
CanAppend_forks(g) ==
  IF Predecessor(g) # 0
  THEN /\ Predecessor(g) \in Events
       /\ journal[Predecessor(g)].id = g.id
  ELSE /\ \A i \in Events : journal[i].id # g.id
       /\ g.content \notin retired

\* The checks of the transaction: the predecessor exists, is of this identity
\* and nothing supersedes it; without one, the identity must be new and its
\* repository in use.
CanAppend(g) ==
  IF Predecessor(g) # 0
  THEN /\ Predecessor(g) \in Events
       /\ Unsuperseded(Predecessor(g))
       /\ journal[Predecessor(g)].id = g.id
  ELSE /\ \A i \in Events : journal[i].id # g.id
       /\ g.content \notin retired

\* _merge_operator_context: every observation of both, the rest is the
\* incoming context.
_merge_operator_context(old, new) == [new EXCEPT !.seen = @ \cup old.seen]

\* An observation that meets an existing candidate takes over its status,
\* whatever the caller asked for.
Enriches(g) == g.sup = 0 /\ Predecessor(g) # 0

NextContext(g, old) ==
  IF g.ctx = NULL THEN old
  ELSE IF Enriches(g) /\ old # NULL THEN _merge_operator_context(old, g.ctx)
  ELSE g.ctx

NextStatus(g, old) == IF Enriches(g) \/ g.status = NULL THEN old ELSE g.status

NewEvent(g) ==
  LET s == Predecessor(g)
  IN IF s = 0
     THEN [id |-> g.id, content |-> g.content, sup |-> 0, act |-> g.act,
           status |-> IF g.status = NULL THEN "observed" ELSE g.status,
           ctx |-> g.ctx, ev |-> g.ev]
     ELSE [id |-> journal[s].id, sup |-> s, act |-> g.act,
           content |-> IF g.ev = NULL THEN journal[s].content ELSE g.content,
           status |-> NextStatus(g, journal[s].status),
           ctx |-> NextContext(g, journal[s].ctx),
           ev |-> IF g.ev = NULL THEN journal[s].ev ELSE g.ev]

\* The transaction: a replay leaves the journal alone, a refusal too.
live_register_record(g) ==
  journal' = IF KeyedReplay(g) \/ ~CanAppend(g) THEN journal
             ELSE Append(journal, NewEvent(g))

Room == Len(journal) < MaxEvent

\* ------------------------------------------------------------------ intake

At_(p, pc) == calls[p].pc = pc
Returns(p) == calls' = [calls EXCEPT ![p] = NoCall]

RecordRequest ==
  [op : {"record"}, key : Key, content : Content, id : NamedId \cup {NULL}, sup : 0..MaxEvent]
CliRequest ==
  [op : {"cli"}, content : Content, id : NamedId \cup {NULL}, sup : 0..MaxEvent,
   status : LIVE_REGISTER_STATUSES \cup {NULL}]

\* NULL is neither a status nor a candidate event.
ASSUME RegisterAssumption ==
  /\ MaxEvent \in Nat
  /\ NULL \notin LIVE_REGISTER_STATUSES
  /\ NULL \notin [key : Key \cup {<<c>> : c \in Content}, req : RecordRequest \cup CliRequest]

\* The identity a request is filed under: named, the predecessor's, that of a
\* current candidate with the same content, or derived from the content.
selected_candidate_id(q) ==
  LET same == {i \in Events : IsCurrent(i) /\ journal[i].content = q.content}
  IN IF q.id # NULL THEN q.id
     ELSE IF q.sup # 0
     THEN IF q.sup \in Events THEN journal[q.sup].id ELSE q.content
     ELSE IF same # {} THEN journal[Max(same)].id ELSE q.content

\* candidate_record up to the call of live_register_record: a key in use ends
\* it as a replay or a conflict, and the identity is chosen.
candidate_record(p, q) ==
  /\ At_(p, "idle") /\ Room
  /\ _candidate_idempotency_result(q.key, q) = "none"
  /\ calls' = [calls EXCEPT ![p] =
       [pc |-> "record",
        q |-> Given(q, [key |-> q.key, req |-> q, close |-> NULL, seen |-> {q}],
                    [key |-> q.key, req |-> q], q.content, selected_candidate_id(q),
                    q.sup, IF q.sup # 0 THEN NULL ELSE "observed",
                    q.id = NULL /\ q.sup = 0)]]
  /\ UNCHANGED <<journal, retired>>

\* _candidate_close_replay: the current event is this request's own closeout.
_candidate_close_replay(i, q) ==
  /\ journal[i].ctx # NULL /\ journal[i].ctx.close = q
  /\ journal[i].status = "closed"

\* candidate_close up to the same call: the expected event is current and open.
candidate_close(p, q) ==
  LET i == current_candidate_record(q.id)
      old == journal[i].ctx
  IN /\ At_(p, "idle") /\ Room
     /\ i # 0
     /\ ~_candidate_close_replay(i, q)
     /\ journal[i].status \in ACTIVE_LIVE_STATUSES
     /\ i = q.sup
     /\ calls' = [calls EXCEPT ![p] =
          [pc |-> "record",
           q |-> Given(q, IF old = NULL
                          THEN [key |-> NULL, req |-> NULL, close |-> q, seen |-> {}]
                          ELSE [old EXCEPT !.close = q],
                       NULL, NULL, q.id, q.sup, "closed", FALSE)]]
     /\ UNCHANGED <<journal, retired>>

\* The append of either, and the return to the caller. A refusal looks for the
\* caller's own effect once more and changes nothing.
append_event(p) ==
  /\ At_(p, "record") /\ Room
  /\ live_register_record(calls[p].q)
  /\ Returns(p)
  /\ UNCHANGED retired

\* The live-register command: it needs no reading beforehand, may name an
\* identity or an event to supersede, and may set any status.
live_register(content, id, sup, status) ==
  LET act == [op |-> "cli", content |-> content, id |-> id, sup |-> sup, status |-> status]
      ev == IF sup # 0 THEN NULL ELSE [key |-> <<content>>, req |-> act]
      name == IF id # NULL THEN id ELSE IF sup \in Events THEN journal[sup].id ELSE content
  IN /\ Room
     /\ live_register_record(Given(act, NULL, ev, content, name, sup, status,
                                   id = NULL /\ sup = 0))
     /\ UNCHANGED <<retired, calls>>

\* The caller dies between reading and appending; its request may come again.
caller_crash(p) ==
  /\ ~At_(p, "idle") /\ Returns(p)
  /\ UNCHANGED <<journal, retired>>

\* The catalogue retires the repository of a content (external).
retire_repo(c) ==
  /\ c \notin retired /\ retired' = retired \cup {c}
  /\ UNCHANGED <<journal, calls>>

LrNext ==
  \/ \E p \in Caller :
       \/ append_event(p) \/ caller_crash(p)
       \/ \E q \in RecordRequest : candidate_record(p, q)
       \/ \E i \in Events, k \in Key :
            candidate_close(p, [op |-> "close", key |-> k, id |-> journal[i].id, sup |-> i])
  \/ \E c \in Content :
       \/ retire_repo(c)
       \/ \E id \in NamedId \cup {NULL}, status \in LIVE_REGISTER_STATUSES \cup {NULL} :
            \E sup \in Events \cup {0} : live_register(c, id, sup, status)

LrSpec == LrInit /\ [][LrNext]_lrVars

\* -------------------------------------------------------------- properties

\* The history of a candidate is one chain, whatever callers interleave
\* (live_register_record, 560-570): each event supersedes an earlier one of the
\* same identity that nothing else supersedes, so each identity has one current
\* event. A request is applied at most once, however often it is retried. And
\* one idempotency key stands for one request unless a later one with the same
\* key names its candidate or its predecessor itself: for such a request the
\* key is only looked up before the transaction (candidate_record, 1287).
OneChain ==
  \A i, j \in Events :
    /\ journal[i].sup = j => j < i /\ journal[j].id = journal[i].id
    /\ i < j /\ journal[i].id = journal[j].id =>
         /\ \E k \in Events : journal[k].sup = i
         /\ journal[i].sup # journal[j].sup
    /\ i # j => journal[i].act # journal[j].act
    /\ LET a == journal[i].act
           b == journal[j].act
       IN i < j /\ a.op = "record" /\ b.op = "record" /\ a.key = b.key
            => b.id # NULL \/ b.sup # 0

\* Only a reviewed decision moves a candidate's status: a late or repeated
\* observation never reopens a closed candidate, and a closeout supersedes an
\* open event, the one it was checked against (candidate_close, 1075-1095).
ClosedStaysClosed ==
  \A i \in Events :
    LET e == journal[i]
    IN e.sup # 0 =>
         CASE e.act.op = "record" -> e.status = journal[e.sup].status
           [] e.act.op = "close" -> /\ e.act.sup = e.sup /\ e.status = "closed"
                                    /\ journal[e.sup].status \in ACTIVE_LIVE_STATUSES
           [] OTHER -> e.status \in {journal[e.sup].status, e.act.status}

\* What a candidate's history says is one line of reviewed decisions, whatever
\* candidate_record, candidate_close and the live-register command interleave.
CandidateHistory == OneChain /\ ClosedStaysClosed
=============================================================================
