----------------------------- MODULE TaskSupply -----------------------------
(***************************************************************************)
(* The refill of claimable work (task_supply.py, supply_runner.py).  A     *)
(* cycle reads the Registry head, the task documents and the frontier one  *)
(* after the other, builds a report at the time it has reached, and with   *)
(* authority publishes the plan of the report: one transaction that        *)
(* creates every task of it.  Nothing read before is read again at the     *)
(* publication; what protects it is the id of a fallback task, which names *)
(* its category and time bucket.                                           *)
(***************************************************************************)
EXTENDS Naturals, Sequences, FiniteSets, SequencesExt

CONSTANTS Catalog,        \* the categories of FALLBACK_CATALOG, in order
          NormalOrder,    \* the other tasks, in frontier order
          Conflict,       \* pairs of categories and tasks whose claims exclude each other
          Profile,        \* worker profiles: category -> "has", "missing" or "unknown"
          Floor, RefillTarget, MaxNew, BucketTicks,
          Cycle, NoPlan,
          MaxClock,       \* bound: instants
          MaxHead,        \* bound: Registry commits
          MaxCycles,      \* bound: cycles started
          MaxMoves        \* bound: changes of tasks by others

Category == ToSet(Catalog)
Normal == ToSet(NormalOrder)

time_bucket(instant) == instant \div BucketTicks
_fallback_task_id(c, instant) == <<c, time_bucket(instant)>>
Fallback == Category \X (0 .. time_bucket(MaxClock))

\* The fallbacks as the frontier lists them, by catalog rank.
FallbackOrder ==
  LET n == time_bucket(MaxClock) + 1
  IN [i \in 1 .. n * Len(Catalog) |-> <<Catalog[(i - 1) \div n + 1], (i - 1) % n>>]

VARIABLES clock, head,
          normal,     \* the other tasks that are claimable
          run,        \* fallback task -> "none", or what its runs say of it
          cancelled,  \* the fallbacks whose TaskSpec was revised to a terminal state
          maker,      \* fallback task -> the plan whose key created it
          seen,       \* history: fallback task -> documents its creator had read
          snapshot,   \* the cycle whose frontier snapshot is on disk
          report,     \* the report on disk: does it name its own snapshot?
          receipt,    \* the last receipt: result and created tasks
          cyc,        \* the cycles in progress
          cycles, moves

artifacts == <<snapshot, report, receipt>>
tasks == <<normal, run, cancelled, maker, seen>>
supplyVars == <<clock, head, tasks, artifacts, cyc, cycles, moves>>

Documents == {t \in Fallback : run[t] # "none"}
Closed(t, withdrawn) == run[t] = "verified" \/ t \in withdrawn
Claimable(t, withdrawn) == run[t] = "ready" /\ t \notin withdrawn

\* classify_frontier: the frontier of the documents a dispatcher has loaded.
classify_frontier(view) ==
  [docs |-> view.docs, normal |-> normal,
   ready |-> {t \in view.docs : Claimable(t, view.withdrawn)},
   closed |-> {t \in view.docs : Closed(t, view.withdrawn)}]

Idle == [at |-> "idle"]

SupplyInit ==
  /\ clock = 0 /\ head = 0
  /\ normal \in SUBSET Normal
  /\ run = [t \in Fallback |-> "none"] /\ cancelled = {}
  /\ maker = [t \in Fallback |-> NoPlan]
  /\ seen = [t \in Fallback |-> {}]
  /\ snapshot = NoPlan /\ report = TRUE /\ receipt = NoPlan
  /\ cyc = [c \in Cycle |-> Idle] /\ cycles = 0 /\ moves = 0

\* -------------------------------------------------------------- the report

ClaimOf(t) == IF t \in Fallback THEN t[1] ELSE t
_claims_conflict(a, b) == <<a, b>> \in Conflict
Compatible(c, held) == \A h \in held : ~_claims_conflict(c, h)

\* The claimable tasks that can all be held together, taken in frontier order:
\* normal work first, then the fallbacks.
_jointly_packable_claimable(ready) ==
  FoldLeft(LAMBDA held, t : IF t \in ready /\ Compatible(ClaimOf(t), {ClaimOf(h) : h \in held})
                            THEN held \cup {t} ELSE held,
           {}, NormalOrder \o FallbackOrder)

\* visit: branch and bound over the candidates from index on.
RECURSIVE visit(_, _, _, _)
visit(candidates, index, selected, best) ==
  IF Cardinality(selected) + Len(candidates) - index <= best THEN best
  ELSE IF index >= Len(candidates) THEN Cardinality(selected)
  ELSE LET c == candidates[index + 1]
       IN visit(candidates, index + 1, selected,
                IF Compatible(c, selected)
                THEN visit(candidates, index + 1, selected \cup {c}, best) ELSE best)

_max_packable_catalog_count(specs, held) ==
  visit(SelectSeq(Catalog, LAMBDA c : c \in specs /\ Compatible(c, held)), 0, {}, 0)

\* Mutant: an open fallback is recognised by its fingerprint, in its own bucket.
_existing_fallbacks_in_bucket(front, instant) ==
  {t \in front.docs \ front.closed : t[2] = time_bucket(instant)}

\* The fallbacks that neither their document nor the frontier shows as closed.
_existing_fallbacks(front, instant) == front.docs \ front.closed

\* The proposals without blockers, in catalog order until the limit is reached:
\* "reuse" of an open fallback of a category (the first by id, a hash), or
\* "create" if it has none, its id of this bucket is unused and the claim fits
\* what is claimable and planned already; for both a worker has the capabilities.
Proposals(front, existing, held, profile, instant, limit) ==
  FoldLeft(LAMBDA done, c :
             LET open == {t \in existing : t[1] = c}
                 id == _fallback_task_id(c, instant)
             IN IF Cardinality(done.creates) >= limit THEN done
                ELSE IF open # {}
                THEN LET t == CHOOSE u \in open : TRUE
                     IN IF t \in front.ready /\ profile[c] = "has"
                        THEN [done EXCEPT !.reuse = @ \cup {t}] ELSE done
                ELSE IF /\ id \notin front.docs
                        /\ profile[c] = "has"
                        /\ Compatible(c, held \cup {t[1] : t \in done.creates})
                THEN [done EXCEPT !.creates = @ \cup {id}] ELSE done,
           [creates |-> {}, reuse |-> {}], Catalog)

Monus(a, b) == IF a > b THEN a - b ELSE 0
Least(a, b) == IF a < b THEN a ELSE b

\* A category is out of reach when a capability, its repository or the approval
\* is known to be missing.
build_supply_report(front, profile, instant, blocked) ==
  LET joint == _jointly_packable_claimable(front.normal \cup front.ready)
      held == {ClaimOf(t) : t \in joint}
      existing == _existing_fallbacks(front, instant)
      count == Cardinality(joint)
      limit == IF count < Floor THEN Least(Monus(RefillTarget, count), MaxNew) ELSE 0
      structural == {c \in Category : profile[c] # "missing" /\ \A t \in existing : t[1] # c}
      bound == count + _max_packable_catalog_count(structural, held)
      actions == IF blocked \/ bound < Floor THEN [creates |-> {}, reuse |-> {}]
                 ELSE Proposals(front, existing, held, profile, instant, limit)
  IN [plan |-> [stamp |-> instant, actions |-> actions], joint |-> joint, bound |-> bound]

\* ---------------------------------------------------------------- the cycle

At(c, at) == cyc[c].at = at
Goes(c, to) == cyc' = [cyc EXCEPT ![c] = to]

\* run_supply_cycle begins: the Registry head is read first.
run_supply_cycle(c, publish) ==
  /\ At(c, "idle")
  /\ cycles < MaxCycles /\ cycles' = cycles + 1
  /\ Goes(c, [at |-> "started", head |-> head, publish |-> publish])
  /\ UNCHANGED <<clock, head, tasks, artifacts, moves>>

\* The dispatcher is built from the TaskSpecs as they are now.
load_documents(c) ==
  /\ At(c, "started")
  /\ Goes(c, [cyc[c] EXCEPT !.at = "loaded"] @@ [view |-> [docs |-> Documents, withdrawn |-> cancelled]])
  /\ UNCHANGED <<clock, head, tasks, artifacts, cycles, moves>>

\* The runs are read for the frontier and the snapshot is written.
observe_authoritative_frontier(c) ==
  /\ At(c, "loaded")
  /\ Goes(c, [at |-> "observed", head |-> cyc[c].head, publish |-> cyc[c].publish,
              front |-> classify_frontier(cyc[c].view)])
  /\ snapshot' = c
  /\ UNCHANGED <<clock, head, tasks, report, receipt, cycles, moves>>

\* The report names the snapshot found on disk, and its buckets are those of the
\* clock now.  blocked stands for an unhealthy runtime, an unbound worker profile
\* or an environment blocker; a Registry that moved since the start is one too.
build_registry_supply_report(c, profile, blocked) ==
  LET made == build_supply_report(cyc[c].front, profile, clock, blocked \/ head # cyc[c].head)
  IN /\ At(c, "observed")
     /\ report' = (snapshot = c)
     /\ Goes(c, [at |-> "reported", docs |-> cyc[c].front.docs,
                 publish |-> cyc[c].publish /\ made.plan.actions.creates # {}] @@ made)
     /\ UNCHANGED <<clock, head, tasks, snapshot, receipt, cycles, moves>>

Reports(c, result, created) ==
  /\ receipt' = [result |-> result, created |-> created]
  /\ Goes(c, Idle)

\* Without authority, or without an authorized plan, the cycle only reports.
preview(c) ==
  /\ At(c, "reported") /\ ~cyc[c].publish
  /\ Reports(c, "preview", {})
  /\ UNCHANGED <<clock, head, tasks, snapshot, report, cycles, moves>>

\* put with expected_revision None: the key replays the plan that created the
\* task, any other plan finds a revision it did not expect.
PutCreates(plan, t) == run[t] = "none" \/ maker[t] = plan

\* publish_supply_plan: one transaction for all tasks of the plan.
publish_supply_plan(c) ==
  LET plan == cyc[c].plan
      new == plan.actions.creates \ Documents
  IN /\ At(c, "reported") /\ cyc[c].publish
     /\ \A t \in plan.actions.creates : PutCreates(plan, t)
     /\ run' = [t \in Fallback |-> IF t \in new THEN "ready" ELSE run[t]]
     /\ maker' = [t \in Fallback |-> IF t \in new THEN plan ELSE maker[t]]
     /\ seen' = [t \in Fallback |-> IF t \in new THEN cyc[c].docs ELSE seen[t]]
     /\ Goes(c, [at |-> "published", creates |-> plan.actions.creates])
     /\ UNCHANGED <<clock, head, normal, cancelled, artifacts, cycles, moves>>

\* One put is refused and the transaction is rolled back.
publication_rejected(c) ==
  /\ At(c, "reported") /\ cyc[c].publish
  /\ \E t \in cyc[c].plan.actions.creates : ~PutCreates(cyc[c].plan, t)
  /\ Reports(c, "failed", {})
  /\ UNCHANGED <<clock, head, tasks, snapshot, report, cycles, moves>>

\* The readback: a TaskSpec revised since the transaction fails the cycle.
publication_readback(c) ==
  /\ At(c, "published")
  /\ IF cyc[c].creates \cap cancelled = {}
     THEN Reports(c, "published", cyc[c].creates) ELSE Reports(c, "failed", {})
  /\ UNCHANGED <<clock, head, tasks, snapshot, report, cycles, moves>>

cycle_crash(c) ==
  /\ ~At(c, "idle")
  /\ Goes(c, Idle)
  /\ UNCHANGED <<clock, head, tasks, artifacts, cycles, moves>>

\* -------------------------------------------------------------- surroundings

Moves == moves < MaxMoves /\ moves' = moves + 1

tick == /\ clock < MaxClock /\ clock' = clock + 1
        /\ UNCHANGED <<head, tasks, artifacts, cyc, cycles, moves>>

\* A commit to the Registry; one that changes the initiative's plan makes every
\* verification under the former plan stale.
registry_commit(replans) ==
  /\ head < MaxHead /\ head' = head + 1
  /\ run' = [t \in Fallback |-> IF replans /\ run[t] = "verified" THEN "stale" ELSE run[t]]
  /\ UNCHANGED <<clock, normal, cancelled, maker, seen, artifacts, cyc, cycles, moves>>

\* Normal work is claimed, or becomes claimable.
normal_changes(n) ==
  /\ normal' = IF n \in normal THEN normal \ {n} ELSE normal \cup {n}
  /\ Moves
  /\ UNCHANGED <<clock, head, run, cancelled, maker, seen, artifacts, cyc, cycles>>

\* A fallback is verified by its run, or withdrawn in its TaskSpec.
fallback_verified(t) ==
  /\ Claimable(t, cancelled)
  /\ run' = [run EXCEPT ![t] = "verified"]
  /\ Moves
  /\ UNCHANGED <<clock, head, normal, cancelled, maker, seen, artifacts, cyc, cycles>>

fallback_cancelled(t) ==
  /\ t \in Documents /\ ~Closed(t, cancelled)
  /\ cancelled' = cancelled \cup {t}
  /\ Moves
  /\ UNCHANGED <<clock, head, normal, run, maker, seen, artifacts, cyc, cycles>>

SupplyNext ==
  \/ tick
  \/ \E replans \in BOOLEAN : registry_commit(replans)
  \/ \E n \in Normal : normal_changes(n)
  \/ \E t \in Fallback : fallback_verified(t) \/ fallback_cancelled(t)
  \/ \E c \in Cycle :
       \/ \E publish \in BOOLEAN : run_supply_cycle(c, publish)
       \/ load_documents(c) \/ observe_authoritative_frontier(c)
       \/ \E profile \in Profile, blocked \in BOOLEAN :
            build_registry_supply_report(c, profile, blocked)
       \/ preview(c)
       \/ publish_supply_plan(c) \/ publication_rejected(c) \/ publication_readback(c)
       \/ cycle_crash(c)

SupplySpec == SupplyInit /\ [][SupplyNext]_supplyVars

\* -------------------------------------------------------------- properties

\* The reference for _max_packable_catalog_count.
Packable(specs, held) ==
  {S \in SUBSET {c \in specs : Compatible(c, held)} :
     \A a, b \in S : a # b => ~_claims_conflict(a, b)}

\* The tasks of a plan exist all or none, a published receipt names the tasks of
\* one plan, and two fallbacks of a category are open together only if neither
\* cycle had read the other's document or one of them was reopened by a new
\* plan of the initiative.
PlansWhole ==
  /\ \A t \in Documents : maker[t].actions.creates = {u \in Documents : maker[u] = maker[t]}
  /\ receipt # NoPlan /\ receipt.created # {} =>
       \E t \in Documents : receipt.created = maker[t].actions.creates
  /\ \A t, u \in Documents :
       (t # u /\ t[1] = u[1] /\ ~Closed(t, cancelled) /\ ~Closed(u, cancelled)) =>
         t \notin seen[u] \/ run[t] = "stale"

\* A refill is bounded by what its cycle saw: below the floor, up to the target
\* and the limit of a cycle, with claims that can all be held beside each other
\* and beside the claimable work, within the exact capacity of the catalog.
RefillStep ==
  \A c \in Cycle : At(c, "observed") /\ cyc'[c].at = "reported" =>
    LET new == cyc'[c].plan.actions.creates
        all == new \cup cyc'[c].joint
    IN /\ new # {} => /\ Cardinality(cyc'[c].joint) < Floor
                      /\ Cardinality(all) <= RefillTarget /\ Cardinality(new) <= MaxNew
       /\ \A t, u \in all : t # u => ~_claims_conflict(ClaimOf(t), ClaimOf(u))
       /\ Cardinality(all) <= cyc'[c].bound
       /\ \A specs \in SUBSET Category :
            LET held == {ClaimOf(t) : t \in cyc'[c].joint}
                best == _max_packable_catalog_count(specs, held)
            IN /\ \A S \in Packable(specs, held) : Cardinality(S) <= best
               /\ \E S \in Packable(specs, held) : Cardinality(S) = best

\* Refills are bounded, whole, and never double an open fallback that their
\* cycle could see, whatever cycles overlap, stop or cross a time bucket.
RefillAccounted == [][RefillStep /\ PlansWhole']_supplyVars
=============================================================================
