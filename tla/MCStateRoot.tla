----------------------------- MODULE MCStateRoot -----------------------------
(***************************************************************************)
(* What lives under the state root: the event journal, the migration of    *)
(* its entries, and the retention of its backups, registry snapshots and   *)
(* review receipts. They share no state; in each mode one of them moves.   *)
(***************************************************************************)
EXTENDS MCStateEvents, StateMigration, StateRetention

VARIABLE mode

OneTier == {[seconds |-> 2, count |-> 1]}

Retention == {"state_backups", "registry_snapshots", "review_receipts"}

RootInit == /\ EventsInit /\ MigInit /\ SrInit
            /\ mode \in {"events", "migration"} \cup Retention
            /\ mode # "events" => events = <<>> /\ \A e \in Entity : tables[e] = NULL

\* One kind of generation is written and pruned at a time.
OneStore ==
  /\ \A s \in Store \ {mode} : gens'[s] = gens[s] /\ writer'[s] = NoWriter
  /\ mode # "state_backups" => ~building'.on
  /\ mode # "review_receipts" => refs'["review_receipts"] = refs["review_receipts"]

RootNext ==
  /\ UNCHANGED mode
  /\ \/ mode = "events" /\ EventsNext /\ UNCHANGED <<migVars, srVars>>
     \/ mode = "migration" /\ MigNext /\ UNCHANGED <<eventVars, srVars>>
     \/ mode \in Retention /\ SrNext /\ OneStore /\ UNCHANGED <<eventVars, migVars>>

RootSpec == RootInit /\ [][RootNext]_<<eventVars, migVars, srVars, mode>>
=============================================================================
