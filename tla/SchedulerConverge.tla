------------------------- MODULE SchedulerConverge --------------------------
(***************************************************************************)
(* The installer's scheduler transaction (runtime_refresh.py,              *)
(* converge_user_scheduler): write the release's units, validate them,     *)
(* enable the required timer, reload systemd, start the timer, read back;  *)
(* on any failure restore the snapshot taken first.                        *)
(*                                                                         *)
(* A unit stands for its service, timer and libexec file.  Every write and *)
(* every systemctl call can fail, with or without having taken effect, and *)
(* the operator may disable the required timer while it runs.              *)
(***************************************************************************)
EXTENDS Naturals

CONSTANTS Unit, Required, MaxConverge

ASSUME SchedulerAssumption == Required \in Unit /\ MaxConverge \in Nat

VARIABLES unitFile,  \* the live files: "absent", "old" or "release"
          loaded,    \* what systemd has loaded of them
          enabled,   \* the enablement links
          active,    \* the running timers
          runtime,   \* the installed runtime: "old" or "release"
          conv       \* the transaction

scVars == <<unitFile, loaded, enabled, active, runtime, conv>>

Host == [file |-> unitFile, loaded |-> loaded, enabled |-> enabled, active |-> active,
         runtime |-> runtime]

\* _timer_intent.
_timer_intent(u) == IF loaded[u] = "absent" THEN "absent"
                    ELSE IF enabled[u] THEN "enabled" ELSE "disabled"

ScInit ==
  /\ unitFile \in [Unit -> {"absent", "old"}]
  /\ loaded = unitFile
  /\ enabled \in [Unit -> BOOLEAN] /\ active \in [Unit -> BOOLEAN]
  /\ \A u \in Unit : enabled[u] \/ active[u] => unitFile[u] # "absent"
  /\ runtime = "old"
  /\ conv = [pc |-> "idle", pre |-> Host, intent |-> [u \in Unit |-> _timer_intent(u)],
             linked |-> FALSE, mutated |-> FALSE, failed |-> FALSE, runs |-> 0]

Step(pc) == conv' = [conv EXCEPT !.pc = pc]
OptedOut == conv.intent[Required] = "disabled"

-----------------------------------------------------------------------------
\* The forward path.

\* The snapshot: artifacts, enablement links, timers and their intent.
snapshot ==
  /\ conv.pc \in {"idle", "converged", "rolled-back", "recovery-required"}
  /\ conv.runs < MaxConverge
  /\ conv' = [pc |-> "switch", pre |-> Host, intent |-> [u \in Unit |-> _timer_intent(u)],
              linked |-> FALSE, mutated |-> FALSE, failed |-> FALSE, runs |-> conv.runs + 1]
  /\ UNCHANGED <<unitFile, loaded, enabled, active, runtime>>

\* before_validation: the caller switches the runtime.
before_validation ==
  /\ conv.pc = "switch" /\ Step("write")
  /\ runtime' = "release"
  /\ UNCHANGED <<unitFile, loaded, enabled, active>>

write_artifact(u) ==
  /\ conv.pc = "write" /\ unitFile[u] # "release"
  /\ unitFile' = [unitFile EXCEPT ![u] = "release"]
  /\ UNCHANGED <<loaded, enabled, active, runtime, conv>>

_validate_scheduler_candidate ==
  /\ conv.pc = "write" /\ \A u \in Unit : unitFile[u] = "release"
  /\ Step("link")
  /\ UNCHANGED <<unitFile, loaded, enabled, active, runtime>>

\* The mutation flag is only set once the reload came back.
enable_required_timer_late_flag ==
  /\ conv.pc = "link"
  /\ LET fix == ~OptedOut /\ ~enabled[Required]
     IN /\ enabled' = IF fix THEN [enabled EXCEPT ![Required] = TRUE] ELSE enabled
        /\ conv' = [conv EXCEPT !.pc = "reload", !.linked = fix]
  /\ UNCHANGED <<unitFile, loaded, active, runtime>>

\* An explicit opt-out is kept; otherwise the link of the required timer is
\* fixed, after its path was recorded as mutated.
enable_required_timer ==
  /\ conv.pc = "link"
  /\ LET fix == ~OptedOut /\ ~enabled[Required]
     IN /\ enabled' = IF fix THEN [enabled EXCEPT ![Required] = TRUE] ELSE enabled
        /\ conv' = [conv EXCEPT !.pc = "reload", !.linked = fix, !.mutated = TRUE]
  /\ UNCHANGED <<unitFile, loaded, active, runtime>>

daemon_reload ==
  /\ conv.pc = "reload" /\ Step("start")
  /\ loaded' = unitFile
  /\ UNCHANGED <<unitFile, enabled, active, runtime>>

start_required_timer ==
  /\ conv.pc = "start" /\ Step("readback")
  /\ active' = IF OptedOut THEN active ELSE [active EXCEPT ![Required] = TRUE]
  /\ UNCHANGED <<unitFile, loaded, enabled, runtime>>

_scheduler_readback ==
  /\ \A u \in Unit : unitFile[u] = "release" /\ loaded[u] = "release"
  /\ \A u \in Unit :
       IF u = Required /\ ~OptedOut
       THEN enabled[u] /\ active[u]
       ELSE /\ enabled[u] = (conv.intent[u] = "enabled")
            /\ active[u] = conv.pre.active[u]

readback ==
  /\ conv.pc = "readback"
  /\ Step(IF _scheduler_readback THEN "activated" ELSE "restore")
  /\ UNCHANGED <<unitFile, loaded, enabled, active, runtime>>

\* after_activation: the caller publishes the receipt.
after_activation ==
  /\ conv.pc = "activated" /\ Step("converged")
  /\ UNCHANGED <<unitFile, loaded, enabled, active, runtime>>

-----------------------------------------------------------------------------
\* Failures: a step raises, and may have taken effect before it did.
InTry == {"switch", "write", "link", "reload", "start", "readback", "activated"}

step_raises ==
  /\ conv.pc \in InTry
  /\ Step("restore")
  /\ UNCHANGED <<unitFile, loaded, enabled, active, runtime>>

\* The link is recorded before it is replaced, so a failing replacement is
\* undone whether or not it happened.
link_raises(done) ==
  /\ conv.pc = "link" /\ ~OptedOut /\ ~enabled[Required]
  /\ enabled' = IF done THEN [enabled EXCEPT ![Required] = TRUE] ELSE enabled
  /\ conv' = [conv EXCEPT !.pc = "restore", !.linked = TRUE]
  /\ UNCHANGED <<unitFile, loaded, active, runtime>>

command_raises_after_effect ==
  /\ conv.pc \in {"reload", "start"} /\ Step("restore")
  /\ loaded' = IF conv.pc = "reload" THEN unitFile ELSE loaded
  /\ active' = IF conv.pc = "start" /\ ~OptedOut
               THEN [active EXCEPT ![Required] = TRUE] ELSE active
  /\ UNCHANGED <<unitFile, enabled, runtime>>

-----------------------------------------------------------------------------
\* The way back.  Every operation is attempted, every failure recorded.
Attempted(pc, ok) == conv' = [conv EXCEPT !.pc = pc, !.failed = @ \/ ~ok]

\* systemctl stop of all timers; a unit that is not loaded makes it fail.
restore_begin ==
  /\ conv.pc = "restore"
  /\ IF conv.mutated
     THEN /\ Attempted("files", \A u \in Unit : loaded[u] # "absent")
          /\ active' = [u \in Unit |-> FALSE]
     ELSE Step("files") /\ UNCHANGED active
  /\ UNCHANGED <<unitFile, loaded, enabled, runtime>>

_restore_scheduler_files(lost) ==
  /\ conv.pc = "files"
  /\ unitFile' = [u \in Unit |-> IF u \in lost THEN unitFile[u] ELSE conv.pre.file[u]]
  /\ Attempted("links", unitFile' = conv.pre.file)
  /\ UNCHANGED <<loaded, enabled, active, runtime>>

\* Only a link this transaction changed is put back; all are verified.
_restore_scheduler_enablement_links(ok) ==
  /\ conv.pc = "links"
  /\ enabled' = IF conv.linked /\ ok
                THEN [enabled EXCEPT ![Required] = conv.pre.enabled[Required]] ELSE enabled
  /\ Attempted(IF conv.mutated THEN "reload_back" ELSE "effect",
               ok /\ enabled'[Required] = conv.pre.enabled[Required])
  /\ UNCHANGED <<unitFile, loaded, active, runtime>>

restore_daemon_reload(ok) ==
  /\ conv.pc = "reload_back"
  /\ loaded' = IF ok THEN unitFile ELSE loaded
  /\ Attempted("timers_back", ok)
  /\ UNCHANGED <<unitFile, enabled, active, runtime>>

restore_timers(ok) ==
  /\ conv.pc = "timers_back"
  /\ active' = IF ok THEN [u \in Unit |-> conv.pre.active[u] /\ loaded[u] # "absent"]
                     ELSE active
  /\ Attempted("verify", ok)
  /\ UNCHANGED <<unitFile, loaded, enabled, runtime>>

\* The states systemd reports must be the snapshot's.
verify_preimage ==
  /\ conv.pc = "verify"
  /\ Attempted("effect", active = conv.pre.active /\ enabled = conv.pre.enabled
                         /\ loaded = conv.pre.loaded)
  /\ UNCHANGED <<unitFile, loaded, enabled, active, runtime>>

\* rollback_effect puts the runtime back; the outcome names any failure.
rollback_effect(ok) ==
  /\ conv.pc = "effect"
  /\ runtime' = IF ok THEN conv.pre.runtime ELSE runtime
  /\ conv' = [conv EXCEPT !.pc = IF conv.failed \/ ~ok THEN "recovery-required"
                                 ELSE "rolled-back"]
  /\ UNCHANGED <<unitFile, loaded, enabled, active>>

\* systemctl --user disable --now, up to the last readback.
operator_disables ==
  /\ conv.pc \notin {"idle", "activated", "effect", "converged", "rolled-back",
                     "recovery-required"}
  /\ enabled[Required] /\ loaded[Required] # "absent"
  /\ enabled' = [enabled EXCEPT ![Required] = FALSE]
  /\ active' = [active EXCEPT ![Required] = FALSE]
  /\ UNCHANGED <<unitFile, loaded, runtime, conv>>

ScNext ==
  \/ snapshot \/ before_validation \/ _validate_scheduler_candidate
  \/ enable_required_timer \/ daemon_reload \/ start_required_timer \/ readback
  \/ after_activation \/ step_raises \/ command_raises_after_effect
  \/ restore_begin \/ verify_preimage \/ operator_disables
  \/ \E u \in Unit : write_artifact(u)
  \/ \E S \in SUBSET Unit : _restore_scheduler_files(S)
  \/ \E ok \in BOOLEAN : \/ link_raises(ok) \/ _restore_scheduler_enablement_links(ok)
                         \/ restore_daemon_reload(ok) \/ restore_timers(ok)
                         \/ rollback_effect(ok)

-----------------------------------------------------------------------------
\* "scheduler convergence failed; exact preimage was restored" is only said
\* when it is so: files, loaded units, links and runtime are the snapshot's,
\* and so are the timers once systemd was touched.  A convergence that reports
\* success runs the release everywhere, has the required timer on unless the
\* operator had opted out of it, and left the other timers alone.
ConvergenceExact ==
  /\ conv.pc = "rolled-back" =>
       /\ unitFile = conv.pre.file /\ loaded = conv.pre.loaded
       /\ enabled = conv.pre.enabled /\ runtime = conv.pre.runtime
       /\ conv.mutated => active = conv.pre.active
  /\ conv.pc = "converged" =>
       /\ runtime = "release" /\ _scheduler_readback
       /\ OptedOut => ~enabled[Required] /\ active[Required] = conv.pre.active[Required]
=============================================================================
