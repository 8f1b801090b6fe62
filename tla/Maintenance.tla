---------------------------- MODULE Maintenance ----------------------------
(***************************************************************************)
(* The services of a host under systemd, an operator who runs restore.sh,  *)
(* upgrade.sh or rollback.sh, and scripts/watchdog.sh, which knows nothing *)
(* of them.  All four are shell scripts under set -e: they end at the      *)
(* first command that fails.                                               *)
(*                                                                         *)
(* The units are taken as the scripts use them: bioshield-api serves the   *)
(* health check, bioshield-engine is the process pgrep looks for, and both *)
(* are restarted when they die (Restart=always), not when they were        *)
(* stopped.                                                                *)
(***************************************************************************)
EXTENDS Integers, Sequences

CONSTANT MigrationScript    \* is there a scripts/data_migration.sh

ASSUME MaintenanceAssumption == MigrationScript \in BOOLEAN

VARIABLES
  unit,         \* each service: active, dead or stopped
  script,       \* the script run last,
  step,         \* the command it is at,
  status,       \* and whether it runs, is done or has failed
  watch,        \* what the watchdog does next
  meddled       \* ghost: the services it has restarted since a script's stop

vars == <<unit, script, step, status, watch, meddled>>

Unit == {"api", "engine"}

(* The commands that can fail or change a service, in order. *)
Steps_ForgetsEngine ==
  [restore  |-> <<"stop", "decrypt", "database", "redis", "config", "engine", "api">>,
   upgrade  |-> <<"pull", "backup", "stop", "migrate", "engine", "api", "verify">>,
   rollback |-> <<"stop", "database", "pull", "api", "verify", "verify">>]
Steps_StopsLate ==
  [restore  |-> <<"decrypt", "database", "redis", "stop", "config", "engine", "api">>,
   upgrade  |-> <<"pull", "backup", "stop", "migrate", "engine", "api", "verify">>,
   rollback |-> <<"stop", "database", "pull", "engine", "api", "verify">>]
Steps ==
  [restore  |-> <<"stop", "decrypt", "database", "redis", "config", "engine", "api">>,
   upgrade  |-> <<"pull", "backup", "stop", "migrate", "engine", "api", "verify">>,
   rollback |-> <<"stop", "database", "pull", "engine", "api", "verify">>]
Script == DOMAIN Steps

Init ==
  /\ unit = [u \in Unit |-> "active"]
  /\ script \in Script
  /\ step = 1
  /\ status = "none"
  /\ watch = "api"
  /\ meddled = {}

-----------------------------------------------------------------------------
At(command) == status = "running" /\ Steps[script][step] = command
Last == step = Len(Steps[script])
Advance ==
  IF Last THEN status' = "done" /\ UNCHANGED step
          ELSE step' = step + 1 /\ UNCHANGED status

(* The operator starts a script, when the last one has ended. *)
Begin(s) ==
  /\ status # "running"
  /\ script' = s /\ step' = 1 /\ status' = "running"
  /\ UNCHANGED <<unit, watch, meddled>>

(* systemctl stop bioshield-api bioshield-engine *)
Stop ==
  /\ At("stop")
  /\ unit' = [u \in Unit |-> "stopped"]
  /\ meddled' = {}
  /\ Advance
  /\ UNCHANGED <<script, watch>>

(* systemctl start: nothing, if the service runs. *)
Start(u) ==
  /\ At(u)
  /\ unit' = [unit EXCEPT ![u] = "active"]
  /\ Advance
  /\ UNCHANGED <<script, watch, meddled>>

(* Any other command.  upgrade.sh calls a data_migration.sh, which the      *)
(* repository does not have.                                               *)
Command ==
  /\ status = "running"
  /\ Steps[script][step] \notin Unit \cup {"stop"}
  /\ Steps[script][step] = "migrate" => MigrationScript
  /\ Advance
  /\ UNCHANGED <<unit, script, watch, meddled>>

(* A command fails, and with it the script; a service that did not start   *)
(* is tried again by systemd, and a stop may have stopped one of the two.  *)
Fail ==
  /\ status = "running"
  /\ status' = "failed"
  /\ \/ UNCHANGED unit
     \/ \E u \in Unit : At(u) /\ unit[u] # "active" /\ unit' = [unit EXCEPT ![u] = "dead"]
     \/ \E u \in Unit : At("stop") /\ unit' = [unit EXCEPT ![u] = "stopped"]
  /\ UNCHANGED <<script, step, watch, meddled>>

-----------------------------------------------------------------------------
(* systemd: a service dies, and is started again after RestartSec. *)
Die(u) ==
  /\ unit[u] = "active"
  /\ unit' = [unit EXCEPT ![u] = "dead"]
  /\ UNCHANGED <<script, step, status, watch, meddled>>
AutoRestart(u) ==
  /\ unit[u] = "dead"
  /\ unit' = [unit EXCEPT ![u] = "active"]
  /\ UNCHANGED <<script, step, status, watch, meddled>>

-----------------------------------------------------------------------------
(* One round of the watchdog: the API, which may fail to answer although   *)
(* it runs, then the engine's process, then the host.                      *)
Watch(next) == watch' = next /\ UNCHANGED <<unit, script, step, status, meddled>>

CheckApi ==
  /\ watch = "api"
  /\ \/ unit["api"] = "active" /\ Watch("engine")
     \/ Watch("restart api")
CheckEngine_PidFile ==
  /\ watch = "engine"
  /\ Watch("host")
CheckEngine ==
  /\ watch = "engine"
  /\ IF unit["engine"] = "active" THEN Watch("host") ELSE Watch("restart engine")

(* systemctl restart, some time after the check. *)
Restart(u, next) ==
  /\ unit' = [unit EXCEPT ![u] = "active"]
  /\ meddled' = meddled \cup {u}
  /\ watch' = next
  /\ UNCHANGED <<script, step, status>>
RestartFails(u) ==
  /\ unit' = [unit EXCEPT ![u] = "dead"]
  /\ meddled' = meddled \cup {u}
  /\ watch' = "dead"
  /\ UNCHANGED <<script, step, status>>
RestartApi ==
  /\ watch = "restart api"
  /\ Restart("api", "engine") \/ RestartFails("api")
RestartEngine ==
  /\ watch = "restart engine"
  /\ Restart("engine", "host") \/ RestartFails("engine")

(* The filter is loaded, or setup_ebpf.sh loads it, and there is space on  *)
(* the disk, or room is made; if setup_ebpf.sh or a clean-up fails, so     *)
(* does the watchdog.                                                      *)
CheckHost ==
  /\ watch = "host"
  /\ Watch("api") \/ Watch("dead")

Watchdog == CheckApi \/ RestartApi \/ CheckEngine \/ RestartEngine \/ CheckHost

Next ==
  \/ \E s \in Script : Begin(s)
  \/ Stop \/ Command \/ Fail
  \/ \E u \in Unit : Start(u) \/ Die(u) \/ AutoRestart(u)
  \/ Watchdog

(* The watchdog's loop goes on, and systemd restarts what died. *)
Fairness ==
  /\ WF_vars(Watchdog)
  /\ \A u \in Unit : WF_vars(AutoRestart(u))
Spec == Init /\ [][Next]_vars /\ Fairness

-----------------------------------------------------------------------------
TypeOK ==
  /\ unit \in [Unit -> {"active", "dead", "stopped"}]
  /\ script \in Script /\ step \in 1 .. 7 /\ step <= Len(Steps[script])
  /\ status \in {"none", "running", "done", "failed"}
  /\ watch \in {"api", "restart api", "engine", "restart engine", "host", "dead"}
  /\ meddled \subseteq Unit

(* Where the scripts stop the services, and where they start each again. *)
Stops == [restore |-> 1, upgrade |-> 3, rollback |-> 1]
Starts ==
  [restore  |-> [engine |-> 6, api |-> 7],
   upgrade  |-> [engine |-> 5, api |-> 6],
   rollback |-> [engine |-> 4, api |-> 5]]

(* Between the two a service runs only if the watchdog restarted it, after *)
(* them it is not stopped.                                                 *)
Held(u) ==
  /\ status = "running" /\ Stops[script] < step /\ step <= Starts[script][u] =>
       unit[u] = "stopped" \/ u \in meddled
  /\ status = "done" \/ (status = "running" /\ Starts[script][u] < step) =>
       unit[u] # "stopped"

MaintenanceInv == TypeOK /\ \A u \in Unit : Held(u)

(* While a script changes the database, no service uses it but one that    *)
(* the watchdog has restarted: systemd leaves stopped services alone, and  *)
(* no script starts them too early.                                        *)
OfflineButForWatchdog ==
  \A u \in Unit :
    At("database") \/ At("migrate") => unit[u] = "stopped" \/ u \in meddled

(* A script that ends well leaves no service stopped. *)
NothingLeftStopped == status = "done" => \A u \in Unit : unit[u] # "stopped"

(* However the scripts end, half way through or not at all, a service that *)
(* is down runs again in the end, as long as the watchdog does.            *)
ServicesComeBack ==
  \A u \in Unit : unit[u] # "active" ~> unit[u] = "active" \/ watch = "dead"

(* restore.sh: "# Stop services", then the database, then "# Restart       *)
(* services": they are stopped while it is restored.                       *)
Offline ==
  script = "restore" /\ At("database") => \A u \in Unit : unit[u] # "active"
=============================================================================
