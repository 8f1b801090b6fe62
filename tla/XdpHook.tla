------------------------------- MODULE XdpHook -------------------------------
(***************************************************************************)
(* eth0's XDP hook, while everything in Maintenance goes on: the engine    *)
(* attaches its filter when it has started and detaches it when it ends    *)
(* (core/ebpf_loader.cpp), and the watchdog that finds no filter runs      *)
(* scripts/setup_ebpf.sh.  Neither knows of the other.                     *)
(*                                                                         *)
(* A step of Maintenance takes the engine's part of the hook along; the    *)
(* watchdog's one step CheckHost becomes a look at the hook and the        *)
(* commands of setup_ebpf.sh.                                              *)
(***************************************************************************)
EXTENDS Maintenance

VARIABLES
  hook,      \* whose filter eth0 runs: "none", "setup" or "engine"
  native,    \* does eth0's driver run XDP itself: setup_ebpf.sh then uses
             \* the driver's hook, and the engine, which asks for SKB mode,
             \* the kernel's; only one of them can be in use
  attached,  \* has the running engine attached its filter
  setup,     \* where the watchdog's check of the host stands
  pinned     \* are there maps under /sys/fs/bpf/bioshield

hookVars == <<vars, hook, native, attached, setup, pinned>>

Setup == {"off", "load", "verify", "pin", "list"}

HookInit ==
  /\ Init
  /\ hook \in {"none", "setup", "engine"} /\ native \in BOOLEAN
  /\ attached = FALSE
  /\ setup = "look"
  /\ pinned \in BOOLEAN

-----------------------------------------------------------------------------
(* The engine.  What detaching in SKB mode takes off the hook is the       *)
(* filter that is there, its own or not.                                   *)
Detached == IF native /\ hook = "setup" THEN hook ELSE "none"

EngineEnds ==
  /\ attached' = FALSE
  /\ hook' \in IF attached THEN {hook, Detached} ELSE {hook}

(* It starts up on its own; if it cannot attach, it ends. *)
Attach ==
  /\ unit["engine"] = "active" /\ ~attached
  /\ ~(native /\ hook = "setup")
  /\ hook' = "engine" /\ attached' = TRUE
  /\ UNCHANGED <<vars, native, setup, pinned>>

(* What the scripts, systemd and the watchdog do to the engine. *)
EngineSide ==
  /\ IF unit["engine"] = "active" /\ unit'["engine"] # "active"
       THEN EngineEnds ELSE UNCHANGED <<hook, attached>>
  /\ UNCHANGED <<native, setup, pinned>>

Services ==
  /\ \/ \E s \in Script : Begin(s)
     \/ Stop \/ Command \/ Fail
     \/ \E u \in Unit : Start(u) \/ Die(u)
  /\ EngineSide
SystemdRestart(u) == AutoRestart(u) /\ EngineSide
WatchServices == (CheckApi \/ RestartApi \/ CheckEngine) /\ EngineSide

(* The engine it restarts may run by now, and is ended first. *)
WatchRestartsEngine == RestartEngine /\ EngineEnds /\ UNCHANGED <<native, setup, pinned>>

-----------------------------------------------------------------------------
(* The watchdog looks for a filter on eth0, anyone's. *)
Goes(next) == setup' = next /\ UNCHANGED <<vars, native, attached>>

Look_ProcFile ==
  /\ watch = "host" /\ setup = "look"
  /\ Goes("disk") /\ UNCHANGED <<hook, pinned>>
Look ==
  /\ watch = "host" /\ setup = "look"
  /\ Goes(IF hook = "none" THEN "off" ELSE "disk") /\ UNCHANGED <<hook, pinned>>

(* ip link set xdp off || true *)
XdpOff ==
  /\ setup = "off"
  /\ hook' \in {hook, IF native /\ hook = "engine" THEN hook ELSE "none"}
  /\ Goes("load") /\ UNCHANGED pinned

(* ip link set xdp obj does not replace a filter. *)
XdpLoad ==
  /\ setup = "load" /\ hook = "none"
  /\ hook' = "setup"
  /\ Goes("verify") /\ UNCHANGED pinned

Verify ==
  /\ setup = "verify" /\ hook # "none"
  /\ Goes("pin") /\ UNCHANGED <<hook, pinned>>

(* bpftool map pin, three times: a file that exists, whatever filter's map *)
(* it is, cannot be pinned again.                                          *)
Pin_Replaces ==
  /\ setup = "pin"
  /\ pinned' = TRUE
  /\ Goes("list") /\ UNCHANGED hook
Pin ==
  /\ setup = "pin" /\ ~pinned
  /\ pinned' = TRUE
  /\ Goes("list") /\ UNCHANGED hook

List == setup = "list" /\ Goes("disk") /\ UNCHANGED <<hook, pinned>>

(* Any of the commands may fail, the pins also half way, and with set -e   *)
(* so do setup_ebpf.sh and the watchdog.                                   *)
SetupFails_Ignored ==
  /\ setup \in Setup
  /\ Goes("look") /\ UNCHANGED <<hook, pinned>>
SetupFails ==
  /\ setup \in Setup
  /\ CheckHost /\ watch' = "dead" /\ setup' = "look"
  /\ pinned' \in IF setup = "pin" THEN {pinned, TRUE} ELSE {pinned}
  /\ UNCHANGED <<hook, native, attached>>

CheckDisk ==
  /\ setup = "disk"
  /\ CheckHost /\ setup' = "look"
  /\ UNCHANGED <<hook, native, attached, pinned>>

HookWatchdog ==
  \/ WatchServices \/ WatchRestartsEngine
  \/ Look \/ XdpOff \/ XdpLoad \/ Verify \/ Pin \/ List \/ SetupFails \/ CheckDisk

HookNext ==
  \/ Services \/ HookWatchdog \/ Attach
  \/ \E u \in Unit : SystemdRestart(u)

(* As in Maintenance: the loop goes on, and systemd restarts what died. *)
HookFairness ==
  /\ WF_hookVars(HookWatchdog)
  /\ \A u \in Unit : WF_hookVars(SystemdRestart(u))
HookSpec == HookInit /\ [][HookNext]_hookVars /\ HookFairness

-----------------------------------------------------------------------------
HookTypeOK ==
  /\ hook \in {"none", "setup", "engine"} /\ native \in BOOLEAN /\ attached \in BOOLEAN
  /\ setup \in {"look", "disk"} \cup Setup
  /\ pinned \in BOOLEAN

(* A running engine that has attached its filter has none under it only    *)
(* while setup_ebpf.sh, which took it for missing, is replacing it, or     *)
(* after that has failed, and the watchdog with it.                        *)
EngineFiltered ==
  attached /\ hook = "none" => setup = "load" \/ watch = "dead"

(* setup_ebpf.sh runs within the watchdog's check of the host, and what it *)
(* has pinned is there; only a running engine has a filter attached.       *)
HookInv ==
  /\ HookTypeOK
  /\ EngineFiltered
  /\ setup # "look" => watch = "host"
  /\ attached => unit["engine"] = "active"
  /\ setup = "list" => pinned

(* With the hook the services are as without it: setup_ebpf.sh ends, in    *)
(* one way or the other, and the watchdog's round with it.                 *)
ServicesAsBefore == Spec

(* eth0 does not stay without a filter, as long as the watchdog lives.     *)
FilterComesBack == hook = "none" ~> hook # "none" \/ watch = "dead"

(* On a host whose maps were pinned once, by the boot or by an earlier     *)
(* reload, the watchdog's next reload ends the watchdog, also when the     *)
(* filter was loaded well.                                                 *)
ReloadEndsWatchdog == setup = "off" /\ pinned ~> watch = "dead"

(* What makes it so, whatever else happens on the host: such a reload is   *)
(* left by nothing but the watchdog's death, and a dead watchdog is not    *)
(* started again.                                                          *)
Doomed == pinned /\ (setup \in Setup \ {"list"} \/ watch = "dead")
ReloadTraps == [](Doomed => []Doomed)

(* The steps of Maintenance, without what it asks of fairness. *)
ServicesSafety == Init /\ [][Next]_vars
=============================================================================
