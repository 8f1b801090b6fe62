------------------------- MODULE MaintenanceProofs -------------------------
(* What the scripts and the watchdog keep true, with data_migration.sh and *)
(* without it, and what the watchdog and the engine do to the XDP hook     *)
(* meanwhile.                                                              *)
EXTENDS XdpHook, TLAPS

(* The tables: a script stops the services, then starts each of them, and  *)
(* is not over before.                                                     *)
LEMMA Tables ==
  ASSUME NEW s \in Script, NEW u \in Unit
  PROVE  /\ Len(Steps[s]) \in 6 .. 7
         /\ Stops[s] \in 1 .. 7 /\ Starts[s][u] \in 1 .. 7
         /\ Stops[s] < Starts[s][u] /\ Starts[s][u] <= Len(Steps[s])
<1>1. CASE s = "restore"
  BY <1>1 DEF Steps, Stops, Starts, Unit
<1>2. CASE s = "upgrade"
  BY <1>2 DEF Steps, Stops, Starts, Unit
<1>3. CASE s = "rollback"
  BY <1>3 DEF Steps, Stops, Starts, Unit
<1>4. QED
  BY <1>1, <1>2, <1>3 DEF Script, Steps

(* Each of these commands has its one place, and the database is changed   *)
(* between the stop and the first start.                                   *)
LEMMA Places ==
  ASSUME NEW s \in Script, NEW u \in Unit, NEW i \in 1 .. Len(Steps[s])
  PROVE  /\ Steps[s][i] = "stop" <=> i = Stops[s]
         /\ Steps[s][i] = u <=> i = Starts[s][u]
         /\ Steps[s][i] \in {"database", "migrate"} =>
              Stops[s] < i /\ i <= Starts[s][u]
<1>1. CASE s = "restore"
  BY <1>1 DEF Steps, Stops, Starts, Unit
<1>2. CASE s = "upgrade"
  BY <1>2 DEF Steps, Stops, Starts, Unit
<1>3. CASE s = "rollback"
  BY <1>3 DEF Steps, Stops, Starts, Unit
<1>4. QED
  BY <1>1, <1>2, <1>3 DEF Script, Steps

(* The same of the script that runs.                                       *)
LEMMA Here ==
  ASSUME TypeOK, NEW u \in Unit
  PROVE  /\ script \in Script /\ step \in 1 .. 7 /\ step <= Len(Steps[script])
         /\ Len(Steps[script]) \in 6 .. 7
         /\ Stops[script] \in 1 .. 7 /\ Starts[script][u] \in 1 .. 7
         /\ Stops[script] < Starts[script][u] /\ Starts[script][u] <= Len(Steps[script])
         /\ At("stop") => step = Stops[script]
         /\ At(u) => step = Starts[script][u]
         /\ step = Stops[script] => Steps[script][step] = "stop"
         /\ step = Starts[script][u] => Steps[script][step] = u
<1>1. script \in Script /\ step \in 1 .. 7 /\ step <= Len(Steps[script])
  BY DEF TypeOK
<1>2. /\ Len(Steps[script]) \in 6 .. 7
      /\ Stops[script] \in 1 .. 7 /\ Starts[script][u] \in 1 .. 7
      /\ Stops[script] < Starts[script][u] /\ Starts[script][u] <= Len(Steps[script])
  BY <1>1, Tables
<1>3. step \in 1 .. Len(Steps[script])
  BY <1>1, <1>2
<1>4. /\ Steps[script][step] = "stop" <=> step = Stops[script]
      /\ Steps[script][step] = u <=> step = Starts[script][u]
  BY <1>1, <1>3, Places
<1>5. QED
  BY <1>1, <1>2, <1>4 DEF At

(* It goes on to the next command, or is done after the last.              *)
LEMMA Advances ==
  ASSUME TypeOK, Advance, status = "running"
  PROVE  /\ step' \in 1 .. 7 /\ step' <= Len(Steps[script])
         /\ \/ status' = "running" /\ step' = step + 1
            \/ status' = "done" /\ step' = step /\ step = Len(Steps[script])
<1>1. "api" \in Unit
  BY DEF Unit
<1>. DEFINE length == Len(Steps[script])
<1>2. step \in 1 .. 7 /\ step <= length /\ length \in 6 .. 7
  BY <1>1, Here
<1>3. IF step = length THEN status' = "done" /\ step' = step
                       ELSE step' = step + 1 /\ status' = status
  BY DEF Advance, Last
<1>. HIDE DEF length
<1>4. /\ step' \in 1 .. 7 /\ step' <= length
      /\ \/ status' = "running" /\ step' = step + 1
         \/ status' = "done" /\ step' = step /\ step = length
  BY <1>2, <1>3
<1>5. QED
  BY <1>4 DEF length

LEMMA InitInv == Init => MaintenanceInv
<1>. SUFFICES ASSUME Init PROVE MaintenanceInv
  OBVIOUS
<1>1. "api" \in Unit /\ script \in Script
  BY DEF Init, Unit
<1>2. step \in 1 .. 7 /\ step <= Len(Steps[script])
  <2>. DEFINE length == Len(Steps[script])
  <2>1. length \in 6 .. 7
    BY <1>1, Tables
  <2>. HIDE DEF length
  <2>2. step <= length
    BY <2>1 DEF Init
  <2>3. QED
    BY <2>2 DEF Init, length
<1>3. TypeOK
  BY <1>1, <1>2 DEF Init, TypeOK
<1>4. \A u \in Unit : Held(u)
  BY DEF Init, Held
<1>5. QED
  BY <1>3, <1>4 DEF MaintenanceInv

LEMMA TypePreserved == MaintenanceInv /\ [Next]_vars => TypeOK'
<1>. SUFFICES ASSUME MaintenanceInv, [Next]_vars PROVE TypeOK'
  OBVIOUS
<1>0. TypeOK
  BY DEF MaintenanceInv
<1>1. ASSUME NEW s \in Script, Begin(s) PROVE TypeOK'
  <2>1. "api" \in Unit
    BY DEF Unit
  <2>. DEFINE length == Len(Steps[s])
  <2>2. length \in 6 .. 7
    BY <2>1, Tables
  <2>. HIDE DEF length
  <2>3. 1 <= length
    BY <2>2
  <2>4. script' \in Script /\ step' \in 1 .. 7 /\ step' <= Len(Steps[script'])
    BY <1>1, <2>3 DEF Begin, length
  <2>5. QED
    BY <1>0, <1>1, <2>4 DEF Begin, TypeOK
<1>2. CASE Stop \/ Command
  BY <1>0, <1>2, Advances DEF Stop, Command, At, TypeOK
<1>3. CASE Fail
  BY <1>0, <1>3 DEF Fail, TypeOK
<1>4. ASSUME NEW u \in Unit, Start(u) PROVE TypeOK'
  BY <1>0, <1>4, Advances DEF Start, At, TypeOK
<1>5. ASSUME NEW u \in Unit, Die(u) \/ AutoRestart(u) PROVE TypeOK'
  BY <1>0, <1>5 DEF Die, AutoRestart, TypeOK
<1>6. CASE CheckApi \/ CheckEngine \/ CheckHost
  BY <1>0, <1>6 DEF CheckApi, CheckEngine, CheckHost, Watch, TypeOK
<1>7. CASE RestartApi \/ RestartEngine
  BY <1>0, <1>7 DEF RestartApi, RestartEngine, Restart, RestartFails, TypeOK, Unit
<1>8. CASE UNCHANGED vars
  BY <1>0, <1>8 DEF vars, TypeOK
<1>9. QED
  BY <1>1, <1>2, <1>3, <1>4, <1>5, <1>6, <1>7, <1>8 DEF Next, Watchdog

LEMMA HeldPreserved ==
  ASSUME MaintenanceInv, [Next]_vars, NEW u \in Unit
  PROVE  Held(u)'
<1>0. TypeOK /\ Held(u)
  BY DEF MaintenanceInv
<1>. DEFINE stops == Stops[script]
            start == Starts[script][u]
            length == Len(Steps[script])
<1>a. /\ step \in 1 .. 7 /\ step <= length
      /\ stops \in 1 .. 7 /\ start \in 1 .. 7 /\ length \in 6 .. 7
      /\ stops < start /\ start <= length
  BY <1>0, Here
<1>1. ASSUME NEW s \in Script, Begin(s) PROVE Held(u)'
  <2>1. /\ Stops[s] \in 1 .. 7 /\ Starts[s][u] \in 1 .. 7
        /\ script' = s /\ step' = 1 /\ status' = "running"
    BY <1>1, Tables DEF Begin
  <2>2. QED
    BY <2>1 DEF Held
<1>2. CASE Stop
  <2>1. step = stops /\ status = "running" /\ Advance
    BY <1>0, <1>2, Here DEF Stop, At
  <2>2. unit'[u] = "stopped" /\ script' = script
    BY <1>2 DEF Stop
  <2>3. \/ status' = "running" /\ step' = step + 1
        \/ status' = "done" /\ step = length
    BY <1>0, <2>1, Advances
  <2>4. QED
    BY <1>a, <2>1, <2>2, <2>3 DEF Held
<1>3. CASE Command
  <2>1. status = "running" /\ Advance /\ step # stops /\ step # start
    BY <1>0, <1>3, Here DEF Command
  <2>2. unit' = unit /\ script' = script /\ meddled' = meddled
    BY <1>3 DEF Command
  <2>3. \/ status' = "running" /\ step' = step + 1
        \/ status' = "done" /\ step = length
    BY <1>0, <2>1, Advances
  <2>4. QED
    BY <1>0, <1>a, <2>1, <2>2, <2>3 DEF Held
<1>4. CASE Fail
  BY <1>4 DEF Fail, Held
<1>5. ASSUME NEW v \in Unit, Start(v) PROVE Held(u)'
  <2>1. status = "running" /\ Advance /\ step # stops
    BY <1>0, <1>5, Here DEF Start, At, Unit
  <2>2. \/ status' = "running" /\ step' = step + 1
        \/ status' = "done" /\ step = length
    BY <1>0, <2>1, Advances
  <2>3. script' = script /\ meddled' = meddled
    BY <1>5 DEF Start
  <2>4. CASE u = v
    <3>1. step = start /\ unit'[u] = "active"
      BY <1>0, <1>5, <2>4, Here DEF Start, TypeOK
    <3>2. QED
      BY <1>a, <2>1, <2>2, <2>3, <3>1 DEF Held
  <2>5. CASE u # v
    <3>1. step # start
      BY <1>0, <1>5, <2>5, Here DEF Start, At
    <3>2. unit'[u] = unit[u]
      BY <1>0, <1>5, <2>5 DEF Start, TypeOK
    <3>3. QED
      BY <1>0, <1>a, <2>1, <2>2, <2>3, <3>1, <3>2 DEF Held
  <2>6. QED
    BY <2>4, <2>5
<1>6. ASSUME NEW v \in Unit, Die(v) \/ AutoRestart(v) PROVE Held(u)'
  BY <1>0, <1>6 DEF Die, AutoRestart, Held, TypeOK
<1>7. CASE CheckApi \/ CheckEngine \/ CheckHost \/ UNCHANGED vars
  BY <1>0, <1>7 DEF CheckApi, CheckEngine, CheckHost, Watch, vars, Held
<1>8. CASE RestartApi \/ RestartEngine
  BY <1>0, <1>8 DEF RestartApi, RestartEngine, Restart, RestartFails, Held, TypeOK, Unit
<1>9. QED
  BY <1>1, <1>2, <1>3, <1>4, <1>5, <1>6, <1>7, <1>8 DEF Next, Watchdog

-----------------------------------------------------------------------------
(* Between a script's stop and its start of a service only the watchdog    *)
(* restarts it.                                                            *)
THEOREM MaintenanceInvariant == Spec => []MaintenanceInv
<1>1. MaintenanceInv /\ [Next]_vars => MaintenanceInv'
  BY TypePreserved, HeldPreserved DEF MaintenanceInv
<1>2. QED
  BY InitInv, <1>1, PTL DEF Spec

(* The database is changed with the services stopped, but for the          *)
(* watchdog.                                                               *)
THEOREM DatabaseIsOffline == Spec => []OfflineButForWatchdog
<1>1. MaintenanceInv => OfflineButForWatchdog
  <2>. SUFFICES ASSUME MaintenanceInv, NEW u \in Unit, At("database") \/ At("migrate")
       PROVE  unit[u] = "stopped" \/ u \in meddled
    BY DEF OfflineButForWatchdog
  <2>1. TypeOK /\ Held(u)
    BY DEF MaintenanceInv
  <2>2. Stops[script] < step /\ step <= Starts[script][u]
    <3>1. script \in Script /\ step \in 1 .. Len(Steps[script])
      BY <2>1, Here
    <3>2. QED
      BY <3>1, Places DEF At
  <2>3. QED
    BY <2>1, <2>2 DEF Held, At
<1>2. QED
  BY MaintenanceInvariant, <1>1, PTL

(* A script that is done has started both services. *)
THEOREM DoneMeansStarted == Spec => []NothingLeftStopped
<1>1. MaintenanceInv => NothingLeftStopped
  BY DEF MaintenanceInv, Held, NothingLeftStopped
<1>2. QED
  BY MaintenanceInvariant, <1>1, PTL

-----------------------------------------------------------------------------
(* The hook.  Whatever the scripts and systemd do leaves the watchdog      *)
(* where it is.                                                            *)
LEMMA ServicesLeaveWatch ==
  ASSUME Services \/ (\E u \in Unit : SystemdRestart(u))
  PROVE  watch' = watch /\ EngineSide
BY DEF Services, SystemdRestart, Begin, Stop, Command, Fail, Start, Die, AutoRestart

LEMMA WatchServicesLooks ==
  ASSUME WatchServices PROVE watch \notin {"host", "dead"} /\ EngineSide
BY DEF WatchServices, CheckApi, RestartApi, CheckEngine

(* The engine that ends has nothing attached; another keeps what it has.   *)
LEMMA EngineSideKeeps ==
  ASSUME HookInv, EngineSide
  PROVE  /\ HookTypeOK' /\ setup' = setup /\ pinned' = pinned
         /\ attached' => unit'["engine"] = "active"
         /\ attached' => attached /\ hook' = hook
<1>0. HookTypeOK /\ (attached => unit["engine"] = "active")
  BY DEF HookInv
<1>1. native' = native /\ setup' = setup /\ pinned' = pinned
  BY DEF EngineSide
<1>2. CASE unit["engine"] = "active" /\ unit'["engine"] # "active"
  <2>1. EngineEnds
    BY <1>2 DEF EngineSide
  <2>2. attached' = FALSE /\ hook' \in {"none", "setup", "engine"}
    BY <1>0, <2>1 DEF EngineEnds, Detached, HookTypeOK
  <2>3. QED
    BY <1>0, <1>1, <2>2 DEF HookTypeOK
<1>3. CASE ~(unit["engine"] = "active" /\ unit'["engine"] # "active")
  <2>1. hook' = hook /\ attached' = attached
    BY <1>3 DEF EngineSide
  <2>2. QED
    BY <1>0, <1>1, <1>3, <2>1 DEF HookTypeOK
<1>4. QED
  BY <1>2, <1>3

LEMMA HookPreserved == HookInv /\ [HookNext]_hookVars => HookInv'
<1>. SUFFICES ASSUME HookInv, [HookNext]_hookVars PROVE HookInv'
  OBVIOUS
<1>0. /\ HookTypeOK /\ EngineFiltered
      /\ setup # "look" => watch = "host"
      /\ attached => unit["engine"] = "active"
      /\ setup = "list" => pinned
  BY DEF HookInv
<1>1. CASE Services \/ (\E u \in Unit : SystemdRestart(u))
  <2>1. watch' = watch /\ EngineSide
    BY <1>1, ServicesLeaveWatch
  <2>2. QED
    BY <1>0, <2>1, EngineSideKeeps DEF HookInv, EngineFiltered
<1>2. CASE WatchServices
  <2>1. watch \notin {"host", "dead"} /\ EngineSide
    BY <1>2, WatchServicesLooks
  <2>2. setup = "look" /\ (attached => hook # "none")
    BY <1>0, <2>1 DEF EngineFiltered
  <2>3. QED
    BY <2>1, <2>2, EngineSideKeeps DEF HookInv, EngineFiltered
<1>3. CASE WatchRestartsEngine
  <2>1. watch = "restart engine" /\ attached' = FALSE
    BY <1>3 DEF WatchRestartsEngine, RestartEngine, EngineEnds
  <2>2. setup = "look" /\ setup' = setup /\ native' = native /\ pinned' = pinned
    BY <1>0, <1>3, <2>1 DEF WatchRestartsEngine
  <2>3. hook' \in {"none", "setup", "engine"}
    BY <1>0, <1>3 DEF WatchRestartsEngine, EngineEnds, Detached, HookTypeOK
  <2>4. QED
    BY <1>0, <2>1, <2>2, <2>3 DEF HookInv, HookTypeOK, EngineFiltered
<1>4. CASE Attach
  BY <1>0, <1>4 DEF Attach, vars, HookInv, HookTypeOK, EngineFiltered
<1>5. CASE Look \/ XdpOff \/ XdpLoad \/ Verify \/ Pin \/ List
  <2>1. /\ UNCHANGED <<unit, watch, native, attached>>
        /\ watch = "host"
    BY <1>0, <1>5 DEF Look, XdpOff, XdpLoad, Verify, Pin, List, Goes, vars
  <2>2. CASE Look \/ Verify \/ List
    <3>1. /\ hook' = hook /\ pinned' = pinned
          /\ setup' \in {"off", "disk", "pin"} /\ setup # "load"
      BY <2>2 DEF Look, Verify, List, Goes
    <3>2. QED
      BY <1>0, <2>1, <3>1 DEF HookInv, HookTypeOK, EngineFiltered, Setup
  <2>3. CASE XdpOff
    BY <1>0, <2>1, <2>3 DEF XdpOff, Goes, HookInv, HookTypeOK, EngineFiltered, Setup
  <2>4. CASE XdpLoad
    BY <1>0, <2>1, <2>4 DEF XdpLoad, Goes, HookInv, HookTypeOK, EngineFiltered, Setup
  <2>5. CASE Pin
    BY <1>0, <2>1, <2>5 DEF Pin, Goes, HookInv, HookTypeOK, EngineFiltered, Setup
  <2>6. QED
    BY <1>5, <2>2, <2>3, <2>4, <2>5
<1>6. CASE SetupFails
  BY <1>0, <1>6 DEF SetupFails, CheckHost, Watch, HookInv, HookTypeOK, EngineFiltered, Setup
<1>7. CASE CheckDisk
  BY <1>0, <1>7 DEF CheckDisk, CheckHost, Watch, HookInv, HookTypeOK, EngineFiltered, Setup
<1>8. CASE UNCHANGED hookVars
  BY <1>0, <1>8 DEF hookVars, vars, HookInv, HookTypeOK, EngineFiltered
<1>9. QED
  BY <1>1, <1>2, <1>3, <1>4, <1>5, <1>6, <1>7, <1>8 DEF HookNext, HookWatchdog

(* Each step with the hook is one of Maintenance, or none.                 *)
LEMMA HookStep == [HookNext]_hookVars => [Next]_vars
<1>. SUFFICES ASSUME [HookNext]_hookVars PROVE [Next]_vars
  OBVIOUS
<1>1. CASE Services
  BY <1>1 DEF Services, Next
<1>2. CASE \E u \in Unit : SystemdRestart(u)
  BY <1>2 DEF SystemdRestart, Next
<1>3. CASE WatchServices \/ WatchRestartsEngine \/ SetupFails \/ CheckDisk
  BY <1>3 DEF WatchServices, WatchRestartsEngine, SetupFails, CheckDisk, Watchdog, Next
<1>4. CASE Attach \/ Look \/ XdpOff \/ XdpLoad \/ Verify \/ Pin \/ List
  BY <1>4 DEF Attach, Look, XdpOff, XdpLoad, Verify, Pin, List, Goes
<1>5. CASE UNCHANGED hookVars
  BY <1>5 DEF hookVars
<1>6. QED
  BY <1>1, <1>2, <1>3, <1>4, <1>5 DEF HookNext, HookWatchdog

(* setup_ebpf.sh runs only within the watchdog's check, and the hook is    *)
(* as its position and the engine's state say.                             *)
THEOREM HookInvariant == HookSpec => []HookInv
<1>1. HookInit => HookInv
  BY DEF HookInit, Init, HookInv, HookTypeOK, EngineFiltered
<1>2. QED
  BY <1>1, HookPreserved, PTL DEF HookSpec

(* A running engine's filter is missing only during a reload, or after one *)
(* that ended the watchdog.                                                *)
THEOREM RunningEngineFiltered == HookSpec => []EngineFiltered
<1>1. HookInv => EngineFiltered
  BY DEF HookInv
<1>2. QED
  BY HookInvariant, <1>1, PTL

(* With the hook, the services keep the promises they keep without it.     *)
THEOREM ServicesSafeWithHook == HookSpec => []MaintenanceInv
<1>1. HookInit => MaintenanceInv
  BY InitInv DEF HookInit
<1>2. MaintenanceInv /\ [HookNext]_hookVars => MaintenanceInv'
  BY HookStep, TypePreserved, HeldPreserved DEF MaintenanceInv
<1>3. QED
  BY <1>1, <1>2, PTL DEF HookSpec

(* Behind the hook's variables, the host takes the steps of Maintenance:   *)
(* what is proved of those, fairness apart, holds of it.                   *)
THEOREM HookImplementsServices == HookSpec => ServicesSafety
<1>1. HookInit => Init
  BY DEF HookInit
<1>2. QED
  BY <1>1, HookStep, PTL DEF HookSpec, ServicesSafety

(* No step gets out of a reload that has maps in its way.                  *)
LEMMA DoomStays == HookInv /\ Doomed /\ [HookNext]_hookVars => Doomed'
<1>. SUFFICES ASSUME HookInv, Doomed, [HookNext]_hookVars PROVE Doomed'
  OBVIOUS
<1>0. /\ HookTypeOK /\ pinned
      /\ setup # "look" => watch = "host"
      /\ setup \in Setup \ {"list"} \/ watch = "dead"
  BY DEF HookInv, Doomed
<1>1. CASE Services \/ (\E u \in Unit : SystemdRestart(u))
  BY <1>0, <1>1, ServicesLeaveWatch, EngineSideKeeps DEF Doomed
<1>2. ~WatchServices /\ ~WatchRestartsEngine
  BY <1>0, WatchServicesLooks DEF WatchRestartsEngine, RestartEngine, Setup
<1>3. CASE Attach
  BY <1>0, <1>3 DEF Attach, vars, Doomed
<1>4. CASE Look \/ XdpOff \/ XdpLoad \/ Verify \/ Pin \/ List
  BY <1>0, <1>4 DEF Look, XdpOff, XdpLoad, Verify, Pin, List, Goes, Setup, Doomed
<1>5. CASE SetupFails
  BY <1>0, <1>5 DEF SetupFails, Doomed
<1>6. CASE CheckDisk
  BY <1>0, <1>6 DEF CheckDisk, CheckHost, Setup
<1>7. CASE UNCHANGED hookVars
  BY <1>0, <1>7 DEF hookVars, vars, Doomed
<1>8. QED
  BY <1>1, <1>2, <1>3, <1>4, <1>5, <1>6, <1>7 DEF HookNext, HookWatchdog

(* A reload with maps pinned already has one way out, the watchdog's       *)
(* death: ReloadEndsWatchdog but for the fairness that lets it come.       *)
THEOREM ReloadsTrap == HookSpec => ReloadTraps
<1>1. HookInv /\ Doomed /\ [HookNext]_hookVars => Doomed'
  BY DoomStays
<1>2. QED
  BY <1>1, HookInvariant, PTL DEF HookSpec, ReloadTraps
=============================================================================
