------------------------------- MODULE Engine -------------------------------
(***************************************************************************)
(* core/main_engine.cpp with core/ebpf_loader.cpp and the set-up and       *)
(* tear-down of core/memory_pool.cpp: one run of the engine process, from  *)
(* exec to exit.  Its main thread pops packets and counts its verdicts,    *)
(* its telemetry thread prints a [STATS] line, a signal may arrive at any  *)
(* moment and SIGKILL or a crash may end the process at any moment.        *)
(*                                                                         *)
(* The queue is the abstract one, BoundedFifo, which module LockFreeQueue  *)
(* is shown to implement; size() keeps its two loads, both of which may    *)
(* return old values, and its size_t.  The detector is the set of packets  *)
(* it calls deepfakes.  The kernel and the producer of packets are outside *)
(* the repository.                                                         *)
(***************************************************************************)
EXTENDS Integers, Sequences

CONSTANTS Packet,     \* telemetry packets
          Deepfake,   \* those analyze_voice_channel() answers true for
          NoPacket,   \* the engine's packet variable before the first pop
          Capacity,   \* of g_queue
          Modulus,    \* 2^w for a size_t of w bits
          MaxPushed   \* bound: packets that arrive during the run

ASSUME EngineAssumption ==
  /\ Deepfake \subseteq Packet
  /\ NoPacket \notin Packet
  /\ Capacity \in Nat \ {0}
  /\ Modulus \in Nat /\ Modulus > Capacity
  /\ MaxPushed \in Nat

VARIABLES
  pc,          \* where main() stands
  status,      \* how the process ended, "running" before
  g_running,
  queue, out,  \* g_queue, and main()'s packet
  g_total_packets, g_blocked_packets,
  s_blocked_count,
  s_xdp_fd,    \* "closed" (-1), "open", or "stale": closed behind its back
  hook,        \* what eth0 runs on every frame: "none", this run's "engine", or
               \* "other": left by setup_ebpf.sh or by an engine that was killed
  pool,        \* s_initialized
  t_pc,        \* where telemetry_thread() stands
  t_line,      \* the [STATS] line being put together
  stats,       \* the last [STATS] line printed
  pushed,      \* ghost: packets that have arrived
  fakes        \* ghost: deepfakes main() has popped

queueVars == <<queue, out, pushed, fakes>>
counters == <<g_total_packets, g_blocked_packets, s_blocked_count>>
xdpVars == <<s_xdp_fd, hook>>
telemetryVars == <<t_pc, t_line, stats>>
vars == <<pc, status, g_running, queueVars, counters, xdpVars, pool, telemetryVars>>

Queue == INSTANCE BoundedFifo WITH
           Value <- Packet, Nothing <- NoPacket, Bound <- Capacity

popped == pushed - Len(queue)
NoLine == [total |-> 0, blocked |-> 0, seen |-> 0, write |-> 0]
NoStats == [total |-> 0, blocked |-> 0, queue |-> 0]

Init ==
  /\ pc = "start" /\ status = "running" /\ g_running = TRUE
  /\ Queue!FifoInit
  /\ pushed = 0 /\ fakes = 0
  /\ g_total_packets = 0 /\ g_blocked_packets = 0 /\ s_blocked_count = 0
  /\ s_xdp_fd = "closed" /\ hook \in {"none", "other"}
  /\ pool = FALSE
  /\ t_pc = "unborn" /\ t_line = NoLine /\ stats = NoStats

-----------------------------------------------------------------------------
(* main(): handlers first, then the components, then the filter. *)

InstallHandlers ==
  /\ pc = "start"
  /\ pc' = "initialize"
  /\ UNCHANGED <<status, g_running, queueVars, counters, xdpVars, pool, telemetryVars>>

(* A pool that mmap refuses is reported and otherwise ignored. *)
Initialize ==
  /\ pc = "initialize"
  /\ pool' \in BOOLEAN
  /\ pc' = "load"
  /\ UNCHANGED <<status, g_running, queueVars, counters, xdpVars, telemetryVars>>

Exit(code) ==
  /\ pc' = "ended" /\ status' = code
  /\ t_pc' = "gone"

(* load_xdp_program() up to the descriptor: open, find, load, ifindex. *)
LoadObject ==
  /\ pc = "load"
  /\ \/ /\ pc' = "attach" /\ s_xdp_fd' = "open"
        /\ UNCHANGED <<status, t_pc>>
     \/ Exit("1") /\ s_xdp_fd' = s_xdp_fd
  /\ UNCHANGED <<g_running, queueVars, counters, hook, pool, t_line, stats>>

(* When it cannot attach it closes the object, and s_xdp_fd with it. *)
AttachFails ==
  /\ pc = "attach"
  /\ s_xdp_fd' = "stale"
  /\ Exit("1")
  /\ UNCHANGED <<g_running, queueVars, counters, hook, pool, t_line, stats>>

Attach ==
  /\ pc = "attach"
  /\ hook' = "engine"
  /\ pc' = "spawn"
  /\ UNCHANGED <<status, g_running, queueVars, counters, s_xdp_fd, pool, telemetryVars>>

SpawnTelemetry ==
  /\ pc = "spawn"
  /\ t_pc' = "while"
  /\ pc' = "while"
  /\ UNCHANGED <<status, g_running, queueVars, counters, xdpVars, pool, t_line, stats>>

-----------------------------------------------------------------------------
(* The processing loop. *)

While ==
  /\ pc = "while"
  /\ pc' = IF g_running THEN "pop" ELSE "join"
  /\ UNCHANGED <<status, g_running, queueVars, counters, xdpVars, pool, telemetryVars>>

PopNothing_Counted ==
  /\ pc = "pop"
  /\ queue = << >>
  /\ g_total_packets' = g_total_packets + 1
  /\ pc' = "while"
  /\ UNCHANGED <<status, g_running, queueVars, g_blocked_packets, s_blocked_count,
                 xdpVars, pool, telemetryVars>>
PopNothing ==
  /\ pc = "pop"
  /\ queue = << >>
  /\ pc' = "while"
  /\ UNCHANGED <<status, g_running, queueVars, counters, xdpVars, pool, telemetryVars>>

Pop ==
  /\ pc = "pop"
  /\ Queue!Dequeue
  /\ fakes' = IF out' \in Deepfake THEN fakes + 1 ELSE fakes
  /\ pc' = "count"
  /\ UNCHANGED <<status, g_running, pushed, counters, xdpVars, pool, telemetryVars>>

Count ==
  /\ pc = "count"
  /\ g_total_packets' = g_total_packets + 1
  /\ pc' = "analyze"
  /\ UNCHANGED <<status, g_running, queueVars, g_blocked_packets, s_blocked_count,
                 xdpVars, pool, telemetryVars>>

Analyze_Inverted ==
  /\ pc = "analyze"
  /\ pc' = IF out \in Deepfake THEN "while" ELSE "blocked"
  /\ UNCHANGED <<status, g_running, queueVars, counters, xdpVars, pool, telemetryVars>>
Analyze ==
  /\ pc = "analyze"
  /\ pc' = IF out \in Deepfake THEN "blocked" ELSE "while"
  /\ UNCHANGED <<status, g_running, queueVars, counters, xdpVars, pool, telemetryVars>>

CountBlocked ==
  /\ pc = "blocked"
  /\ g_blocked_packets' = g_blocked_packets + 1
  /\ pc' = "block_ip"
  /\ UNCHANGED <<status, g_running, queueVars, g_total_packets, s_blocked_count,
                 xdpVars, pool, telemetryVars>>

(* "Would interact with BPF map to block IP": the filter is not told. *)
block_ip ==
  /\ pc = "block_ip"
  /\ s_blocked_count' = s_blocked_count + 1
  /\ pc' = "while"
  /\ UNCHANGED <<status, g_running, queueVars, g_total_packets, g_blocked_packets,
                 xdpVars, pool, telemetryVars>>

-----------------------------------------------------------------------------
(* The end: join, detach, unmap, return 0.  What unload_xdp_program()      *)
(* answers is not looked at.                                               *)

Join ==
  /\ pc = "join"
  /\ t_pc = "returned"
  /\ pc' = "unload"
  /\ UNCHANGED <<status, g_running, queueVars, counters, xdpVars, pool, telemetryVars>>

UnloadFails ==
  /\ pc = "unload"
  /\ pc' = "release"
  /\ UNCHANGED <<status, g_running, queueVars, counters, xdpVars, pool, telemetryVars>>

Unload_KeepsFilter ==
  /\ pc = "unload"
  /\ s_xdp_fd' = "closed"
  /\ pc' = "release"
  /\ UNCHANGED <<status, g_running, queueVars, counters, hook, pool, telemetryVars>>
Unload ==
  /\ pc = "unload"
  /\ hook' = "none"
  /\ s_xdp_fd' = "closed"
  /\ pc' = "release"
  /\ UNCHANGED <<status, g_running, queueVars, counters, pool, telemetryVars>>

ReleasePool ==
  /\ pc = "release"
  /\ pool' = FALSE
  /\ Exit("0")
  /\ UNCHANGED <<g_running, queueVars, counters, xdpVars, t_line, stats>>

-----------------------------------------------------------------------------
(* telemetry_thread(): every five seconds one line, of values read one     *)
(* after the other while the main thread runs.                             *)

TelemetryUnchanged ==
  UNCHANGED <<pc, status, g_running, queueVars, counters, xdpVars, pool>>

TelemetryWhile_Forever ==
  /\ t_pc = "while"
  /\ t_pc' \in {"while", "total"}
  /\ UNCHANGED <<t_line, stats>> /\ TelemetryUnchanged
TelemetryWhile ==
  /\ t_pc = "while"
  /\ t_pc' \in IF g_running THEN {"while", "total"} ELSE {"returned"}
  /\ UNCHANGED <<t_line, stats>> /\ TelemetryUnchanged

(* g_total_packets++ comes after the pop() it counts, so what follows this *)
(* load sees at least the indices as they were after as many pops.         *)
ReadTotal ==
  /\ t_pc = "total"
  /\ t_line' = [t_line EXCEPT !.total = g_total_packets,
                             !.seen = popped - (IF pc = "count" THEN 1 ELSE 0)]
  /\ t_pc' = "blocked"
  /\ UNCHANGED stats /\ TelemetryUnchanged

ReadBlocked ==
  /\ t_pc = "blocked"
  /\ t_line' = [t_line EXCEPT !.blocked = g_blocked_packets]
  /\ t_pc' = "size"
  /\ UNCHANGED stats /\ TelemetryUnchanged

(* g_queue->size(): the write index, then the read index, each any value   *)
(* between one this thread is bound to see and the latest.  The reader of  *)
(* the write index w sees a read index at most one lap behind it           *)
(* (LockFreeQueue!StoresCovered).  The difference is a size_t.             *)
SizeLoadWrite ==
  /\ t_pc = "size"
  /\ \E w \in t_line.seen .. pushed : t_line' = [t_line EXCEPT !.write = w]
  /\ t_pc' = "print"
  /\ UNCHANGED stats /\ TelemetryUnchanged

PrintStats ==
  /\ t_pc = "print"
  /\ \E r \in t_line.seen .. popped :
       /\ t_line.write - r <= Capacity
       /\ stats' = [total |-> t_line.total, blocked |-> t_line.blocked,
                    queue |-> (t_line.write - r) % Modulus]
  /\ t_line' = NoLine
  /\ t_pc' = "while"
  /\ TelemetryUnchanged

-----------------------------------------------------------------------------
(* Outside: the producer, SIGINT or SIGTERM, and the sudden end.  Before   *)
(* the handlers are installed a signal ends the process.                   *)

Push ==
  /\ pc \notin {"start", "initialize", "ended"}
  /\ pushed < MaxPushed
  /\ Queue!Enqueue
  /\ pushed' = pushed + 1
  /\ UNCHANGED <<pc, status, g_running, fakes, counters, xdpVars, pool, telemetryVars>>

signal_handler ==
  /\ status = "running"
  /\ pc # "start"
  /\ g_running' = FALSE
  /\ UNCHANGED <<pc, status, queueVars, counters, xdpVars, pool, telemetryVars>>

Killed ==
  /\ status = "running"
  /\ Exit("killed")
  /\ s_xdp_fd' = "closed" /\ pool' = FALSE  \* the kernel closes and unmaps
  /\ UNCHANGED <<g_running, queueVars, counters, hook, t_line, stats>>

-----------------------------------------------------------------------------
main == \/ InstallHandlers \/ Initialize \/ LoadObject \/ Attach \/ AttachFails
        \/ SpawnTelemetry
        \/ While \/ Pop \/ PopNothing \/ Count \/ Analyze \/ CountBlocked \/ block_ip
        \/ Join \/ Unload \/ UnloadFails \/ ReleasePool
telemetry_thread == \/ TelemetryWhile \/ ReadTotal \/ ReadBlocked
                    \/ SizeLoadWrite \/ PrintStats

Next == main \/ telemetry_thread \/ Push \/ signal_handler \/ Killed

(* Both threads are scheduled; nothing else is promised. *)
Fairness == WF_vars(main) /\ WF_vars(telemetry_thread)

Spec == Init /\ [][Next]_vars
FairSpec == Spec /\ Fairness

-----------------------------------------------------------------------------
Line == [total : Nat, blocked : Nat, seen : Nat, write : Nat]
Stats == [total : Nat, blocked : Nat, queue : 0 .. Modulus - 1]

TypeOK ==
  /\ pc \in {"start", "initialize", "load", "attach", "spawn", "while", "pop",
             "count", "analyze", "blocked", "block_ip", "join", "unload",
             "release", "ended"}
  /\ status \in {"running", "0", "1", "killed"}
  /\ g_running \in BOOLEAN
  /\ queue \in Seq(Packet) /\ out \in Packet \cup {NoPacket}
  /\ pushed \in Nat /\ fakes \in Nat
  /\ g_total_packets \in Nat /\ g_blocked_packets \in Nat /\ s_blocked_count \in Nat
  /\ s_xdp_fd \in {"closed", "open", "stale"}
  /\ hook \in {"none", "other", "engine"}
  /\ pool \in BOOLEAN
  /\ t_pc \in {"unborn", "while", "total", "blocked", "size", "print",
               "returned", "gone"}
  /\ t_line \in Line /\ stats \in Stats

(* Every packet that arrived is in the queue, in main()'s hand or counted. *)
PacketsAccounted ==
  /\ Len(queue) <= Capacity
  /\ status # "killed" =>
       popped = g_total_packets + (IF pc = "count" THEN 1 ELSE 0)
  /\ g_total_packets <= popped

(* Every deepfake that was popped is, once, counted and given to           *)
(* block_ip(); nothing else is.                                            *)
InHand == pc \in {"count", "analyze", "blocked"} /\ out \in Deepfake
VerdictsAccounted ==
  /\ pc = "blocked" => out \in Deepfake
  /\ status # "killed" =>
       /\ fakes = g_blocked_packets + (IF InHand THEN 1 ELSE 0)
       /\ g_blocked_packets = s_blocked_count + (IF pc = "block_ip" THEN 1 ELSE 0)
  /\ g_blocked_packets <= fakes
  /\ fakes <= popped
  /\ g_blocked_packets <= g_total_packets

(* The line telemetry_thread() is putting together. *)
LineReadEarlier ==
  /\ t_line.total <= t_line.seen /\ t_line.seen <= popped
  /\ t_line.blocked <= g_blocked_packets
  /\ t_line.write <= pushed
  /\ t_pc = "print" => t_line.seen <= t_line.write

(* The filter stands while the loop runs, the telemetry thread has         *)
(* returned before anything it uses is torn down, a failed load leaves     *)
(* eth0 as it was, and after a return 0 the filter is off exactly if its   *)
(* descriptor is closed: it only stays when unload_xdp_program() failed.   *)
OrderlyEnd ==
  /\ pc \in {"start", "initialize", "load", "attach"} =>
       hook # "engine" /\ t_pc = "unborn" /\ (s_xdp_fd = "open" <=> pc = "attach")
  /\ pc = "spawn" => t_pc = "unborn"
  /\ pc \in {"spawn", "while", "pop", "count", "analyze", "blocked", "block_ip",
             "join", "unload"} => hook = "engine" /\ s_xdp_fd = "open"
  /\ pc \in {"unload", "release"} => t_pc = "returned"
  /\ pc = "release" \/ status = "0" =>
       hook # "other" /\ (hook = "none" <=> s_xdp_fd = "closed")
  /\ status = "1" => hook # "engine"
  /\ status = "0" => pool = FALSE
  /\ pc = "ended" <=> status # "running"

(* The inductive invariant. *)
EngineInv == TypeOK /\ PacketsAccounted /\ VerdictsAccounted
               /\ LineReadEarlier /\ OrderlyEnd

(* The [STATS] line, whose four values are read while main() works and     *)
(* may be old, shows no more blocked than are counted by now (but perhaps  *)
(* more than its own Total), and a Queue within the capacity that makes no *)
(* more packets with Total than have arrived; or else Queue has wrapped to *)
(* a number near 2^64, by no more than main() has popped since Total.      *)
StatsHonest ==
  [][stats' # stats =>
       /\ stats'.blocked <= g_total_packets
       /\ \/ stats'.queue <= Capacity /\ stats'.total + stats'.queue <= pushed
          \/ stats'.queue + (popped - stats'.total) >= Modulus]_vars

(* main() waits for the telemetry thread only when that has been started   *)
(* and told to return: what SignalEnds rests on.                           *)
JoinReturns ==
  /\ pc = "join" => ~g_running
  /\ pc \in {"while", "pop", "count", "analyze", "blocked", "block_ip", "join"} =>
       t_pc \notin {"unborn", "gone"}

(* Once g_running is off and main() is past the test that saw it on, no    *)
(* packet is popped any more: a signal leaves in the queue what is there   *)
(* but for one.                                                            *)
Stopped == ~g_running /\ pc # "pop"
StopStaysStopped == [](Stopped => []Stopped)

(* After SIGINT or SIGTERM the process ends, whatever it was doing: no     *)
(* thread waits for the other for ever.                                    *)
SignalEnds == ~g_running ~> status # "running"
=============================================================================
