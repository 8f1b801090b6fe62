---------------------------- MODULE EngineProofs ----------------------------
(* The accounting and the end of an engine run, for every set of packets,  *)
(* every capacity of the queue and any number of arrivals; that the        *)
(* detector's vector loops take every sample once and compute the sums     *)
(* they are named for, on data of any length; and which packets its scores *)
(* call deepfakes.                                                         *)
EXTENDS EngineDetector, SequenceTheorems, FiniteSetTheorems, TLAPS

(* What an Enqueue and a Dequeue do to the length and the type of queue.   *)
LEMMA DequeueShrinks ==
  ASSUME queue \in Seq(Packet), Queue!Dequeue
  PROVE  /\ queue' \in Seq(Packet) /\ out' \in Packet
         /\ Len(queue) \in Nat /\ Len(queue') = Len(queue) - 1 /\ Len(queue') \in Nat
<1>1. queue # << >> /\ out' = Head(queue) /\ queue' = Tail(queue)
  BY DEF Queue!Dequeue
<1>2. QED
  BY <1>1, HeadTailProperties, LenProperties

LEMMA EnqueueGrows ==
  ASSUME queue \in Seq(Packet), Queue!Enqueue
  PROVE  /\ queue' \in Seq(Packet) /\ out' = out
         /\ Len(queue) \in Nat /\ Len(queue) < Capacity /\ Len(queue') = Len(queue) + 1
<1>1. Len(queue) < Capacity /\ out' = out
      /\ \E v \in Packet : queue' = Append(queue, v)
  BY DEF Queue!Enqueue
<1>2. QED
  BY <1>1, AppendProperties, LenProperties

LEMMA InitInv == Init => EngineInv
<1>. SUFFICES ASSUME Init PROVE EngineInv
  OBVIOUS
<1>1. queue = << >> /\ out = NoPacket /\ Len(queue) = 0 /\ queue \in Seq(Packet)
  BY EmptySeq DEF Init, Queue!FifoInit
<1>2. TypeOK
  <2>1. NoLine \in Line /\ NoStats \in Stats
    BY EngineAssumption DEF NoLine, Line, NoStats, Stats
  <2>2. QED
    BY <1>1, <2>1 DEF Init, TypeOK
<1>3. PacketsAccounted /\ VerdictsAccounted /\ LineReadEarlier /\ OrderlyEnd
  <2>1. popped = 0
    <3>1. pushed = 0
      BY DEF Init
    <3>2. Len(queue) = 0
      BY <1>1, Zenon
    <3>3. QED
      BY <3>1, <3>2 DEF popped
  <2>2. t_line = NoLine /\ t_line.total = 0 /\ t_line.blocked = 0 /\ t_line.seen = 0
      /\ t_line.write = 0
    BY DEF Init, NoLine
  <2>3. PacketsAccounted
    BY <1>1, <2>1, EngineAssumption DEF Init, PacketsAccounted
  <2>4. VerdictsAccounted
    BY <2>1 DEF Init, VerdictsAccounted, InHand
  <2>5. LineReadEarlier
    BY <2>1, <2>2 DEF Init, LineReadEarlier
  <2>6. OrderlyEnd
    BY DEF Init, OrderlyEnd
  <2>7. QED
    BY <2>3, <2>4, <2>5, <2>6
<1>4. QED
  BY <1>2, <1>3 DEF EngineInv

(* The pops ReadTotal takes for certain, at least as many as it counts.    *)
ReadSeen == popped - (IF pc = "count" THEN 1 ELSE 0)

(* They lie between the count and what has been popped.                    *)
LEMMA ReadTotalSees ==
  ASSUME EngineInv
  PROVE  ReadSeen \in Nat /\ g_total_packets <= ReadSeen /\ ReadSeen <= popped
<1>1. popped \in Int /\ g_total_packets \in Nat /\ g_total_packets <= popped
  BY LenProperties DEF EngineInv, TypeOK, PacketsAccounted, popped
<1>2. pc = "count" => popped = g_total_packets + 1
  BY DEF EngineInv, PacketsAccounted, OrderlyEnd
<1>3. QED
  BY <1>1, <1>2 DEF ReadSeen

(* size_t arithmetic: a negative difference wraps, at least once.          *)
LEMMA Wraps ==
  ASSUME NEW m \in Nat \ {0}, NEW a \in Int
  PROVE  /\ a % m \in 0 .. m - 1
         /\ a \in 0 .. m - 1 => a % m = a
         /\ a < 0 => a % m >= a + m
<1>1. a % m \in 0 .. m - 1 /\ a \div m \in Int /\ a = m * (a \div m) + (a % m)
  BY SMT
<1>2. a \in 0 .. m - 1 => a % m = a
  BY SMT
<1>3. ASSUME a < 0 PROVE a % m >= a + m
  <2>1. ASSUME a \div m >= 0 PROVE FALSE
    <3>1. m * (a \div m) >= 0
      BY <1>1, <2>1, SMT
    <3>2. QED
      BY <1>1, <1>3, <3>1, SMT
  <2>2. a \div m <= -1
    BY <1>1, <2>1, SMT
  <2>3. m * (a \div m) <= -m
    BY <1>1, <2>2, SMT
  <2>4. m * (a \div m) \in Int
    BY <1>1, SMT
  <2>5. QED
    BY <1>1, <2>3, <2>4, SMT
<1>4. QED
  BY <1>1, <1>2, <1>3

(* What PrintStats prints for the queue.                                   *)
LEMMA PrintedQueue ==
  ASSUME EngineInv, NEW r \in t_line.seen .. popped, t_line.write - r <= Capacity
  PROVE  /\ (t_line.write - r) % Modulus \in 0 .. Modulus - 1
         /\ r <= t_line.write => (t_line.write - r) % Modulus = t_line.write - r
         /\ r > t_line.write =>
              (t_line.write - r) % Modulus >= (t_line.write - r) + Modulus
<1>1. t_line.write \in Nat /\ t_line.seen \in Nat /\ r \in Int
  BY LenProperties DEF EngineInv, TypeOK, Line, popped
<1> DEFINE d == t_line.write - r
<1>2. d \in Int /\ d <= Capacity /\ Modulus \in Nat \ {0} /\ Capacity < Modulus
      /\ Capacity \in Nat
  BY <1>1, EngineAssumption
<1>3. (r <= t_line.write => d \in 0 .. Modulus - 1) /\ (r > t_line.write => d < 0)
  BY <1>1, <1>2, SMT
<1> HIDE DEF d
<1>4. /\ d % Modulus \in 0 .. Modulus - 1
      /\ d \in 0 .. Modulus - 1 => d % Modulus = d
      /\ d < 0 => d % Modulus >= d + Modulus
  BY <1>2, Wraps
<1>5. QED
  BY <1>3, <1>4 DEF d

LEMMA TypePreserved == EngineInv /\ [Next]_vars => TypeOK'
<1>. SUFFICES ASSUME EngineInv, [Next]_vars PROVE TypeOK'
  OBVIOUS
<1>. USE DEF EngineInv, TypeOK, Line, NoLine, Stats
<1>0. Len(queue) \in Nat
  BY LenProperties DEF TypeOK
<1>1. CASE InstallHandlers
  BY <1>0, <1>1 DEF InstallHandlers, queueVars, counters, xdpVars, telemetryVars
<1>2. CASE Initialize
  BY <1>0, <1>2 DEF Initialize, queueVars, counters, xdpVars, telemetryVars
<1>3. CASE LoadObject
  BY <1>0, <1>3 DEF LoadObject, Exit, queueVars, counters
<1>4. CASE Attach
  BY <1>0, <1>4 DEF Attach, queueVars, counters, telemetryVars
<1>5. CASE AttachFails
  BY <1>0, <1>5 DEF AttachFails, Exit, queueVars, counters
<1>6. CASE SpawnTelemetry
  BY <1>0, <1>6 DEF SpawnTelemetry, queueVars, counters, xdpVars
<1>7. CASE While
  BY <1>0, <1>7 DEF While, queueVars, counters, xdpVars, telemetryVars
<1>8. CASE PopNothing
  BY <1>0, <1>8 DEF PopNothing, queueVars, counters, xdpVars, telemetryVars
<1>9. CASE Count
  BY <1>0, <1>9 DEF Count, queueVars, xdpVars, telemetryVars
<1>10. CASE Analyze
  BY <1>0, <1>10 DEF Analyze, queueVars, counters, xdpVars, telemetryVars
<1>11. CASE CountBlocked
  BY <1>0, <1>11 DEF CountBlocked, queueVars, xdpVars, telemetryVars
<1>12. CASE block_ip
  BY <1>0, <1>12 DEF block_ip, queueVars, xdpVars, telemetryVars
<1>13. CASE Join
  BY <1>0, <1>13 DEF Join, queueVars, counters, xdpVars, telemetryVars
<1>14. CASE Unload
  BY <1>0, <1>14 DEF Unload, queueVars, counters, telemetryVars
<1>15. CASE UnloadFails
  BY <1>0, <1>15 DEF UnloadFails, queueVars, counters, xdpVars, telemetryVars
<1>16. CASE ReleasePool
  BY <1>0, <1>16 DEF ReleasePool, Exit, queueVars, counters, xdpVars
<1>17. CASE TelemetryWhile
  BY <1>0, <1>17 DEF TelemetryWhile, TelemetryUnchanged, queueVars, counters, xdpVars
<1>18. CASE ReadTotal
  <2>1. g_total_packets \in Nat /\ ReadSeen \in Nat
    BY <1>18, ReadTotalSees DEF ReadTotal
  <2>2. t_line' = [total |-> g_total_packets, blocked |-> t_line.blocked,
                   seen |-> ReadSeen, write |-> t_line.write]
    BY <1>18 DEF ReadTotal, ReadSeen
  <2>3. t_line' \in [total : Nat, blocked : Nat, seen : Nat, write : Nat]
    BY <2>1, <2>2
  <2>4. QED
    BY <1>18, <2>3 DEF ReadTotal, TelemetryUnchanged, queueVars, counters, xdpVars
<1>19. CASE ReadBlocked
  BY <1>0, <1>19 DEF ReadBlocked, TelemetryUnchanged, queueVars, counters, xdpVars
<1>20. CASE SizeLoadWrite
  <2>1. PICK w \in t_line.seen .. pushed : t_line' = [t_line EXCEPT !.write = w]
    BY <1>20 DEF SizeLoadWrite
  <2>2. t_line' = [total |-> t_line.total, blocked |-> t_line.blocked,
                   seen |-> t_line.seen, write |-> w]
    BY <2>1
  <2>3. w \in Nat
    BY <2>1
  <2>4. t_line' \in [total : Nat, blocked : Nat, seen : Nat, write : Nat]
    BY <2>2, <2>3
  <2>5. QED
    BY <1>20, <2>4 DEF SizeLoadWrite, TelemetryUnchanged, queueVars, counters, xdpVars
<1>21. CASE PrintStats
  <2>1. PICK q \in 0 .. Modulus - 1 :
          stats' = [total |-> t_line.total, blocked |-> t_line.blocked, queue |-> q]
    BY <1>21, PrintedQueue DEF PrintStats
  <2>2. stats' \in [total : Nat, blocked : Nat, queue : 0 .. Modulus - 1]
    BY <2>1
  <2>3. QED
    BY <1>21, <2>2 DEF PrintStats, TelemetryUnchanged, queueVars, counters, xdpVars
<1>22. CASE signal_handler
  <2>1. g_running' \in BOOLEAN
    BY <1>22 DEF signal_handler
  <2>2. QED
    BY <1>22, <2>1, ZenonT(90) DEF signal_handler, queueVars, counters, xdpVars, telemetryVars
<1>23. CASE Killed
  BY <1>0, <1>23 DEF Killed, Exit, queueVars, counters
<1>24. CASE Pop
  BY <1>0, <1>24, DequeueShrinks, EngineAssumption DEF Pop, queueVars, counters,
     xdpVars, telemetryVars
<1>25. CASE Push
  BY <1>0, <1>25, EnqueueGrows, EngineAssumption DEF Push, queueVars, counters,
     xdpVars, telemetryVars
<1>26. CASE UNCHANGED vars
  BY <1>0, <1>26 DEF vars, queueVars, counters, xdpVars, telemetryVars
<1>27. QED
  BY <1>1, <1>2, <1>3, <1>4, <1>5, <1>6, <1>7, <1>8, <1>9, <1>10, <1>11, <1>12, <1>13,
     <1>14, <1>15, <1>16, <1>17, <1>18, <1>19, <1>20, <1>21, <1>22, <1>23, <1>24,
     <1>25, <1>26 DEF Next, main, telemetry_thread

LEMMA PacketsPreserved == EngineInv /\ [Next]_vars => PacketsAccounted'
<1>. SUFFICES ASSUME EngineInv, [Next]_vars PROVE PacketsAccounted'
  OBVIOUS
<1>. USE DEF EngineInv, TypeOK, PacketsAccounted, OrderlyEnd, popped
<1>0. Len(queue) \in Nat
  BY LenProperties DEF TypeOK
<1>1. CASE InstallHandlers
  BY <1>0, <1>1 DEF InstallHandlers, queueVars, counters, xdpVars, telemetryVars
<1>2. CASE Initialize
  BY <1>0, <1>2 DEF Initialize, queueVars, counters, xdpVars, telemetryVars
<1>3. CASE LoadObject
  BY <1>0, <1>3 DEF LoadObject, Exit, queueVars, counters
<1>4. CASE Attach
  BY <1>0, <1>4 DEF Attach, queueVars, counters, telemetryVars
<1>5. CASE AttachFails
  BY <1>0, <1>5 DEF AttachFails, Exit, queueVars, counters
<1>6. CASE SpawnTelemetry
  BY <1>0, <1>6 DEF SpawnTelemetry, queueVars, counters, xdpVars
<1>7. CASE While
  BY <1>0, <1>7 DEF While, queueVars, counters, xdpVars, telemetryVars
<1>8. CASE PopNothing
  BY <1>0, <1>8 DEF PopNothing, queueVars, counters, xdpVars, telemetryVars
<1>9. CASE Count
  BY <1>0, <1>9 DEF Count, queueVars, xdpVars, telemetryVars
<1>10. CASE Analyze
  BY <1>0, <1>10 DEF Analyze, queueVars, counters, xdpVars, telemetryVars
<1>11. CASE CountBlocked
  BY <1>0, <1>11 DEF CountBlocked, queueVars, xdpVars, telemetryVars
<1>12. CASE block_ip
  BY <1>0, <1>12 DEF block_ip, queueVars, xdpVars, telemetryVars
<1>13. CASE Join
  BY <1>0, <1>13 DEF Join, queueVars, counters, xdpVars, telemetryVars
<1>14. CASE Unload
  BY <1>0, <1>14 DEF Unload, queueVars, counters, telemetryVars
<1>15. CASE UnloadFails
  BY <1>0, <1>15 DEF UnloadFails, queueVars, counters, xdpVars, telemetryVars
<1>16. CASE ReleasePool
  BY <1>0, <1>16 DEF ReleasePool, Exit, queueVars, counters, xdpVars
<1>17. CASE TelemetryWhile
  BY <1>0, <1>17 DEF TelemetryWhile, TelemetryUnchanged, queueVars, counters, xdpVars
<1>18. CASE ReadTotal
  BY <1>0, <1>18 DEF ReadTotal, TelemetryUnchanged, queueVars, counters, xdpVars
<1>19. CASE ReadBlocked
  BY <1>0, <1>19 DEF ReadBlocked, TelemetryUnchanged, queueVars, counters, xdpVars
<1>20. CASE SizeLoadWrite
  BY <1>0, <1>20 DEF SizeLoadWrite, TelemetryUnchanged, queueVars, counters, xdpVars
<1>21. CASE PrintStats
  BY <1>0, <1>21 DEF PrintStats, TelemetryUnchanged, queueVars, counters, xdpVars
<1>22. CASE signal_handler
  BY <1>0, <1>22 DEF signal_handler, queueVars, counters, xdpVars, telemetryVars
<1>23. CASE Killed
  BY <1>0, <1>23 DEF Killed, Exit, queueVars, counters
<1>24. CASE Pop
  BY <1>0, <1>24, DequeueShrinks, EngineAssumption DEF Pop, queueVars, counters,
     xdpVars, telemetryVars
<1>25. CASE Push
  BY <1>0, <1>25, EnqueueGrows, EngineAssumption DEF Push, queueVars, counters,
     xdpVars, telemetryVars
<1>26. CASE UNCHANGED vars
  BY <1>0, <1>26 DEF vars, queueVars, counters, xdpVars, telemetryVars
<1>27. QED
  BY <1>1, <1>2, <1>3, <1>4, <1>5, <1>6, <1>7, <1>8, <1>9, <1>10, <1>11, <1>12, <1>13,
     <1>14, <1>15, <1>16, <1>17, <1>18, <1>19, <1>20, <1>21, <1>22, <1>23, <1>24,
     <1>25, <1>26 DEF Next, main, telemetry_thread

LEMMA VerdictsPreserved == EngineInv /\ [Next]_vars => VerdictsAccounted'
<1>. SUFFICES ASSUME EngineInv, [Next]_vars PROVE VerdictsAccounted'
  OBVIOUS
<1>. USE DEF EngineInv, TypeOK, PacketsAccounted, VerdictsAccounted, OrderlyEnd, InHand, popped
<1>0. Len(queue) \in Nat
  BY LenProperties DEF TypeOK
<1>1. CASE InstallHandlers
  BY <1>0, <1>1 DEF InstallHandlers, queueVars, counters, xdpVars, telemetryVars
<1>2. CASE Initialize
  BY <1>0, <1>2 DEF Initialize, queueVars, counters, xdpVars, telemetryVars
<1>3. CASE LoadObject
  BY <1>0, <1>3 DEF LoadObject, Exit, queueVars, counters
<1>4. CASE Attach
  BY <1>0, <1>4 DEF Attach, queueVars, counters, telemetryVars
<1>5. CASE AttachFails
  BY <1>0, <1>5 DEF AttachFails, Exit, queueVars, counters
<1>6. CASE SpawnTelemetry
  BY <1>0, <1>6 DEF SpawnTelemetry, queueVars, counters, xdpVars
<1>7. CASE While
  BY <1>0, <1>7 DEF While, queueVars, counters, xdpVars, telemetryVars
<1>8. CASE PopNothing
  BY <1>0, <1>8 DEF PopNothing, queueVars, counters, xdpVars, telemetryVars
<1>9. CASE Count
  BY <1>0, <1>9 DEF Count, queueVars, xdpVars, telemetryVars
<1>10. CASE Analyze
  BY <1>0, <1>10 DEF Analyze, queueVars, counters, xdpVars, telemetryVars
<1>11. CASE CountBlocked
  BY <1>0, <1>11 DEF CountBlocked, queueVars, xdpVars, telemetryVars
<1>12. CASE block_ip
  BY <1>0, <1>12 DEF block_ip, queueVars, xdpVars, telemetryVars
<1>13. CASE Join
  BY <1>0, <1>13 DEF Join, queueVars, counters, xdpVars, telemetryVars
<1>14. CASE Unload
  BY <1>0, <1>14 DEF Unload, queueVars, counters, telemetryVars
<1>15. CASE UnloadFails
  BY <1>0, <1>15 DEF UnloadFails, queueVars, counters, xdpVars, telemetryVars
<1>16. CASE ReleasePool
  BY <1>0, <1>16 DEF ReleasePool, Exit, queueVars, counters, xdpVars
<1>17. CASE TelemetryWhile
  BY <1>0, <1>17 DEF TelemetryWhile, TelemetryUnchanged, queueVars, counters, xdpVars
<1>18. CASE ReadTotal
  BY <1>0, <1>18 DEF ReadTotal, TelemetryUnchanged, queueVars, counters, xdpVars
<1>19. CASE ReadBlocked
  BY <1>0, <1>19 DEF ReadBlocked, TelemetryUnchanged, queueVars, counters, xdpVars
<1>20. CASE SizeLoadWrite
  BY <1>0, <1>20 DEF SizeLoadWrite, TelemetryUnchanged, queueVars, counters, xdpVars
<1>21. CASE PrintStats
  BY <1>0, <1>21 DEF PrintStats, TelemetryUnchanged, queueVars, counters, xdpVars
<1>22. CASE signal_handler
  BY <1>0, <1>22 DEF signal_handler, queueVars, counters, xdpVars, telemetryVars
<1>23. CASE Killed
  BY <1>0, <1>23 DEF Killed, Exit, queueVars, counters
<1>24. CASE Pop
  BY <1>0, <1>24, DequeueShrinks, EngineAssumption DEF Pop, queueVars, counters,
     xdpVars, telemetryVars
<1>25. CASE Push
  BY <1>0, <1>25, EnqueueGrows, EngineAssumption DEF Push, queueVars, counters,
     xdpVars, telemetryVars
<1>26. CASE UNCHANGED vars
  BY <1>0, <1>26 DEF vars, queueVars, counters, xdpVars, telemetryVars
<1>27. QED
  BY <1>1, <1>2, <1>3, <1>4, <1>5, <1>6, <1>7, <1>8, <1>9, <1>10, <1>11, <1>12, <1>13,
     <1>14, <1>15, <1>16, <1>17, <1>18, <1>19, <1>20, <1>21, <1>22, <1>23, <1>24,
     <1>25, <1>26 DEF Next, main, telemetry_thread

LEMMA LinePreserved == EngineInv /\ [Next]_vars => LineReadEarlier'
<1>. SUFFICES ASSUME EngineInv, [Next]_vars PROVE LineReadEarlier'
  OBVIOUS
<1>. USE DEF EngineInv, TypeOK, Line, NoLine, LineReadEarlier, popped, OrderlyEnd
<1>0. Len(queue) \in Nat
  BY LenProperties DEF TypeOK
<1>1. CASE InstallHandlers
  BY <1>0, <1>1 DEF InstallHandlers, queueVars, counters, xdpVars, telemetryVars
<1>2. CASE Initialize
  BY <1>0, <1>2 DEF Initialize, queueVars, counters, xdpVars, telemetryVars
<1>3. CASE LoadObject
  BY <1>0, <1>3 DEF LoadObject, Exit, queueVars, counters
<1>4. CASE Attach
  BY <1>0, <1>4 DEF Attach, queueVars, counters, telemetryVars
<1>5. CASE AttachFails
  BY <1>0, <1>5 DEF AttachFails, Exit, queueVars, counters
<1>6. CASE SpawnTelemetry
  BY <1>0, <1>6 DEF SpawnTelemetry, queueVars, counters, xdpVars
<1>7. CASE While
  BY <1>0, <1>7 DEF While, queueVars, counters, xdpVars, telemetryVars
<1>8. CASE PopNothing
  BY <1>0, <1>8 DEF PopNothing, queueVars, counters, xdpVars, telemetryVars
<1>9. CASE Count
  BY <1>0, <1>9 DEF Count, queueVars, xdpVars, telemetryVars
<1>10. CASE Analyze
  BY <1>0, <1>10 DEF Analyze, queueVars, counters, xdpVars, telemetryVars
<1>11. CASE CountBlocked
  BY <1>0, <1>11 DEF CountBlocked, queueVars, xdpVars, telemetryVars
<1>12. CASE block_ip
  BY <1>0, <1>12 DEF block_ip, queueVars, xdpVars, telemetryVars
<1>13. CASE Join
  BY <1>0, <1>13 DEF Join, queueVars, counters, xdpVars, telemetryVars
<1>14. CASE Unload
  BY <1>0, <1>14 DEF Unload, queueVars, counters, telemetryVars
<1>15. CASE UnloadFails
  BY <1>0, <1>15 DEF UnloadFails, queueVars, counters, xdpVars, telemetryVars
<1>16. CASE ReleasePool
  BY <1>0, <1>16 DEF ReleasePool, Exit, queueVars, counters, xdpVars
<1>17. CASE TelemetryWhile
  BY <1>0, <1>17 DEF TelemetryWhile, TelemetryUnchanged, queueVars, counters, xdpVars
<1>18. CASE ReadTotal
  <2>1. /\ t_line'.total = g_total_packets /\ t_line'.seen = ReadSeen
        /\ t_line'.blocked = t_line.blocked /\ t_line'.write = t_line.write
        /\ t_pc' = "blocked"
    BY <1>18 DEF ReadTotal, ReadSeen
  <2>2. g_total_packets <= ReadSeen /\ ReadSeen <= popped /\ popped' = popped
        /\ UNCHANGED <<g_blocked_packets, pushed>>
    BY <1>18, ReadTotalSees DEF ReadTotal, TelemetryUnchanged, queueVars, counters
  <2>3. QED
    BY <2>1, <2>2
<1>19. CASE ReadBlocked
  BY <1>0, <1>19 DEF ReadBlocked, TelemetryUnchanged, queueVars, counters, xdpVars
<1>20. CASE SizeLoadWrite
  BY <1>0, <1>20 DEF SizeLoadWrite, TelemetryUnchanged, queueVars, counters, xdpVars
<1>21. CASE PrintStats
  BY <1>0, <1>21 DEF PrintStats, TelemetryUnchanged, queueVars, counters, xdpVars
<1>22. CASE signal_handler
  BY <1>0, <1>22 DEF signal_handler, queueVars, counters, xdpVars, telemetryVars
<1>23. CASE Killed
  BY <1>0, <1>23 DEF Killed, Exit, queueVars, counters
<1>24. CASE Pop
  BY <1>0, <1>24, DequeueShrinks, EngineAssumption DEF Pop, queueVars, counters,
     xdpVars, telemetryVars
<1>25. CASE Push
  BY <1>0, <1>25, EnqueueGrows, EngineAssumption DEF Push, queueVars, counters,
     xdpVars, telemetryVars
<1>26. CASE UNCHANGED vars
  BY <1>0, <1>26 DEF vars, queueVars, counters, xdpVars, telemetryVars
<1>27. QED
  BY <1>1, <1>2, <1>3, <1>4, <1>5, <1>6, <1>7, <1>8, <1>9, <1>10, <1>11, <1>12, <1>13,
     <1>14, <1>15, <1>16, <1>17, <1>18, <1>19, <1>20, <1>21, <1>22, <1>23, <1>24,
     <1>25, <1>26 DEF Next, main, telemetry_thread

LEMMA EndPreserved == EngineInv /\ [Next]_vars => OrderlyEnd'
<1>. SUFFICES ASSUME EngineInv, [Next]_vars PROVE OrderlyEnd'
  OBVIOUS
<1>. USE DEF EngineInv, TypeOK, OrderlyEnd
<1>0. Len(queue) \in Nat
  BY LenProperties DEF TypeOK
<1>1. CASE InstallHandlers
  BY <1>0, <1>1 DEF InstallHandlers, queueVars, counters, xdpVars, telemetryVars
<1>2. CASE Initialize
  BY <1>0, <1>2 DEF Initialize, queueVars, counters, xdpVars, telemetryVars
<1>3. CASE LoadObject
  BY <1>0, <1>3 DEF LoadObject, Exit, queueVars, counters
<1>4. CASE Attach
  BY <1>0, <1>4 DEF Attach, queueVars, counters, telemetryVars
<1>5. CASE AttachFails
  BY <1>0, <1>5 DEF AttachFails, Exit, queueVars, counters
<1>6. CASE SpawnTelemetry
  BY <1>0, <1>6 DEF SpawnTelemetry, queueVars, counters, xdpVars
<1>7. CASE While
  BY <1>0, <1>7 DEF While, queueVars, counters, xdpVars, telemetryVars
<1>8. CASE PopNothing
  BY <1>0, <1>8 DEF PopNothing, queueVars, counters, xdpVars, telemetryVars
<1>9. CASE Count
  BY <1>0, <1>9 DEF Count, queueVars, xdpVars, telemetryVars
<1>10. CASE Analyze
  BY <1>0, <1>10 DEF Analyze, queueVars, counters, xdpVars, telemetryVars
<1>11. CASE CountBlocked
  BY <1>0, <1>11 DEF CountBlocked, queueVars, xdpVars, telemetryVars
<1>12. CASE block_ip
  BY <1>0, <1>12 DEF block_ip, queueVars, xdpVars, telemetryVars
<1>13. CASE Join
  BY <1>0, <1>13 DEF Join, queueVars, counters, xdpVars, telemetryVars
<1>14. CASE Unload
  BY <1>0, <1>14 DEF Unload, queueVars, counters, telemetryVars
<1>15. CASE UnloadFails
  BY <1>0, <1>15 DEF UnloadFails, queueVars, counters, xdpVars, telemetryVars
<1>16. CASE ReleasePool
  BY <1>0, <1>16 DEF ReleasePool, Exit, queueVars, counters, xdpVars
<1>17. CASE TelemetryWhile
  BY <1>0, <1>17 DEF TelemetryWhile, TelemetryUnchanged, queueVars, counters, xdpVars
<1>18. CASE ReadTotal
  BY <1>0, <1>18 DEF ReadTotal, TelemetryUnchanged, queueVars, counters, xdpVars
<1>19. CASE ReadBlocked
  BY <1>0, <1>19 DEF ReadBlocked, TelemetryUnchanged, queueVars, counters, xdpVars
<1>20. CASE SizeLoadWrite
  BY <1>0, <1>20 DEF SizeLoadWrite, TelemetryUnchanged, queueVars, counters, xdpVars
<1>21. CASE PrintStats
  BY <1>0, <1>21 DEF PrintStats, TelemetryUnchanged, queueVars, counters, xdpVars
<1>22. CASE signal_handler
  BY <1>0, <1>22 DEF signal_handler, queueVars, counters, xdpVars, telemetryVars
<1>23. CASE Killed
  BY <1>0, <1>23 DEF Killed, Exit, queueVars, counters
<1>24. CASE Pop
  BY <1>0, <1>24, DequeueShrinks, EngineAssumption DEF Pop, queueVars, counters,
     xdpVars, telemetryVars
<1>25. CASE Push
  BY <1>0, <1>25, EnqueueGrows, EngineAssumption DEF Push, queueVars, counters,
     xdpVars, telemetryVars
<1>26. CASE UNCHANGED vars
  BY <1>0, <1>26 DEF vars, queueVars, counters, xdpVars, telemetryVars
<1>27. QED
  BY <1>1, <1>2, <1>3, <1>4, <1>5, <1>6, <1>7, <1>8, <1>9, <1>10, <1>11, <1>12, <1>13,
     <1>14, <1>15, <1>16, <1>17, <1>18, <1>19, <1>20, <1>21, <1>22, <1>23, <1>24,
     <1>25, <1>26 DEF Next, main, telemetry_thread

LEMMA NextInv == EngineInv /\ [Next]_vars => EngineInv'
BY TypePreserved, PacketsPreserved, VerdictsPreserved, LinePreserved, EndPreserved
   DEF EngineInv

(* However the threads, the signal and the sudden end interleave, every    *)
(* packet and every verdict is accounted for in main_engine.cpp's counters *)
(* and the run ends in order.                                              *)
THEOREM EngineInvariant == Spec => []EngineInv
<1>1. QED
  BY InitInv, NextInv, PTL DEF Spec

(* unload_xdp_program() leaves the filter on eth0 only when it failed, and *)
(* a failed load_xdp_program() leaves eth0 alone.                          *)
THEOREM EndsInOrder == Spec => []OrderlyEnd
<1>1. EngineInv => OrderlyEnd
  BY DEF EngineInv
<1>2. QED
  BY <1>1, EngineInvariant, PTL

(* What telemetry_thread() prints, of loads that may be old: Blocked never *)
(* ahead of what is counted by now, and Total and Queue together never     *)
(* ahead of what has arrived, unless Queue has wrapped.                    *)
THEOREM StatsAreHonest == Spec => StatsHonest
<1> DEFINE Honest == /\ stats'.blocked <= g_total_packets
                     /\ \/ /\ stats'.queue <= Capacity
                           /\ stats'.total + stats'.queue <= pushed
                        \/ stats'.queue + (popped - stats'.total) >= Modulus
<1>1. ASSUME EngineInv, [Next]_vars, stats' # stats
      PROVE  Honest
  <2>1. PrintStats
    BY <1>1 DEF Next, main, telemetry_thread, vars, telemetryVars, TelemetryUnchanged,
       InstallHandlers, Initialize, LoadObject, Exit, Attach, AttachFails, SpawnTelemetry,
       While, Pop, PopNothing, Count, Analyze, CountBlocked, block_ip, Join, Unload,
       UnloadFails, ReleasePool, TelemetryWhile, ReadTotal, ReadBlocked, SizeLoadWrite,
       Push, signal_handler, Killed
  <2>2. PICK r \in t_line.seen .. popped :
          /\ t_line.write - r <= Capacity
          /\ stats' = [total |-> t_line.total, blocked |-> t_line.blocked,
                       queue |-> (t_line.write - r) % Modulus]
    BY <2>1 DEF PrintStats
  <2>3. /\ stats'.total = t_line.total
        /\ stats'.blocked = t_line.blocked
        /\ stats'.queue = (t_line.write - r) % Modulus
    BY <2>2
  <2>4. /\ r <= t_line.write => stats'.queue = t_line.write - r
        /\ r > t_line.write => stats'.queue >= (t_line.write - r) + Modulus
        /\ stats'.queue \in 0 .. Modulus - 1
    BY <1>1, <2>2, <2>3, PrintedQueue
  <2>5. /\ t_line.total \in Nat /\ t_line.seen \in Nat /\ t_line.write \in Nat
        /\ popped \in Int /\ r \in Int /\ pushed \in Nat
        /\ t_line.seen <= r /\ r <= popped
        /\ t_line.total <= t_line.seen /\ t_line.seen <= t_line.write
        /\ t_line.write <= pushed
    BY <1>1, <2>1, <2>2, LenProperties
       DEF EngineInv, TypeOK, Line, LineReadEarlier, PrintStats, popped
  <2>6. stats'.blocked <= g_total_packets
    BY <1>1, <2>3 DEF EngineInv, TypeOK, VerdictsAccounted, LineReadEarlier, Line
  <2>7. CASE r <= t_line.write
    <3>1. stats'.queue <= Capacity /\ stats'.total + stats'.queue <= pushed
      BY <2>2, <2>3, <2>4, <2>5, <2>7, EngineAssumption, SMT
    <3>2. QED
      BY <2>6, <3>1
  <2>8. CASE r > t_line.write
    <3>1. stats'.queue + (popped - stats'.total) >= Modulus
      BY <2>3, <2>4, <2>5, <2>8, EngineAssumption, SMT
    <3>2. QED
      BY <2>6, <3>1
  <2>9. QED
    BY <2>5, <2>7, <2>8, SMT
<1>2. EngineInv /\ [Next]_vars => [stats' # stats => Honest]_vars
  BY <1>1
<1>3. QED
  BY <1>2, EngineInvariant, PTL DEF Spec, StatsHonest

-----------------------------------------------------------------------------
(* What a signal does.  The steps of the other thread and from outside     *)
(* leave main() where it is, or end it.                                    *)
LEMMA OnlyMainMoves ==
  ASSUME [Next]_vars, ~main
  PROVE  /\ pc' = pc \/ pc' = "ended"
         /\ g_running' => g_running
         /\ pc' # "ended" => t_pc' = t_pc \/ (t_pc \notin {"unborn", "gone"} /\ t_pc' \notin {"unborn", "gone"})
<1>1. CASE telemetry_thread
  BY <1>1 DEF telemetry_thread, TelemetryWhile, ReadTotal, ReadBlocked, SizeLoadWrite,
     PrintStats, TelemetryUnchanged
<1>2. CASE Push
  BY <1>2 DEF Push, telemetryVars
<1>3. CASE signal_handler
  BY <1>3 DEF signal_handler, telemetryVars
<1>4. CASE Killed
  BY <1>4 DEF Killed, Exit
<1>5. CASE UNCHANGED vars
  BY <1>5 DEF vars, telemetryVars
<1>6. QED
  BY <1>1, <1>2, <1>3, <1>4, <1>5 DEF Next

LEMMA JoinPreserved == JoinReturns /\ [Next]_vars => JoinReturns'
<1>. SUFFICES ASSUME JoinReturns, [Next]_vars PROVE JoinReturns'
  OBVIOUS
<1>1. CASE ~main
  BY <1>1, OnlyMainMoves DEF JoinReturns
<1>2. CASE InstallHandlers \/ Initialize \/ LoadObject \/ Attach \/ AttachFails \/ SpawnTelemetry
  BY <1>2 DEF InstallHandlers, Initialize, LoadObject, Attach, AttachFails, SpawnTelemetry,
     Exit, JoinReturns
<1>3. CASE While \/ Pop \/ PopNothing \/ Count \/ Analyze \/ CountBlocked \/ block_ip
  BY <1>3 DEF While, Pop, PopNothing, Count, Analyze, CountBlocked, block_ip,
     telemetryVars, JoinReturns
<1>4. CASE Join \/ Unload \/ UnloadFails \/ ReleasePool
  BY <1>4 DEF Join, Unload, UnloadFails, ReleasePool, Exit, JoinReturns
<1>5. QED
  BY <1>1, <1>2, <1>3, <1>4 DEF main

(* join() waits for a thread that exists and will see g_running off.       *)
THEOREM JoinIsSafe == Spec => []JoinReturns
<1>1. Init => JoinReturns
  BY DEF Init, JoinReturns
<1>2. QED
  BY <1>1, JoinPreserved, PTL DEF Spec

LEMMA StoppedPreserved == Stopped /\ [Next]_vars => Stopped'
<1>. SUFFICES ASSUME ~g_running, pc # "pop", [Next]_vars PROVE ~g_running' /\ pc' # "pop"
  BY DEF Stopped
<1>1. CASE ~main
  BY <1>1, OnlyMainMoves
<1>2. CASE main
  BY <1>2 DEF main, InstallHandlers, Initialize, LoadObject, Attach, AttachFails,
     SpawnTelemetry, Exit, While, Pop, PopNothing, Count, Analyze, CountBlocked, block_ip,
     Join, Unload, UnloadFails, ReleasePool
<1>3. QED
  BY <1>1, <1>2

(* The processing loop takes at most one more packet after the signal.     *)
THEOREM StopsForGood == Spec => StopStaysStopped
BY StoppedPreserved, PTL DEF Spec, StopStaysStopped

-----------------------------------------------------------------------------
(* The vector loops' indices.                                              *)
LEMMA ChunksAre ==
  ASSUME NEW length \in Nat, Lanes <= length, length < Word
  PROVE  Chunks(length) = {i \in 0 .. length - Lanes : i % Lanes = 0}
<1>1. length - Lanes \in 0 .. Word - 1
  BY DetectionAssumption
<1>2. (length - Lanes) % Word = length - Lanes
  BY <1>1, DetectionAssumption
<1>3. QED
  BY <1>2 DEF Chunks, Minus

(* A number is a multiple of m and a remainder less than m.                *)
LEMMA Split ==
  ASSUME NEW m \in Nat \ {0}, NEW a \in Nat
  PROVE  /\ (a \div m) \in Nat /\ (a % m) \in 0 .. m - 1
         /\ a = (a \div m) * m + (a % m)
BY SMT

(* No multiple of m lies strictly between -m and m but 0.                  *)
LEMMA OnlyZeroBetween ==
  ASSUME NEW m \in Nat \ {0}, NEW n \in Int, n * m < m, -m < n * m
  PROVE  n = 0
<1>1. n >= 1 => n * m >= m
  BY SMT
<1>2. n <= -1 => n * m <= -m
  BY SMT
<1>3. QED
  BY <1>1, <1>2, SMT

(* A multiple of m leaves no remainder.                                    *)
LEMMA MultipleHasNoRest ==
  ASSUME NEW m \in Nat \ {0}, NEW k \in Nat
  PROVE  (k * m) % m = 0
<1>. DEFINE a == k * m
            q == a \div m
            r == a % m
<1>1. a \in Nat
  BY SMT
<1>2. q \in Nat /\ r \in 0 .. m - 1 /\ a = q * m + r
  BY <1>1, Split
<1>3. (k - q) * m = r /\ k - q \in Int
  BY <1>1, <1>2, SMT
<1>4. k - q = 0
  BY <1>2, <1>3, OnlyZeroBetween, SMT
<1>5. QED
  BY <1>2, <1>3, <1>4, SMT

(* Sample i lies in the chunk that starts at the last multiple of Lanes up *)
(* to i, and in no other.                                                  *)
LEMMA ChunkOf ==
  ASSUME NEW i \in Nat
  PROVE  \E c \in 0 .. i :
           /\ c % Lanes = 0 /\ i - c \in 0 .. Lanes - 1
           /\ \A d \in 0 .. i : d % Lanes = 0 /\ i - d \in 0 .. Lanes - 1 => d = c
           /\ \A d \in Nat : d % Lanes = 0 /\ i < d + Lanes => c <= d
<1>. DEFINE k == i \div Lanes
            c == k * Lanes
<1>0. Lanes \in Nat \ {0}
  BY DetectionAssumption
<1>1. k \in Nat /\ c \in Nat /\ i - c \in 0 .. Lanes - 1
  <2>1. k \in Nat /\ (i % Lanes) \in 0 .. Lanes - 1 /\ i = c + (i % Lanes)
    BY <1>0, Split
  <2>2. c \in Nat
    BY <1>0, <2>1, SMT
  <2>. HIDE DEF c
  <2>3. QED
    BY <1>0, <2>1, <2>2
<1>2. c % Lanes = 0
  BY <1>0, <1>1, MultipleHasNoRest
<1>3. ASSUME NEW d \in Nat, d % Lanes = 0, i < d + Lanes
      PROVE  /\ c <= d
             /\ d <= i => d = c
  <2>. DEFINE n == d \div Lanes
  <2>1. n \in Nat /\ d = n * Lanes
    BY <1>0, <1>3, Split, SMT
  <2>2. (n - k) * Lanes = d - c /\ n - k \in Int
    BY <1>0, <1>1, <2>1, SMT
  <2>3. n - k <= -1 => (n - k) * Lanes <= -Lanes
    BY <1>0, <2>2, SMT
  <2>4. n - k >= 1 => (n - k) * Lanes >= Lanes
    BY <1>0, <2>2, SMT
  <2>. HIDE DEF n, c, k
  <2>5. n - k >= 0
    BY <1>0, <1>1, <1>3, <2>1, <2>2, <2>3
  <2>6. d <= i => n - k = 0
    BY <1>0, <1>1, <1>3, <2>1, <2>2, <2>4, <2>5
  <2>7. (n - k = 0) => d = c
    <3>1. 0 * Lanes = 0
      BY <1>0
    <3>2. QED
      BY <1>1, <2>2, <3>1
  <2>8. c <= d
    <3>1. n - k >= 1 => c <= d
      BY <1>0, <1>1, <2>2, <2>4
    <3>2. QED
      BY <1>1, <2>1, <2>2, <2>5, <2>7, <3>1
  <2>9. QED
    BY <2>6, <2>7, <2>8
<1>. HIDE DEF c, k
<1>4. c \in 0 .. i
  BY <1>1
<1>5. ASSUME NEW d \in 0 .. i, d % Lanes = 0, i - d \in 0 .. Lanes - 1 PROVE d = c
  BY <1>0, <1>3, <1>5
<1>6. \A d \in Nat : d % Lanes = 0 /\ i < d + Lanes => c <= d
  BY <1>3
<1>7. QED
  BY <1>1, <1>2, <1>4, <1>5, <1>6

(* calculate_mean(), calculate_variance() and dot_product() add each       *)
(* sample's term once, in one lane of one chunk or with the rest, and read *)
(* nothing past the end: for any number of samples from one vector up, any *)
(* width of the vectors, and a size_t that holds the number.               *)
THEOREM EachSampleOnce ==
  ASSUME NEW length \in Nat, Lanes <= length, length < Word
  PROVE  /\ \A c \in Chunks(length), l \in 0 .. Lanes - 1 : c + l \in 0 .. length - 1
         /\ \A i \in 0 .. length - 1 :
              LET Taken == {x \in Chunks(length) \X (0 .. Lanes - 1) : x[1] + x[2] = i}
              IN  IF i \in Rest(length) THEN Taken = {} ELSE \E x : Taken = {x}
<1>0. Lanes \in Nat \ {0}
  BY DetectionAssumption
<1>1. Chunks(length) = {i \in 0 .. length - Lanes : i % Lanes = 0}
  BY ChunksAre
<1>2. ASSUME NEW c \in Chunks(length), NEW l \in 0 .. Lanes - 1
      PROVE  c + l \in 0 .. length - 1
  BY <1>0, <1>1
<1>3. ASSUME NEW i \in 0 .. length - 1, i \in Rest(length),
             NEW x \in Chunks(length) \X (0 .. Lanes - 1)
      PROVE  x[1] + x[2] # i
  <2>1. i >= x[1] + Lanes /\ x[1] \in Int /\ x[2] \in 0 .. Lanes - 1
    BY <1>1, <1>3 DEF Rest
  <2>2. QED
    BY <1>0, <2>1
<1>4. ASSUME NEW i \in 0 .. length - 1, i \notin Rest(length)
      PROVE  \E x : {y \in Chunks(length) \X (0 .. Lanes - 1) : y[1] + y[2] = i} = {x}
  <2>0. i \in Nat
    OBVIOUS
  <2>1. PICK c \in 0 .. i :
           /\ c % Lanes = 0 /\ i - c \in 0 .. Lanes - 1
           /\ \A d \in 0 .. i : d % Lanes = 0 /\ i - d \in 0 .. Lanes - 1 => d = c
           /\ \A d \in Nat : d % Lanes = 0 /\ i < d + Lanes => c <= d
    BY <2>0, ChunkOf
  <2>2. PICK d \in Chunks(length) : ~(i >= d + Lanes)
    BY <1>4 DEF Rest
  <2>3. d \in 0 .. length - Lanes /\ d % Lanes = 0 /\ i < d + Lanes
    BY <1>0, <1>1, <2>2
  <2>4. c \in Chunks(length)
    <3>1. d \in Nat /\ c <= d
      BY <1>0, <2>1, <2>3
    <3>2. c \in 0 .. length - Lanes
      BY <1>0, <2>3, <3>1
    <3>3. QED
      BY <1>1, <2>1, <3>2
  <2>5. ASSUME NEW y \in Chunks(length) \X (0 .. Lanes - 1), y[1] + y[2] = i
        PROVE  y = <<c, i - c>>
    <3>1. y[1] \in 0 .. length - Lanes /\ y[1] % Lanes = 0 /\ y[2] \in 0 .. Lanes - 1
          /\ y = <<y[1], y[2]>>
      BY <1>1
    <3>2. y[1] \in 0 .. i /\ i - y[1] \in 0 .. Lanes - 1 /\ y[2] = i - y[1]
      BY <1>0, <2>5, <3>1
    <3>3. y[1] = c
      BY <2>1, <3>1, <3>2
    <3>4. QED
      BY <3>1, <3>2, <3>3
  <2>6. <<c, i - c>> \in Chunks(length) \X (0 .. Lanes - 1) /\ c + (i - c) = i
    BY <2>1, <2>4
  <2>7. {y \in Chunks(length) \X (0 .. Lanes - 1) : y[1] + y[2] = i} = {<<c, i - c>>}
    BY <2>5, <2>6
  <2>8. QED
    BY <2>7
<1>5. QED
  BY <1>2, <1>3, <1>4

-----------------------------------------------------------------------------
(* Sums over finite sets.  SumFunctionOnSet is a fold: a recursive function *)
(* on the subsets of S, which takes out a chosen element each time.  That  *)
(* it satisfies its recursion, and all that follows from it, is shown for  *)
(* a least subset for which it would not.                                  *)
Chosen(s) == CHOOSE x \in s : TRUE
SumEquation(g, f, S) ==
  g = [t \in SUBSET S |-> IF t = {} THEN 0 ELSE f[Chosen(t)] + g[t \ {Chosen(t)}]]

LEMMA SumIsChosen ==
  ASSUME NEW f, NEW S
  PROVE  SumFunctionOnSet(f, S) = (CHOOSE g : SumEquation(g, f, S))[S]
BY DEF SumFunctionOnSet, FoldFunctionOnSet, MapThenFoldSet, SumEquation, Chosen

LEMMA LeastSubset ==
  ASSUME NEW S, IsFiniteSet(S), NEW T \in SUBSET (SUBSET S), T # {}
  PROVE  \E m \in T : \A k \in T : ~(k \subseteq m /\ k # m)
<1>1. IsWellFoundedOn(StrictSubsetOrdering(S), FiniteSubsetsOf(S))
  BY FS_StrictSubsetOrderingWellFounded
<1>2. FiniteSubsetsOf(S) = SUBSET S
  BY FS_FiniteSubsetsOfFinite
<1>3. PICK m \in T : \A k \in T : ~(<<k, m>> \in StrictSubsetOrdering(S))
  BY <1>1, <1>2, WFMin
<1>4. QED
  BY <1>3 DEF StrictSubsetOrdering

(* Induction over the subsets of a finite set, with the set G of those for *)
(* which a fact holds in place of the fact.                                *)
LEMMA SubsetInduction ==
  ASSUME NEW S, IsFiniteSet(S), NEW G,
         \A m \in SUBSET S : (\A t \in SUBSET m : t # m => t \in G) => m \in G
  PROVE  S \in G
<1>. DEFINE Bad == {s \in SUBSET S : s \notin G}
<1>1. SUFFICES ASSUME Bad # {} PROVE FALSE
  OBVIOUS
<1>2. Bad \in SUBSET (SUBSET S)
  OBVIOUS
<1>3. PICK m \in Bad : \A k \in Bad : ~(k \subseteq m /\ k # m)
  <2>. HIDE DEF Bad
  <2>1. QED
    BY <1>1, <1>2, LeastSubset
<1>4. \A t \in SUBSET m : t # m => t \in G
  BY <1>3
<1>5. QED
  BY <1>3, <1>4

LEMMA SumRecursion ==
  ASSUME NEW f, NEW S, IsFiniteSet(S)
  PROVE  SumFunctionOnSet(f, S) =
           IF S = {} THEN 0 ELSE f[Chosen(S)] + SumFunctionOnSet(f, S \ {Chosen(S)})
<1>. DEFINE sum(s) == SumFunctionOnSet(f, s)
            next(s) == IF s = {} THEN 0 ELSE f[Chosen(s)] + sum(s \ {Chosen(s)})
            only(s) == \A g : SumEquation(g, f, s) => g = [t \in SUBSET s |-> sum(t)]
            Good(s) == sum(s) = next(s) /\ only(s)
            G == {s \in SUBSET S : Good(s)}
<1>0. \A s : s # {} => Chosen(s) \in s
  BY DEF Chosen
<1>1. ASSUME NEW m \in SUBSET S, \A t \in SUBSET m : t # m => t \in G PROVE m \in G
  <2>. DEFINE h == [t \in SUBSET m |-> IF t = m THEN next(m) ELSE sum(t)]
  <2>0. \A t \in SUBSET m : t # m => Good(t)
    BY <1>1
  <2>1. SumEquation(h, f, m)
    <3>1. ASSUME NEW t \in SUBSET m
          PROVE  h[t] = IF t = {} THEN 0 ELSE f[Chosen(t)] + h[t \ {Chosen(t)}]
      <4>1. t # {} => h[t \ {Chosen(t)}] = sum(t \ {Chosen(t)})
        BY <1>0
      <4>2. h[t] = next(t)
        BY <2>0
      <4>. HIDE DEF h
      <4>3. QED
        BY <4>1, <4>2
    <3>2. QED
      BY <3>1 DEF SumEquation
  <2>2. ASSUME NEW g, SumEquation(g, f, m) PROVE g = h
    <3>1. ASSUME NEW t \in SUBSET m, t # m PROVE g[t] = sum(t)
      <4>. DEFINE r == [u \in SUBSET t |-> g[u]]
      <4>1. SumEquation(r, f, t)
        <5>1. \A u \in SUBSET t :
                g[u] = IF u = {} THEN 0 ELSE f[Chosen(u)] + g[u \ {Chosen(u)}]
          BY <2>2 DEF SumEquation
        <5>2. QED
          BY <5>1 DEF SumEquation
      <4>2. r = [u \in SUBSET t |-> sum(u)]
        BY <2>0, <3>1, <4>1
      <4>3. QED
        BY <4>2
    <3>2. g[m] = next(m)
      <4>1. g[m] = IF m = {} THEN 0 ELSE f[Chosen(m)] + g[m \ {Chosen(m)}]
        BY <2>2 DEF SumEquation
      <4>2. m # {} => g[m \ {Chosen(m)}] = sum(m \ {Chosen(m)})
        BY <1>0, <3>1
      <4>3. QED
        BY <4>1, <4>2
    <3>3. g = [t \in SUBSET m |-> g[t]]
      BY <2>2 DEF SumEquation
    <3>4. QED
      BY <3>1, <3>2, <3>3
  <2>3. sum(m) = next(m)
    <3>1. (CHOOSE g : SumEquation(g, f, m)) = h
      BY <2>1, <2>2
    <3>2. QED
      BY <3>1, SumIsChosen
  <2>4. h = [t \in SUBSET m |-> sum(t)]
    BY <2>3
  <2>5. Good(m)
    BY <2>2, <2>3, <2>4
  <2>6. QED
    BY <2>5
<1>2. S \in G
  <2>. HIDE DEF G
  <2>1. QED
    BY <1>1, SubsetInduction
<1>3. QED
  BY <1>2

LEMMA SumEmpty == \A f : SumFunctionOnSet(f, {}) = 0
<1>1. ASSUME NEW f PROVE SumFunctionOnSet(f, {}) = 0
  BY FS_EmptySet, SumRecursion
<1>2. QED
  BY <1>1

(* Any element may be taken out first.                                     *)
LEMMA SumRemove ==
  ASSUME NEW f, NEW S, IsFiniteSet(S), \A y \in S : f[y] \in Int
  PROVE  /\ SumFunctionOnSet(f, S) \in Int
         /\ \A x \in S : SumFunctionOnSet(f, S) = f[x] + SumFunctionOnSet(f, S \ {x})
<1>. DEFINE sum(s) == SumFunctionOnSet(f, s)
            Good(s) == sum(s) \in Int /\ \A x \in s : sum(s) = f[x] + sum(s \ {x})
            G == {s \in SUBSET S : Good(s)}
<1>1. ASSUME NEW m \in SUBSET S, \A t \in SUBSET m : t # m => t \in G PROVE m \in G
  <2>. DEFINE y == Chosen(m)
  <2>1. sum(m) = IF m = {} THEN 0 ELSE f[y] + sum(m \ {y})
    <3>1. IsFiniteSet(m)
      BY FS_Subset
    <3>2. QED
      BY <3>1, SumRecursion
  <2>2. CASE m = {}
    BY <2>1, <2>2
  <2>3. CASE m # {}
    <3>1. y \in m
      BY <2>3 DEF Chosen
    <3>. HIDE DEF y
    <3>2. Good(m \ {y})
      BY <1>1, <3>1
    <3>3. sum(m) = f[y] + sum(m \ {y}) /\ sum(m) \in Int
      BY <2>1, <2>3, <3>1, <3>2
    <3>4. ASSUME NEW x \in m, x # y PROVE sum(m) = f[x] + sum(m \ {x})
      <4>1. sum(m \ {y}) = f[x] + sum((m \ {y}) \ {x})
        BY <3>2, <3>4
      <4>2. Good(m \ {x}) /\ Good((m \ {y}) \ {x})
        BY <1>1, <3>1
      <4>3. sum(m \ {x}) = f[y] + sum((m \ {x}) \ {y})
        BY <3>1, <3>4, <4>2
      <4>4. sum((m \ {x}) \ {y}) = sum((m \ {y}) \ {x})
        <5>1. (m \ {x}) \ {y} = (m \ {y}) \ {x}
          OBVIOUS
        <5>2. QED
          BY <5>1
      <4>5. sum((m \ {y}) \ {x}) \in Int /\ f[x] \in Int /\ f[y] \in Int
        BY <3>1, <4>2
      <4>6. sum(m) = f[y] + (f[x] + sum((m \ {y}) \ {x}))
        BY <3>3, <4>1
      <4>7. sum(m \ {x}) = f[y] + sum((m \ {y}) \ {x})
        BY <4>3, <4>4
      <4>8. QED
        BY <4>5, <4>6, <4>7
    <3>5. QED
      BY <3>3, <3>4
  <2>4. QED
    BY <2>2, <2>3
<1>2. S \in G
  <2>. HIDE DEF G
  <2>1. QED
    BY <1>1, SubsetInduction
<1>3. QED
  BY <1>2

(* The sum over two sets that share nothing.                               *)
LEMMA SumDisjoint ==
  ASSUME NEW f, NEW A, NEW B, IsFiniteSet(A), IsFiniteSet(B), A \cap B = {},
         \A y \in A \cup B : f[y] \in Int
  PROVE  SumFunctionOnSet(f, A \cup B) = SumFunctionOnSet(f, A) + SumFunctionOnSet(f, B)
<1>. DEFINE sum(s) == SumFunctionOnSet(f, s)
            G == {s \in SUBSET A : sum(s \cup B) = sum(s) + sum(B)}
<1>1. ASSUME NEW m \in SUBSET A, \A t \in SUBSET m : t # m => t \in G PROVE m \in G
  <2>1. CASE m = {}
    <3>1. sum(B) \in Int
      BY SumRemove
    <3>2. m \cup B = B
      BY <2>1
    <3>3. QED
      BY <2>1, <3>1, <3>2, SumEmpty
  <2>2. CASE m # {}
    <3>1. PICK x \in m : TRUE
      BY <2>2
    <3>2. IsFiniteSet(m) /\ IsFiniteSet(m \ {x}) /\ IsFiniteSet(m \cup B)
      <4>1. IsFiniteSet(m)
        BY FS_Subset
      <4>2. QED
        BY <4>1, FS_Union, FS_RemoveElement
    <3>3. sum(m) = f[x] + sum(m \ {x}) /\ sum(m \ {x}) \in Int /\ sum(B) \in Int /\ f[x] \in Int
      <4>1. \A y \in m : f[y] \in Int
        OBVIOUS
      <4>2. \A y \in m \ {x} : f[y] \in Int
        OBVIOUS
      <4>3. QED
        BY <3>2, <4>1, <4>2, SumRemove
    <3>4. sum(m \cup B) = f[x] + sum((m \cup B) \ {x})
      <4>1. \A y \in m \cup B : f[y] \in Int
        OBVIOUS
      <4>2. QED
        BY <3>2, <4>1, SumRemove
    <3>5. (m \cup B) \ {x} = (m \ {x}) \cup B
      OBVIOUS
    <3>6. sum((m \ {x}) \cup B) = sum(m \ {x}) + sum(B)
      BY <1>1
    <3>7. sum(m \cup B) = f[x] + (sum(m \ {x}) + sum(B))
      BY <3>4, <3>5, <3>6
    <3>8. sum(m \cup B) = sum(m) + sum(B)
      BY <3>3, <3>7
    <3>9. QED
      BY <3>8
  <2>3. QED
    BY <2>1, <2>2
<1>2. A \in G
  <2>. HIDE DEF G
  <2>1. QED
    BY <1>1, SubsetInduction
<1>3. QED
  BY <1>2

(* The same terms under other names: h renames the indices A of f to the   *)
(* indices B of g.                                                         *)
Renames(h, f, A, g, B) ==
  /\ \A c, d \in A : h[c] = h[d] => c = d
  /\ \A c \in A : f[c] \in Int /\ g[h[c]] = f[c]
  /\ B = {h[c] : c \in A}

LEMMA SumRenamed ==
  ASSUME NEW f, NEW g, NEW h, NEW A, NEW B, IsFiniteSet(A), Renames(h, f, A, g, B)
  PROVE  IsFiniteSet(B) /\ SumFunctionOnSet(f, A) = SumFunctionOnSet(g, B)
<1>. USE DEF Renames
<1>. DEFINE T(s) == {h[c] : c \in s}
            G == {s \in SUBSET A : /\ IsFiniteSet(T(s))
                                   /\ SumFunctionOnSet(f, s) = SumFunctionOnSet(g, T(s))}
<1>1. ASSUME NEW m \in SUBSET A, \A t \in SUBSET m : t # m => t \in G PROVE m \in G
  <2>1. CASE m = {}
    <3>1. T(m) = {}
      BY <2>1
    <3>2. QED
      BY <2>1, <3>1, SumEmpty, FS_EmptySet
  <2>2. CASE m # {}
    <3>1. PICK x \in m : TRUE
      BY <2>2
    <3>2. IsFiniteSet(m)
      BY FS_Subset
    <3>3. m \ {x} \in G
      BY <1>1
    <3>4. T(m) = T(m \ {x}) \cup {h[x]} /\ h[x] \in T(m)
      BY <3>1
    <3>5. T(m) \ {h[x]} = T(m \ {x})
      <4>1. \A c \in m : h[c] = h[x] => c = x
        OBVIOUS
      <4>2. QED
        BY <4>1
    <3>6. IsFiniteSet(T(m))
      <4>1. IsFiniteSet(T(m \ {x}))
        BY <3>3
      <4>2. IsFiniteSet(T(m \ {x}) \cup {h[x]})
        <5>. HIDE DEF T
        <5>1. QED
          BY <4>1, FS_AddElement
      <4>3. QED
        BY <3>4, <4>2
    <3>7. SumFunctionOnSet(f, m) = f[x] + SumFunctionOnSet(f, m \ {x})
      <4>1. \A c \in m : f[c] \in Int
        OBVIOUS
      <4>. HIDE DEF T, G
      <4>2. QED
        BY <3>2, <4>1, SumRemove
    <3>8. \A y \in T(m) : g[y] \in Int
      OBVIOUS
    <3>9. SumFunctionOnSet(g, T(m)) = g[h[x]] + SumFunctionOnSet(g, T(m) \ {h[x]})
      <4>1. h[x] \in T(m)
        OBVIOUS
      <4>. HIDE DEF T, G
      <4>2. QED
        BY <3>6, <3>8, <4>1, SumRemove
    <3>10. QED
      <4>. HIDE DEF T
      <4>1. SumFunctionOnSet(f, m \ {x}) = SumFunctionOnSet(g, T(m \ {x}))
        BY <3>3
      <4>2. g[h[x]] = f[x]
        BY <3>1
      <4>3. SumFunctionOnSet(f, m) = SumFunctionOnSet(g, T(m))
        BY <3>5, <3>7, <3>9, <4>1, <4>2
      <4>4. QED
        BY <3>6, <4>3
  <2>3. QED
    BY <2>1, <2>2
<1>2. A \in G
  <2>. HIDE DEF G
  <2>1. QED
    BY <1>1, SubsetInduction
<1>3. QED
  BY <1>2

(* A sum of sums over parts that share nothing.                            *)
Parts(part, sums, I, f, all) ==
  /\ \A i \in I : /\ IsFiniteSet(part[i])
                  /\ \A x \in part[i] : f[x] \in Int
                  /\ sums[i] = SumFunctionOnSet(f, part[i])
  /\ \A i, j \in I : i # j => part[i] \cap part[j] = {}
  /\ all = UNION {part[i] : i \in I}

LEMMA SumOfSums ==
  ASSUME NEW f, NEW I, NEW part, NEW sums, NEW all, IsFiniteSet(I),
         Parts(part, sums, I, f, all)
  PROVE  IsFiniteSet(all) /\ SumFunctionOnSet(sums, I) = SumFunctionOnSet(f, all)
<1>. USE DEF Parts
<1>. DEFINE U(s) == UNION {part[i] : i \in s}
            Good(s) == IsFiniteSet(U(s)) /\ SumFunctionOnSet(sums, s) = SumFunctionOnSet(f, U(s))
            G == {s \in SUBSET I : Good(s)}
<1>0. \A i \in I : sums[i] \in Int
  BY SumRemove
<1>1. ASSUME NEW m \in SUBSET I, \A t \in SUBSET m : t # m => t \in G PROVE m \in G
  <2>1. CASE m = {}
    <3>1. U(m) = {}
      BY <2>1
    <3>2. QED
      BY <2>1, <3>1, SumEmpty, FS_EmptySet
  <2>2. CASE m # {}
    <3>1. PICK x \in m : TRUE
      BY <2>2
    <3>2. IsFiniteSet(m)
      BY FS_Subset
    <3>3. Good(m \ {x})
      BY <1>1
    <3>4. U(m) = part[x] \cup U(m \ {x})
      BY <3>1
    <3>5. part[x] \cap U(m \ {x}) = {}
      OBVIOUS
    <3>6. \A y \in part[x] \cup U(m \ {x}) : f[y] \in Int
      OBVIOUS
    <3>7. IsFiniteSet(part[x]) /\ IsFiniteSet(U(m \ {x}))
      BY <3>3
    <3>8. IsFiniteSet(U(m))
      <4>1. IsFiniteSet(part[x] \cup U(m \ {x}))
        <5>. HIDE DEF U, G
        <5>1. QED
          BY <3>7, FS_Union
      <4>2. QED
        BY <3>4, <4>1
    <3>9. SumFunctionOnSet(f, part[x] \cup U(m \ {x}))
            = SumFunctionOnSet(f, part[x]) + SumFunctionOnSet(f, U(m \ {x}))
      <4>. HIDE DEF U, G
      <4>1. QED
        BY <3>5, <3>6, <3>7, SumDisjoint
    <3>10. SumFunctionOnSet(sums, m) = sums[x] + SumFunctionOnSet(sums, m \ {x})
      <4>1. \A i \in m : sums[i] \in Int
        BY <1>0
      <4>. HIDE DEF U, G
      <4>2. QED
        BY <3>2, <4>1, SumRemove
    <3>11. sums[x] = SumFunctionOnSet(f, part[x])
      OBVIOUS
    <3>12. SumFunctionOnSet(sums, m \ {x}) = SumFunctionOnSet(f, U(m \ {x}))
      BY <3>3
    <3>13. SumFunctionOnSet(sums, m) = SumFunctionOnSet(f, U(m))
      BY <3>4, <3>9, <3>10, <3>11, <3>12
    <3>14. QED
      BY <3>8, <3>13
  <2>3. QED
    BY <2>1, <2>2
<1>2. I \in G
  <2>. HIDE DEF G
  <2>1. QED
    BY <1>1, SubsetInduction
<1>3. QED
  BY <1>2

(* A sum of terms a * x + b * y + c.                                       *)
LEMMA SumLinear ==
  ASSUME NEW S, IsFiniteSet(S), NEW x, NEW y, NEW t,
         NEW a \in Int, NEW b \in Int, NEW c \in Int,
         \A i \in S : x[i] \in Int /\ y[i] \in Int /\ t[i] = a * x[i] + b * y[i] + c
  PROVE  SumFunctionOnSet(t, S) =
           a * SumFunctionOnSet(x, S) + b * SumFunctionOnSet(y, S) + c * Cardinality(S)
<1>. DEFINE X(s) == SumFunctionOnSet(x, s)
            Y(s) == SumFunctionOnSet(y, s)
            G == {s \in SUBSET S :
                    SumFunctionOnSet(t, s) = a * X(s) + b * Y(s) + c * Cardinality(s)}
<1>1. ASSUME NEW m \in SUBSET S, \A u \in SUBSET m : u # m => u \in G PROVE m \in G
  <2>1. CASE m = {}
    <3>1. SumFunctionOnSet(t, m) = 0 /\ X(m) = 0 /\ Y(m) = 0 /\ Cardinality(m) = 0
      BY <2>1, SumEmpty, FS_EmptySet
    <3>2. QED
      BY <3>1
  <2>2. CASE m # {}
    <3>1. PICK i \in m : TRUE
      BY <2>2
    <3>2. IsFiniteSet(m) /\ IsFiniteSet(m \ {i}) /\ Cardinality(m \ {i}) = Cardinality(m) - 1
          /\ Cardinality(m) \in Int
      <4>1. IsFiniteSet(m)
        BY FS_Subset
      <4>2. QED
        BY <3>1, <4>1, FS_RemoveElement, FS_CardinalityType
    <3>3. X(m) = x[i] + X(m \ {i}) /\ X(m \ {i}) \in Int
      <4>1. \A j \in m : x[j] \in Int
        OBVIOUS
      <4>2. \A j \in m \ {i} : x[j] \in Int
        OBVIOUS
      <4>3. QED
        BY <3>1, <3>2, <4>1, <4>2, SumRemove
    <3>4. Y(m) = y[i] + Y(m \ {i}) /\ Y(m \ {i}) \in Int
      <4>1. \A j \in m : y[j] \in Int
        OBVIOUS
      <4>2. \A j \in m \ {i} : y[j] \in Int
        OBVIOUS
      <4>3. QED
        BY <3>1, <3>2, <4>1, <4>2, SumRemove
    <3>5. SumFunctionOnSet(t, m) = t[i] + SumFunctionOnSet(t, m \ {i})
      <4>1. \A j \in m : t[j] \in Int
        OBVIOUS
      <4>2. QED
        BY <3>1, <3>2, <4>1, SumRemove
    <3>6. x[i] \in Int /\ y[i] \in Int /\ t[i] = a * x[i] + b * y[i] + c
      OBVIOUS
    <3>7. SumFunctionOnSet(t, m \ {i}) =
            a * X(m \ {i}) + b * Y(m \ {i}) + c * Cardinality(m \ {i})
      BY <1>1
    <3>8. SumFunctionOnSet(t, m) = a * X(m) + b * Y(m) + c * Cardinality(m)
      <4>. DEFINE p == X(m \ {i})
                  q == Y(m \ {i})
                  n == Cardinality(m)
      <4>1. p \in Int /\ q \in Int /\ n \in Int
        BY <3>2, <3>3, <3>4
      <4>2. SumFunctionOnSet(t, m) = (a * x[i] + b * y[i] + c) + (a * p + b * q + c * (n - 1))
        BY <3>2, <3>5, <3>6, <3>7
      <4>3. X(m) = x[i] + p /\ Y(m) = y[i] + q
        BY <3>3, <3>4
      <4>. HIDE DEF p, q, n
      <4>4. (a * x[i] + b * y[i] + c) + (a * p + b * q + c * (n - 1))
              = a * (x[i] + p) + b * (y[i] + q) + c * n
        BY <3>6, <4>1, SMT
      <4>5. QED
        BY <4>2, <4>3, <4>4 DEF n
    <3>9. QED
      BY <3>8
  <2>3. QED
    BY <2>1, <2>2
<1>2. S \in G
  <2>. HIDE DEF G
  <2>1. QED
    BY <1>1, SubsetInduction
<1>3. QED
  BY <1>2

(* A vector loop with its rest adds up all samples' terms: its lanes take  *)
(* apart what the rest leaves.                                             *)
LEMMA TotalIsSum ==
  ASSUME NEW length \in Nat, length < Word, NEW term,
         \A i \in 0 .. length - 1 : term[i] \in Int
  PROVE  Total(term, length) = SumFunctionOnSet(term, 0 .. length - 1)
<1>0. Lanes \in Nat \ {0}
  BY DetectionAssumption
<1>1. CASE length < Lanes
  BY <1>1 DEF Total
<1>2. CASE Lanes <= length
  <2>. DEFINE chunks == Chunks(length)
              rest == Rest(length)
              lanes == 0 .. Lanes - 1
              all == 0 .. length - 1
              At(l) == {c + l : c \in chunks}
              part == [l \in lanes |-> At(l)]
              sums == [l \in lanes |-> Lane(term, length, l)]
              taken == UNION {part[l] : l \in lanes}
  <2>1. /\ \A c \in chunks, l \in lanes : c + l \in all
        /\ \A i \in all :
             LET Taken == {x \in chunks \X lanes : x[1] + x[2] = i}
             IN  IF i \in rest THEN Taken = {} ELSE \E x : Taken = {x}
    BY <1>2, EachSampleOnce
  <2>2. IsFiniteSet(chunks) /\ IsFiniteSet(lanes) /\ IsFiniteSet(all) /\ IsFiniteSet(rest)
    <3>1. /\ IsFiniteSet(0 .. length - Lanes) /\ IsFiniteSet(0 .. Lanes - 1)
          /\ IsFiniteSet(0 .. length - 1)
      BY <1>0, FS_Interval
    <3>2. chunks \in SUBSET (0 .. length - Lanes) /\ rest \in SUBSET (0 .. length - 1)
      BY <1>2, ChunksAre DEF Rest
    <3>3. QED
      BY <3>1, <3>2, FS_Subset
  <2>3. chunks \subseteq Int
    BY <1>2, ChunksAre
  <2>4. ASSUME NEW l \in lanes
        PROVE  /\ IsFiniteSet(At(l))
               /\ \A x \in At(l) : term[x] \in Int
               /\ Lane(term, length, l) = SumFunctionOnSet(term, At(l))
    <3>. DEFINE f == [c \in chunks |-> term[c + l]]
                h == [c \in chunks |-> c + l]
    <3>1. \A c, d \in chunks : h[c] = h[d] => c = d
      BY <2>3
    <3>2. \A c \in chunks : f[c] \in Int /\ term[h[c]] = f[c]
      BY <2>1
    <3>3. {h[c] : c \in chunks} = At(l)
      OBVIOUS
    <3>4. IsFiniteSet(At(l)) /\ SumFunctionOnSet(f, chunks) = SumFunctionOnSet(term, At(l))
      <4>. HIDE DEF f, h, chunks, At
      <4>1. Renames(h, f, chunks, term, At(l))
        BY <3>1, <3>2, <3>3 DEF Renames
      <4>2. QED
        BY <2>2, <4>1, SumRenamed
    <3>5. Lane(term, length, l) = SumFunctionOnSet(f, chunks)
      BY DEF Lane, SumFunction
    <3>6. \A x \in At(l) : term[x] \in Int
      BY <2>1
    <3>7. QED
      BY <3>4, <3>5, <3>6
  <2>5. ASSUME NEW i \in lanes, NEW j \in lanes, i # j PROVE part[i] \cap part[j] = {}
    <3>1. ASSUME NEW c \in chunks, NEW d \in chunks, c + i = d + j PROVE FALSE
      <4>1. c + i \in all
        BY <2>1
      <4>2. /\ <<c, i>> \in {x \in chunks \X lanes : x[1] + x[2] = c + i}
            /\ <<d, j>> \in {x \in chunks \X lanes : x[1] + x[2] = c + i}
        BY <3>1
      <4>3. <<c, i>> # <<d, j>>
        BY <2>5
      <4>. HIDE DEF chunks, lanes, rest, all
      <4>4. QED
        BY <2>1, <4>1, <4>2, <4>3
    <3>2. QED
      BY <3>1
  <2>6. IsFiniteSet(taken) /\ SumFunctionOnSet(sums, lanes) = SumFunctionOnSet(term, taken)
    <3>1. \A l \in lanes : /\ IsFiniteSet(part[l])
                           /\ \A x \in part[l] : term[x] \in Int
                           /\ sums[l] = SumFunctionOnSet(term, part[l])
      BY <2>4
    <3>2. \A i, j \in lanes : i # j => part[i] \cap part[j] = {}
      BY <2>5
    <3>3. taken = UNION {part[l] : l \in lanes}
      OBVIOUS
    <3>. HIDE DEF part, sums, lanes, taken
    <3>4. Parts(part, sums, lanes, term, taken)
      BY <3>1, <3>2, <3>3 DEF Parts
    <3>5. QED
      BY <2>2, <3>4, SumOfSums
  <2>7. taken = all \ rest
    <3>1. ASSUME NEW l \in lanes, NEW c \in chunks PROVE c + l \in all \ rest
      <4>1. c + l \in all /\ <<c, l>> \in {x \in chunks \X lanes : x[1] + x[2] = c + l}
        BY <2>1
      <4>. HIDE DEF chunks, lanes, rest, all
      <4>2. QED
        BY <2>1, <4>1
    <3>2. ASSUME NEW i \in all \ rest PROVE \E l \in lanes, c \in chunks : c + l = i
      <4>1. PICK x : {y \in chunks \X lanes : y[1] + y[2] = i} = {x}
        <5>. HIDE DEF chunks, lanes, rest, all
        <5>1. QED
          BY <2>1, <3>2
      <4>2. x \in chunks \X lanes /\ x[1] + x[2] = i
        BY <4>1
      <4>3. QED
        BY <4>2
    <3>3. QED
      BY <3>1, <3>2
  <2>8. rest \subseteq all
    BY DEF Rest
  <2>9. SumFunctionOnSet(term, all) = SumFunctionOnSet(term, taken) + SumFunctionOnSet(term, rest)
    <3>1. taken \cap rest = {} /\ taken \cup rest = all
      BY <2>7, <2>8
    <3>2. \A x \in taken \cup rest : term[x] \in Int
      BY <3>1
    <3>. HIDE DEF taken, rest, all
    <3>3. QED
      BY <2>2, <2>6, <3>1, <3>2, SumDisjoint
  <2>10. Total(term, length) = SumFunctionOnSet(sums, lanes) + SumFunctionOnSet(term, rest)
    <3>1. ~(length < Lanes)
      BY <1>0, <1>2
    <3>2. QED
      BY <3>1 DEF Total, SumFunction
  <2>11. QED
    BY <2>6, <2>9, <2>10
<1>3. QED
  BY <1>0, <1>1, <1>2

(* Data that is indexed from 0 in the code and from 1 as a sequence.       *)
LEMMA SumFromZero ==
  ASSUME NEW n \in Nat, NEW f, NEW g, DOMAIN g = 1 .. n,
         \A i \in 0 .. n - 1 : f[i] \in Int /\ g[i + 1] = f[i]
  PROVE  SumFunctionOnSet(f, 0 .. n - 1) = SumFunction(g)
<1>. DEFINE A == 0 .. n - 1
            h == [i \in A |-> i + 1]
<1>1. IsFiniteSet(A)
  BY FS_Interval
<1>2. \A c, d \in A : h[c] = h[d] => c = d
  OBVIOUS
<1>3. \A c \in A : f[c] \in Int /\ g[h[c]] = f[c]
  OBVIOUS
<1>4. {h[c] : c \in A} = 1 .. n
  <2>1. \A i \in 1 .. n : i - 1 \in A /\ h[i - 1] = i
    OBVIOUS
  <2>2. \A c \in A : h[c] \in 1 .. n
    OBVIOUS
  <2>. HIDE DEF h
  <2>3. QED
    BY <2>1, <2>2
<1>5. SumFunctionOnSet(f, A) = SumFunctionOnSet(g, 1 .. n)
  <2>. HIDE DEF A, h
  <2>1. Renames(h, f, A, g, 1 .. n)
    BY <1>2, <1>3, <1>4 DEF Renames
  <2>2. QED
    BY <1>1, <2>1, SumRenamed
<1>6. QED
  BY <1>5 DEF SumFunction

(* calculate_mean() and calculate_variance(), for data of any length that  *)
(* size_t can count.                                                       *)
THEOREM StatisticsAreExact ==
  ASSUME NEW data \in Seq(Int), Len(data) < Word
  PROVE  SumsAgree(data)
<1>. DEFINE n == Len(data)
            all == 0 .. n - 1
            x == [i \in all |-> data[i + 1]]
            xx == [i \in all |-> x[i] * x[i]]
            m == calculate_mean(data)
            d == [i \in all |-> (n * data[i + 1] - m) * (n * data[i + 1] - m)]
            sq == SumFunction(Products(data, data))
<1>1. n \in Nat /\ DOMAIN data = 1 .. n /\ \A i \in 1 .. n : data[i] \in Int
  OBVIOUS
<1>2. \A i \in all : i + 1 \in 1 .. n /\ x[i] = data[i + 1] /\ x[i] \in Int
  BY <1>1
<1>3. IsFiniteSet(all) /\ Cardinality(all) = n
  <2>1. ASSUME NEW k \in Nat PROVE IsFiniteSet(0 .. k - 1) /\ Cardinality(0 .. k - 1) = k
    BY FS_Interval
  <2>2. QED
    BY <1>1, <2>1
<1>4. m = SumFunctionOnSet(x, all)
  <2>1. m = Total(x, n)
    BY DEF calculate_mean
  <2>. HIDE DEF x, m, n
  <2>2. QED
    BY <1>1, <1>2, <2>1, TotalIsSum
<1>5. m = SumFunction(data)
  <2>. HIDE DEF x, m, n
  <2>1. QED
    BY <1>1, <1>2, <1>4, SumFromZero
<1>6. m \in Int
  <2>. HIDE DEF x, m, all
  <2>1. QED
    BY <1>2, <1>3, <1>4, SumRemove
<1>7. /\ \A i \in all : xx[i] = x[i] * x[i] /\ xx[i] \in Int
      /\ sq = SumFunctionOnSet(xx, all) /\ sq \in Int
  <2>1. \A i \in all : xx[i] = x[i] * x[i] /\ xx[i] \in Int
    BY <1>2
  <2>2. /\ DOMAIN Products(data, data) = 1 .. n
        /\ \A i \in all : Products(data, data)[i + 1] = xx[i]
    BY <1>1, <1>2 DEF Products
  <2>. HIDE DEF x, xx, n
  <2>3. sq = SumFunctionOnSet(xx, all)
    <3>. DEFINE g == Products(data, data)
    <3>1. DOMAIN g = 1 .. n /\ \A i \in 0 .. n - 1 : xx[i] \in Int /\ g[i + 1] = xx[i]
      BY <2>1, <2>2
    <3>. HIDE DEF g
    <3>2. SumFunctionOnSet(xx, 0 .. n - 1) = SumFunction(g)
      BY <1>1, <3>1, SumFromZero
    <3>3. QED
      BY <3>2 DEF g
  <2>. HIDE DEF all
  <2>4. SumFunctionOnSet(xx, all) \in Int
    BY <1>3, <2>1, SumRemove
  <2>5. QED
    BY <2>1, <2>3, <2>4
<1>8. \A i \in all : d[i] \in Int /\ d[i] = (n * n) * xx[i] + (-2 * n * m) * x[i] + m * m
  <2>1. ASSUME NEW v \in Int, NEW k \in Int, NEW w \in Int
        PROVE  /\ (k * v - w) * (k * v - w) = (k * k) * (v * v) + (-2 * k * w) * v + w * w
               /\ (k * v - w) * (k * v - w) \in Int
    BY SMT
  <2>2. \A i \in all : d[i] = (n * x[i] - m) * (n * x[i] - m)
    BY <1>2
  <2>. HIDE DEF d, x, xx, m, n
  <2>3. ASSUME NEW i \in all
        PROVE  d[i] \in Int /\ d[i] = (n * n) * xx[i] + (-2 * n * m) * x[i] + m * m
    <3>. DEFINE v == x[i]
    <3>1. v \in Int /\ n \in Int /\ xx[i] = v * v /\ d[i] = (n * v - m) * (n * v - m)
      BY <1>1, <1>2, <1>7, <2>2
    <3>. HIDE DEF v
    <3>2. /\ (n * v - m) * (n * v - m) = (n * n) * (v * v) + (-2 * n * m) * v + m * m
          /\ (n * v - m) * (n * v - m) \in Int
      BY <1>6, <2>1, <3>1, Zenon
    <3>3. d[i] \in Int /\ d[i] = (n * n) * xx[i] + (-2 * n * m) * v + m * m
      BY <3>1, <3>2, Zenon
    <3>4. QED
      BY <3>3, Zenon DEF v
  <2>4. QED
    BY <2>3
<1>9. calculate_variance(data) = SumFunctionOnSet(d, all)
  <2>1. calculate_variance(data) = Total(d, n)
    BY DEF calculate_variance
  <2>. HIDE DEF d, n
  <2>2. QED
    BY <1>1, <1>8, <2>1, TotalIsSum
<1>10. SumFunctionOnSet(d, all) = (n * n) * sq + (-2 * n * m) * m + (m * m) * n
  <2>1. n * n \in Int /\ -2 * n * m \in Int /\ m * m \in Int
    BY <1>1, <1>6
  <2>. DEFINE a == n * n
              b == -2 * n * m
              c == m * m
  <2>2. \A i \in all : xx[i] \in Int /\ x[i] \in Int /\ d[i] = a * xx[i] + b * x[i] + c
    BY <1>2, <1>7, <1>8
  <2>3. a \in Int /\ b \in Int /\ c \in Int
    BY <2>1
  <2>. HIDE DEF a, b, c, d, x, xx, m, n, all, sq
  <2>4. SumFunctionOnSet(d, all) =
          a * SumFunctionOnSet(xx, all) + b * SumFunctionOnSet(x, all) + c * Cardinality(all)
    BY <1>3, <2>2, <2>3, SumLinear
  <2>5. SumFunctionOnSet(d, all) = a * sq + b * m + c * n
    BY <1>3, <1>4, <1>7, <2>4
  <2>6. QED
    BY <2>5 DEF a, b, c
<1>11. calculate_variance(data) = n * (n * sq - m * m)
  <2>1. ASSUME NEW k \in Int, NEW w \in Int, NEW s \in Int
        PROVE  (k * k) * s + (-2 * k * w) * w + (w * w) * k = k * (k * s - w * w)
    BY SMT
  <2>. HIDE DEF d, m, n, all, sq
  <2>2. QED
    BY <1>1, <1>6, <1>7, <1>9, <1>10, <2>1
<1>12. QED
  BY <1>5, <1>11 DEF SumsAgree, Spread

(* dot_product(), which is given one length for both.                      *)
THEOREM ProductsAreExact ==
  ASSUME NEW a \in Seq(Int), NEW b \in Seq(Int), Len(a) = Len(b), Len(a) < Word
  PROVE  dot_product(a, b) = SumFunction(Products(a, b))
<1>. DEFINE n == Len(a)
            all == 0 .. n - 1
            p == [i \in all |-> a[i + 1] * b[i + 1]]
<1>1. n \in Nat /\ DOMAIN Products(a, b) = 1 .. n
  BY DEF Products
<1>2. \A i \in all : p[i] \in Int /\ Products(a, b)[i + 1] = p[i]
  BY DEF Products
<1>3. dot_product(a, b) = Total(p, n)
  BY DEF dot_product
<1>4. n < Word
  OBVIOUS
<1>. HIDE DEF p, n
<1>5. dot_product(a, b) = SumFunctionOnSet(p, all)
  BY <1>1, <1>2, <1>3, <1>4, TotalIsSum
<1>6. QED
  BY <1>1, <1>2, <1>5, SumFromZero

(* The run's property, for any signals: the detector's statistics are      *)
(* those of all samples, whatever the width of the vectors.                *)
THEOREM VectorLoopsAgree == Spec => []VectorsAgree
<1>1. VectorsAgree
  <2>1. \A p \in Signal : p.samples \in Seq(Int) /\ Len(p.samples) < Word
    BY SignalAssumption
  <2>2. \A p \in Signal : SumsAgree(p.samples)
    BY <2>1, StatisticsAreExact
  <2>3. \A p, q \in Signal :
          Len(p.samples) = Len(q.samples) =>
            dot_product(p.samples, q.samples) = SumFunction(Products(p.samples, q.samples))
    BY <2>1, ProductsAreExact
  <2>4. QED
    BY <2>2, <2>3 DEF VectorsAgree
<1>2. QED
  BY <1>1, PTL

-----------------------------------------------------------------------------
(* The scores: 40, 35 and 25 of 100, and more than 65 to be reached.       *)
LEMMA ScoreDecides ==
  ASSUME NEW p, p.lowZcr \in BOOLEAN, p.lowFlatness \in BOOLEAN
  PROVE  EnsembleScore(p) > 65 <=> LowVariance(p.samples) /\ p.lowZcr
<1>. DEFINE V == IF LowVariance(p.samples) THEN 40 ELSE 0
            Z == IF p.lowZcr THEN 35 ELSE 0
            F == IF p.lowFlatness THEN 25 ELSE 0
<1>1. /\ LowVariance(p.samples) => V = 40
      /\ ~LowVariance(p.samples) => V = 0
      /\ p.lowZcr => Z = 35
      /\ ~p.lowZcr => Z = 0
      /\ F \in {0, 25}
  OBVIOUS
<1>2. EnsembleScore(p) = V + Z + F
  BY DEF EnsembleScore
<1>. HIDE DEF V, Z, F
<1>3. QED
  BY <1>1, <1>2

(* The variance that is compared is the textbook's.                        *)
LEMMA LowVarianceIs ==
  ASSUME NEW data \in Seq(Int), Len(data) < Word, Len(data) > 0
  PROVE  LowVariance(data) <=> 10 * Spread(data) < 45 * (Len(data) * Len(data))
<1>. DEFINE n == Len(data)
            sp == Spread(data)
            v == calculate_variance(data)
<1>1. n \in Int /\ n > 0 /\ DOMAIN data = 1 .. n /\ \A i \in 1 .. n : data[i] \in Int
  OBVIOUS
<1>2. v = n * sp
  BY StatisticsAreExact DEF SumsAgree
<1>3. sp \in Int
  <2>1. IsFiniteSet(1 .. n)
    BY <1>1, FS_Interval
  <2>2. DOMAIN Products(data, data) = 1 .. n /\ \A i \in 1 .. n : Products(data, data)[i] \in Int
    BY <1>1 DEF Products
  <2>. HIDE DEF n
  <2>3. SumFunctionOnSet(data, 1 .. n) \in Int
    BY <1>1, <2>1, SumRemove
  <2>4. SumFunctionOnSet(Products(data, data), 1 .. n) \in Int
    BY <2>1, <2>2, SumRemove
  <2>5. SumFunction(data) \in Int /\ SumFunction(Products(data, data)) \in Int
    BY <1>1, <2>2, <2>3, <2>4 DEF SumFunction
  <2>6. QED
    BY <1>1, <2>5 DEF Spread, n
<1>4. ASSUME NEW k \in Int, k > 0, NEW w \in Int
      PROVE  10 * (k * w) < 45 * (k * k * k) <=> 10 * w < 45 * (k * k)
  <2>. DEFINE d == 45 * (k * k) - 10 * w
  <2>1. d \in Int /\ 45 * (k * k * k) - 10 * (k * w) = k * d
    OBVIOUS
  <2>2. k * k \in Int /\ k * k * k \in Int /\ k * w \in Int
    OBVIOUS
  <2>. HIDE DEF d
  <2>3. k * d > 0 <=> d > 0
    BY <1>4, <2>1
  <2>4. 10 * (k * w) < 45 * (k * k * k) <=> k * d > 0
    BY <2>1, <2>2
  <2>5. 10 * w < 45 * (k * k) <=> d > 0
    BY <2>2 DEF d
  <2>6. QED
    BY <2>3, <2>4, <2>5
<1>. HIDE DEF n, sp, v
<1>5. 10 * (n * sp) < 45 * (n * n * n) <=> 10 * sp < 45 * (n * n)
  BY <1>1, <1>3, <1>4
<1>6. LowVariance(data) <=> 10 * v < 45 * (n * n * n)
  BY DEF LowVariance, v, n
<1>7. QED
  BY <1>2, <1>5, <1>6 DEF n, sp

LEMMA VerdictIs == \A p \in Signal : analyze_voice_channel(p) <=> Voiced(p)
<1>. SUFFICES ASSUME NEW p \in Signal PROVE analyze_voice_channel(p) <=> Voiced(p)
  OBVIOUS
<1>1. EnsembleScore(p) > 65 <=> LowVariance(p.samples) /\ p.lowZcr
  BY SignalAssumption, ScoreDecides
<1>2. Len(p.samples) >= 32 =>
        (LowVariance(p.samples) <=>
           10 * Spread(p.samples) < 45 * (Len(p.samples) * Len(p.samples)))
  <2>1. p.samples \in Seq(Int) /\ Len(p.samples) < Word /\ Len(p.samples) \in Nat
    BY SignalAssumption
  <2>2. QED
    BY <2>1, LowVarianceIs
<1>3. QED
  BY <1>1, <1>2, Zenon DEF analyze_voice_channel, Voiced

(* What main() is about to block has a variance below 0.045 by the         *)
(* textbook and few zero crossings, for any packets and any width of the   *)
(* vectors; analyze_voice_channel()'s third score changes no verdict.      *)
THEOREM FlatnessIsIdle == Spec => []FlatnessNeverDecides
<1>1. ASSUME EngineInv, pc = "blocked" PROVE out # NoPacket /\ Voiced(Contents[out])
  <2>1. out \in Deepfake
    BY <1>1 DEF EngineInv, VerdictsAccounted
  <2>2. out \in Packet /\ analyze_voice_channel(Contents[out])
    BY <2>1, DetectorAssumption, Zenon
  <2>3. Contents[out] \in Signal
    BY <2>2, DetectorAssumption
  <2>4. QED
    BY <2>2, <2>3, VerdictIs, EngineAssumption
<1>2. EngineInv => FlatnessNeverDecides
  BY <1>1, VerdictIs, Zenon DEF FlatnessNeverDecides
<1>3. QED
  BY <1>2, EngineInvariant, PTL
=============================================================================
