--------------------------- MODULE LockFreeQueue ---------------------------
(***************************************************************************)
(* core/lockfree_queue.{h,cpp}: the single-producer single-consumer ring   *)
(* that carries TelemetryPackets to the engine's main loop, and the third  *)
(* thread that calls size() (telemetry_thread, core/main_engine.cpp).      *)
(*                                                                         *)
(* Every load, store and half of a packet copy is a step of its own.  A    *)
(* load of the other side's index is a C++ acquire load: it returns any    *)
(* value the index has had since this thread's previous load, never an     *)
(* older one (coherence).  Each thread reads its own index exactly.        *)
(* size() owns neither index and keeps nothing from one call to the next:  *)
(* its first load returns any of the last Oldest stores of m_write_index,  *)
(* its second any store of m_read_index that is not older than what that   *)
(* store of m_write_index publishes (release, acquire).                    *)
(* Indices are size_t: they count modulo Modulus.                          *)
(***************************************************************************)
EXTENDS Integers, Sequences

CONSTANTS Packet,      \* the telemetry packets a producer may push
          ZeroPacket,  \* what memset leaves in a slot
          Requested,   \* the capacity the constructor is called with
          Modulus,     \* 2^w for a size_t of w bits
          Oldest       \* bound: the stores of m_write_index a third thread may see

(* while (m_capacity < capacity) m_capacity <<= 1 *)
RoundUp[c \in Nat] == IF c >= Requested THEN c ELSE RoundUp[2 * c]
m_capacity == RoundUp[1]

(* A size_t is wider than any array index, so a power of two that fits in  *)
(* memory divides 2^w and is at most half of it.                           *)
ASSUME CapacityAssumption ==
  /\ m_capacity \in Nat \ {0}
  /\ Modulus \in Nat
  /\ Modulus % m_capacity = 0
  /\ Modulus >= 2 * m_capacity

ASSUME PacketAssumption == ZeroPacket \notin Packet

Index == 0 .. Modulus - 1
Slots == 0 .. m_capacity - 1

(* Unsigned arithmetic: b - a, and a + 1. *)
Minus(b, a) == (b - a) % Modulus
Succ(a) == (a + 1) % Modulus

(* index & (m_capacity - 1), m_capacity being a power of two *)
Slot(i) == i % m_capacity

(* A copy of a packet moves more than one machine word; two are enough to  *)
(* tell a whole packet from a torn one.                                    *)
Whole(p) == [head |-> p, tail |-> p]
Image == [head : Packet \cup {ZeroPacket}, tail : Packet \cup {ZeroPacket}]

VARIABLES
  m_buffer,        \* the ring, one Image per slot
  m_write_index,   \* number of packets pushed, modulo Modulus
  m_read_index,    \* number of packets popped, modulo Modulus
  p_pc,            \* where push() stands
  p_packet,        \* push()'s argument, ZeroPacket outside a call
  p_read,          \* the last m_read_index the producer has loaded
  c_pc,            \* where pop() stands
  c_write,         \* the last m_write_index the consumer has loaded
  c_packet,        \* pop()'s out-parameter
  delivered,       \* the packet the last pop() == true handed to its caller
  published,       \* for each of the last values stored in m_write_index, the
                   \* newest m_read_index that its release store makes visible
  o_pc,            \* where size() stands
  o_write,         \* the m_write_index size() has loaded
  o_floor,         \* the oldest m_read_index it may load after that
  o_lag,           \* pops by which m_read_index is ahead of o_floor
  o_result         \* what size() returned, 0 during a call

producerVars == <<p_pc, p_packet, p_read>>
consumerVars == <<c_pc, c_write, c_packet, delivered>>
observerVars == <<o_pc, o_write, o_floor, o_lag, o_result>>
vars == <<m_buffer, m_write_index, m_read_index, published,
          producerVars, consumerVars, observerVars>>

Size == Minus(m_write_index, m_read_index)

Init ==
  /\ m_buffer = [s \in Slots |-> Whole(ZeroPacket)]
  /\ m_write_index = 0 /\ m_read_index = 0
  /\ p_pc = "idle" /\ p_packet = ZeroPacket /\ p_read = 0
  /\ c_pc = "idle" /\ c_write = 0
  /\ c_packet = Whole(ZeroPacket) /\ delivered = Whole(ZeroPacket)
  /\ published = [w \in {0} |-> 0]
  /\ o_pc = "idle" /\ o_write = 0 /\ o_floor = 0 /\ o_lag = 0 /\ o_result = 0

-----------------------------------------------------------------------------
(* push(): call and load; full; copy, copy; publish. *)

PushLoad ==
  /\ p_pc = "idle"
  /\ \E p \in Packet : p_packet' = p
  /\ \E r \in Index : /\ Minus(r, p_read) <= Minus(m_read_index, p_read)
                      /\ p_read' = r
  /\ p_pc' = "check"
  /\ UNCHANGED <<m_buffer, m_write_index, m_read_index, published,
                 consumerVars, observerVars>>

Full_OffByOne == Minus(m_write_index, p_read) > m_capacity
Full == Minus(m_write_index, p_read) >= m_capacity

PushFull ==
  /\ p_pc = "check"
  /\ Full
  /\ p_pc' = "idle" /\ p_packet' = ZeroPacket
  /\ UNCHANGED <<m_buffer, m_write_index, m_read_index, published, p_read,
                 consumerVars, observerVars>>

PushCopyHead_NextSlot ==
  /\ p_pc = "check"
  /\ ~Full
  /\ m_buffer' = [m_buffer EXCEPT ![Slot(Succ(m_write_index))].head = p_packet]
  /\ p_pc' = "copy"
  /\ UNCHANGED <<m_write_index, m_read_index, published, p_packet, p_read,
                 consumerVars, observerVars>>
PushCopyHead ==
  /\ p_pc = "check"
  /\ ~Full
  /\ m_buffer' = [m_buffer EXCEPT ![Slot(m_write_index)].head = p_packet]
  /\ p_pc' = "copy"
  /\ UNCHANGED <<m_write_index, m_read_index, published, p_packet, p_read,
                 consumerVars, observerVars>>

PushCopyTail ==
  /\ p_pc = "copy"
  /\ m_buffer' = [m_buffer EXCEPT ![Slot(m_write_index)].tail = p_packet]
  /\ p_pc' = "publish"
  /\ UNCHANGED <<m_write_index, m_read_index, published, p_packet, p_read,
                 consumerVars, observerVars>>

(* A release store of w makes visible what the producer has loaded, r. *)
Release(w, r) ==
  LET recent == {v \in DOMAIN published : Minus(w, v) < Oldest}
  IN  [v \in recent \cup {w} |-> IF v = w THEN r ELSE published[v]]

PushPublish_Relaxed ==
  /\ p_pc = "publish"
  /\ m_write_index' = Succ(m_write_index)
  /\ published' = Release(Succ(m_write_index), 0)
  /\ p_pc' = "idle" /\ p_packet' = ZeroPacket
  /\ UNCHANGED <<m_buffer, m_read_index, p_read,
                 consumerVars, observerVars>>
PushPublish ==
  /\ p_pc = "publish"
  /\ m_write_index' = Succ(m_write_index)
  /\ published' = Release(Succ(m_write_index), p_read)
  /\ p_pc' = "idle" /\ p_packet' = ZeroPacket
  /\ UNCHANGED <<m_buffer, m_read_index, p_read,
                 consumerVars, observerVars>>

-----------------------------------------------------------------------------
(* pop(): load; empty; copy, copy; release the slot and return. *)

LoadWrite(w) ==
  /\ c_pc = "idle"
  /\ Minus(w, c_write) <= Minus(m_write_index, c_write)
  /\ c_write' = w
  /\ c_pc' = "check"
  /\ UNCHANGED <<m_buffer, m_write_index, m_read_index, published, c_packet,
                 delivered, producerVars, observerVars>>

PopLoad == \E w \in Index : LoadWrite(w)

(* The load that sees the latest store; C++ promises that stores become    *)
(* visible in a finite time (fairness below).                              *)
PopLoadFresh == LoadWrite(m_write_index)

PopEmpty_NoReload ==
  /\ c_pc = "check"
  /\ m_read_index = c_write
  /\ UNCHANGED vars
PopEmpty ==
  /\ c_pc = "check"
  /\ m_read_index = c_write
  /\ c_pc' = "idle"
  /\ UNCHANGED <<m_buffer, m_write_index, m_read_index, published, c_write,
                 c_packet, delivered, producerVars, observerVars>>

PopCopyHead ==
  /\ c_pc = "check"
  /\ m_read_index # c_write
  /\ c_packet' = [c_packet EXCEPT !.head = m_buffer[Slot(m_read_index)].head]
  /\ c_pc' = "copy"
  /\ UNCHANGED <<m_buffer, m_write_index, m_read_index, published, c_write, delivered,
                 producerVars, observerVars>>

PopCopyTail ==
  /\ c_pc = "copy"
  /\ c_packet' = [c_packet EXCEPT !.tail = m_buffer[Slot(m_read_index)].tail]
  /\ c_pc' = "publish"
  /\ UNCHANGED <<m_buffer, m_write_index, m_read_index, published, c_write, delivered,
                 producerVars, observerVars>>

PopPublish ==
  /\ c_pc = "publish"
  /\ m_read_index' = Succ(m_read_index)
  /\ delivered' = c_packet
  /\ c_pc' = "idle"
  /\ o_lag' = IF o_pc = "between" /\ o_lag < Modulus THEN o_lag + 1 ELSE o_lag
  /\ UNCHANGED <<m_buffer, m_write_index, published, c_write, c_packet,
                 producerVars, o_pc, o_write, o_floor, o_result>>

-----------------------------------------------------------------------------
(* size(): two loads, the producer and the consumer running in between. *)

(* How far m_read_index is ahead of floor, the index the store of w makes  *)
(* visible: w is that much behind m_write_index, and floor behind w.       *)
Lag(w, floor) == (Minus(m_write_index, w) + Minus(w, floor)) - Size

SizeLoadWrite ==
  /\ o_pc = "idle"
  /\ \E w \in DOMAIN published :
       /\ o_write' = w
       /\ o_floor' = published[w]
       /\ o_lag' = Lag(w, published[w])
  /\ o_result' = 0
  /\ o_pc' = "between"
  /\ UNCHANGED <<m_buffer, m_write_index, m_read_index, published,
                 producerVars, consumerVars>>

SizeLoadRead ==
  /\ o_pc = "between"
  /\ \E n \in 0 .. o_lag :
       o_result' = Minus(o_write, (o_floor + n) % Modulus)
  /\ o_pc' = "idle"
  /\ o_write' = 0 /\ o_floor' = 0 /\ o_lag' = 0
  /\ UNCHANGED <<m_buffer, m_write_index, m_read_index, published,
                 producerVars, consumerVars>>

-----------------------------------------------------------------------------
push == PushLoad \/ PushFull \/ PushCopyHead \/ PushCopyTail \/ PushPublish
pop == PopLoad \/ PopEmpty \/ PopCopyHead \/ PopCopyTail \/ PopPublish
size == SizeLoadWrite \/ SizeLoadRead

Next == push \/ pop \/ size

(* The engine's main loop calls pop() again and again; nothing makes a     *)
(* producer push.                                                          *)
Fairness == WF_vars(pop) /\ SF_vars(PopLoadFresh)

Spec == Init /\ [][Next]_vars
FairSpec == Spec /\ Fairness

-----------------------------------------------------------------------------
TypeOK ==
  /\ m_buffer \in [Slots -> Image]
  /\ m_write_index \in Index /\ m_read_index \in Index
  /\ p_pc \in {"idle", "check", "copy", "publish"}
  /\ p_packet \in Packet \cup {ZeroPacket}
  /\ p_read \in Index
  /\ c_pc \in {"idle", "check", "copy", "publish"}
  /\ c_write \in Index
  /\ c_packet \in Image /\ delivered \in Image
  /\ o_pc \in {"idle", "between"}
  /\ DOMAIN published \subseteq Index
  /\ \A w \in DOMAIN published : published[w] \in Index
  /\ o_write \in Index /\ o_floor \in Index /\ o_result \in Index
  /\ o_lag \in 0 .. Modulus + m_capacity

(* Both threads' views of the indices stay in order on the ring: what the  *)
(* producer knows of the reader, the reader, what the consumer knows of    *)
(* the writer, the writer, and one lap after the first of these.           *)
IndicesInOrder ==
  /\ Minus(m_read_index, p_read) <= Minus(c_write, p_read)
  /\ Minus(c_write, p_read) <= Minus(m_write_index, p_read)
  /\ Minus(m_write_index, p_read) <= m_capacity

(* push() never writes the slot that pop() is reading, although the two    *)
(* share no lock and each works with a stale copy of the other's index.    *)
NoDataRace ==
  ~ /\ p_pc \in {"copy", "publish"}
    /\ c_pc \in {"copy", "publish"}
    /\ Slot(m_write_index) = Slot(m_read_index)

(* By how far the consumer has gone past the m_write_index size() loaded. *)
PoppedPast == o_lag - Minus(o_write, o_floor)

(* What size() returns to a third thread, whatever stale indices it has    *)
(* loaded, is at most the capacity, unless the consumer has popped past    *)
(* the m_write_index it loaded: then write_idx - read_idx has wrapped, by  *)
(* no more than the number of those pops.                                  *)
SizeReport ==
  [][o_result' # o_result =>
       o_result' <= m_capacity \/ o_result' + PoppedPast >= Modulus]_vars

(* The strengthening that makes the properties above inductive.            *)
(* Past its check, push() has room left and pop() has a packet to take.    *)
PastCheck ==
  /\ p_pc # "idle" => p_packet \in Packet
  /\ p_pc \in {"copy", "publish"} => Minus(m_write_index, p_read) < m_capacity
  /\ c_pc \in {"copy", "publish"} => m_read_index # c_write

(* Every published slot holds a whole packet that was pushed. *)
PublishedWhole ==
  \A i \in Index : Minus(i, m_read_index) < Size =>
                      m_buffer[Slot(i)] \in {Whole(p) : p \in Packet}

(* How far each copy has come. *)
CopyProgress ==
  /\ p_pc = "copy" => m_buffer[Slot(m_write_index)].head = p_packet
  /\ p_pc = "publish" => m_buffer[Slot(m_write_index)] = Whole(p_packet)
  /\ c_pc = "copy" => c_packet.head = m_buffer[Slot(m_read_index)].head
  /\ c_pc = "publish" => c_packet = m_buffer[Slot(m_read_index)]

(* A store of m_write_index makes visible a reader that is at most one lap *)
(* behind it and not ahead of the reader now, so size() can rely on it.    *)
StoresCovered ==
  /\ m_write_index \in DOMAIN published
  /\ \A w \in DOMAIN published :
       Minus(w, published[w]) <= m_capacity /\ Lag(w, published[w]) >= 0
  /\ o_pc = "between" => /\ Minus(o_write, o_floor) <= m_capacity
                         /\ o_lag <= Modulus + Minus(o_write, o_floor)

(* The inductive invariant: the copies are whole and land between the      *)
(* indices, however stale the index each side works with.                  *)
QueueInv == TypeOK /\ IndicesInOrder /\ PastCheck /\ PublishedWhole
              /\ CopyProgress /\ StoresCovered

(* The packets inside, oldest first. *)
Contents == [i \in 1 .. Size |-> m_buffer[Slot((m_read_index + i - 1) % Modulus)]]

(* The ring implements a bounded FIFO of whole packets: no packet is lost, *)
(* duplicated, reordered, overwritten or torn, also when the indices wrap. *)
Fifo == INSTANCE BoundedFifo WITH
          Value <- {Whole(p) : p \in Packet}, Nothing <- Whole(ZeroPacket),
          Bound <- m_capacity, queue <- Contents, out <- delivered
ImplementsFifo == Fifo!FifoSpec

(* A packet that push() has published is popped, as long as the engine's   *)
(* loop runs: the loop never spins for ever on a stale m_write_index.      *)
EveryPacketPopped ==
  \A i \in Index : (m_read_index = i /\ m_write_index # i) ~> (m_read_index # i)
=============================================================================
