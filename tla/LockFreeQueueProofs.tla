------------------------ MODULE LockFreeQueueProofs ------------------------
(***************************************************************************)
(* For every capacity, index width and set of packets: the ring's indices  *)
(* stay in order, the two threads never touch the same slot, size() is     *)
(* bounded as stated, and the ring implements BoundedFifo.                 *)
(***************************************************************************)
EXTENDS LockFreeQueue, SequenceTheorems, TLAPS

-----------------------------------------------------------------------------
(* Arithmetic: a value is a multiple of m and a remainder. *)
LEMMA ModSplit ==
  ASSUME NEW m \in Nat \ {0}, NEW a \in Nat
  PROVE  \E k \in Nat : a = k * m + (a % m)
<1>1. a \div m \in Nat /\ a = (a \div m) * m + (a % m)
  BY SMT
<1> QED
  BY <1>1

(* No multiple of m lies strictly between 0 and m. *)
LEMMA NoMultipleBetween ==
  ASSUME NEW m \in Nat \ {0}, NEW n \in Int
  PROVE  n * m \notin 1 .. m - 1
<1>1. CASE n <= 0
  <2>1. n * m <= 0
    BY <1>1, SMT
  <2> QED
    BY <2>1, SMT
<1>2. CASE n >= 1
  <2>1. n * m >= m
    BY <1>2, SMT
  <2> QED
    BY <2>1, SMT
<1> QED
  BY <1>1, <1>2

(* Two indices less than m apart, up to a multiple c of m, have different  *)
(* remainders.                                                             *)
LEMMA NearIndicesDiffer ==
  ASSUME NEW m \in Nat \ {0}, NEW a \in Nat, NEW b \in Nat, NEW c \in Nat,
         c % m = 0, (b + c) - a \in 1 .. m - 1
  PROVE  a % m # b % m
<1> SUFFICES ASSUME a % m = b % m PROVE FALSE
  OBVIOUS
<1>1. PICK p \in Nat : a = p * m + (a % m)
  BY ModSplit
<1>2. PICK q \in Nat : b = q * m + (b % m)
  BY ModSplit
<1>3. PICK k \in Nat : c = k * m + (c % m)
  BY ModSplit
<1>4. a % m \in Int /\ b % m \in Int /\ p * m \in Int /\ q * m \in Int /\ k * m \in Int
  BY SMT
<1>5. (b + c) - a = (q * m + k * m) - p * m
  BY <1>1, <1>2, <1>3, <1>4, SMT
<1>6. (q * m + k * m) - p * m = (q + k - p) * m
  BY SMT
<1>7. q + k - p \in Int
  BY SMT
<1>8. (q + k - p) * m \notin 1 .. m - 1
  BY <1>7, NoMultipleBetween
<1> QED
  BY <1>5, <1>6, <1>8

-----------------------------------------------------------------------------
(* Unsigned subtraction of two indices, without the remainder. *)
LEMMA MinusIs ==
  \A a, b \in Index : Minus(b, a) = IF b >= a THEN b - a ELSE (b - a) + Modulus
BY CapacityAssumption, SMT DEF Minus, Index

(* Succ wraps once, at the end of the index range. *)
LEMMA SuccIs ==
  \A a \in Index : /\ Succ(a) = IF a = Modulus - 1 THEN 0 ELSE a + 1
                   /\ Succ(a) \in Index
BY CapacityAssumption, SMT DEF Succ, Index

(* The index d places after r. *)
LEMMA PlusIs ==
  \A r \in Index, d \in 0 .. m_capacity :
    /\ (r + d) % Modulus = IF r + d < Modulus THEN r + d ELSE (r + d) - Modulus
    /\ (r + d) % Modulus \in Index
    /\ Minus((r + d) % Modulus, r) = d
<1> SUFFICES ASSUME NEW r \in Index, NEW d \in 0 .. m_capacity
             PROVE  /\ (r + d) % Modulus = IF r + d < Modulus THEN r + d ELSE (r + d) - Modulus
                    /\ (r + d) % Modulus \in Index
                    /\ Minus((r + d) % Modulus, r) = d
  OBVIOUS
<1>1. (r + d) % Modulus = IF r + d < Modulus THEN r + d ELSE (r + d) - Modulus
  BY CapacityAssumption, SMT DEF Index
<1>2. (r + d) % Modulus \in Index
  BY <1>1, CapacityAssumption, SMT DEF Index
<1> QED
  BY <1>1, <1>2, MinusIs, CapacityAssumption, SMT DEF Index

(* Every index selects a slot of the ring. *)
LEMMA SlotInRange == \A i \in Index : Slot(i) \in Slots
BY CapacityAssumption, SMT DEF Slot, Slots, Index

(* Two indices less than a lap apart use different slots. *)
LEMMA SlotsDiffer ==
  ASSUME NEW i \in Index, NEW j \in Index, Minus(j, i) \in 1 .. m_capacity - 1
  PROVE  Slot(i) # Slot(j)
<1>1. i \in Nat /\ j \in Nat /\ 0 \in Nat /\ 0 % m_capacity = 0
  BY CapacityAssumption, SMT DEF Index
<1>2. CASE j >= i
  <2>1. (j + 0) - i \in 1 .. m_capacity - 1
    BY <1>1, <1>2, MinusIs, CapacityAssumption, SMT
  <2> QED
    BY <2>1, <1>1, NearIndicesDiffer, CapacityAssumption, Zenon DEF Slot
<1>3. CASE j < i
  <2>1. (j + Modulus) - i \in 1 .. m_capacity - 1
    BY <1>1, <1>3, MinusIs, CapacityAssumption, SMT
  <2> QED
    BY <2>1, <1>1, NearIndicesDiffer, CapacityAssumption, Zenon DEF Slot
<1> QED
  BY <1>1, <1>2, <1>3, SMT
-----------------------------------------------------------------------------
(* What the arithmetic below needs of the constants. *)
LEMMA CapacityFacts ==
  /\ Modulus \in Nat /\ m_capacity \in Nat /\ m_capacity >= 1
  /\ Modulus >= 2 * m_capacity
<1>1. m_capacity \in Nat \ {0} /\ Modulus \in Nat /\ Modulus >= 2 * m_capacity
  BY CapacityAssumption, Zenon
<1> QED
  BY <1>1, SMT

(* The unsigned difference of two indices is an index. *)
LEMMA MinusInIndex ==
  ASSUME NEW a \in Index, NEW b \in Index
  PROVE  Minus(a, b) \in Index
<1>1. Minus(a, b) = IF a >= b THEN a - b ELSE (a - b) + Modulus
  BY MinusIs
<1> QED
  BY <1>1, CapacityFacts, SMT DEF Index

(* Distances on the ring, measured from a common point, subtract. *)
LEMMA MinusDiff ==
  ASSUME NEW p \in Index, NEW r \in Index, NEW w \in Index,
         Minus(r, p) <= Minus(w, p)
  PROVE  Minus(w, r) = Minus(w, p) - Minus(r, p)
<1>1. /\ Minus(w, r) = IF w >= r THEN w - r ELSE (w - r) + Modulus
      /\ Minus(w, p) = IF w >= p THEN w - p ELSE (w - p) + Modulus
      /\ Minus(r, p) = IF r >= p THEN r - p ELSE (r - p) + Modulus
  BY MinusIs
<1> QED
  BY <1>1, CapacityFacts, SMT DEF Index

(* Only equal indices are at distance 0. *)
LEMMA MinusZero ==
  ASSUME NEW a \in Index, NEW b \in Index
  PROVE  Minus(b, a) = 0 <=> a = b
<1>1. Minus(b, a) = IF b >= a THEN b - a ELSE (b - a) + Modulus
  BY MinusIs
<1> QED
  BY <1>1, CapacityFacts, SMT DEF Index

(* One step of the farther index adds one to the distance. *)
LEMMA MinusSucc ==
  ASSUME NEW a \in Index, NEW b \in Index, Minus(b, a) + 1 < Modulus
  PROVE  Minus(Succ(b), a) = Minus(b, a) + 1
<1>1. /\ Minus(b, a) = IF b >= a THEN b - a ELSE (b - a) + Modulus
      /\ Minus(Succ(b), a) = IF Succ(b) >= a THEN Succ(b) - a ELSE (Succ(b) - a) + Modulus
      /\ Succ(b) = IF b = Modulus - 1 THEN 0 ELSE b + 1
  BY MinusIs, SuccIs
<1> QED
  BY <1>1, CapacityFacts, SMT DEF Index

(* ... until the distance is a whole turn. *)
LEMMA MinusOfOther ==
  ASSUME NEW a \in Index, NEW b \in Index, a # Succ(b)
  PROVE  Minus(Succ(b), a) = Minus(b, a) + 1
<1>1. /\ Minus(b, a) = IF b >= a THEN b - a ELSE (b - a) + Modulus
      /\ Minus(Succ(b), a) = IF Succ(b) >= a THEN Succ(b) - a ELSE (Succ(b) - a) + Modulus
      /\ Succ(b) = IF b = Modulus - 1 THEN 0 ELSE b + 1
  BY MinusIs, SuccIs
<1> QED
  BY <1>1, CapacityFacts, SMT DEF Index

(* One step of the nearer index takes one from the distance. *)
LEMMA MinusOfSucc ==
  ASSUME NEW a \in Index, NEW b \in Index, a # b
  PROVE  Minus(b, Succ(a)) = Minus(b, a) - 1
<1>1. /\ Minus(b, a) = IF b >= a THEN b - a ELSE (b - a) + Modulus
      /\ Minus(b, Succ(a)) = IF b >= Succ(a) THEN b - Succ(a) ELSE (b - Succ(a)) + Modulus
      /\ Succ(a) = IF a = Modulus - 1 THEN 0 ELSE a + 1
  BY MinusIs, SuccIs
<1> QED
  BY <1>1, CapacityFacts, SMT DEF Index

(* The indices of a well-typed state. *)
LEMMA TypedIndices ==
  ASSUME TypeOK
  PROVE  /\ m_write_index \in Index /\ m_read_index \in Index
         /\ p_read \in Index /\ c_write \in Index
         /\ o_write \in Index /\ o_floor \in Index
BY DEF TypeOK

(* The four indices as distances from the producer's view of the reader. *)
LEMMA Distances ==
  ASSUME TypeOK, IndicesInOrder
  PROVE  /\ Minus(m_read_index, p_read) \in Nat
         /\ Minus(c_write, p_read) \in Nat
         /\ Minus(m_write_index, p_read) \in Nat
         /\ Minus(m_read_index, p_read) <= Minus(c_write, p_read)
         /\ Minus(c_write, p_read) <= Minus(m_write_index, p_read)
         /\ Minus(m_write_index, p_read) <= m_capacity
<1>1. /\ Minus(m_read_index, p_read) \in Index /\ Minus(c_write, p_read) \in Index
      /\ Minus(m_write_index, p_read) \in Index
  BY TypedIndices, MinusInIndex
<1> QED
  BY <1>1, CapacityFacts, SMT DEF IndicesInOrder, Index

(* The writer is at most one lap ahead of the reader. *)
LEMMA SizeBound ==
  ASSUME TypeOK, IndicesInOrder
  PROVE  /\ Size = Minus(m_write_index, p_read) - Minus(m_read_index, p_read)
         /\ Size \in 0 .. m_capacity
         /\ Size <= Minus(m_write_index, p_read)
<1>1. Minus(m_read_index, p_read) <= Minus(m_write_index, p_read)
  BY Distances, SMT
<1>2. Minus(m_write_index, m_read_index)
        = Minus(m_write_index, p_read) - Minus(m_read_index, p_read)
  BY <1>1, TypedIndices, MinusDiff
<1> QED
  BY <1>1, <1>2, Distances, CapacityFacts, SMT DEF Size

(* Storing a packet through m_buffer[Slot(m_write_index)] leaves the       *)
(* published slots alone when there is room.                               *)
LEMMA WriterOutside ==
  ASSUME TypeOK, IndicesInOrder, Minus(m_write_index, p_read) < m_capacity,
         NEW i \in Index, Minus(i, m_read_index) < Size
  PROVE  Slot(i) # Slot(m_write_index)
<1>1. Minus(i, m_read_index) \in Nat
  BY TypedIndices, MinusInIndex, CapacityFacts, SMT DEF Index
<1>2. Size < m_capacity /\ Size \in Nat
  BY SizeBound, Distances, CapacityFacts, SMT
<1>3. Minus(m_write_index, i) = Size - Minus(i, m_read_index)
  <2>1. Minus(i, m_read_index) <= Minus(m_write_index, m_read_index)
    BY <1>1, <1>2, SMT DEF Size
  <2> QED
    BY <2>1, TypedIndices, MinusDiff DEF Size
<1>4. Minus(m_write_index, i) \in 1 .. m_capacity - 1
  BY <1>1, <1>2, <1>3, CapacityFacts, SMT
<1> QED
  BY <1>4, TypedIndices, SlotsDiffer

(* Past its check, pop() reads a published slot. *)
LEMMA ReaderInside ==
  ASSUME TypeOK, IndicesInOrder, m_read_index # c_write
  PROVE  Minus(m_read_index, m_read_index) < Size
<1>1. Minus(c_write, m_read_index) # 0
  BY TypedIndices, MinusZero
<1>2. Minus(m_read_index, p_read) <= Minus(c_write, p_read)
  BY Distances
<1>3. Minus(c_write, m_read_index) = Minus(c_write, p_read) - Minus(m_read_index, p_read)
  BY <1>2, TypedIndices, MinusDiff
<1>4. Size > 0
  BY <1>1, <1>2, <1>3, SizeBound, Distances, SMT
<1>5. Minus(m_read_index, m_read_index) = 0
  BY TypedIndices, MinusZero
<1> QED
  BY <1>4, <1>5, SizeBound, CapacityFacts, SMT

(* The constructor establishes the invariant. *)
LEMMA InitEstablishes == Init => QueueInv
<1> SUFFICES ASSUME Init PROVE QueueInv
  OBVIOUS
<1> USE DEF Init
<1>1. Whole(ZeroPacket) \in Image
  BY DEF Whole, Image
<1>2. 0 \in Index /\ 0 \in 0 .. Modulus + m_capacity
  BY CapacityFacts, SMT DEF Index
<1>3. TypeOK
  <2>1. DOMAIN published = {0} /\ published[0] = 0
    OBVIOUS
  <2> QED
    BY <1>1, <1>2, <2>1 DEF TypeOK
<1>4. Minus(0, 0) = 0
  BY <1>2, MinusZero
<1>5. Size = 0
  BY <1>4 DEF Size
<1>6. IndicesInOrder
  BY <1>4, CapacityFacts, SMT DEF IndicesInOrder
<1>7. PastCheck /\ CopyProgress
  BY DEF PastCheck, CopyProgress
<1>8. PublishedWhole
  <2> SUFFICES ASSUME NEW i \in Index, Minus(i, m_read_index) < 0 PROVE FALSE
    BY <1>5 DEF PublishedWhole
  <2>1. Minus(i, 0) \in Index
    BY <1>2, MinusInIndex
  <2> QED
    BY <2>1, CapacityFacts, SMT DEF Index
<1>9. StoresCovered
  <2>1. DOMAIN published = {0} /\ published[0] = 0 /\ m_write_index \in DOMAIN published
    OBVIOUS
  <2>2. Minus(0, 0) <= m_capacity /\ Lag(0, 0) >= 0
    BY <1>4, <1>5, CapacityFacts, SMT DEF Lag
  <2> QED
    BY <2>1, <2>2 DEF StoresCovered
<1> QED
  BY <1>3, <1>6, <1>7, <1>8, <1>9 DEF QueueInv

-----------------------------------------------------------------------------
(* Loading any index the reader has had since the last load keeps it. *)
LEMMA PushLoadKeeps == QueueInv /\ PushLoad => QueueInv'
<1> SUFFICES ASSUME QueueInv, PushLoad PROVE QueueInv'
  OBVIOUS
<1> USE DEF QueueInv, PushLoad, producerVars, consumerVars, observerVars
<1>1. TypeOK'
  BY DEF TypeOK
<1>2. IndicesInOrder'
  <2> DEFINE old(x) == Minus(x, p_read)
             new(x) == Minus(x, p_read')
  <2>1. p_read' \in Index /\ old(p_read') <= old(m_read_index) /\ old(p_read') \in Nat
    <3>1. p_read' \in Index /\ old(p_read') <= old(m_read_index)
      OBVIOUS
    <3>2. old(p_read') \in Index
      BY <3>1, TypedIndices, MinusInIndex
    <3> QED
      BY <3>1, <3>2, CapacityFacts, SMT DEF Index
  <2>2. /\ old(p_read') <= old(c_write)
        /\ old(p_read') <= old(m_write_index)
    BY <2>1, Distances, SMT
  <2>3. /\ new(m_read_index) = old(m_read_index) - old(p_read')
        /\ new(c_write) = old(c_write) - old(p_read')
        /\ new(m_write_index) = old(m_write_index) - old(p_read')
    BY <2>1, <2>2, TypedIndices, MinusDiff
  <2>4. /\ new(m_read_index) <= new(c_write)
        /\ new(c_write) <= new(m_write_index)
        /\ new(m_write_index) <= m_capacity
    BY <2>1, <2>3, Distances, CapacityFacts, SMT
  <2> QED
    BY <2>4 DEF IndicesInOrder
<1>3. PastCheck'
  BY DEF PastCheck
<1>4. PublishedWhole'
  BY DEF PublishedWhole, Size
<1>5. CopyProgress' /\ StoresCovered'
  BY DEF CopyProgress, StoresCovered, Lag, Size
<1> QED
  BY <1>1, <1>2, <1>3, <1>4, <1>5

(* A refused push() changes nothing the invariant speaks of. *)
LEMMA PushFullKeeps == QueueInv /\ PushFull => QueueInv'
<1> SUFFICES ASSUME QueueInv, PushFull PROVE QueueInv'
  OBVIOUS
<1> USE DEF QueueInv, PushFull, producerVars, consumerVars, observerVars
<1>1. TypeOK'
  BY DEF TypeOK
<1>2. IndicesInOrder' /\ PastCheck'
  BY DEF IndicesInOrder, PastCheck
<1>3. PublishedWhole'
  BY DEF PublishedWhole, Size
<1>4. CopyProgress' /\ StoresCovered'
  BY DEF CopyProgress, StoresCovered, Lag, Size
<1> QED
  BY <1>1, <1>2, <1>3, <1>4

(* Both halves of the copy: room is left, so neither the published slots   *)
(* nor the slot pop() is reading change.                                   *)
LEMMA PushCopyKeeps == QueueInv /\ (PushCopyHead \/ PushCopyTail) => QueueInv'
<1> SUFFICES ASSUME QueueInv, PushCopyHead \/ PushCopyTail PROVE QueueInv'
  OBVIOUS
<1> USE DEF QueueInv, producerVars, consumerVars, observerVars
<1>0. /\ m_write_index \in Index /\ m_read_index \in Index /\ p_read \in Index
      /\ Slot(m_write_index) \in Slots
  BY SlotInRange DEF TypeOK
<1>1. Minus(m_write_index, p_read) < m_capacity
  <2>1. CASE PushCopyHead
    BY <2>1, Distances, CapacityFacts, SMT DEF PushCopyHead, Full
  <2>2. CASE PushCopyTail
    BY <2>2 DEF PushCopyTail, PastCheck
  <2> QED
    BY <2>1, <2>2
<1>2. p_packet \in Packet
  BY DEF PushCopyHead, PushCopyTail, PastCheck
<1>3. \A s \in Slots : s # Slot(m_write_index) => m_buffer'[s] = m_buffer[s]
  BY DEF PushCopyHead, PushCopyTail, TypeOK
<1>4. TypeOK'
  BY <1>0, <1>2 DEF TypeOK, PushCopyHead, PushCopyTail, Image
<1>5. IndicesInOrder' /\ PastCheck'
  BY <1>1 DEF IndicesInOrder, PastCheck, PushCopyHead, PushCopyTail
<1>6. PublishedWhole'
  <2> SUFFICES ASSUME NEW i \in Index, Minus(i, m_read_index) < Size
               PROVE  m_buffer'[Slot(i)] \in {Whole(p) : p \in Packet}
    BY DEF PublishedWhole, Size, PushCopyHead, PushCopyTail
  <2>1. Slot(i) # Slot(m_write_index) /\ Slot(i) \in Slots
    BY <1>1, WriterOutside, SlotInRange
  <2> QED
    BY <2>1, <1>3 DEF PublishedWhole
<1>7. c_pc \in {"copy", "publish"} => m_buffer'[Slot(m_read_index)] = m_buffer[Slot(m_read_index)]
  BY <1>0, <1>1, <1>3, ReaderInside, WriterOutside, SlotInRange DEF PastCheck
<1>8. CopyProgress'
  BY <1>0, <1>7 DEF CopyProgress, PushCopyHead, PushCopyTail, TypeOK, Image, Whole
<1>9. StoresCovered'
  BY DEF StoresCovered, Lag, Size, PushCopyHead, PushCopyTail
<1> QED
  BY <1>4, <1>5, <1>6, <1>8, <1>9
(* Publishing adds exactly the slot just copied. *)
LEMMA PushPublishKeeps == QueueInv /\ PushPublish => QueueInv'
<1> SUFFICES ASSUME QueueInv, PushPublish PROVE QueueInv'
  OBVIOUS
<1> USE DEF QueueInv, PushPublish, producerVars, consumerVars, observerVars
<1>0. /\ m_write_index \in Index /\ m_read_index \in Index
      /\ p_read \in Index /\ c_write \in Index
      /\ m_write_index' = Succ(m_write_index) /\ m_write_index' \in Index
  BY SuccIs DEF TypeOK
<1>1. Minus(m_write_index, p_read) < m_capacity
  BY DEF PastCheck
<1>2. Minus(m_write_index', p_read) = Minus(m_write_index, p_read) + 1
  <2>1. Minus(m_write_index, p_read) + 1 < Modulus
    BY <1>1, Distances, CapacityFacts, SMT
  <2> QED
    BY <2>1, <1>0, MinusSucc
<1>3. TypeOK'
  <2>1. /\ DOMAIN published' \subseteq DOMAIN published \cup {m_write_index'}
        /\ \A w \in DOMAIN published' : published'[w] \in {p_read, published[w]}
        /\ \A w \in DOMAIN published' : w \in DOMAIN published \/ published'[w] = p_read
    BY <1>0 DEF Release
  <2>2. DOMAIN published' \subseteq Index /\ \A w \in DOMAIN published' : published'[w] \in Index
    BY <1>0, <2>1 DEF TypeOK
  <2> QED
    BY <1>0, <2>2 DEF TypeOK
<1>4. IndicesInOrder'
  <2>1. /\ Minus(c_write, p_read) <= Minus(m_write_index', p_read)
        /\ Minus(m_write_index', p_read) <= m_capacity
    BY <1>1, <1>2, Distances, CapacityFacts, SMT
  <2> QED
    BY <2>1 DEF IndicesInOrder
<1>5. PastCheck'
  BY DEF PastCheck
<1>6. PublishedWhole'
  <2> SUFFICES ASSUME NEW i \in Index, Minus(i, m_read_index) < Size'
               PROVE  m_buffer[Slot(i)] \in {Whole(p) : p \in Packet}
    BY DEF PublishedWhole, Size
  <2>1. Size < m_capacity /\ Size \in Nat /\ Minus(i, m_read_index) \in Nat
    <3>1. Minus(i, m_read_index) \in Index
      BY <1>0, MinusInIndex
    <3> QED
      BY <1>1, <3>1, SizeBound, Distances, CapacityFacts, SMT DEF Index
  <2>2. Size' = Size + 1
    <3>1. Minus(m_write_index, m_read_index) + 1 < Modulus
      BY <2>1, CapacityFacts, SMT DEF Size
    <3> QED
      BY <3>1, <1>0, MinusSucc DEF Size
  <2>3. CASE Minus(i, m_read_index) < Size
    BY <2>3 DEF PublishedWhole
  <2>4. CASE ~(Minus(i, m_read_index) < Size)
    <3>1. Minus(i, m_read_index) = Minus(m_write_index, m_read_index)
      BY <2>1, <2>2, <2>4, SMT DEF Size
    <3>2. Minus(m_write_index, i) = 0
      <4>1. Minus(i, m_read_index) <= Minus(m_write_index, m_read_index)
        BY <2>1, <3>1, SMT
      <4>2. Minus(m_write_index, i) = Minus(m_write_index, m_read_index) - Minus(i, m_read_index)
        BY <4>1, <1>0, MinusDiff
      <4> QED
        BY <4>2, <3>1, <2>1, SMT
    <3>3. i = m_write_index
      BY <3>2, <1>0, MinusZero
    <3> QED
      BY <3>3 DEF CopyProgress, PastCheck
  <2> QED
    BY <2>3, <2>4
<1>7. CopyProgress'
  BY DEF CopyProgress
<1>8. StoresCovered'
  <2> DEFINE new == Succ(m_write_index)
  <2>1. /\ DOMAIN published' \subseteq DOMAIN published \cup {new}
        /\ new \in DOMAIN published'
        /\ published'[new] = p_read
        /\ \A w \in DOMAIN published' : w # new => published'[w] = published[w]
    BY DEF Release
  <2>2. Size' = Size + 1 /\ Size \in Nat /\ Size <= Minus(m_write_index, p_read)
    <3>1. Size \in Nat /\ Size < m_capacity /\ Size <= Minus(m_write_index, p_read)
      BY <1>1, SizeBound, Distances, CapacityFacts, SMT
    <3>2. Minus(m_write_index, m_read_index) + 1 < Modulus
      BY <3>1, CapacityFacts, SMT DEF Size
    <3> QED
      BY <3>1, <3>2, <1>0, MinusSucc DEF Size
  <2>3. Minus(new, p_read) <= m_capacity
      /\ (Minus(new, new) + Minus(new, p_read)) - Size' >= 0
    <3>1. Minus(new, new) = 0
      BY <1>0, MinusZero
    <3>2. Minus(new, p_read) = Minus(m_write_index, p_read) + 1
          /\ Minus(m_write_index, p_read) \in Nat
      BY <1>0, <1>2, Distances
    <3>3. Minus(new, p_read) <= m_capacity /\ (0 + Minus(new, p_read)) - (Size + 1) >= 0
      BY <1>1, <2>2, <3>2, CapacityFacts, SMT
    <3> QED
      BY <2>2, <3>1, <3>3
  <2>4. ASSUME NEW w \in DOMAIN published, w # new
        PROVE  Minus(w, published[w]) <= m_capacity
               /\ (Minus(new, w) + Minus(w, published[w])) - (Size + 1) >= 0
    <3>1. w \in Index /\ published[w] \in Index
      BY DEF TypeOK
    <3>2. Minus(new, w) = Minus(m_write_index, w) + 1
      BY <3>1, <2>4, <1>0, MinusOfOther
    <3>3. Minus(m_write_index, w) \in Int /\ Minus(w, published[w]) \in Int
      BY <1>0, <3>1, MinusInIndex, SMT DEF Index
    <3>4. Minus(w, published[w]) <= m_capacity
          /\ (Minus(m_write_index, w) + Minus(w, published[w])) - Size >= 0
      BY DEF StoresCovered, Lag
    <3> QED
      BY <2>2, <3>2, <3>3, <3>4, SMT
  <2>5. \A w \in DOMAIN published' : Minus(w, published'[w]) <= m_capacity
                                   /\ (Minus(new, w) + Minus(w, published'[w])) - Size' >= 0
    <3> TAKE w \in DOMAIN published'
    <3>1. CASE w = new
      BY <2>1, <2>3, <3>1
    <3>2. CASE w # new
      <4>1. w \in DOMAIN published /\ published'[w] = published[w]
        BY <2>1, <3>2
      <4> QED
        BY <2>2, <2>4, <3>2, <4>1
    <3> QED
      BY <3>1, <3>2
  <2> QED
    BY <1>0, <2>1, <2>5 DEF StoresCovered, Lag
<1> QED
  BY <1>3, <1>4, <1>5, <1>6, <1>7, <1>8

-----------------------------------------------------------------------------
(* Loading any index the writer has had since the last load keeps it. *)
LEMMA PopLoadKeeps == QueueInv /\ PopLoad => QueueInv'
<1> SUFFICES ASSUME QueueInv, NEW w \in Index, LoadWrite(w) PROVE QueueInv'
  BY DEF PopLoad
<1> USE DEF QueueInv, LoadWrite, producerVars, consumerVars, observerVars
<1>1. TypeOK'
  BY DEF TypeOK
<1>2. IndicesInOrder'
  BY MinusIs, CapacityFacts, SMT DEF TypeOK, IndicesInOrder, Index
<1>3. PastCheck' /\ PublishedWhole'
  BY DEF PastCheck, PublishedWhole, Size
<1>4. CopyProgress' /\ StoresCovered'
  BY DEF CopyProgress, StoresCovered, Lag, Size
<1> QED
  BY <1>1, <1>2, <1>3, <1>4

(* A pop() of an empty queue keeps the invariant. *)
LEMMA PopEmptyKeeps == QueueInv /\ PopEmpty => QueueInv'
<1> SUFFICES ASSUME QueueInv, PopEmpty PROVE QueueInv'
  OBVIOUS
<1> USE DEF QueueInv, PopEmpty, producerVars, consumerVars, observerVars
<1>1. TypeOK' /\ IndicesInOrder'
  BY DEF TypeOK, IndicesInOrder
<1>2. PastCheck' /\ PublishedWhole'
  BY DEF PastCheck, PublishedWhole, Size
<1>3. CopyProgress' /\ StoresCovered'
  BY DEF CopyProgress, StoresCovered, Lag, Size
<1> QED
  BY <1>1, <1>2, <1>3

(* Copying a packet out only reads the ring. *)
LEMMA PopCopyKeeps == QueueInv /\ (PopCopyHead \/ PopCopyTail) => QueueInv'
<1> SUFFICES ASSUME QueueInv, PopCopyHead \/ PopCopyTail PROVE QueueInv'
  OBVIOUS
<1> USE DEF QueueInv, producerVars, consumerVars, observerVars
<1>1. m_buffer[Slot(m_read_index)] \in Image
  BY SlotInRange DEF TypeOK
<1>2. TypeOK'
  BY <1>1 DEF TypeOK, PopCopyHead, PopCopyTail, Image
<1>3. IndicesInOrder' /\ PastCheck' /\ PublishedWhole'
  BY DEF IndicesInOrder, PastCheck, PublishedWhole, Size, PopCopyHead, PopCopyTail
<1>4. CopyProgress'
  BY <1>1 DEF CopyProgress, PopCopyHead, PopCopyTail, TypeOK, Image
<1>5. StoresCovered'
  BY DEF StoresCovered, Lag, Size, PopCopyHead, PopCopyTail
<1> QED
  BY <1>2, <1>3, <1>4, <1>5

(* Releasing a slot takes exactly the oldest packet away. *)
LEMMA PopPublishKeeps == QueueInv /\ PopPublish => QueueInv'
<1> SUFFICES ASSUME QueueInv, PopPublish PROVE QueueInv'
  OBVIOUS
<1> USE DEF QueueInv, PopPublish, producerVars, consumerVars, observerVars
<1>0. /\ m_write_index \in Index /\ m_read_index \in Index
      /\ p_read \in Index /\ c_write \in Index /\ o_write \in Index
      /\ m_read_index' = Succ(m_read_index) /\ m_read_index' \in Index
      /\ m_read_index # c_write
  BY SuccIs DEF TypeOK, PastCheck
<1>1. TypeOK'
  <2>1. o_lag' \in 0 .. Modulus + m_capacity
    <3>1. o_lag \in 0 .. Modulus + m_capacity
      BY DEF TypeOK
    <3>2. o_lag' = o_lag \/ (o_lag < Modulus /\ o_lag' = o_lag + 1)
      OBVIOUS
    <3> QED
      BY <3>1, <3>2, CapacityFacts, SMT
  <2> QED
    BY <1>0, <2>1 DEF TypeOK
<1>2. Minus(m_read_index, p_read) < Minus(c_write, p_read)
  <2>1. Minus(c_write, m_read_index) # 0
    BY <1>0, MinusZero
  <2>2. Minus(m_read_index, p_read) <= Minus(c_write, p_read)
    BY Distances
  <2>3. Minus(c_write, m_read_index) = Minus(c_write, p_read) - Minus(m_read_index, p_read)
    BY <2>2, <1>0, MinusDiff
  <2> QED
    BY <2>1, <2>2, <2>3, Distances, SMT
<1>3. Minus(m_read_index', p_read) = Minus(m_read_index, p_read) + 1
  <2>1. Minus(m_read_index, p_read) + 1 < Modulus
    BY <1>2, Distances, CapacityFacts, SMT
  <2> QED
    BY <2>1, <1>0, MinusSucc
<1>4. IndicesInOrder'
  <2>1. Minus(m_read_index', p_read) <= Minus(c_write, p_read)
    BY <1>2, <1>3, Distances, SMT
  <2> QED
    BY <2>1 DEF IndicesInOrder
<1>5. PastCheck'
  BY DEF PastCheck
<1>6. PublishedWhole'
  <2> SUFFICES ASSUME NEW i \in Index, Minus(i, m_read_index') < Size'
               PROVE  m_buffer[Slot(i)] \in {Whole(p) : p \in Packet}
    BY DEF PublishedWhole, Size
  <2>1. Minus(m_read_index, m_read_index) = 0 /\ m_write_index # m_read_index
    <3>1. Minus(m_read_index, m_read_index) = 0
      BY <1>0, MinusZero
    <3>2. Minus(m_read_index, m_read_index) < Size
      BY <1>0, ReaderInside
    <3> QED
      BY <3>1, <3>2, SMT DEF Size
  <2>2. Minus(i, m_read_index) < Size
    <3>1. Size' = Size - 1 /\ Size \in Nat
      BY <2>1, <1>0, MinusOfSucc, SizeBound, CapacityFacts, SMT DEF Size
    <3>2. CASE i = m_read_index
      BY <3>2, <1>0, ReaderInside
    <3>3. CASE i # m_read_index
      <4>1. Minus(i, m_read_index') = Minus(i, m_read_index) - 1
        BY <3>3, <1>0, MinusOfSucc
      <4>2. Minus(i, m_read_index) \in Nat
        BY <1>0, MinusInIndex, CapacityFacts, SMT DEF Index
      <4> QED
        BY <3>1, <4>1, <4>2, SMT
    <3> QED
      BY <3>2, <3>3
  <2> QED
    BY <2>2 DEF PublishedWhole
<1>7. CopyProgress'
  BY DEF CopyProgress
<1>8. StoresCovered'
  <2>1. Size' = Size - 1 /\ Size \in Nat
    <3>1. m_write_index # m_read_index
      BY <1>0, ReaderInside, MinusZero, SMT DEF Size
    <3> QED
      BY <3>1, <1>0, MinusOfSucc, SizeBound, CapacityFacts, SMT DEF Size
  <2>2. ASSUME NEW w \in DOMAIN published PROVE Lag(w, published[w])' >= 0
    <3>1. w \in Index /\ published[w] \in Index
      BY DEF TypeOK
    <3>2. Minus(m_write_index, w) \in Int /\ Minus(w, published[w]) \in Int
      BY <1>0, <3>1, MinusInIndex, SMT DEF Index
    <3>3. (Minus(m_write_index, w) + Minus(w, published[w])) - Size >= 0
      BY DEF StoresCovered, Lag
    <3>4. (Minus(m_write_index, w) + Minus(w, published[w])) - (Size - 1) >= 0
      BY <2>1, <3>2, <3>3, SMT
    <3> QED
      BY <2>1, <3>4 DEF Lag
  <2>3. ASSUME o_pc = "between" PROVE o_lag' <= Modulus + Minus(o_write, o_floor)
    <3>1. o_lag <= Modulus + Minus(o_write, o_floor) /\ o_lag \in Nat
      BY <2>3, CapacityFacts, SMT DEF StoresCovered, TypeOK
    <3>2. Minus(o_write, o_floor) \in Nat
      BY TypedIndices, MinusInIndex, CapacityFacts, SMT DEF Index
    <3>3. o_lag' = o_lag \/ (o_lag < Modulus /\ o_lag' = o_lag + 1)
      OBVIOUS
    <3> QED
      BY <3>1, <3>2, <3>3, CapacityFacts, SMT
  <2> QED
    BY <2>2, <2>3 DEF StoresCovered
<1> QED
  BY <1>1, <1>4, <1>5, <1>6, <1>7, <1>8

-----------------------------------------------------------------------------
(* What size() may go by after any load of m_write_index. *)
LEMMA LoadCovered ==
  ASSUME QueueInv, NEW w \in DOMAIN published
  PROVE  /\ w \in Index /\ published[w] \in Index
         /\ Minus(w, published[w]) \in Nat /\ Minus(w, published[w]) <= m_capacity
         /\ Lag(w, published[w]) \in 0 .. Modulus + m_capacity
         /\ Lag(w, published[w]) <= Modulus + Minus(w, published[w])
<1>1. w \in Index /\ published[w] \in Index
  BY DEF QueueInv, TypeOK
<1>2. Minus(m_write_index, w) \in Index /\ Minus(w, published[w]) \in Index
  BY <1>1, TypedIndices, MinusInIndex DEF QueueInv
<1>3. Minus(w, published[w]) <= m_capacity
      /\ (Minus(m_write_index, w) + Minus(w, published[w])) - Size >= 0
  BY DEF QueueInv, StoresCovered, Lag
<1>4. Size \in 0 .. m_capacity
  BY SizeBound DEF QueueInv
<1>5. (Minus(m_write_index, w) + Minus(w, published[w])) - Size \in 0 .. Modulus + m_capacity
      /\ (Minus(m_write_index, w) + Minus(w, published[w])) - Size
           <= Modulus + Minus(w, published[w])
      /\ Minus(w, published[w]) \in Nat
  BY <1>2, <1>3, <1>4, CapacityFacts, SMT DEF Index
<1> QED
  BY <1>1, <1>3, <1>5 DEF Lag

(* The unsigned difference is an index whatever the index loaded. *)
LEMMA ResultInIndex ==
  ASSUME NEW f \in Index, NEW w \in Index, NEW n \in Nat
  PROVE  (f + n) % Modulus \in Index /\ Minus(w, (f + n) % Modulus) \in Index
<1>1. (f + n) % Modulus \in Index
  BY CapacityFacts, SMT DEF Index
<1> QED
  BY <1>1, MinusInIndex

(* size() only reads the indices. *)
LEMMA SizeKeeps == QueueInv /\ size => QueueInv'
<1> SUFFICES ASSUME QueueInv, size PROVE QueueInv'
  OBVIOUS
<1> USE DEF producerVars, consumerVars
<1>1. /\ m_write_index' = m_write_index /\ m_read_index' = m_read_index
      /\ published' = published
      /\ UNCHANGED <<m_buffer, p_pc, p_packet, p_read, c_pc, c_write, c_packet, delivered>>
  BY DEF size, SizeLoadWrite, SizeLoadRead
<1>2. /\ TypeOK'
      /\ o_pc' = "between" => /\ Minus(o_write', o_floor') <= m_capacity
                              /\ o_lag' <= Modulus + Minus(o_write', o_floor')
  <2>0. TypeOK /\ 0 \in Index /\ 0 \in 0 .. Modulus + m_capacity
    BY CapacityFacts, SMT DEF QueueInv, Index
  <2>1. CASE SizeLoadWrite
    <3>1. PICK w \in DOMAIN published :
            o_write' = w /\ o_floor' = published[w] /\ o_lag' = Lag(w, published[w])
      BY <2>1 DEF SizeLoadWrite
    <3> QED
      BY <1>1, <2>0, <2>1, <3>1, LoadCovered DEF TypeOK, SizeLoadWrite
  <2>2. CASE SizeLoadRead
    <3>1. PICK n \in 0 .. o_lag : o_result' = Minus(o_write, (o_floor + n) % Modulus)
      BY <2>2 DEF SizeLoadRead
    <3>2. n \in Nat
      BY <3>1, <2>0, SMT DEF TypeOK
    <3>3. o_result' \in Index
      BY <3>1, <3>2, <2>0, ResultInIndex DEF TypeOK
    <3> QED
      BY <1>1, <2>0, <2>2, <3>3 DEF TypeOK, SizeLoadRead
  <2> QED
    BY <2>1, <2>2 DEF size
<1>3. IndicesInOrder' /\ PastCheck' /\ PublishedWhole' /\ CopyProgress'
  BY <1>1 DEF QueueInv, IndicesInOrder, PastCheck, PublishedWhole, CopyProgress, Size
<1>4. StoresCovered'
  BY <1>1, <1>2 DEF QueueInv, StoresCovered, Lag, Size
<1> QED
  BY <1>2, <1>3, <1>4 DEF QueueInv

(* A step that changes nothing keeps the invariant. *)
LEMMA StutterKeeps == QueueInv /\ UNCHANGED vars => QueueInv'
BY DEF QueueInv, vars, producerVars, consumerVars, observerVars, TypeOK,
       IndicesInOrder, PastCheck, PublishedWhole, CopyProgress, StoresCovered, Lag, Size

(* QueueInv is an invariant of the ring. *)
THEOREM QueueInvariant == Spec => []QueueInv
<1>1. QueueInv /\ [Next]_vars => QueueInv'
  BY PushLoadKeeps, PushFullKeeps, PushCopyKeeps, PushPublishKeeps, PopLoadKeeps,
     PopEmptyKeeps, PopCopyKeeps, PopPublishKeeps, SizeKeeps, StutterKeeps
     DEF Next, push, pop
<1> QED
  BY <1>1, InitEstablishes, PTL DEF Spec

(* push() and pop() never work on the same slot: the copies in             *)
(* lockfree_queue.cpp need no lock, whatever the capacity.                 *)
THEOREM SlotExclusion == Spec => []NoDataRace
<1>1. QueueInv => NoDataRace
  <2> SUFFICES ASSUME QueueInv, p_pc \in {"copy", "publish"},
                      c_pc \in {"copy", "publish"}
               PROVE  Slot(m_write_index) # Slot(m_read_index)
    BY DEF NoDataRace
  <2>1. /\ Minus(m_write_index, p_read) < m_capacity
        /\ m_read_index # c_write /\ m_read_index \in Index
    BY DEF QueueInv, PastCheck, TypeOK
  <2> QED
    BY <2>1, ReaderInside, WriterOutside DEF QueueInv
<1> QED
  BY <1>1, QueueInvariant, PTL

(* The difference of an index d past f and one n past f, at most a turn    *)
(* further: d - n, or what is missing to a turn once n has gone past d.    *)
LEMMA ResultIs ==
  ASSUME NEW f \in Index, NEW w \in Index, NEW n \in Nat
  PROVE  LET d == Minus(w, f)
         IN  /\ n <= d => Minus(w, (f + n) % Modulus) = d - n
             /\ n > d /\ n - d < Modulus => Minus(w, (f + n) % Modulus) = (d - n) + Modulus
             /\ n - d = Modulus => Minus(w, (f + n) % Modulus) = 0
<1> DEFINE d == Minus(w, f)
           g == (f + n) % Modulus
<1>1. d = (IF w >= f THEN w - f ELSE (w - f) + Modulus) /\ d \in Index
  BY MinusIs, MinusInIndex
<1>2. g \in Index /\ Minus(w, g) = (IF w >= g THEN w - g ELSE (w - g) + Modulus)
  BY ResultInIndex, MinusIs
<1>3. n - d <= Modulus =>
        g \in {f + n, (f + n) - Modulus, (f + n) - 2 * Modulus}
  <2> SUFFICES ASSUME n - d <= Modulus
               PROVE  g \in {f + n, (f + n) - Modulus, (f + n) - 2 * Modulus}
    OBVIOUS
  <2>1. f + n \in Nat /\ f + n < 3 * Modulus
    BY <1>1, CapacityFacts, SMT DEF Index
  <2> QED
    BY <2>1, CapacityFacts, SMT
<1> HIDE DEF d, g
<1>4. n - d <= Modulus =>
        /\ n <= d => Minus(w, g) = d - n
        /\ n > d /\ n - d < Modulus => Minus(w, g) = (d - n) + Modulus
        /\ n - d = Modulus => Minus(w, g) = 0
  BY <1>1, <1>2, <1>3, CapacityFacts, SMT DEF Index
<1>5. d \in Nat /\ (n <= d \/ n - d < Modulus \/ n - d = Modulus => n - d <= Modulus)
  BY <1>1, CapacityFacts, SMT DEF Index
<1> QED
  BY <1>4, <1>5 DEF d, g

(* size(), called by a third thread that loads stale indices, reports at   *)
(* most the capacity, unless the difference of the two indices has wrapped *)
(* by pops that went past the m_write_index it loaded.                     *)
THEOREM SizeReported == Spec => SizeReport
<1>1. QueueInv /\ [Next]_vars =>
        (o_result' # o_result => o_result' <= m_capacity \/ o_result' + PoppedPast >= Modulus)
  <2> SUFFICES ASSUME QueueInv, [Next]_vars, o_result' # o_result
               PROVE  o_result' <= m_capacity \/ o_result' + PoppedPast >= Modulus
    OBVIOUS
  <2>1. CASE SizeLoadWrite
    BY <2>1, CapacityFacts, SMT DEF SizeLoadWrite
  <2>2. CASE SizeLoadRead
    <3> DEFINE d == Minus(o_write, o_floor)
    <3>1. PICK n \in 0 .. o_lag : o_result' = Minus(o_write, (o_floor + n) % Modulus)
      BY <2>2 DEF SizeLoadRead
    <3>2. o_write \in Index /\ o_floor \in Index /\ n \in Nat /\ o_lag \in Nat /\ n <= o_lag
      BY <3>1, CapacityFacts, SMT DEF QueueInv, TypeOK
    <3>3. d \in Nat /\ d <= m_capacity
      BY <2>2, <3>2, MinusInIndex, CapacityFacts, SMT
         DEF SizeLoadRead, QueueInv, StoresCovered, Index
    <3>4. o_lag <= Modulus + d
      BY <2>2 DEF SizeLoadRead, QueueInv, StoresCovered
    <3>5. /\ n <= d => o_result' = d - n
          /\ n > d /\ n - d < Modulus => o_result' = (d - n) + Modulus
          /\ n - d = Modulus => o_result' = 0
      BY <3>1, <3>2, ResultIs
    <3> HIDE DEF d
    <3>6. o_result' <= m_capacity \/ o_result' + (o_lag - d) >= Modulus
      BY <3>2, <3>3, <3>4, <3>5, CapacityFacts, SMT
    <3> QED
      BY <3>6 DEF PoppedPast, d
  <2>3. CASE push \/ pop \/ UNCHANGED vars
    BY <2>3 DEF push, PushLoad, PushFull, PushCopyHead, PushCopyTail, PushPublish,
                pop, PopLoad, LoadWrite, PopEmpty, PopCopyHead, PopCopyTail,
                PopPublish, vars, observerVars
  <2> QED
    BY <2>1, <2>2, <2>3 DEF Next, size
<1> QED
  BY <1>1, QueueInvariant, PTL DEF Spec, SizeReport

-----------------------------------------------------------------------------
(* The refinement.  The d-th packet inside lies in the slot of index       *)
(* m_read_index + d.                                                       *)
LEMMA MinusInjective ==
  ASSUME NEW r \in Index, NEW a \in Index, NEW b \in Index, Minus(a, r) = Minus(b, r)
  PROVE  a = b
<1>1. Minus(a, r) \in Int
  BY MinusInIndex, SMT DEF Index
<1>2. Minus(b, a) = Minus(b, r) - Minus(a, r)
  BY <1>1, MinusDiff, SMT
<1>3. Minus(b, a) = 0
  BY <1>1, <1>2, SMT
<1> QED
  BY <1>3, MinusZero

(* The i-th packet inside lies i - 1 places after the reader. *)
LEMMA Position ==
  ASSUME TypeOK, IndicesInOrder, NEW i \in 1 .. Size
  PROVE  /\ (m_read_index + i - 1) % Modulus \in Index
         /\ Minus((m_read_index + i - 1) % Modulus, m_read_index) = i - 1
         /\ Minus((m_read_index + i - 1) % Modulus, m_read_index) < Size
<1>1. i - 1 \in 0 .. m_capacity /\ i - 1 < Size
  BY SizeBound, CapacityFacts, SMT
<1>2. m_read_index + i - 1 = m_read_index + (i - 1)
  BY TypedIndices, SizeBound, CapacityFacts, SMT DEF Index
<1> QED
  BY <1>1, <1>2, PlusIs, TypedIndices

(* Contents is a sequence of packet images, one per published slot. *)
LEMMA ContentsIsSeq ==
  ASSUME TypeOK, IndicesInOrder
  PROVE  Contents \in Seq(Image) /\ Len(Contents) = Size /\ Size \in Nat
<1>1. \A i \in 1 .. Size : m_buffer[Slot((m_read_index + i - 1) % Modulus)] \in Image
  BY Position, SlotInRange DEF TypeOK
<1>2. Size \in Nat
  BY SizeBound, CapacityFacts, SMT
<1> QED
  BY <1>1, <1>2, SMT DEF Contents

(* Steps inside push(), pop() and size() that do not publish an index      *)
(* leave the contents as they are.                                         *)
LEMMA ContentsStay ==
  ASSUME QueueInv, m_read_index' = m_read_index, m_write_index' = m_write_index,
         \/ m_buffer' = m_buffer
         \/ PushCopyHead \/ PushCopyTail
  PROVE  Contents' = Contents
<1>1. Size' = Size
  BY DEF Size
<1>2. CASE m_buffer' = m_buffer
  BY <1>1, <1>2 DEF Contents
<1>3. CASE PushCopyHead \/ PushCopyTail
  <2>1. Minus(m_write_index, p_read) < m_capacity
    <3>1. CASE PushCopyHead
      BY <3>1, Distances, CapacityFacts, SMT DEF PushCopyHead, Full, QueueInv
    <3>2. CASE PushCopyTail
      BY <3>2 DEF PushCopyTail, QueueInv, PastCheck
    <3> QED
      BY <1>3, <3>1, <3>2
  <2>2. \A i \in 1 .. Size :
          m_buffer'[Slot((m_read_index + i - 1) % Modulus)]
            = m_buffer[Slot((m_read_index + i - 1) % Modulus)]
    <3> TAKE i \in 1 .. Size
    <3> DEFINE s == Slot((m_read_index + i - 1) % Modulus)
    <3>1. s # Slot(m_write_index) /\ s \in Slots
      BY <2>1, Position, WriterOutside, SlotInRange DEF QueueInv
    <3>2. m_buffer \in [Slots -> Image]
      BY DEF QueueInv, TypeOK
    <3> QED
      BY <1>3, <3>1, <3>2 DEF PushCopyHead, PushCopyTail
  <2> QED
    BY <1>1, <2>2 DEF Contents
<1> QED
  BY <1>2, <1>3

(* The store of m_write_index appends the packet just copied. *)
LEMMA PublishEnqueues == QueueInv /\ QueueInv' /\ PushPublish => Fifo!Enqueue
<1> SUFFICES ASSUME QueueInv, QueueInv', PushPublish PROVE Fifo!Enqueue
  OBVIOUS
<1> DEFINE v == m_buffer[Slot(m_write_index)]
<1>1. TypeOK /\ IndicesInOrder /\ m_write_index' = Succ(m_write_index)
      /\ m_read_index' = m_read_index /\ m_buffer' = m_buffer /\ delivered' = delivered
  BY DEF QueueInv, PushPublish, consumerVars
<1>2. v \in {Whole(p) : p \in Packet} /\ v \in Image
  BY <1>1, SlotInRange, TypedIndices DEF QueueInv, PushPublish, PastCheck, CopyProgress, TypeOK
<1>3. Minus(m_write_index, p_read) < m_capacity
  BY DEF QueueInv, PushPublish, PastCheck
<1>4. Size \in Nat /\ Size < m_capacity
  BY <1>1, <1>3, SizeBound, Distances, CapacityFacts, SMT
<1>5. Size' = Size + 1
  <2>1. Minus(m_write_index, m_read_index) + 1 < Modulus
    BY <1>4, CapacityFacts, SMT DEF Size
  <2> QED
    BY <1>1, <2>1, MinusSucc, TypedIndices DEF Size
<1>6. Contents \in Seq(Image) /\ Len(Contents) = Size
  BY <1>1, ContentsIsSeq
<1>7. Contents' = [i \in 1 .. Size + 1 |-> m_buffer[Slot((m_read_index + i - 1) % Modulus)]]
  BY <1>1, <1>5 DEF Contents
<1>8. Slot((m_read_index + (Size + 1) - 1) % Modulus) = Slot(m_write_index)
  <2>1. m_read_index + (Size + 1) - 1 = m_read_index + Size /\ Size \in 0 .. m_capacity
    BY <1>1, <1>4, TypedIndices, CapacityFacts, SMT DEF Index
  <2>2. /\ (m_read_index + Size) % Modulus \in Index
        /\ Minus((m_read_index + Size) % Modulus, m_read_index) = Size
    BY <1>1, <2>1, PlusIs, TypedIndices
  <2>3. (m_read_index + Size) % Modulus = m_write_index
    BY <1>1, <2>2, MinusInjective, TypedIndices DEF Size
  <2> QED
    BY <2>1, <2>3
<1>9. Contents' = Append(Contents, v)
  <2> DEFINE elt(i) == m_buffer[Slot((m_read_index + i - 1) % Modulus)]
  <2>1. \A i \in 1 .. Size : elt(i) = Contents[i] /\ elt(i) \in Image
    <3>1. \A i \in 1 .. Size : elt(i) = Contents[i]
      BY DEF Contents
    <3> QED
      BY <3>1, <1>6, ElementOfSeq
  <2>2. elt(Size + 1) = v
    BY <1>8
  <2>3. Contents' = [i \in 1 .. Size + 1 |-> elt(i)]
    BY <1>7
  <2> HIDE DEF elt, v
  <2>4. \A i \in 1 .. Size + 1 : elt(i) \in Image
    BY <2>1, <2>2, <1>2, <1>4, SMT
  <2>5. Contents' \in Seq(Image) /\ Len(Contents') = Size + 1
    BY <2>3, <2>4, <1>4, SMT
  <2>6. /\ Append(Contents, v) \in Seq(Image)
        /\ Len(Append(Contents, v)) = Size + 1
        /\ \A i \in 1 .. Size : Append(Contents, v)[i] = Contents[i]
        /\ Append(Contents, v)[Size + 1] = v
    BY <1>2, <1>6, AppendProperties
  <2>7. \A i \in 1 .. Size + 1 : Contents'[i] = Append(Contents, v)[i]
    BY <2>1, <2>2, <2>3, <2>6, <1>4, SMT
  <2> QED
    BY <2>5, <2>6, <2>7, SeqEqual
<1> QED
  BY <1>1, <1>2, <1>4, <1>6, <1>9, CapacityFacts, SMT DEF Fifo!Enqueue

(* The store of m_read_index hands out the oldest packet. *)
LEMMA PublishDequeues == QueueInv /\ PopPublish => Fifo!Dequeue
<1> SUFFICES ASSUME QueueInv, PopPublish PROVE Fifo!Dequeue
  OBVIOUS
<1>1. TypeOK /\ IndicesInOrder /\ m_read_index' = Succ(m_read_index)
      /\ m_write_index' = m_write_index /\ m_buffer' = m_buffer /\ delivered' = c_packet
  BY DEF QueueInv, PopPublish
<1>2. c_packet = m_buffer[Slot(m_read_index)] /\ m_read_index # c_write
  BY DEF QueueInv, PopPublish, CopyProgress, PastCheck
<1>3. Contents \in Seq(Image) /\ Len(Contents) = Size /\ Size \in Nat
  BY <1>1, ContentsIsSeq
<1>4. Minus(m_read_index, m_read_index) = 0 /\ Size > 0
  <2>1. Minus(m_read_index, m_read_index) = 0
    BY <1>1, MinusZero, TypedIndices
  <2> QED
    BY <1>1, <1>2, <1>3, <2>1, ReaderInside, SMT
<1>5. Size' = Size - 1
  <2>1. m_write_index # m_read_index
    BY <1>4, SMT DEF Size
  <2> QED
    BY <1>1, <2>1, MinusOfSucc, TypedIndices DEF Size
<1>6. \A i \in 1 .. Size - 1 :
        (Succ(m_read_index) + i - 1) % Modulus = (m_read_index + (i + 1) - 1) % Modulus
  <2> TAKE i \in 1 .. Size - 1
  <2>1. i + 1 \in 1 .. Size /\ m_read_index + (i + 1) - 1 = m_read_index + i
        /\ i \in 0 .. m_capacity /\ i - 1 \in 0 .. m_capacity
        /\ Succ(m_read_index) + i - 1 = Succ(m_read_index) + (i - 1)
    BY <1>1, <1>3, SizeBound, TypedIndices, SuccIs, CapacityFacts, SMT DEF Index
  <2>2. (m_read_index + i) % Modulus
          = IF m_read_index + i < Modulus THEN m_read_index + i ELSE (m_read_index + i) - Modulus
    BY <1>1, <2>1, PlusIs, TypedIndices
  <2>3. Succ(m_read_index) \in Index /\
        Succ(m_read_index) = IF m_read_index = Modulus - 1 THEN 0 ELSE m_read_index + 1
    BY <1>1, SuccIs, TypedIndices
  <2>4. (Succ(m_read_index) + (i - 1)) % Modulus
          = IF Succ(m_read_index) + (i - 1) < Modulus THEN Succ(m_read_index) + (i - 1)
            ELSE (Succ(m_read_index) + (i - 1)) - Modulus
    BY <2>1, <2>3, PlusIs
  <2>5. m_read_index \in Index
    BY <1>1, TypedIndices
  <2>6. (Succ(m_read_index) + (i - 1)) % Modulus = (m_read_index + i) % Modulus
    BY <2>1, <2>2, <2>3, <2>4, <2>5, CapacityFacts, SMT DEF Index
  <2> QED
    BY <2>1, <2>6
<1>7. Contents' = [i \in 1 .. Size - 1 |->
                     m_buffer[Slot((m_read_index + (i + 1) - 1) % Modulus)]]
  BY <1>1, <1>5, <1>6 DEF Contents
<1>8. Contents # << >>
  BY <1>3, <1>4, SMT
<1>9. Head(Contents) = c_packet
  <2>1. 1 \in 1 .. Size
    BY <1>3, <1>4, SMT
  <2>2. Contents[1] = m_buffer[Slot((m_read_index + 1 - 1) % Modulus)]
    BY <2>1 DEF Contents
  <2>3. (m_read_index + 1 - 1) % Modulus = m_read_index
    <3>1. Minus((m_read_index + 1 - 1) % Modulus, m_read_index) = 0
          /\ (m_read_index + 1 - 1) % Modulus \in Index
      BY <1>1, <2>1, Position, SMT
    <3> QED
      BY <1>1, <3>1, MinusZero, TypedIndices
  <2> QED
    BY <1>2, <1>3, <1>8, <2>2, <2>3
<1>10. Contents' = Tail(Contents)
  <2>1. \A i \in 1 .. Size - 1 :
          Contents[i + 1] = m_buffer[Slot((m_read_index + (i + 1) - 1) % Modulus)]
    BY <1>3, SMT DEF Contents
  <2> DEFINE elt(i) == m_buffer[Slot((m_read_index + (i + 1) - 1) % Modulus)]
  <2>2. \A i \in 1 .. Size - 1 : elt(i) = Contents[i + 1]
    BY <2>1
  <2>3. Contents' = [i \in 1 .. Size - 1 |-> elt(i)]
    BY <1>7
  <2> HIDE DEF elt
  <2>4. /\ Tail(Contents) \in Seq(Image)
        /\ Len(Tail(Contents)) = Size - 1
        /\ \A i \in 1 .. Size - 1 : Tail(Contents)[i] = Contents[i + 1]
    BY <1>3, <1>8, HeadTailProperties
  <2>5. \A i \in 1 .. Size - 1 : elt(i) \in Image
    BY <1>3, <2>2, SMT
  <2>6. Contents' \in Seq(Image) /\ Len(Contents') = Size - 1
    BY <2>3, <2>5, <1>3, <1>4, SMT
  <2>7. \A i \in 1 .. Size - 1 : Contents'[i] = Tail(Contents)[i]
    BY <2>2, <2>3, <2>4, SMT
  <2> QED
    BY <2>4, <2>6, <2>7, SeqEqual
<1> QED
  BY <1>1, <1>8, <1>9, <1>10 DEF Fifo!Dequeue

(* LockFreeQueue implements BoundedFifo: whatever the capacity, the index  *)
(* width and the interleaving, packets leave whole and in the order in     *)
(* which they entered, none is lost or duplicated, and never more than     *)
(* m_capacity are inside.                                                  *)
THEOREM Refinement == Spec => ImplementsFifo
<1>1. Init => Fifo!FifoInit
  <2> SUFFICES ASSUME Init PROVE Fifo!FifoInit
    OBVIOUS
  <2>1. TypeOK /\ IndicesInOrder
    BY InitEstablishes DEF QueueInv
  <2>2. Size = 0
    <3>1. 0 \in Index
      BY CapacityFacts, SMT DEF Index
    <3> QED
      BY <3>1, MinusZero DEF Init, Size
  <2>3. Contents = << >>
    BY <2>1, <2>2, ContentsIsSeq, SMT
  <2> QED
    BY <2>3 DEF Fifo!FifoInit, Init
<1>2. QueueInv /\ QueueInv' /\ [Next]_vars => [Fifo!FifoNext]_(Fifo!fifoVars)
  <2> SUFFICES ASSUME QueueInv, QueueInv', [Next]_vars
               PROVE  Fifo!FifoNext \/ (Contents' = Contents /\ delivered' = delivered)
    BY DEF Fifo!fifoVars
  <2>1. CASE PushPublish
    BY <2>1, PublishEnqueues DEF Fifo!FifoNext
  <2>2. CASE PopPublish
    BY <2>2, PublishDequeues DEF Fifo!FifoNext
  <2>3. CASE PushCopyHead \/ PushCopyTail
    BY <2>3, ContentsStay DEF PushCopyHead, PushCopyTail, consumerVars
  <2>4. CASE PushLoad \/ PushFull
    BY <2>4, ContentsStay DEF PushLoad, PushFull, consumerVars
  <2>5. CASE PopLoad \/ PopEmpty \/ PopCopyHead \/ PopCopyTail
    BY <2>5, ContentsStay DEF PopLoad, LoadWrite, PopEmpty, PopCopyHead, PopCopyTail
  <2>6. CASE size
    BY <2>6, ContentsStay DEF size, SizeLoadWrite, SizeLoadRead, consumerVars
  <2>7. CASE UNCHANGED vars
    BY <2>7, ContentsStay DEF vars, consumerVars
  <2> QED
    BY <2>1, <2>2, <2>3, <2>4, <2>5, <2>6, <2>7 DEF Next, push, pop
<1> QED
  BY <1>1, <1>2, QueueInvariant, PTL DEF Spec, ImplementsFifo, Fifo!FifoSpec
=============================================================================
