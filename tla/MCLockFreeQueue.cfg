\* Capacity 2, indices modulo 4: the indices wrap every fourth packet.
CONSTANTS
  Packet = {p1, p2}
  ZeroPacket = zero
  Requested = 2
  Modulus = 4
  Oldest = 2
SPECIFICATION FairSpec
INVARIANTS QueueInv NoDataRace
PROPERTIES SizeReport ImplementsFifo EveryPacketPopped
