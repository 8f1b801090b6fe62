\* Three packets through a queue of two: it is full, drained and left unread.
\* Vectors of 16 floats.
CONSTANTS
  Packet = {"hum", "hiss", "click"}
  Deepfake = {"hum"}
  NoPacket = none
  Capacity = 2
  Modulus = 256
  MaxPushed = 3
  Lanes = 16
  Word = 256
  Signal <- MCSignal
  Contents <- MCContents
SPECIFICATION FairSpec
INVARIANTS EngineInv OrderlyEnd FlatnessNeverDecides VectorsAgree
PROPERTIES StatsHonest SignalEnds
CHECK_DEADLOCK FALSE
