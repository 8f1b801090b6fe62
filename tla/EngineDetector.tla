--------------------------- MODULE EngineDetector ---------------------------
(***************************************************************************)
(* Engine with its detector: main() asks analyze_voice_channel() about the *)
(* samples of each packet it pops.  The function keeps no state, so all of *)
(* it that Engine sees is the set of packets it answers true for.          *)
(***************************************************************************)
EXTENDS Engine, Detection

CONSTANTS Signal,    \* what a packet may hold: its samples, and whether their
                     \* zero-crossing rate and spectral flatness are low
          Contents   \* what each packet of the run holds

ASSUME SignalAssumption ==
  \A p \in Signal : /\ p.samples \in Seq(Int) /\ Len(p.samples) < Word
                    /\ p.lowZcr \in BOOLEAN /\ p.lowFlatness \in BOOLEAN

ASSUME DetectorAssumption ==
  /\ Contents \in [Packet -> Signal]
  /\ Deepfake = {p \in Packet : analyze_voice_channel(Contents[p])}

(* The textbook's variance of the samples, times the square of their       *)
(* number: that times the sum of squares, less the square of the sum.      *)
Products(a, b) == [i \in DOMAIN a |-> a[i] * b[i]]
Spread(data) ==
  LET sum == SumFunction(data)
  IN  Len(data) * SumFunction(Products(data, data)) - sum * sum

Voiced(p) ==
  LET n == Len(p.samples)
  IN  n >= 32 /\ 10 * Spread(p.samples) < 45 * (n * n) /\ p.lowZcr

(* The packets main() blocks are those with enough samples, a variance     *)
(* below 0.045, however the vector loops come by it, and few zero          *)
(* crossings, and no others: in the ensemble of three of                   *)
(* analyze_voice_channel() the flatness never decides, since beside one of *)
(* the others it only reaches the threshold.                               *)
FlatnessNeverDecides ==
  /\ pc = "start" => \A p \in Signal : analyze_voice_channel(p) <=> Voiced(p)
  /\ pc = "blocked" => out # NoPacket /\ Voiced(Contents[out])

(* For any number of samples, with and without a rest, the vector loops    *)
(* compute what they are named for: mean and dot product as sums over all  *)
(* samples, and the textbook's variance.                                   *)
SumsAgree(data) ==
  /\ calculate_mean(data) = SumFunction(data)
  /\ calculate_variance(data) = Len(data) * Spread(data)
VectorsAgree ==
  pc = "start" =>
    /\ \A p \in Signal : SumsAgree(p.samples)
    /\ \A p, q \in Signal :
         Len(p.samples) = Len(q.samples) =>
           dot_product(p.samples, q.samples) = SumFunction(Products(p.samples, q.samples))
=============================================================================
