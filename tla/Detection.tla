------------------------------ MODULE Detection ------------------------------
(***************************************************************************)
(* The verdict on a packet (core/deepfake_detector.cpp) and the vector     *)
(* loops it is computed by (core/avx512_math.cpp): Lanes samples at a      *)
(* time, then the rest one by one.                                         *)
(*                                                                         *)
(* A packet's samples are integers, tenths of the code's floats; a result  *)
(* that divides is kept as its numerator.  Scores are hundredths: in the   *)
(* code's floats too the weights 0.40f and 0.25f add up to exactly 0.65f.  *)
(***************************************************************************)
EXTENDS Integers, Sequences, Functions

CONSTANTS Lanes,    \* floats in a vector register, 16
          Word      \* size_t counts modulo Word, which stands for 2^64

ASSUME DetectionAssumption == Lanes \in Nat \ {0} /\ Word \in Nat /\ Word > 2 * Lanes

Minus(a, b) == (a - b) % Word

(* Where the vector loop starts a chunk: i <= length - 16, in size_t.      *)
Chunks(length) == {i \in 0 .. Minus(length, Lanes) : i % Lanes = 0}

(* The rest: from where the vector loop has left i. *)
Rest_FromNextChunk(length) == {i \in 0 .. length - 1 : i >= Lanes * (length \div Lanes + 1)}
Rest(length) == {i \in 0 .. length - 1 : \A c \in Chunks(length) : i >= c + Lanes}

(* A sum of term[i] over the samples, as all three functions make it: with *)
(* fewer than Lanes samples one by one, else a sum in each lane, their     *)
(* total, and the rest.                                                    *)
Lane(term, length, l) == SumFunction([c \in Chunks(length) |-> term[c + l]])
Total(term, length) ==
  IF length < Lanes
    THEN SumFunctionOnSet(term, 0 .. length - 1)
    ELSE SumFunction([l \in 0 .. Lanes - 1 |-> Lane(term, length, l)])
           + SumFunctionOnSet(term, Rest(length))

(* The mean, times the number of samples; the variance, times its cube. *)
calculate_mean(data) == Total([i \in 0 .. Len(data) - 1 |-> data[i + 1]], Len(data))
calculate_variance(data) ==
  LET n == Len(data)
      mean == calculate_mean(data)
      diff(i) == n * data[i + 1] - mean
  IN  Total([i \in 0 .. n - 1 |-> diff(i) * diff(i)], n)
dot_product(a, b) == Total([i \in 0 .. Len(a) - 1 |-> a[i + 1] * b[i + 1]], Len(a))

-----------------------------------------------------------------------------
(* variance < 0.045 *)
LowVariance(data) ==
  10 * calculate_variance(data) < 45 * (Len(data) * Len(data) * Len(data))

(* The weights after initialize(); no caller loads those of the network.   *)
EnsembleScore(packet) ==
  (IF LowVariance(packet.samples) THEN 40 ELSE 0)
    + (IF packet.lowZcr THEN 35 ELSE 0)
    + (IF packet.lowFlatness THEN 25 ELSE 0)

analyze_AtThreshold(packet) == Len(packet.samples) >= 32 /\ EnsembleScore(packet) >= 65
analyze_voice_channel(packet) == Len(packet.samples) >= 32 /\ EnsembleScore(packet) > 65
=============================================================================
