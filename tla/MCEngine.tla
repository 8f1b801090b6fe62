------------------------------ MODULE MCEngine ------------------------------
(***************************************************************************)
(* A small instance of EngineDetector: a hum that fills its vectors, a     *)
(* hiss that leaves a rest of eight samples, and a click of too few        *)
(* samples to be looked at.                                                *)
(***************************************************************************)
EXTENDS EngineDetector

Quiet(n) == [i \in 1 .. n |-> 3]
Noise(n) == [i \in 1 .. n |-> IF i % 2 = 0 THEN 5 ELSE -5]
MCContents ==
  [hum   |-> [samples |-> Quiet(64), lowZcr |-> TRUE,  lowFlatness |-> FALSE],
   hiss  |-> [samples |-> Noise(40), lowZcr |-> FALSE, lowFlatness |-> TRUE],
   click |-> [samples |-> Quiet(31), lowZcr |-> TRUE,  lowFlatness |-> TRUE]]

\* Samples for all verdicts, and a ramp of every length up to four vectors.
Ramp(n) == [i \in 1 .. n |-> (i % 7) - (i % 3)]
MCSignal ==
  [samples : {Quiet(31), Quiet(32), Quiet(40), Quiet(64), Noise(32), Noise(40)},
   lowZcr : BOOLEAN, lowFlatness : BOOLEAN]
  \cup [samples : {Ramp(n) : n \in 1 .. 4 * Lanes},
        lowZcr : {FALSE}, lowFlatness : {TRUE}]
=============================================================================
