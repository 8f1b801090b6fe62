---------------------------- MODULE MCXdpFilter ----------------------------
(* Two CPUs; one source pinned to each of them, one delivered to both. *)
EXTENDS XdpFilter, TLC

CONSTANTS c1, c2, left, right, both

MCSteer == left :> {c1} @@ right :> {c2} @@ both :> {c1, c2}
=============================================================================
