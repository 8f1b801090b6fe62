----------------------------- MODULE MCGateway -----------------------------
(* One process, two keys it knows and one it does not. *)
EXTENDS Gateway
=============================================================================
