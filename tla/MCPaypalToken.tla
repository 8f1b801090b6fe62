---------------------------- MODULE MCPaypalToken ----------------------------
(* A small instance of PaypalToken: a clock up to three seconds off. *)
EXTENDS PaypalToken

MCSkew == {-3, 0, 3}
=============================================================================
