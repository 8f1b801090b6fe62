------------------------- MODULE MCPaypalPayments -------------------------
(* Small instances of PaypalPayments: one order, two requests at a time. *)
EXTENDS PaypalPayments
=============================================================================
