---------------------------- MODULE OrderLedger ----------------------------
(***************************************************************************)
(* What selling credits comes to, without requests, workers, webhooks and  *)
(* failures: each order goes through its stages one at a time and in this  *)
(* order, and no stage is ever taken back.  api/routers/paypal.py is shown *)
(* to implement it in module PaypalPayments.                               *)
(***************************************************************************)
CONSTANT Order

VARIABLES
  offered,    \* orders the shop knows,
  captured,   \* whose one capture has been made,
  paid,       \* whose money has come of it,
  booked,     \* whose capture the shop has recorded,
  credited,   \* that have brought their client credits,
  refunded,   \* whose money has been given back,
  deducted    \* and whose credits have been taken off again

ledgerVars == <<offered, captured, paid, booked, credited, refunded, deducted>>

LedgerInit ==
  /\ offered = {} /\ captured = {} /\ paid = {} /\ booked = {}
  /\ credited = {} /\ refunded = {} /\ deducted = {}

(* A capture is made of what the shop knows it sells.  The money comes     *)
(* with it, later or never.                                                *)
Offer(o) ==
  /\ o \notin offered
  /\ offered' = offered \cup {o}
  /\ UNCHANGED <<captured, paid, booked, credited, refunded, deducted>>
Capture(o) ==
  /\ o \in offered \ captured
  /\ captured' = captured \cup {o}
  /\ paid' \in {paid, paid \cup {o}}
  /\ UNCHANGED <<offered, booked, credited, refunded, deducted>>
Settle(o) ==
  /\ o \in captured \ paid
  /\ paid' = paid \cup {o}
  /\ UNCHANGED <<offered, captured, booked, credited, refunded, deducted>>

(* The shop does not wait for the money: it records a capture that has     *)
(* been made, and gives credits for one it has recorded.                   *)
Book(o) ==
  /\ o \in captured \ booked
  /\ booked' = booked \cup {o}
  /\ UNCHANGED <<offered, captured, paid, credited, refunded, deducted>>
Credit(o) ==
  /\ o \in booked \ credited
  /\ credited' = credited \cup {o}
  /\ UNCHANGED <<offered, captured, paid, booked, refunded, deducted>>

(* What was paid may be given back; the credits of a recorded payment go   *)
(* when the money has gone.                                                *)
GiveBack(o) ==
  /\ o \in paid \ refunded
  /\ refunded' = refunded \cup {o}
  /\ UNCHANGED <<offered, captured, paid, booked, credited, deducted>>
Deduct(o) ==
  /\ o \in (booked \cap refunded) \ deducted
  /\ deducted' = deducted \cup {o}
  /\ UNCHANGED <<offered, captured, paid, booked, credited, refunded>>

LedgerNext ==
  \E o \in Order :
    \/ Offer(o) \/ Capture(o) \/ Settle(o) \/ Book(o) \/ Credit(o)
    \/ GiveBack(o) \/ Deduct(o)

LedgerSpec == LedgerInit /\ [][LedgerNext]_ledgerVars
=============================================================================
