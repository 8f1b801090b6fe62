--------------------------- MODULE PaypalPayments ---------------------------
(***************************************************************************)
(* api/routers/paypal.py over api/services/{paypal,database}_service.py:   *)
(* creating an order, capturing it when the customer returns, the webhook, *)
(* and the admin's refund.  The API runs in several worker processes       *)
(* (WORKERS_COUNT, api/config.py) that share nothing but the database, so  *)
(* handlers interleave at every call to PayPal and to the database; each   *)
(* such call is one step.  A handler may end before its next call: the     *)
(* call raises (every handler turns that into a 500 or the error page),    *)
(* httpx times out, or the process dies.                                   *)
(*                                                                         *)
(* PayPal and the ledger of credits are outside the repository.  Handlers  *)
(* call BillingService.add_credits and deduct_credits, which the           *)
(* repository does not define: as committed the call raises.  CreditCall   *)
(* says what the calls may do.                                             *)
(***************************************************************************)
EXTENDS Naturals

CONSTANTS Order,       \* the ids PayPal may give to orders
          Worker,      \* requests served at the same time
          CreditCall,  \* {"raises"} as committed, {"returns"} once defined
          RefundNames  \* whose id a refund's event carries: the capture's, as the
                       \* code takes it, or the refund's own

ASSUME CreditCallAssumption == CreditCall \subseteq {"returns", "raises"}
ASSUME RefundNamesAssumption == RefundNames \subseteq {"capture", "refund"}

VARIABLES
  pp,         \* PayPal's state of each order
  events,     \* <<type, order>>: webhooks PayPal has not seen acknowledged; type
              \* "UNNAMED" for one about the order that does not carry its id
  db,         \* table payment_orders: one row per order, status "absent" if none
  approvable, \* orders whose approval_url a client has received
  pc,         \* the next call of the request each worker serves
  on,         \* the order that request is about
  credits,    \* the ledger: what each path has added or deducted, per order
  answered    \* events answered "received"

apiVars == <<db, approvable, pc, on, answered>>
vars == <<pp, events, credits, apiVars>>

Absent == [status |-> "absent", txn |-> FALSE, client |-> FALSE]

(* Ledger entries saturate at 2: the properties only tell 0, 1 and more.   *)
Bump(n) == IF n < 2 THEN n + 1 ELSE n

Init ==
  /\ pp = [o \in Order |-> "none"]
  /\ events = {}
  /\ db = [o \in Order |-> Absent]
  /\ approvable = {} /\ answered = {}
  /\ pc = [w \in Worker |-> "idle"]
  /\ on \in [Worker -> Order]
  /\ credits = [o \in Order |-> [capture |-> 0, webhook |-> 0, deducted |-> 0]]

(* w's request goes on to its next call, ends, or starts on order o. *)
Goto(w, label) == pc' = [pc EXCEPT ![w] = label] /\ on' = on
Finish(w) == Goto(w, "idle")
Start(w, label, o) ==
  /\ pc[w] = "idle"
  /\ pc' = [pc EXCEPT ![w] = label]
  /\ on' = [on EXCEPT ![w] = o]

(* The next call raises, times out or is never made. *)
Abort(w) ==
  /\ pc[w] # "idle"
  /\ Finish(w)
  /\ UNCHANGED <<pp, events, credits, db, approvable, answered>>

-----------------------------------------------------------------------------
(* POST /create-order: PayPal gives the order its id, then the row is      *)
(* inserted, then the client learns approval_url.  When PayPal's answer is *)
(* lost the order exists there and nowhere else.                           *)

CreateAtPayPal(w) ==
  /\ \E o \in Order : /\ pp[o] = "none"
                      /\ pp' = [pp EXCEPT ![o] = "created"]
                      /\ Start(w, "insert", o)
  /\ UNCHANGED <<events, credits, db, approvable, answered>>

CreateInsert_UrlFirst(w) ==
  /\ pc[w] = "insert"
  /\ approvable' = approvable \cup {on[w]}
  /\ Goto(w, "insert")
  /\ UNCHANGED <<pp, events, credits, db, answered>>
CreateInsert(w) ==
  /\ pc[w] = "insert"
  /\ \E known \in BOOLEAN :   \* whether the token named a client
       db' = [db EXCEPT ![on[w]] = [status |-> "PENDING", txn |-> FALSE, client |-> known]]
  /\ approvable' \in {approvable, approvable \cup {on[w]}}   \* unless the answer is lost
  /\ Finish(w)
  /\ UNCHANGED <<pp, events, credits, answered>>

-----------------------------------------------------------------------------
(* GET /capture-order/{order_id}: the customer comes back, once, again, or *)
(* without having approved.                                                *)

CaptureBegin(w) ==
  /\ \E o \in approvable : Start(w, "capture", o)
  /\ UNCHANGED <<pp, events, credits, db, approvable, answered>>

(* PayPal's verdict on a capture, and the event that tells of it, which    *)
(* may leave out the related order's id.                                   *)
Settles(o) ==
  \E verdict \in {<<"captured", "COMPLETED">>, <<"denied", "DENIED">>} :
    /\ pp' = [pp EXCEPT ![o] = verdict[1]]
    /\ \E type \in {verdict[2], "UNNAMED"} : events' = events \cup {<<type, o>>}

(* An approved order is captured once: PayPal takes the money, declines    *)
(* it, or holds it for review.                                             *)
Captures(o) ==
  /\ pp[o] = "approved"
  /\ \/ Settles(o)
     \/ pp' = [pp EXCEPT ![o] = "held"] /\ UNCHANGED events

(* 201 and the order's status, COMPLETED whatever became of its capture:   *)
(* captures[].status is never read.                                        *)
CaptureCompleted(w) ==
  /\ pc[w] = "capture"
  /\ Captures(on[w])
  /\ Goto(w, "find")
  /\ UNCHANGED <<credits, db, approvable, answered>>

(* The answer alone is lost: the capture has happened. *)
CaptureUnanswered(w) ==
  /\ pc[w] = "capture"
  /\ Captures(on[w])
  /\ Finish(w)
  /\ UNCHANGED <<credits, db, approvable, answered>>

(* 201 with another order status (the payer has more to do): no capture.   *)
CaptureIncomplete(w) ==
  /\ pc[w] = "capture"
  /\ pp[on[w]] = "approved"
  /\ Goto(w, "fail")
  /\ UNCHANGED <<pp, events, credits, db, approvable, answered>>

(* Anything but a 201, which capture_order turns into an exception.        *)
CaptureRefused_Ignored(w) ==
  /\ pc[w] = "capture"
  /\ pp[on[w]] # "approved"
  /\ Goto(w, "find")
  /\ UNCHANGED <<pp, events, credits, db, approvable, answered>>
CaptureRefused(w) ==
  /\ pc[w] = "capture"
  /\ pp[on[w]] # "approved"
  /\ Finish(w)
  /\ UNCHANGED <<pp, events, credits, db, approvable, answered>>

(* No row: straight to the success page, nothing stored. *)
CaptureFind_CreditsFirst(w) ==
  /\ pc[w] = "find"
  /\ Goto(w, IF db[on[w]].client THEN "add"
             ELSE IF db[on[w]].status # "absent" THEN "complete" ELSE "idle")
  /\ UNCHANGED <<pp, events, credits, db, approvable, answered>>
CaptureFind(w) ==
  /\ pc[w] = "find"
  /\ Goto(w, IF db[on[w]].status # "absent" THEN "complete" ELSE "idle")
  /\ UNCHANGED <<pp, events, credits, db, approvable, answered>>

CaptureUpdate(w) ==
  /\ pc[w] = "complete"
  /\ db' = [db EXCEPT ![on[w]].status = "COMPLETED", ![on[w]].txn = TRUE]
  /\ Goto(w, IF db[on[w]].client THEN "add" ELSE "idle") \* client_id never changes
  /\ UNCHANGED <<pp, events, credits, approvable, answered>>

CaptureCredit(w) ==
  /\ pc[w] = "add"
  /\ "returns" \in CreditCall
  /\ credits' = [credits EXCEPT ![on[w]].capture = Bump(@)]
  /\ Finish(w)
  /\ UNCHANGED <<pp, events, db, approvable, answered>>

(* UPDATE ... WHERE order_id: no row, no effect. *)
SetStatus(o, s) ==
  db' = IF db[o].status = "absent" THEN db ELSE [db EXCEPT ![o].status = s]

CaptureFail(w) ==
  /\ pc[w] = "fail"
  /\ SetStatus(on[w], "FAILED")
  /\ Finish(w)
  /\ UNCHANGED <<pp, events, credits, approvable, answered>>

-----------------------------------------------------------------------------
(* POST /webhook.  PayPal delivers an event again until it is answered     *)
(* with 200; deliveries of one event may overlap, and events come in any   *)
(* order.  A signature PayPal does not confirm ends in 401 (Abort).        *)

Deliver(w, e) ==
  /\ e \in events
  /\ Start(w, e[1], e[2])
  /\ UNCHANGED <<pp, events, credits, db, approvable, answered>>

WebhookBegin(w) == \E e \in events : Deliver(w, e)

WebhookCompleted_NotStored(w) ==
  /\ pc[w] = "COMPLETED"
  /\ Goto(w, "reread")
  /\ UNCHANGED <<pp, events, credits, db, approvable, answered>>
WebhookCompleted_PendingOnly(w) ==
  /\ pc[w] = "COMPLETED"
  /\ db' = IF db[on[w]].status # "PENDING" THEN db
           ELSE [db EXCEPT ![on[w]].status = "COMPLETED", ![on[w]].txn = TRUE]
  /\ Goto(w, "reread")
  /\ UNCHANGED <<pp, events, credits, approvable, answered>>
WebhookCompleted(w) ==
  /\ pc[w] = "COMPLETED"
  /\ db' = IF db[on[w]].status = "absent" THEN db
           ELSE [db EXCEPT ![on[w]].status = "COMPLETED", ![on[w]].txn = TRUE]
  /\ Goto(w, "reread")
  /\ UNCHANGED <<pp, events, credits, approvable, answered>>

(* "Add credits (if not already added)": the row is read after the update, *)
(* and its status decides.                                                 *)
WebhookReread(w) ==
  /\ pc[w] = "reread"
  /\ LET row == db[on[w]] IN
       Goto(w, IF row.status \notin {"absent", "COMPLETED"} /\ row.client
               THEN "webhook_add" ELSE "ack_completed")
  /\ UNCHANGED <<pp, events, credits, db, approvable, answered>>

WebhookCredit(w) ==
  /\ pc[w] = "webhook_add"
  /\ "returns" \in CreditCall
  /\ credits' = [credits EXCEPT ![on[w]].webhook = Bump(@)]
  /\ Goto(w, "ack_completed")
  /\ UNCHANGED <<pp, events, db, approvable, answered>>

WebhookDenied(w) ==
  /\ pc[w] = "DENIED"
  /\ SetStatus(on[w], "DENIED")
  /\ Goto(w, "ack_denied")
  /\ UNCHANGED <<pp, events, credits, approvable, answered>>

(* The order is looked up by the capture's id, its transaction_id.  When   *)
(* the event carries the refund's id, or the order's completion is not     *)
(* recorded yet, no order is found and the event is acknowledged.          *)
WebhookRefunded(w) ==
  /\ pc[w] = "REFUNDED"
  /\ \E id \in RefundNames :
       Goto(w, IF id = "capture" /\ db[on[w]].txn THEN "refund" ELSE "ack_refunded")
  /\ UNCHANGED <<pp, events, credits, db, approvable, answered>>

WebhookRefundUpdate(w) ==
  /\ pc[w] = "refund"
  /\ SetStatus(on[w], "REFUNDED")
  /\ Goto(w, IF db[on[w]].client THEN "deduct" ELSE "ack_refunded")
  /\ UNCHANGED <<pp, events, credits, approvable, answered>>

WebhookDeduct(w) ==
  /\ pc[w] = "deduct"
  /\ "returns" \in CreditCall
  /\ credits' = [credits EXCEPT ![on[w]].deducted = Bump(@)]
  /\ Goto(w, "ack_refunded")
  /\ UNCHANGED <<pp, events, db, approvable, answered>>

Acknowledge(w, label, type) ==
  /\ pc[w] = label
  /\ events' = events \ {<<type, on[w]>>}
  /\ Finish(w)
  /\ answered' = answered \cup {<<type, on[w]>>}
  /\ UNCHANGED <<pp, credits, db, approvable>>

(* An event without an order_id is acknowledged and nothing more.          *)
WebhookAnswer(w) ==
  \/ Acknowledge(w, "UNNAMED", "UNNAMED")
  \/ Acknowledge(w, "ack_completed", "COMPLETED")
  \/ Acknowledge(w, "ack_denied", "DENIED")
  \/ Acknowledge(w, "ack_refunded", "REFUNDED")

-----------------------------------------------------------------------------
(* PayPal and the people in front of it.  POST /refund/{transaction_id} is *)
(* one call to PayPal and changes nothing here.                            *)

Approve(o) ==
  /\ o \in approvable
  /\ pp[o] = "created"
  /\ pp' = [pp EXCEPT ![o] = "approved"]
  /\ UNCHANGED <<events, credits, apiVars>>

Review(o) ==
  /\ pp[o] = "held"
  /\ Settles(o)
  /\ UNCHANGED <<credits, apiVars>>

Refund(o) ==
  /\ pp[o] = "captured"
  /\ pp' = [pp EXCEPT ![o] = "refunded"]
  /\ events' = events \cup {<<"REFUNDED", o>>}
  /\ UNCHANGED <<credits, apiVars>>

-----------------------------------------------------------------------------
create(w) == CreateAtPayPal(w) \/ CreateInsert(w)
capture(w) == \/ CaptureBegin(w) \/ CaptureCompleted(w) \/ CaptureUnanswered(w)
              \/ CaptureIncomplete(w) \/ CaptureRefused(w) \/ CaptureFind(w)
              \/ CaptureUpdate(w) \/ CaptureCredit(w) \/ CaptureFail(w)
webhook(w) == \/ WebhookBegin(w) \/ WebhookCompleted(w) \/ WebhookReread(w)
              \/ WebhookCredit(w) \/ WebhookDenied(w) \/ WebhookRefunded(w)
              \/ WebhookRefundUpdate(w) \/ WebhookDeduct(w) \/ WebhookAnswer(w)

EventType == {"COMPLETED", "DENIED", "REFUNDED", "UNNAMED"}

Next == \/ \E w \in Worker : create(w) \/ capture(w) \/ webhook(w) \/ Abort(w)
        \/ \E o \in Order : Approve(o) \/ Review(o) \/ Refund(o)

(* PayPal delivers each event again until it is answered, and not every    *)
(* try fails before its first update; a request being served ends.         *)
Fairness ==
  /\ \A e \in EventType \X Order :
       SF_vars(\E w \in Worker : Deliver(w, e))
  /\ \A w \in Worker : /\ WF_vars(Abort(w))
                        /\ \A o \in Order : SF_vars(on[w] = o /\ WebhookCompleted(w))

Spec == Init /\ [][Next]_vars
FairSpec == Spec /\ Fairness

-----------------------------------------------------------------------------
PayPalState == {"none", "created", "approved", "held", "captured", "denied", "refunded"}
Status == {"absent", "PENDING", "COMPLETED", "FAILED", "DENIED", "REFUNDED"}
Label == {"idle", "insert", "capture", "find", "complete", "add", "fail", "reread",
          "webhook_add", "ack_completed", "ack_denied", "refund", "deduct",
          "ack_refunded"} \cup EventType

TypeOK ==
  /\ pp \in [Order -> PayPalState]
  /\ events \subseteq EventType \X Order
  /\ db \in [Order -> [status : Status, txn : BOOLEAN, client : BOOLEAN]]
  /\ approvable \subseteq Order /\ answered \subseteq EventType \X Order
  /\ pc \in [Worker -> Label]
  /\ on \in [Worker -> Order]
  /\ credits \in [Order -> [capture : 0 .. 2, webhook : 0 .. 2, deducted : 0 .. 2]]

Paid(o) == pp[o] \in {"captured", "refunded"}
Taken(o) == pp[o] \in {"held", "captured", "denied", "refunded"}   \* its one capture
Capturing(w) == pc[w] \in {"find", "complete", "add"}

(* Money is taken only for an order the database knows, whatever fails     *)
(* between PayPal's order and the row.                                     *)
PaidHasRow == \A o \in Order : Paid(o) => db[o].status # "absent"

(* What a row and the credits do claim: COMPLETED and credits, that PayPal *)
(* has made the order's one capture and that its id is stored, though the  *)
(* money may still be held, or be declined; credits from the webhook, that *)
(* the money has come; REFUNDED and deductions, that it has gone back;     *)
(* DENIED, that it was declined; FAILED, only that the order was approved. *)
Backed ==
  \A o \in Order :
    /\ db[o].status = "COMPLETED" => Taken(o) /\ db[o].txn
    /\ db[o].status = "REFUNDED" => pp[o] = "refunded" /\ db[o].txn
    /\ db[o].status = "DENIED" => pp[o] = "denied"
    /\ db[o].status = "FAILED" => pp[o] \notin {"none", "created"}
    /\ credits[o].capture > 0 => Taken(o) /\ db[o].client
    /\ credits[o].webhook > 0 => Paid(o) /\ db[o].client
    /\ credits[o].deducted > 0 => pp[o] = "refunded"

(* However often and however concurrently the customer's browser calls     *)
(* /capture-order, that path credits one payment once.                     *)
CaptureCreditsOnce ==
  \A o \in Order :
    /\ credits[o].capture <= 1
    /\ \A v, w \in Worker :
         Capturing(v) /\ Capturing(w) /\ on[v] = o /\ on[w] = o => v = w

(* What the calls of a request in progress rely on, the strengthening that *)
(* makes the three properties above inductive.                             *)
KnownOrders ==
  \A o \in Order :
    /\ pp[o] = "none" => db[o].status = "absent" /\ o \notin approvable
    /\ pp[o] \notin {"none", "created"} => o \in approvable
    /\ o \in approvable => db[o].status # "absent"
    /\ db[o].status = "absent" => ~db[o].txn /\ ~db[o].client

InsertingFresh ==
  \A w \in Worker : pc[w] = "insert" =>
    /\ pp[on[w]] = "created"
    /\ db[on[w]].status = "absent"
    /\ on[w] \notin approvable
    /\ \A v \in Worker : pc[v] = "insert" /\ on[v] = on[w] => v = w

CapturingOnce ==
  \A w \in Worker : Capturing(w) => Taken(on[w]) /\ credits[on[w]].capture = 0

(* PayPal's events are true, and so is what a handler has concluded. *)
EventHolds(type, o) ==
  CASE type = "COMPLETED" -> Paid(o)
    [] type = "DENIED" -> pp[o] = "denied"
    [] type = "REFUNDED" -> pp[o] = "refunded"
    [] type = "UNNAMED" -> pp[o] \in {"captured", "denied", "refunded"}
EventsTrue == \A e \in events : EventHolds(e[1], e[2])
Right(w) ==
  /\ pc[w] \in {"COMPLETED", "reread", "webhook_add"} => Paid(on[w])
  /\ pc[w] = "DENIED" => pp[on[w]] = "denied"
  /\ pc[w] \in {"REFUNDED", "refund", "deduct"} => pp[on[w]] = "refunded"
  /\ pc[w] = "fail" => pp[on[w]] \notin {"none", "created"}
  /\ pc[w] = "complete" => db[on[w]].status # "absent"
  /\ pc[w] \in {"refund", "deduct"} => db[on[w]].txn
  /\ pc[w] \in {"add", "webhook_add"} => db[on[w]].client
HandlersRight == \A w \in Worker : Right(w)

(* No payment is forgotten: whatever was lost, cut short or answered in    *)
(* whatever order, one that the table does not hold yet is one that PayPal *)
(* still delivers, and one whose event was answered is in the table; but   *)
(* for an event that did not say which order it was about.                 *)
NoPaymentForgotten ==
  \A o \in Order :
    /\ Paid(o) /\ ~db[o].txn =>
         <<"COMPLETED", o>> \in events \/ <<"UNNAMED", o>> \in events \cup answered
    /\ <<"COMPLETED", o>> \in answered => db[o].txn

(* A capture is credited and a delivery answered after the payment was     *)
(* stored: what NoPaymentForgotten and ImplementsLedger rest on.           *)
StoredFirst ==
  \A w \in Worker :
    pc[w] \in {"add", "reread", "webhook_add", "ack_completed"} => db[on[w]].txn

(* The inductive invariant. *)
PaymentInv == TypeOK /\ KnownOrders /\ InsertingFresh /\ CapturingOnce
                /\ EventsTrue /\ HandlersRight /\ Backed /\ CaptureCreditsOnce
                /\ StoredFirst /\ NoPaymentForgotten

(* A row, once inserted, is never taken away nor given to another client,  *)
(* and its transaction id stays, which a refund is looked up by: the       *)
(* insert of create_payment_order never meets a row that is there.         *)
RowKept(o) ==
  /\ db[o].status # "absent" => db'[o].status # "absent" /\ db'[o].client = db[o].client
  /\ db[o].txn => db'[o].txn
RowsKept == [][\A o \in Order : RowKept(o)]_vars

(* The handlers, however they interleave, fail, are repeated or overtaken, *)
(* take every order through the stages of OrderLedger: the capture after   *)
(* the row is there, its transaction id after the capture, credits after   *)
(* that, and deductions after a refund of a recorded payment.              *)
Ledger == INSTANCE OrderLedger WITH
  offered  <- {o \in Order : db[o].status # "absent"},
  captured <- {o \in Order : Taken(o)},
  paid     <- {o \in Order : Paid(o)},
  booked   <- {o \in Order : db[o].txn},
  credited <- {o \in Order : credits[o].capture + credits[o].webhook > 0},
  refunded <- {o \in Order : pp[o] = "refunded"},
  deducted <- {o \in Order : credits[o].deducted > 0}
ImplementsLedger == Ledger!LedgerSpec

(* A payment PayPal has taken is recorded in the end, also when the        *)
(* customer's return never got that far: the webhook is delivered again    *)
(* until one try has stored it, unless it does not name the order.         *)
PaymentRecorded ==
  \A o \in Order :
    pp[o] = "captured" ~> db[o].txn \/ <<"UNNAMED", o>> \in events \cup answered

(* What the webhook does about credits when no other request changes the   *)
(* row between its update and its look at it: nothing, since it finds the  *)
(* COMPLETED it has just written.                                          *)
WebhookCreditsNothing ==
  /\ \A w \in Worker :
       /\ pc[w] = "reread" => db[on[w]].status = "COMPLETED"
       /\ pc[w] # "webhook_add"
  /\ \A o \in Order : credits[o].webhook = 0

(* "Add credits (if not already added)", routers/paypal.py:183: once the   *)
(* COMPLETED webhook of a known client's order has been answered, the      *)
(* payment has been credited, once.                                        *)
AnsweredMeansCredited ==
  \A o \in Order :
    <<"COMPLETED", o>> \in answered /\ db[o].client /\ (\A w \in Worker : pc[w] = "idle" \/ on[w] # o)
      => credits[o].capture + credits[o].webhook = 1
=============================================================================
