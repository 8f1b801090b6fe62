----------------------- MODULE PaypalPaymentsProofs -----------------------
(* What the payment handlers keep true, for any number of orders and of    *)
(* requests served at the same time, and what is left of it behind the     *)
(* middleware.                                                             *)
EXTENDS PaymentsBehindAuth, TLAPS

(* No order, no row, no request.                                           *)
LEMMA InitInv == Init => PaymentInv
<1>. SUFFICES ASSUME Init PROVE PaymentInv
  OBVIOUS
<1>1. TypeOK
  BY DEF Init, TypeOK, Absent, PayPalState, Status, Label, EventType
<1>2. KnownOrders /\ InsertingFresh /\ CapturingOnce /\ EventsTrue /\ HandlersRight
  BY DEF Init, Absent, KnownOrders, InsertingFresh, CapturingOnce, EventsTrue,
     HandlersRight, Right, Capturing
<1>3. Backed /\ CaptureCreditsOnce
  BY DEF Init, Absent, Backed, CaptureCreditsOnce, Capturing
<1>4. StoredFirst /\ NoPaymentForgotten
  BY DEF Init, Absent, StoredFirst, NoPaymentForgotten, Paid
<1>5. QED
  BY <1>1, <1>2, <1>3, <1>4 DEF PaymentInv

-----------------------------------------------------------------------------
(* What a request that starts on a webhook knows: the event is true.       *)
LEMMA WebhookStarts ==
  ASSUME PaymentInv, NEW w \in Worker, WebhookBegin(w)
  PROVE  \E type \in EventType, o \in Order :
           /\ EventHolds(type, o)
           /\ Start(w, type, o)
           /\ UNCHANGED <<pp, events, credits, db, approvable, answered>>
<1>1. PICK e \in events : Deliver(w, e)
  BY DEF WebhookBegin, Deliver
<1>2. e[1] \in EventType /\ e[2] \in Order
  BY DEF PaymentInv, TypeOK
<1>3. EventHolds(e[1], e[2])
  BY DEF PaymentInv, EventsTrue
<1>4. QED
  BY <1>1, <1>2, <1>3 DEF Deliver

(* A verdict on a capture, and what its event says if it names the order.  *)
LEMMA Verdicts ==
  ASSUME NEW o \in Order, Settles(o)
  PROVE  \E s \in {"captured", "denied"}, type \in {"COMPLETED", "DENIED", "UNNAMED"} :
           /\ pp' = [pp EXCEPT ![o] = s]
           /\ events' = events \cup {<<type, o>>}
           /\ type = "COMPLETED" => s = "captured"
           /\ type = "DENIED" => s = "denied"
<1>1. PICK verdict \in {<<"captured", "COMPLETED">>, <<"denied", "DENIED">>} :
        /\ pp' = [pp EXCEPT ![o] = verdict[1]]
        /\ \E type \in {verdict[2], "UNNAMED"} : events' = events \cup {<<type, o>>}
  BY DEF Settles
<1>2. PICK type \in {verdict[2], "UNNAMED"} : events' = events \cup {<<type, o>>}
  BY <1>1
<1>3. CASE verdict = <<"captured", "COMPLETED">>
  BY <1>1, <1>2, <1>3
<1>4. CASE verdict = <<"denied", "DENIED">>
  BY <1>1, <1>2, <1>4
<1>5. QED
  BY <1>3, <1>4

(* What a capture makes of an order, whether or not the request learns it. *)
LEMMA CapturedOnce ==
  ASSUME NEW o \in Order, Captures(o)
  PROVE  /\ pp[o] = "approved"
         /\ \E s \in {"held", "captured", "denied"} : pp' = [pp EXCEPT ![o] = s]
BY DEF Captures, Settles

(* Both keep PayPal's side of its type.                                    *)
LEMMA CapturesTyped ==
  ASSUME TypeOK, NEW o \in Order, Captures(o) \/ Settles(o)
  PROVE  pp' \in [Order -> PayPalState] /\ events' \subseteq EventType \X Order
<1>. USE DEF TypeOK, PayPalState, EventType
<1>1. CASE Settles(o)
  <2>1. PICK s \in {"captured", "denied"}, type \in {"COMPLETED", "DENIED", "UNNAMED"} :
          pp' = [pp EXCEPT ![o] = s] /\ events' = events \cup {<<type, o>>}
    BY <1>1, Verdicts
  <2>2. QED
    BY <2>1
<1>2. CASE pp' = [pp EXCEPT ![o] = "held"] /\ UNCHANGED events
  BY <1>2
<1>3. QED
  BY <1>1, <1>2 DEF Captures

(* Ledger entries stay in range.                                           *)
LEMMA BumpType == \A n \in 0 .. 2 : Bump(n) \in 0 .. 2
BY DEF Bump

(* A row whose status is set, or that is completed, is still a row.        *)
LEMMA RowsTyped ==
  ASSUME TypeOK, NEW o \in Order, NEW s \in Status
  PROVE  /\ [db EXCEPT ![o].status = s] \in [Order -> [status : Status, txn : BOOLEAN, client : BOOLEAN]]
         /\ [db EXCEPT ![o].status = "COMPLETED", ![o].txn = TRUE]
              \in [Order -> [status : Status, txn : BOOLEAN, client : BOOLEAN]]
<1>. DEFINE Row == [status : Status, txn : BOOLEAN, client : BOOLEAN]
<1>1. db \in [Order -> Row] /\ "COMPLETED" \in Status
  BY DEF TypeOK, Status
<1>2. db[o] \in Row
  BY <1>1
<1>3. [db[o] EXCEPT !.status = s] \in Row /\ [db[o] EXCEPT !.status = "COMPLETED", !.txn = TRUE] \in Row
  BY <1>1, <1>2
<1>4. /\ [db EXCEPT ![o].status = s] = [db EXCEPT ![o] = [db[o] EXCEPT !.status = s]]
      /\ [db EXCEPT ![o].status = "COMPLETED", ![o].txn = TRUE]
           = [db EXCEPT ![o] = [db[o] EXCEPT !.status = "COMPLETED", !.txn = TRUE]]
  BY <1>1
<1>5. QED
  BY <1>1, <1>3, <1>4

(* Types.                                                                  *)
LEMMA TypePreserved == PaymentInv /\ [Next]_vars => TypeOK'
<1>. SUFFICES ASSUME PaymentInv, [Next]_vars PROVE TypeOK'
  OBVIOUS
<1>. USE DEF PaymentInv, TypeOK, PayPalState, Status, Label, EventType
<1>1. ASSUME NEW w \in Worker, CreateAtPayPal(w) PROVE TypeOK'
  BY <1>1 DEF CreateAtPayPal, Start
<1>2. ASSUME NEW w \in Worker, CreateInsert(w) PROVE TypeOK'
  BY <1>2 DEF CreateInsert, Finish, Goto
<1>3. ASSUME NEW w \in Worker, CaptureBegin(w) PROVE TypeOK'
  BY <1>3 DEF CaptureBegin, Start
<1>4. ASSUME NEW w \in Worker, CaptureCompleted(w) PROVE TypeOK'
  BY <1>4, CapturesTyped DEF CaptureCompleted, Goto
<1>5. ASSUME NEW w \in Worker, CaptureIncomplete(w) PROVE TypeOK'
  BY <1>5 DEF CaptureIncomplete, Goto
<1>6. ASSUME NEW w \in Worker, CaptureUnanswered(w) PROVE TypeOK'
  BY <1>6, CapturesTyped DEF CaptureUnanswered, Finish, Goto
<1>7. ASSUME NEW w \in Worker, CaptureRefused(w) PROVE TypeOK'
  BY <1>7 DEF CaptureRefused, Finish, Goto
<1>8. ASSUME NEW w \in Worker, CaptureFind(w) PROVE TypeOK'
  BY <1>8 DEF CaptureFind, Goto
<1>9. ASSUME NEW w \in Worker, CaptureUpdate(w) PROVE TypeOK'
  <2>1. on[w] \in Order /\ "COMPLETED" \in Status
    OBVIOUS
  <2>2. db' \in [Order -> [status : Status, txn : BOOLEAN, client : BOOLEAN]]
    BY <1>9, <2>1, RowsTyped DEF CaptureUpdate
  <2>3. QED
    BY <1>9, <2>2 DEF CaptureUpdate, Goto
<1>10. ASSUME NEW w \in Worker, CaptureCredit(w) PROVE TypeOK'
  <2>1. Bump(credits[on[w]].capture) \in 0 .. 2
    BY BumpType
  <2>2. credits' \in [Order -> [capture : 0 .. 2, webhook : 0 .. 2, deducted : 0 .. 2]]
    BY <1>10, <2>1 DEF CaptureCredit
  <2>3. QED
    BY <1>10, <2>2 DEF CaptureCredit, Goto, Finish
<1>11. ASSUME NEW w \in Worker, CaptureFail(w) PROVE TypeOK'
  <2>1. on[w] \in Order /\ "FAILED" \in Status
    OBVIOUS
  <2>2. db' \in [Order -> [status : Status, txn : BOOLEAN, client : BOOLEAN]]
    BY <1>11, <2>1, RowsTyped DEF CaptureFail, SetStatus
  <2>3. QED
    BY <1>11, <2>2 DEF CaptureFail, Finish, Goto
<1>12. ASSUME NEW w \in Worker, WebhookBegin(w) PROVE TypeOK'
  BY <1>12 DEF WebhookBegin, Deliver, Start
<1>13. ASSUME NEW w \in Worker, WebhookCompleted(w) PROVE TypeOK'
  <2>1. on[w] \in Order /\ "COMPLETED" \in Status
    OBVIOUS
  <2>2. db' \in [Order -> [status : Status, txn : BOOLEAN, client : BOOLEAN]]
    BY <1>13, <2>1, RowsTyped DEF WebhookCompleted
  <2>3. QED
    BY <1>13, <2>2 DEF WebhookCompleted, Goto
<1>14. ASSUME NEW w \in Worker, WebhookReread(w) PROVE TypeOK'
  BY <1>14 DEF WebhookReread, Goto
<1>15. ASSUME NEW w \in Worker, WebhookCredit(w) PROVE TypeOK'
  <2>1. Bump(credits[on[w]].webhook) \in 0 .. 2
    BY BumpType
  <2>2. credits' \in [Order -> [capture : 0 .. 2, webhook : 0 .. 2, deducted : 0 .. 2]]
    BY <1>15, <2>1 DEF WebhookCredit
  <2>3. QED
    BY <1>15, <2>2 DEF WebhookCredit, Goto, Finish
<1>16. ASSUME NEW w \in Worker, WebhookDenied(w) PROVE TypeOK'
  <2>1. on[w] \in Order /\ "DENIED" \in Status
    OBVIOUS
  <2>2. db' \in [Order -> [status : Status, txn : BOOLEAN, client : BOOLEAN]]
    BY <1>16, <2>1, RowsTyped DEF WebhookDenied, SetStatus
  <2>3. QED
    BY <1>16, <2>2 DEF WebhookDenied, Goto
<1>17. ASSUME NEW w \in Worker, WebhookRefunded(w) PROVE TypeOK'
  BY <1>17 DEF WebhookRefunded, Goto
<1>18. ASSUME NEW w \in Worker, WebhookRefundUpdate(w) PROVE TypeOK'
  <2>1. on[w] \in Order /\ "REFUNDED" \in Status
    OBVIOUS
  <2>2. db' \in [Order -> [status : Status, txn : BOOLEAN, client : BOOLEAN]]
    BY <1>18, <2>1, RowsTyped DEF WebhookRefundUpdate, SetStatus
  <2>3. QED
    BY <1>18, <2>2 DEF WebhookRefundUpdate, Goto
<1>19. ASSUME NEW w \in Worker, WebhookDeduct(w) PROVE TypeOK'
  <2>1. Bump(credits[on[w]].deducted) \in 0 .. 2
    BY BumpType
  <2>2. credits' \in [Order -> [capture : 0 .. 2, webhook : 0 .. 2, deducted : 0 .. 2]]
    BY <1>19, <2>1 DEF WebhookDeduct
  <2>3. QED
    BY <1>19, <2>2 DEF WebhookDeduct, Goto, Finish
<1>20. ASSUME NEW w \in Worker, WebhookAnswer(w) PROVE TypeOK'
  <2>1. PICK type \in EventType : answered' = answered \cup {<<type, on[w]>>}
    BY <1>20 DEF WebhookAnswer, Acknowledge
  <2>2. on[w] \in Order
    OBVIOUS
  <2>3. answered' \subseteq EventType \X Order
    BY <2>1, <2>2
  <2>4. QED
    BY <1>20, <2>3 DEF WebhookAnswer, Acknowledge, Finish, Goto
<1>21. ASSUME NEW w \in Worker, Abort(w) PROVE TypeOK'
  BY <1>21 DEF Abort, Finish, Goto
<1>22. ASSUME NEW o \in Order, Approve(o) PROVE TypeOK'
  BY <1>22 DEF Approve, apiVars
<1>23. ASSUME NEW o \in Order, Review(o) PROVE TypeOK'
  BY <1>23, CapturesTyped DEF Review, apiVars
<1>24. ASSUME NEW o \in Order, Refund(o) PROVE TypeOK'
  BY <1>24 DEF Refund, apiVars
<1>25. CASE UNCHANGED vars
  BY <1>25 DEF vars, apiVars
<1>26. QED
  BY <1>1, <1>2, <1>3, <1>4, <1>5, <1>6, <1>7, <1>8, <1>9, <1>10, <1>11, <1>12, <1>13,
     <1>14, <1>15, <1>16, <1>17, <1>18, <1>19, <1>20, <1>21, <1>22, <1>23, <1>24,
     <1>25 DEF Next, create, capture, webhook

(* Order ids, rows and approval URLs appear in this order.                 *)
LEMMA KnownPreserved == PaymentInv /\ [Next]_vars => KnownOrders'
<1>. SUFFICES ASSUME PaymentInv, [Next]_vars PROVE KnownOrders'
  OBVIOUS
<1>. USE DEF PaymentInv, TypeOK, KnownOrders, InsertingFresh, HandlersRight, Right,
     CapturingOnce, Paid, Capturing
<1>1. ASSUME NEW w \in Worker, CreateAtPayPal(w) PROVE KnownOrders'
  BY <1>1 DEF CreateAtPayPal, Start
<1>2. ASSUME NEW w \in Worker, CreateInsert(w) PROVE KnownOrders'
  BY <1>2 DEF CreateInsert, Finish, Goto
<1>3. ASSUME NEW w \in Worker, CaptureBegin(w) PROVE KnownOrders'
  BY <1>3 DEF CaptureBegin, Start
<1>4. ASSUME NEW w \in Worker, CaptureCompleted(w) PROVE KnownOrders'
  BY <1>4, CapturedOnce DEF CaptureCompleted, Goto
<1>5. ASSUME NEW w \in Worker, CaptureIncomplete(w) PROVE KnownOrders'
  BY <1>5 DEF CaptureIncomplete, Goto
<1>6. ASSUME NEW w \in Worker, CaptureUnanswered(w) PROVE KnownOrders'
  BY <1>6, CapturedOnce DEF CaptureUnanswered, Finish, Goto
<1>7. ASSUME NEW w \in Worker, CaptureRefused(w) PROVE KnownOrders'
  BY <1>7 DEF CaptureRefused, Finish, Goto
<1>8. ASSUME NEW w \in Worker, CaptureFind(w) PROVE KnownOrders'
  BY <1>8 DEF CaptureFind, Goto
<1>9. ASSUME NEW w \in Worker, CaptureUpdate(w) PROVE KnownOrders'
  BY <1>9 DEF CaptureUpdate, Goto
<1>10. ASSUME NEW w \in Worker, CaptureCredit(w) PROVE KnownOrders'
  BY <1>10 DEF CaptureCredit, Finish, Bump, Goto
<1>11. ASSUME NEW w \in Worker, CaptureFail(w) PROVE KnownOrders'
  BY <1>11 DEF CaptureFail, Finish, SetStatus, Goto
<1>12. ASSUME NEW w \in Worker, WebhookBegin(w) PROVE KnownOrders'
  BY <1>12 DEF WebhookBegin, Deliver, Start
<1>13. ASSUME NEW w \in Worker, WebhookCompleted(w) PROVE KnownOrders'
  BY <1>13 DEF WebhookCompleted, Goto
<1>14. ASSUME NEW w \in Worker, WebhookReread(w) PROVE KnownOrders'
  BY <1>14 DEF WebhookReread, Goto
<1>15. ASSUME NEW w \in Worker, WebhookCredit(w) PROVE KnownOrders'
  BY <1>15 DEF WebhookCredit, Goto, Bump
<1>16. ASSUME NEW w \in Worker, WebhookDenied(w) PROVE KnownOrders'
  BY <1>16 DEF WebhookDenied, Goto, SetStatus
<1>17. ASSUME NEW w \in Worker, WebhookRefunded(w) PROVE KnownOrders'
  BY <1>17 DEF WebhookRefunded, Goto
<1>18. ASSUME NEW w \in Worker, WebhookRefundUpdate(w) PROVE KnownOrders'
  BY <1>18 DEF WebhookRefundUpdate, Goto, SetStatus
<1>19. ASSUME NEW w \in Worker, WebhookDeduct(w) PROVE KnownOrders'
  BY <1>19 DEF WebhookDeduct, Goto, Bump
<1>20. ASSUME NEW w \in Worker, WebhookAnswer(w) PROVE KnownOrders'
  BY <1>20 DEF WebhookAnswer, Acknowledge, Finish, Goto
<1>21. ASSUME NEW w \in Worker, Abort(w) PROVE KnownOrders'
  BY <1>21 DEF Abort, Finish, Goto
<1>22. ASSUME NEW o \in Order, Approve(o) PROVE KnownOrders'
  BY <1>22 DEF Approve, apiVars
<1>23. ASSUME NEW o \in Order, Review(o) PROVE KnownOrders'
  BY <1>23, Verdicts DEF Review, apiVars
<1>24. ASSUME NEW o \in Order, Refund(o) PROVE KnownOrders'
  BY <1>24 DEF Refund, apiVars
<1>25. CASE UNCHANGED vars
  BY <1>25 DEF vars, apiVars
<1>26. QED
  BY <1>1, <1>2, <1>3, <1>4, <1>5, <1>6, <1>7, <1>8, <1>9, <1>10, <1>11, <1>12, <1>13,
     <1>14, <1>15, <1>16, <1>17, <1>18, <1>19, <1>20, <1>21, <1>22, <1>23, <1>24,
     <1>25 DEF Next, create, capture, webhook

(* An order PayPal has just created is still the creator's alone.          *)
LEMMA InsertingPreserved == PaymentInv /\ [Next]_vars => InsertingFresh'
<1>. SUFFICES ASSUME PaymentInv, [Next]_vars PROVE InsertingFresh'
  OBVIOUS
<1>. USE DEF PaymentInv, TypeOK, KnownOrders, InsertingFresh, CapturingOnce,
     HandlersRight, Right, Paid, Taken, Capturing
<1>1. ASSUME NEW w \in Worker, CreateAtPayPal(w) PROVE InsertingFresh'
  BY <1>1 DEF CreateAtPayPal, Start
<1>2. ASSUME NEW w \in Worker, CreateInsert(w) PROVE InsertingFresh'
  BY <1>2 DEF CreateInsert, Finish, Goto
<1>3. ASSUME NEW w \in Worker, CaptureBegin(w) PROVE InsertingFresh'
  BY <1>3 DEF CaptureBegin, Start
<1>4. ASSUME NEW w \in Worker, CaptureCompleted(w) PROVE InsertingFresh'
  BY <1>4, CapturedOnce DEF CaptureCompleted, Goto
<1>5. ASSUME NEW w \in Worker, CaptureIncomplete(w) PROVE InsertingFresh'
  BY <1>5 DEF CaptureIncomplete, Goto
<1>6. ASSUME NEW w \in Worker, CaptureUnanswered(w) PROVE InsertingFresh'
  BY <1>6, CapturedOnce DEF CaptureUnanswered, Finish, Goto
<1>7. ASSUME NEW w \in Worker, CaptureRefused(w) PROVE InsertingFresh'
  BY <1>7 DEF CaptureRefused, Finish, Goto
<1>8. ASSUME NEW w \in Worker, CaptureFind(w) PROVE InsertingFresh'
  BY <1>8 DEF CaptureFind, Goto
<1>9. ASSUME NEW w \in Worker, CaptureUpdate(w) PROVE InsertingFresh'
  BY <1>9 DEF CaptureUpdate, Goto
<1>10. ASSUME NEW w \in Worker, CaptureCredit(w) PROVE InsertingFresh'
  BY <1>10 DEF CaptureCredit, Finish, Bump, Goto
<1>11. ASSUME NEW w \in Worker, CaptureFail(w) PROVE InsertingFresh'
  BY <1>11 DEF CaptureFail, Finish, SetStatus, Goto
<1>12. ASSUME NEW w \in Worker, WebhookBegin(w) PROVE InsertingFresh'
  <2>1. PICK type \in EventType, o \in Order :
          Start(w, type, o) /\ UNCHANGED <<pp, db, approvable>>
    BY <1>12, WebhookStarts
  <2>2. \A v \in Worker : pc'[v] = "insert" => pc[v] = "insert" /\ on'[v] = on[v]
    BY <2>1 DEF Start, EventType
  <2>3. QED
    BY <2>1, <2>2
<1>13. ASSUME NEW w \in Worker, WebhookCompleted(w) PROVE InsertingFresh'
  BY <1>13 DEF WebhookCompleted, Goto
<1>14. ASSUME NEW w \in Worker, WebhookReread(w) PROVE InsertingFresh'
  BY <1>14 DEF WebhookReread, Goto
<1>15. ASSUME NEW w \in Worker, WebhookCredit(w) PROVE InsertingFresh'
  BY <1>15 DEF WebhookCredit, Goto, Bump
<1>16. ASSUME NEW w \in Worker, WebhookDenied(w) PROVE InsertingFresh'
  BY <1>16 DEF WebhookDenied, Goto, SetStatus
<1>17. ASSUME NEW w \in Worker, WebhookRefunded(w) PROVE InsertingFresh'
  BY <1>17 DEF WebhookRefunded, Goto
<1>18. ASSUME NEW w \in Worker, WebhookRefundUpdate(w) PROVE InsertingFresh'
  BY <1>18 DEF WebhookRefundUpdate, Goto, SetStatus
<1>19. ASSUME NEW w \in Worker, WebhookDeduct(w) PROVE InsertingFresh'
  BY <1>19 DEF WebhookDeduct, Goto, Bump
<1>20. ASSUME NEW w \in Worker, WebhookAnswer(w) PROVE InsertingFresh'
  BY <1>20 DEF WebhookAnswer, Acknowledge, Finish, Goto
<1>21. ASSUME NEW w \in Worker, Abort(w) PROVE InsertingFresh'
  BY <1>21 DEF Abort, Finish, Goto
<1>22. ASSUME NEW o \in Order, Approve(o) PROVE InsertingFresh'
  BY <1>22 DEF Approve, apiVars
<1>23. ASSUME NEW o \in Order, Review(o) PROVE InsertingFresh'
  BY <1>23, Verdicts DEF Review, apiVars
<1>24. ASSUME NEW o \in Order, Refund(o) PROVE InsertingFresh'
  BY <1>24 DEF Refund, apiVars
<1>25. CASE UNCHANGED vars
  BY <1>25 DEF vars, apiVars
<1>26. QED
  BY <1>1, <1>2, <1>3, <1>4, <1>5, <1>6, <1>7, <1>8, <1>9, <1>10, <1>11, <1>12, <1>13,
     <1>14, <1>15, <1>16, <1>17, <1>18, <1>19, <1>20, <1>21, <1>22, <1>23, <1>24,
     <1>25 DEF Next, create, capture, webhook

(* PayPal captures once, so one request at most has a capture to store.    *)
LEMMA CapturingPreserved == PaymentInv /\ [Next]_vars => CapturingOnce'
<1>. SUFFICES ASSUME PaymentInv, [Next]_vars PROVE CapturingOnce'
  OBVIOUS
<1>. USE DEF PaymentInv, TypeOK, CapturingOnce, CaptureCreditsOnce, Paid, Taken, Capturing
<1>1. ASSUME NEW w \in Worker, CreateAtPayPal(w) PROVE CapturingOnce'
  BY <1>1 DEF CreateAtPayPal, Start
<1>2. ASSUME NEW w \in Worker, CreateInsert(w) PROVE CapturingOnce'
  BY <1>2 DEF CreateInsert, Finish, Goto
<1>3. ASSUME NEW w \in Worker, CaptureBegin(w) PROVE CapturingOnce'
  BY <1>3 DEF CaptureBegin, Start
<1>4. ASSUME NEW w \in Worker, CaptureCompleted(w) PROVE CapturingOnce'
  <2>1. /\ on[w] \in Order /\ Captures(on[w]) /\ credits' = credits
        /\ pc' = [pc EXCEPT ![w] = "find"] /\ on' = on
    BY <1>4 DEF CaptureCompleted, Goto
  <2>2. PICK s \in {"held", "captured", "denied"} : pp' = [pp EXCEPT ![on[w]] = s]
    BY <2>1, CapturedOnce
  <2>3. pp[on[w]] = "approved"
    BY <2>1, CapturedOnce
  <2>4. credits[on[w]].capture = 0
    <3>1. ~(credits[on[w]].capture > 0)
      BY <2>1, <2>3 DEF Backed
    <3>2. credits[on[w]].capture \in 0 .. 2
      BY <2>1
    <3>3. QED
      BY <3>1, <3>2
  <2>5. \A v \in Worker : v # w /\ Capturing(v) => on[v] # on[w]
    BY <2>1, <2>3
  <2>6. QED
    BY <2>1, <2>2, <2>4, <2>5
<1>5. ASSUME NEW w \in Worker, CaptureIncomplete(w) PROVE CapturingOnce'
  BY <1>5 DEF CaptureIncomplete, Goto
<1>6. ASSUME NEW w \in Worker, CaptureUnanswered(w) PROVE CapturingOnce'
  BY <1>6, CapturedOnce DEF CaptureUnanswered, Finish, Goto
<1>7. ASSUME NEW w \in Worker, CaptureRefused(w) PROVE CapturingOnce'
  BY <1>7 DEF CaptureRefused, Finish, Goto
<1>8. ASSUME NEW w \in Worker, CaptureFind(w) PROVE CapturingOnce'
  BY <1>8 DEF CaptureFind, Goto
<1>9. ASSUME NEW w \in Worker, CaptureUpdate(w) PROVE CapturingOnce'
  BY <1>9 DEF CaptureUpdate, Goto
<1>10. ASSUME NEW w \in Worker, CaptureCredit(w) PROVE CapturingOnce'
  BY <1>10 DEF CaptureCredit, Finish, Bump, Goto
<1>11. ASSUME NEW w \in Worker, CaptureFail(w) PROVE CapturingOnce'
  BY <1>11 DEF CaptureFail, Finish, SetStatus, Goto
<1>12. ASSUME NEW w \in Worker, WebhookBegin(w) PROVE CapturingOnce'
  BY <1>12, WebhookStarts, SMTT(60) DEF Start, EventType
<1>13. ASSUME NEW w \in Worker, WebhookCompleted(w) PROVE CapturingOnce'
  BY <1>13 DEF WebhookCompleted, Goto
<1>14. ASSUME NEW w \in Worker, WebhookReread(w) PROVE CapturingOnce'
  BY <1>14 DEF WebhookReread, Goto
<1>15. ASSUME NEW w \in Worker, WebhookCredit(w) PROVE CapturingOnce'
  BY <1>15 DEF WebhookCredit, Goto, Bump
<1>16. ASSUME NEW w \in Worker, WebhookDenied(w) PROVE CapturingOnce'
  BY <1>16 DEF WebhookDenied, Goto, SetStatus
<1>17. ASSUME NEW w \in Worker, WebhookRefunded(w) PROVE CapturingOnce'
  BY <1>17 DEF WebhookRefunded, Goto
<1>18. ASSUME NEW w \in Worker, WebhookRefundUpdate(w) PROVE CapturingOnce'
  BY <1>18 DEF WebhookRefundUpdate, Goto, SetStatus
<1>19. ASSUME NEW w \in Worker, WebhookDeduct(w) PROVE CapturingOnce'
  BY <1>19 DEF WebhookDeduct, Goto, Bump
<1>20. ASSUME NEW w \in Worker, WebhookAnswer(w) PROVE CapturingOnce'
  BY <1>20 DEF WebhookAnswer, Acknowledge, Finish, Goto
<1>21. ASSUME NEW w \in Worker, Abort(w) PROVE CapturingOnce'
  BY <1>21 DEF Abort, Finish, Goto
<1>22. ASSUME NEW o \in Order, Approve(o) PROVE CapturingOnce'
  BY <1>22 DEF Approve, apiVars
<1>23. ASSUME NEW o \in Order, Review(o) PROVE CapturingOnce'
  BY <1>23, Verdicts DEF Review, apiVars
<1>24. ASSUME NEW o \in Order, Refund(o) PROVE CapturingOnce'
  BY <1>24 DEF Refund, apiVars
<1>25. CASE UNCHANGED vars
  BY <1>25 DEF vars, apiVars
<1>26. QED
  BY <1>1, <1>2, <1>3, <1>4, <1>5, <1>6, <1>7, <1>8, <1>9, <1>10, <1>11, <1>12, <1>13,
     <1>14, <1>15, <1>16, <1>17, <1>18, <1>19, <1>20, <1>21, <1>22, <1>23, <1>24,
     <1>25 DEF Next, create, capture, webhook

(* A verdict is on an order PayPal has told nothing about, and is true.    *)
LEMMA VerdictTrue ==
  ASSUME PaymentInv, NEW o \in Order, pp[o] \in {"approved", "held"}, Settles(o)
  PROVE  EventsTrue'
<1>1. PICK s \in {"captured", "denied"}, type \in {"COMPLETED", "DENIED", "UNNAMED"} :
        /\ pp' = [pp EXCEPT ![o] = s]
        /\ events' = events \cup {<<type, o>>}
        /\ type = "COMPLETED" => s = "captured"
        /\ type = "DENIED" => s = "denied"
  BY Verdicts
<1>2. ASSUME NEW e \in events PROVE EventHolds(e[1], e[2])'
  <2>1. e[1] \in EventType /\ e[2] \in Order /\ EventHolds(e[1], e[2])
    BY DEF PaymentInv, TypeOK, EventsTrue
  <2>2. e[2] # o
    BY <2>1 DEF EventHolds, Paid, EventType
  <2>3. pp'[e[2]] = pp[e[2]]
    BY <1>1, <2>1, <2>2 DEF PaymentInv, TypeOK
  <2>4. QED
    BY <2>1, <2>3 DEF EventHolds, Paid, EventType
<1>3. EventHolds(type, o)'
  <2>1. pp'[o] = s
    BY <1>1 DEF PaymentInv, TypeOK
  <2>2. QED
    BY <1>1, <2>1 DEF EventHolds, Paid
<1>4. ASSUME NEW e \in events' PROVE EventHolds(e[1], e[2])'
  <2>1. CASE e = <<type, o>>
    BY <1>3, <2>1
  <2>2. QED
    BY <1>1, <1>2, <2>1
<1>5. QED
  BY <1>4 DEF EventsTrue

(* So is what the events say of an order whose capture is held.            *)
LEMMA HoldTrue ==
  ASSUME PaymentInv, NEW o \in Order, pp[o] = "approved",
         pp' = [pp EXCEPT ![o] = "held"], events' = events
  PROVE  EventsTrue'
<1>1. ASSUME NEW e \in events PROVE EventHolds(e[1], e[2])'
  <2>1. e[1] \in EventType /\ e[2] \in Order /\ EventHolds(e[1], e[2])
    BY DEF PaymentInv, TypeOK, EventsTrue
  <2>2. e[2] # o
    BY <2>1 DEF EventHolds, Paid, EventType
  <2>3. pp'[e[2]] = pp[e[2]]
    BY <2>1, <2>2 DEF PaymentInv, TypeOK
  <2>4. QED
    BY <2>1, <2>3 DEF EventHolds, Paid, EventType
<1>2. QED
  BY <1>1 DEF EventsTrue

(* PayPal's events stay true: captured, denied and refunded are final enough. *)
LEMMA EventsPreserved == PaymentInv /\ [Next]_vars => EventsTrue'
<1>. SUFFICES ASSUME PaymentInv, [Next]_vars PROVE EventsTrue'
  OBVIOUS
<1>. USE DEF PaymentInv, TypeOK, EventsTrue, Paid, EventType
<1>1. ASSUME NEW w \in Worker, CreateAtPayPal(w) PROVE EventsTrue'
  BY <1>1 DEF CreateAtPayPal, Start, EventHolds
<1>2. ASSUME NEW w \in Worker, CreateInsert(w) PROVE EventsTrue'
  BY <1>2 DEF CreateInsert, Finish, Goto, EventHolds
<1>3. ASSUME NEW w \in Worker, CaptureBegin(w) PROVE EventsTrue'
  BY <1>3 DEF CaptureBegin, Start, EventHolds
<1>4. ASSUME NEW w \in Worker, CaptureCompleted(w) PROVE EventsTrue'
  BY <1>4, VerdictTrue, HoldTrue DEF CaptureCompleted, Captures
<1>5. ASSUME NEW w \in Worker, CaptureIncomplete(w) PROVE EventsTrue'
  BY <1>5 DEF CaptureIncomplete, Goto, EventHolds
<1>6. ASSUME NEW w \in Worker, CaptureUnanswered(w) PROVE EventsTrue'
  BY <1>6, VerdictTrue, HoldTrue DEF CaptureUnanswered, Captures
<1>7. ASSUME NEW w \in Worker, CaptureRefused(w) PROVE EventsTrue'
  BY <1>7 DEF CaptureRefused, Finish, Goto, EventHolds
<1>8. ASSUME NEW w \in Worker, CaptureFind(w) PROVE EventsTrue'
  BY <1>8 DEF CaptureFind, Goto, EventHolds
<1>9. ASSUME NEW w \in Worker, CaptureUpdate(w) PROVE EventsTrue'
  BY <1>9 DEF CaptureUpdate, Goto, EventHolds
<1>10. ASSUME NEW w \in Worker, CaptureCredit(w) PROVE EventsTrue'
  BY <1>10 DEF CaptureCredit, Finish, Bump, Goto, EventHolds
<1>11. ASSUME NEW w \in Worker, CaptureFail(w) PROVE EventsTrue'
  BY <1>11 DEF CaptureFail, Finish, SetStatus, Goto, EventHolds
<1>12. ASSUME NEW w \in Worker, WebhookBegin(w) PROVE EventsTrue'
  BY <1>12 DEF WebhookBegin, Deliver, Start, EventHolds
<1>13. ASSUME NEW w \in Worker, WebhookCompleted(w) PROVE EventsTrue'
  BY <1>13 DEF WebhookCompleted, Goto, EventHolds
<1>14. ASSUME NEW w \in Worker, WebhookReread(w) PROVE EventsTrue'
  BY <1>14 DEF WebhookReread, Goto, EventHolds
<1>15. ASSUME NEW w \in Worker, WebhookCredit(w) PROVE EventsTrue'
  BY <1>15 DEF WebhookCredit, Goto, Bump, EventHolds
<1>16. ASSUME NEW w \in Worker, WebhookDenied(w) PROVE EventsTrue'
  BY <1>16 DEF WebhookDenied, Goto, SetStatus, EventHolds
<1>17. ASSUME NEW w \in Worker, WebhookRefunded(w) PROVE EventsTrue'
  BY <1>17 DEF WebhookRefunded, Goto, EventHolds
<1>18. ASSUME NEW w \in Worker, WebhookRefundUpdate(w) PROVE EventsTrue'
  BY <1>18 DEF WebhookRefundUpdate, Goto, SetStatus, EventHolds
<1>19. ASSUME NEW w \in Worker, WebhookDeduct(w) PROVE EventsTrue'
  BY <1>19 DEF WebhookDeduct, Goto, Bump, EventHolds
<1>20. ASSUME NEW w \in Worker, WebhookAnswer(w) PROVE EventsTrue'
  BY <1>20 DEF WebhookAnswer, Acknowledge, Finish, Goto, EventHolds
<1>21. ASSUME NEW w \in Worker, Abort(w) PROVE EventsTrue'
  BY <1>21 DEF Abort, Finish, Goto, EventHolds
<1>22. ASSUME NEW o \in Order, Approve(o) PROVE EventsTrue'
  BY <1>22 DEF Approve, apiVars, EventHolds
<1>23. ASSUME NEW o \in Order, Review(o) PROVE EventsTrue'
  BY <1>23, VerdictTrue DEF Review
<1>24. ASSUME NEW o \in Order, Refund(o) PROVE EventsTrue'
  <2>1. /\ events' = events \cup {<<"REFUNDED", o>>} /\ o \in Order
        /\ pp[o] = "captured" /\ pp' = [pp EXCEPT ![o] = "refunded"]
    BY <1>24 DEF Refund
  <2>2. ASSUME NEW e \in events PROVE EventHolds(e[1], e[2])'
    <3>1. e[1] \in EventType /\ e[2] \in Order /\ EventHolds(e[1], e[2])
      OBVIOUS
    <3>2. QED
      BY <2>1, <3>1 DEF EventHolds
  <2>3. EventHolds("REFUNDED", o)'
    BY <2>1 DEF EventHolds
  <2>4. ASSUME NEW e \in events' PROVE EventHolds(e[1], e[2])'
    <3>1. CASE e = <<"REFUNDED", o>>
      BY <2>1, <2>3, <3>1
    <3>2. QED
      BY <2>1, <2>2, <3>1
  <2>5. QED
    BY <2>4
<1>25. CASE UNCHANGED vars
  BY <1>25 DEF vars, apiVars, EventHolds
<1>26. QED
  BY <1>1, <1>2, <1>3, <1>4, <1>5, <1>6, <1>7, <1>8, <1>9, <1>10, <1>11, <1>12, <1>13,
     <1>14, <1>15, <1>16, <1>17, <1>18, <1>19, <1>20, <1>21, <1>22, <1>23, <1>24,
     <1>25 DEF Next, create, capture, webhook

(* What each handler has concluded stays true until its request ends.      *)
LEMMA HandlersPreserved == PaymentInv /\ [Next]_vars => HandlersRight'
<1>. SUFFICES ASSUME PaymentInv, [Next]_vars PROVE HandlersRight'
  OBVIOUS
<1>. USE DEF PaymentInv, TypeOK, KnownOrders, InsertingFresh, CapturingOnce,
     HandlersRight, Right, Paid, Taken, Capturing
<1>1. ASSUME NEW w \in Worker, CreateAtPayPal(w) PROVE HandlersRight'
  BY <1>1 DEF CreateAtPayPal, Start
<1>2. ASSUME NEW w \in Worker, CreateInsert(w) PROVE HandlersRight'
  BY <1>2 DEF CreateInsert, Finish, Goto
<1>3. ASSUME NEW w \in Worker, CaptureBegin(w) PROVE HandlersRight'
  BY <1>3 DEF CaptureBegin, Start
<1>4. ASSUME NEW w \in Worker, CaptureCompleted(w) PROVE HandlersRight'
  BY <1>4, CapturedOnce DEF CaptureCompleted, Goto
<1>5. ASSUME NEW w \in Worker, CaptureIncomplete(w) PROVE HandlersRight'
  BY <1>5 DEF CaptureIncomplete, Goto
<1>6. ASSUME NEW w \in Worker, CaptureUnanswered(w) PROVE HandlersRight'
  BY <1>6, CapturedOnce DEF CaptureUnanswered, Finish, Goto
<1>7. ASSUME NEW w \in Worker, CaptureRefused(w) PROVE HandlersRight'
  BY <1>7 DEF CaptureRefused, Finish, Goto
<1>8. ASSUME NEW w \in Worker, CaptureFind(w) PROVE HandlersRight'
  BY <1>8 DEF CaptureFind, Goto
<1>9. ASSUME NEW w \in Worker, CaptureUpdate(w) PROVE HandlersRight'
  BY <1>9 DEF CaptureUpdate, Goto
<1>10. ASSUME NEW w \in Worker, CaptureCredit(w) PROVE HandlersRight'
  BY <1>10 DEF CaptureCredit, Finish, Bump, Goto
<1>11. ASSUME NEW w \in Worker, CaptureFail(w) PROVE HandlersRight'
  BY <1>11 DEF CaptureFail, Finish, SetStatus, Goto
<1>12. ASSUME NEW w \in Worker, WebhookBegin(w) PROVE HandlersRight'
  BY <1>12, WebhookStarts DEF Start, EventHolds, EventType
<1>13. ASSUME NEW w \in Worker, WebhookCompleted(w) PROVE HandlersRight'
  BY <1>13 DEF WebhookCompleted, Goto
<1>14. ASSUME NEW w \in Worker, WebhookReread(w) PROVE HandlersRight'
  BY <1>14 DEF WebhookReread, Goto
<1>15. ASSUME NEW w \in Worker, WebhookCredit(w) PROVE HandlersRight'
  BY <1>15 DEF WebhookCredit, Goto, Bump
<1>16. ASSUME NEW w \in Worker, WebhookDenied(w) PROVE HandlersRight'
  BY <1>16 DEF WebhookDenied, Goto, SetStatus
<1>17. ASSUME NEW w \in Worker, WebhookRefunded(w) PROVE HandlersRight'
  BY <1>17 DEF WebhookRefunded, Goto
<1>18. ASSUME NEW w \in Worker, WebhookRefundUpdate(w) PROVE HandlersRight'
  BY <1>18 DEF WebhookRefundUpdate, Goto, SetStatus
<1>19. ASSUME NEW w \in Worker, WebhookDeduct(w) PROVE HandlersRight'
  BY <1>19 DEF WebhookDeduct, Goto, Bump
<1>20. ASSUME NEW w \in Worker, WebhookAnswer(w) PROVE HandlersRight'
  BY <1>20 DEF WebhookAnswer, Acknowledge, Finish, Goto
<1>21. ASSUME NEW w \in Worker, Abort(w) PROVE HandlersRight'
  BY <1>21 DEF Abort, Finish, Goto
<1>22. ASSUME NEW o \in Order, Approve(o) PROVE HandlersRight'
  BY <1>22 DEF Approve, apiVars
<1>23. ASSUME NEW o \in Order, Review(o) PROVE HandlersRight'
  <2>1. pp[o] = "held" /\ UNCHANGED <<credits, db, pc, on>>
    BY <1>23 DEF Review, apiVars
  <2>2. PICK s \in {"captured", "denied"} : pp' = [pp EXCEPT ![o] = s]
    BY <1>23, Verdicts DEF Review
  <2>3. ASSUME NEW v \in Worker PROVE Right(v)'
    <3>1. Right(v) /\ on[v] \in Order
      OBVIOUS
    <3>2. CASE on[v] = o
      BY <2>1, <2>2, <3>1, <3>2
    <3>3. CASE on[v] # o
      BY <2>1, <2>2, <3>1, <3>3
    <3>4. QED
      BY <3>2, <3>3
  <2>4. QED
    BY <2>3 DEF HandlersRight
<1>24. ASSUME NEW o \in Order, Refund(o) PROVE HandlersRight'
  BY <1>24 DEF Refund, apiVars
<1>25. CASE UNCHANGED vars
  BY <1>25 DEF vars, apiVars
<1>26. QED
  BY <1>1, <1>2, <1>3, <1>4, <1>5, <1>6, <1>7, <1>8, <1>9, <1>10, <1>11, <1>12, <1>13,
     <1>14, <1>15, <1>16, <1>17, <1>18, <1>19, <1>20, <1>21, <1>22, <1>23, <1>24,
     <1>25 DEF Next, create, capture, webhook

(* Rows and credits are written by handlers that are right.                *)
LEMMA BackedPreserved == PaymentInv /\ [Next]_vars => Backed'
<1>. SUFFICES ASSUME PaymentInv, [Next]_vars PROVE Backed'
  OBVIOUS
<1>. USE DEF PaymentInv, TypeOK, KnownOrders, InsertingFresh, CapturingOnce,
     HandlersRight, Right, Paid, Taken, Capturing, Backed
<1>1. ASSUME NEW w \in Worker, CreateAtPayPal(w) PROVE Backed'
  BY <1>1 DEF CreateAtPayPal, Start
<1>2. ASSUME NEW w \in Worker, CreateInsert(w) PROVE Backed'
  BY <1>2 DEF CreateInsert, Finish, Goto
<1>3. ASSUME NEW w \in Worker, CaptureBegin(w) PROVE Backed'
  BY <1>3 DEF CaptureBegin, Start
<1>4. ASSUME NEW w \in Worker, CaptureCompleted(w) PROVE Backed'
  BY <1>4, CapturedOnce DEF CaptureCompleted, Goto
<1>5. ASSUME NEW w \in Worker, CaptureIncomplete(w) PROVE Backed'
  BY <1>5 DEF CaptureIncomplete, Goto
<1>6. ASSUME NEW w \in Worker, CaptureUnanswered(w) PROVE Backed'
  BY <1>6, CapturedOnce DEF CaptureUnanswered, Finish, Goto
<1>7. ASSUME NEW w \in Worker, CaptureRefused(w) PROVE Backed'
  BY <1>7 DEF CaptureRefused, Finish, Goto
<1>8. ASSUME NEW w \in Worker, CaptureFind(w) PROVE Backed'
  BY <1>8 DEF CaptureFind, Goto
<1>9. ASSUME NEW w \in Worker, CaptureUpdate(w) PROVE Backed'
  BY <1>9 DEF CaptureUpdate, Goto
<1>10. ASSUME NEW w \in Worker, CaptureCredit(w) PROVE Backed'
  BY <1>10 DEF CaptureCredit, Finish, Bump, Goto
<1>11. ASSUME NEW w \in Worker, CaptureFail(w) PROVE Backed'
  BY <1>11 DEF CaptureFail, Finish, SetStatus, Goto
<1>12. ASSUME NEW w \in Worker, WebhookBegin(w) PROVE Backed'
  BY <1>12 DEF WebhookBegin, Deliver, Start
<1>13. ASSUME NEW w \in Worker, WebhookCompleted(w) PROVE Backed'
  BY <1>13 DEF WebhookCompleted, Goto
<1>14. ASSUME NEW w \in Worker, WebhookReread(w) PROVE Backed'
  BY <1>14 DEF WebhookReread, Goto
<1>15. ASSUME NEW w \in Worker, WebhookCredit(w) PROVE Backed'
  BY <1>15 DEF WebhookCredit, Goto, Bump
<1>16. ASSUME NEW w \in Worker, WebhookDenied(w) PROVE Backed'
  BY <1>16 DEF WebhookDenied, Goto, SetStatus
<1>17. ASSUME NEW w \in Worker, WebhookRefunded(w) PROVE Backed'
  BY <1>17 DEF WebhookRefunded, Goto
<1>18. ASSUME NEW w \in Worker, WebhookRefundUpdate(w) PROVE Backed'
  BY <1>18 DEF WebhookRefundUpdate, Goto, SetStatus
<1>19. ASSUME NEW w \in Worker, WebhookDeduct(w) PROVE Backed'
  BY <1>19 DEF WebhookDeduct, Goto, Bump
<1>20. ASSUME NEW w \in Worker, WebhookAnswer(w) PROVE Backed'
  BY <1>20 DEF WebhookAnswer, Acknowledge, Finish, Goto
<1>21. ASSUME NEW w \in Worker, Abort(w) PROVE Backed'
  BY <1>21 DEF Abort, Finish, Goto
<1>22. ASSUME NEW o \in Order, Approve(o) PROVE Backed'
  BY <1>22 DEF Approve, apiVars
<1>23. ASSUME NEW o \in Order, Review(o) PROVE Backed'
  BY <1>23, Verdicts DEF Review, apiVars
<1>24. ASSUME NEW o \in Order, Refund(o) PROVE Backed'
  BY <1>24 DEF Refund, apiVars
<1>25. CASE UNCHANGED vars
  BY <1>25 DEF vars, apiVars
<1>26. QED
  BY <1>1, <1>2, <1>3, <1>4, <1>5, <1>6, <1>7, <1>8, <1>9, <1>10, <1>11, <1>12, <1>13,
     <1>14, <1>15, <1>16, <1>17, <1>18, <1>19, <1>20, <1>21, <1>22, <1>23, <1>24,
     <1>25 DEF Next, create, capture, webhook

(* The capture path credits once.                                          *)
LEMMA CreditsPreserved == PaymentInv /\ [Next]_vars => CaptureCreditsOnce'
<1>. SUFFICES ASSUME PaymentInv, [Next]_vars PROVE CaptureCreditsOnce'
  OBVIOUS
<1>. USE DEF PaymentInv, TypeOK, CapturingOnce, CaptureCreditsOnce, Paid, Taken, Capturing,
     Backed
<1>1. ASSUME NEW w \in Worker, CreateAtPayPal(w) PROVE CaptureCreditsOnce'
  BY <1>1 DEF CreateAtPayPal, Start
<1>2. ASSUME NEW w \in Worker, CreateInsert(w) PROVE CaptureCreditsOnce'
  BY <1>2 DEF CreateInsert, Finish, Goto
<1>3. ASSUME NEW w \in Worker, CaptureBegin(w) PROVE CaptureCreditsOnce'
  BY <1>3 DEF CaptureBegin, Start
<1>4. ASSUME NEW w \in Worker, CaptureCompleted(w) PROVE CaptureCreditsOnce'
  <2>1. /\ on[w] \in Order /\ Captures(on[w]) /\ credits' = credits
        /\ pc' = [pc EXCEPT ![w] = "find"] /\ on' = on
    BY <1>4 DEF CaptureCompleted, Goto
  <2>2. \A v \in Worker : Capturing(v) => on[v] # on[w]
    BY <2>1, CapturedOnce
  <2>3. \A v \in Worker : Capturing(v)' => v = w \/ Capturing(v)
    BY <2>1
  <2>4. QED
    BY <2>1, <2>2, <2>3 DEF CaptureCreditsOnce
<1>5. ASSUME NEW w \in Worker, CaptureIncomplete(w) PROVE CaptureCreditsOnce'
  BY <1>5 DEF CaptureIncomplete, Goto
<1>6. ASSUME NEW w \in Worker, CaptureUnanswered(w) PROVE CaptureCreditsOnce'
  BY <1>6, CapturedOnce DEF CaptureUnanswered, Finish, Goto
<1>7. ASSUME NEW w \in Worker, CaptureRefused(w) PROVE CaptureCreditsOnce'
  BY <1>7 DEF CaptureRefused, Finish, Goto
<1>8. ASSUME NEW w \in Worker, CaptureFind(w) PROVE CaptureCreditsOnce'
  BY <1>8 DEF CaptureFind, Goto
<1>9. ASSUME NEW w \in Worker, CaptureUpdate(w) PROVE CaptureCreditsOnce'
  BY <1>9 DEF CaptureUpdate, Goto
<1>10. ASSUME NEW w \in Worker, CaptureCredit(w) PROVE CaptureCreditsOnce'
  BY <1>10 DEF CaptureCredit, Finish, Bump, Goto
<1>11. ASSUME NEW w \in Worker, CaptureFail(w) PROVE CaptureCreditsOnce'
  BY <1>11 DEF CaptureFail, Finish, SetStatus, Goto
<1>12. ASSUME NEW w \in Worker, WebhookBegin(w) PROVE CaptureCreditsOnce'
  <2>1. PICK type \in EventType, o \in Order : Start(w, type, o) /\ credits' = credits
    BY <1>12, WebhookStarts
  <2>9. pc' = [pc EXCEPT ![w] = type] /\ on' = [on EXCEPT ![w] = o]
    BY <2>1 DEF Start
  <2>2. \A v \in Worker : Capturing(v)' => Capturing(v) /\ on'[v] = on[v]
    BY <2>9 DEF EventType
  <2>3. QED
    BY <2>1, <2>2 DEF CaptureCreditsOnce
<1>13. ASSUME NEW w \in Worker, WebhookCompleted(w) PROVE CaptureCreditsOnce'
  BY <1>13 DEF WebhookCompleted, Goto
<1>14. ASSUME NEW w \in Worker, WebhookReread(w) PROVE CaptureCreditsOnce'
  BY <1>14 DEF WebhookReread, Goto
<1>15. ASSUME NEW w \in Worker, WebhookCredit(w) PROVE CaptureCreditsOnce'
  BY <1>15 DEF WebhookCredit, Goto, Bump
<1>16. ASSUME NEW w \in Worker, WebhookDenied(w) PROVE CaptureCreditsOnce'
  BY <1>16 DEF WebhookDenied, Goto, SetStatus
<1>17. ASSUME NEW w \in Worker, WebhookRefunded(w) PROVE CaptureCreditsOnce'
  BY <1>17 DEF WebhookRefunded, Goto
<1>18. ASSUME NEW w \in Worker, WebhookRefundUpdate(w) PROVE CaptureCreditsOnce'
  BY <1>18 DEF WebhookRefundUpdate, Goto, SetStatus
<1>19. ASSUME NEW w \in Worker, WebhookDeduct(w) PROVE CaptureCreditsOnce'
  BY <1>19 DEF WebhookDeduct, Goto, Bump
<1>20. ASSUME NEW w \in Worker, WebhookAnswer(w) PROVE CaptureCreditsOnce'
  <2>1. pc' = [pc EXCEPT ![w] = "idle"] /\ on' = on /\ credits' = credits
    BY <1>20 DEF WebhookAnswer, Acknowledge, Finish, Goto
  <2>2. \A v \in Worker : Capturing(v)' => Capturing(v) /\ on'[v] = on[v]
    BY <2>1
  <2>3. QED
    BY <2>1, <2>2 DEF CaptureCreditsOnce
<1>21. ASSUME NEW w \in Worker, Abort(w) PROVE CaptureCreditsOnce'
  BY <1>21 DEF Abort, Finish, Goto
<1>22. ASSUME NEW o \in Order, Approve(o) PROVE CaptureCreditsOnce'
  BY <1>22 DEF Approve, apiVars
<1>23. ASSUME NEW o \in Order, Review(o) PROVE CaptureCreditsOnce'
  BY <1>23, Verdicts DEF Review, apiVars
<1>24. ASSUME NEW o \in Order, Refund(o) PROVE CaptureCreditsOnce'
  BY <1>24 DEF Refund, apiVars
<1>25. CASE UNCHANGED vars
  BY <1>25 DEF vars, apiVars
<1>26. QED
  BY <1>1, <1>2, <1>3, <1>4, <1>5, <1>6, <1>7, <1>8, <1>9, <1>10, <1>11, <1>12, <1>13,
     <1>14, <1>15, <1>16, <1>17, <1>18, <1>19, <1>20, <1>21, <1>22, <1>23, <1>24,
     <1>25 DEF Next, create, capture, webhook

-----------------------------------------------------------------------------
(* The statements that write to payment_orders; all else leaves it alone.  *)
LEMMA RowWriters ==
  ASSUME [Next]_vars
  PROVE  \/ db' = db
         \/ \E w \in Worker :
              \/ CreateInsert(w) \/ CaptureUpdate(w) \/ CaptureFail(w)
              \/ WebhookCompleted(w) \/ WebhookDenied(w) \/ WebhookRefundUpdate(w)
<1>1. ASSUME NEW w \in Worker, create(w) PROVE db' = db \/ CreateInsert(w)
  BY <1>1 DEF create, CreateAtPayPal
<1>2. ASSUME NEW w \in Worker, capture(w)
      PROVE  db' = db \/ CaptureUpdate(w) \/ CaptureFail(w)
  BY <1>2 DEF capture, CaptureBegin, CaptureCompleted, CaptureIncomplete, CaptureUnanswered,
     CaptureRefused, CaptureFind, CaptureCredit
<1>3. ASSUME NEW w \in Worker, webhook(w)
      PROVE  db' = db \/ WebhookCompleted(w) \/ WebhookDenied(w) \/ WebhookRefundUpdate(w)
  BY <1>3 DEF webhook, WebhookBegin, Deliver, WebhookReread, WebhookCredit,
     WebhookRefunded, WebhookDeduct, WebhookAnswer, Acknowledge
<1>4. ASSUME NEW w \in Worker, Abort(w) PROVE db' = db
  BY <1>4 DEF Abort
<1>5. ASSUME NEW o \in Order, Approve(o) \/ Review(o) \/ Refund(o) PROVE db' = db
  BY <1>5 DEF Approve, Review, Refund, apiVars
<1>6. CASE UNCHANGED vars
  BY <1>6 DEF vars, apiVars
<1>7. QED
  BY <1>1, <1>2, <1>3, <1>4, <1>5, <1>6 DEF Next

(* Each of them leaves every row a row, with its client and its            *)
(* transaction id.                                                         *)
LEMMA RowsKeep == PaymentInv /\ [Next]_vars => \A o \in Order : RowKept(o)
<1>. SUFFICES ASSUME PaymentInv, [Next]_vars, NEW o \in Order PROVE RowKept(o)
  OBVIOUS
<1>. USE DEF RowKept, PaymentInv, TypeOK
<1>1. CASE db' = db
  BY <1>1
<1>2. ASSUME NEW w \in Worker, CreateInsert(w) PROVE RowKept(o)
  <2>1. db[on[w]].status = "absent" /\ ~db[on[w]].txn
    BY <1>2 DEF CreateInsert, InsertingFresh, KnownOrders
  <2>2. o # on[w] => db'[o] = db[o]
    BY <1>2 DEF CreateInsert
  <2>3. QED
    BY <2>1, <2>2
<1>3. ASSUME NEW w \in Worker, CaptureUpdate(w) PROVE RowKept(o)
  BY <1>3 DEF CaptureUpdate
<1>4. ASSUME NEW w \in Worker, CaptureFail(w) PROVE RowKept(o)
  BY <1>4 DEF CaptureFail, SetStatus
<1>5. ASSUME NEW w \in Worker, WebhookCompleted(w) PROVE RowKept(o)
  BY <1>5 DEF WebhookCompleted
<1>6. ASSUME NEW w \in Worker, WebhookDenied(w) PROVE RowKept(o)
  BY <1>6 DEF WebhookDenied, SetStatus
<1>7. ASSUME NEW w \in Worker, WebhookRefundUpdate(w) PROVE RowKept(o)
  BY <1>7 DEF WebhookRefundUpdate, SetStatus
<1>8. QED
  BY <1>1, <1>2, <1>3, <1>4, <1>5, <1>6, <1>7, RowWriters

(* Only a step of its own takes a request to another call, or order.       *)
LEMMA OnlyOwnSteps ==
  ASSUME PaymentInv, [Next]_vars, NEW v \in Worker,
         ~(create(v) \/ capture(v) \/ webhook(v) \/ Abort(v))
  PROVE  pc'[v] = pc[v] /\ on'[v] = on[v]
<1>. USE DEF PaymentInv, TypeOK, Start, Goto, Finish
<1>1. ASSUME NEW w \in Worker \ {v}, create(w) PROVE pc'[v] = pc[v] /\ on'[v] = on[v]
  BY <1>1 DEF create, CreateAtPayPal, CreateInsert
<1>2. ASSUME NEW w \in Worker \ {v}, capture(w) PROVE pc'[v] = pc[v] /\ on'[v] = on[v]
  BY <1>2 DEF capture, CaptureBegin, CaptureCompleted, CaptureIncomplete, CaptureUnanswered,
     CaptureRefused, CaptureFind, CaptureUpdate, CaptureCredit, CaptureFail
<1>3. ASSUME NEW w \in Worker \ {v}, webhook(w) PROVE pc'[v] = pc[v] /\ on'[v] = on[v]
  BY <1>3 DEF webhook, WebhookBegin, Deliver, WebhookCompleted, WebhookReread,
     WebhookCredit, WebhookDenied, WebhookRefunded, WebhookRefundUpdate, WebhookDeduct,
     WebhookAnswer, Acknowledge
<1>4. ASSUME NEW w \in Worker \ {v}, Abort(w) PROVE pc'[v] = pc[v] /\ on'[v] = on[v]
  BY <1>4 DEF Abort
<1>5. ASSUME NEW o \in Order, Approve(o) \/ Review(o) \/ Refund(o)
      PROVE  pc'[v] = pc[v] /\ on'[v] = on[v]
  BY <1>5 DEF Approve, Review, Refund, apiVars
<1>6. CASE UNCHANGED vars
  BY <1>6 DEF vars, apiVars
<1>7. QED
  BY <1>1, <1>2, <1>3, <1>4, <1>5, <1>6 DEF Next

(* The handler stores the payment before it goes on to anything else.      *)
LEMMA StoredPreserved == PaymentInv /\ [Next]_vars => StoredFirst'
<1>. DEFINE Past == {"add", "reread", "webhook_add", "ack_completed"}
<1>. SUFFICES ASSUME PaymentInv, [Next]_vars, NEW v \in Worker, pc'[v] \in Past
              PROVE  db'[on'[v]].txn
  BY DEF StoredFirst
<1>. USE DEF PaymentInv, TypeOK
<1>1. on[v] \in Order /\ \A o \in Order : db[o].txn => db'[o].txn
  BY RowsKeep DEF RowKept
<1>2. CASE pc[v] \in Past /\ on'[v] = on[v]
  BY <1>1, <1>2 DEF StoredFirst
<1>3. ASSUME WebhookCompleted(v) PROVE db'[on'[v]].txn
  <2>1. db[on[v]].status # "absent"
    BY <1>3 DEF WebhookCompleted, HandlersRight, Right, KnownOrders, Paid
  <2>2. on' = on /\ db'[on[v]].txn = TRUE
    BY <1>1, <1>3, <2>1 DEF WebhookCompleted, Goto
  <2>3. QED
    BY <2>2
<1>4. ASSUME CaptureUpdate(v) PROVE db'[on'[v]].txn
  BY <1>1, <1>4 DEF CaptureUpdate, Goto
<1>5. ASSUME create(v) \/ capture(v) \/ Abort(v), ~CaptureUpdate(v) PROVE pc'[v] \notin Past
  <2>. USE DEF Start, Goto, Finish
  <2>1. create(v) => pc'[v] \notin Past
    BY DEF create, CreateAtPayPal, CreateInsert
  <2>2. capture(v) => pc'[v] \notin Past
    BY <1>5 DEF capture, CaptureBegin, CaptureCompleted, CaptureIncomplete, CaptureUnanswered,
       CaptureRefused, CaptureFind, CaptureCredit, CaptureFail
  <2>3. Abort(v) => pc'[v] \notin Past
    BY DEF Abort
  <2>4. QED
    BY <1>5, <2>1, <2>2, <2>3
<1>6. ASSUME webhook(v) PROVE WebhookCompleted(v) \/ (pc[v] \in Past /\ on'[v] = on[v])
  <2>. USE DEF Goto, Finish
  <2>1. WebhookBegin(v) => pc'[v] \notin Past
    BY WebhookStarts DEF Start, EventType
  <2>2. ~WebhookBegin(v) => on'[v] = on[v]
    BY <1>6 DEF webhook, WebhookCompleted, WebhookReread, WebhookCredit, WebhookDenied,
       WebhookRefunded, WebhookRefundUpdate, WebhookDeduct, WebhookAnswer, Acknowledge
  <2>3. WebhookReread(v) \/ WebhookCredit(v) => pc[v] \in Past
    BY DEF WebhookReread, WebhookCredit
  <2>4. WebhookDenied(v) \/ WebhookRefunded(v) \/ WebhookRefundUpdate(v)
          \/ WebhookDeduct(v) \/ WebhookAnswer(v) => pc'[v] \notin Past
    BY DEF WebhookDenied, WebhookRefunded, WebhookRefundUpdate, WebhookDeduct,
       WebhookAnswer, Acknowledge
  <2>5. QED
    BY <1>6, <2>1, <2>2, <2>3, <2>4 DEF webhook
<1>7. QED
  BY <1>2, <1>3, <1>5, <1>6, <1>4, OnlyOwnSteps

(* An event leaves the list by its answer only, and answers are kept.      *)
LEMMA EventsStay ==
  ASSUME [Next]_vars
  PROVE  /\ events \subseteq events' \cup answered'
         /\ answered \subseteq answered'
         /\ \A o \in Order : <<"COMPLETED", o>> \in answered' \ answered =>
              \E w \in Worker : pc[w] = "ack_completed" /\ on[w] = o
<1>. DEFINE Q == events \subseteq events' /\ answered' = answered
<1>1. ASSUME NEW w \in Worker, create(w) \/ Abort(w) PROVE Q
  BY <1>1 DEF create, CreateAtPayPal, CreateInsert, Abort
<1>2. ASSUME NEW w \in Worker, capture(w) PROVE Q
  BY <1>2 DEF capture, CaptureBegin, CaptureCompleted, CaptureIncomplete, CaptureUnanswered,
     CaptureRefused, CaptureFind, CaptureUpdate, CaptureCredit, CaptureFail, Captures, Settles
<1>3. ASSUME NEW w \in Worker, webhook(w), ~WebhookAnswer(w) PROVE Q
  BY <1>3 DEF webhook, WebhookBegin, Deliver, WebhookCompleted, WebhookReread,
     WebhookCredit, WebhookDenied, WebhookRefunded, WebhookRefundUpdate, WebhookDeduct
<1>4. ASSUME NEW o \in Order, Approve(o) \/ Review(o) \/ Refund(o) PROVE Q
  BY <1>4 DEF Approve, Review, Settles, Refund, apiVars
<1>5. CASE UNCHANGED vars
  BY <1>5 DEF vars, apiVars
<1>6. ASSUME NEW w \in Worker, WebhookAnswer(w)
      PROVE  \E type \in EventType :
               /\ events' = events \ {<<type, on[w]>>}
               /\ answered' = answered \cup {<<type, on[w]>>}
               /\ type = "COMPLETED" => pc[w] = "ack_completed"
  BY <1>6 DEF WebhookAnswer, Acknowledge, EventType
<1>7. CASE Q
  BY <1>7
<1>8. CASE \E w \in Worker : WebhookAnswer(w)
  <2>1. PICK w \in Worker : WebhookAnswer(w)
    BY <1>8
  <2>2. PICK type \in EventType :
          /\ events' = events \ {<<type, on[w]>>}
          /\ answered' = answered \cup {<<type, on[w]>>}
          /\ type = "COMPLETED" => pc[w] = "ack_completed"
    BY <1>6, <2>1
  <2>3. QED
    BY <2>2
<1>9. QED
  BY <1>1, <1>2, <1>3, <1>4, <1>5, <1>7, <1>8 DEF Next

(* Money PayPal takes leaves an event behind.                              *)
LEMMA PaymentsLeaveEvents ==
  ASSUME PaymentInv, [Next]_vars, NEW o \in Order, Paid(o)', ~Paid(o)
  PROVE  <<"COMPLETED", o>> \in events' \/ <<"UNNAMED", o>> \in events'
<1>. DEFINE Told == <<"COMPLETED", o>> \in events' \/ <<"UNNAMED", o>> \in events'
<1>. USE DEF PaymentInv, TypeOK, Paid
<1>1. ASSUME NEW p \in Order, Settles(p) PROVE Told
  <2>1. PICK s \in {"captured", "denied"}, type \in {"COMPLETED", "DENIED", "UNNAMED"} :
          /\ pp' = [pp EXCEPT ![p] = s]
          /\ events' = events \cup {<<type, p>>}
          /\ type = "DENIED" => s = "denied"
    BY <1>1, Verdicts
  <2>2. p = o /\ s = "captured"
    BY <2>1
  <2>3. QED
    BY <2>1, <2>2
<1>2. ASSUME NEW p \in Order, Captures(p) PROVE Told
  <2>1. pp' # [pp EXCEPT ![p] = "held"]
    OBVIOUS
  <2>2. QED
    BY <1>1, <1>2, <2>1 DEF Captures
<1>3. ASSUME NEW w \in Worker, create(w) PROVE FALSE
  BY <1>3 DEF create, CreateAtPayPal, CreateInsert
<1>4. ASSUME NEW w \in Worker, CaptureCompleted(w) \/ CaptureUnanswered(w) PROVE Told
  BY <1>2, <1>4 DEF CaptureCompleted, CaptureUnanswered
<1>5. ASSUME NEW w \in Worker, capture(w), ~CaptureCompleted(w), ~CaptureUnanswered(w)
      PROVE  FALSE
  BY <1>5 DEF capture, CaptureBegin, CaptureIncomplete, CaptureRefused, CaptureFind,
     CaptureUpdate, CaptureCredit, CaptureFail
<1>6. ASSUME NEW w \in Worker, webhook(w) \/ Abort(w) PROVE FALSE
  BY <1>6 DEF webhook, WebhookBegin, Deliver, WebhookCompleted, WebhookReread,
     WebhookCredit, WebhookDenied, WebhookRefunded, WebhookRefundUpdate, WebhookDeduct,
     WebhookAnswer, Acknowledge, Abort
<1>7. ASSUME NEW p \in Order, Approve(p) \/ Refund(p) PROVE FALSE
  BY <1>7 DEF Approve, Refund
<1>8. ASSUME NEW p \in Order, Review(p) PROVE Told
  BY <1>1, <1>8 DEF Review
<1>9. CASE UNCHANGED vars
  BY <1>9 DEF vars
<1>10. QED
  BY <1>3, <1>4, <1>5, <1>6, <1>7, <1>8, <1>9 DEF Next

(* Between PayPal's list and the table no payment falls through.           *)
LEMMA ForgottenPreserved == PaymentInv /\ [Next]_vars => NoPaymentForgotten'
<1>. SUFFICES ASSUME PaymentInv, [Next]_vars PROVE NoPaymentForgotten'
  OBVIOUS
<1>. USE DEF NoPaymentForgotten
<1>1. \A o \in Order : db[o].txn => db'[o].txn
  BY RowsKeep DEF RowKept
<1>2. ASSUME NEW o \in Order, <<"COMPLETED", o>> \in answered' PROVE db[o].txn
  <2>1. CASE <<"COMPLETED", o>> \in answered
    BY <2>1 DEF PaymentInv
  <2>2. CASE <<"COMPLETED", o>> \notin answered
    <3>1. PICK w \in Worker : pc[w] = "ack_completed" /\ on[w] = o
      BY <1>2, <2>2, EventsStay
    <3>2. QED
      BY <3>1 DEF PaymentInv, StoredFirst
  <2>3. QED
    BY <2>1, <2>2
<1>3. ASSUME NEW o \in Order, Paid(o)', ~db'[o].txn
      PROVE  <<"COMPLETED", o>> \in events' \/ <<"UNNAMED", o>> \in events' \cup answered'
  <2>1. CASE ~Paid(o)
    BY <1>3, <2>1, PaymentsLeaveEvents
  <2>2. CASE Paid(o)
    <3>1. ~db[o].txn
      BY <1>1, <1>3
    <3>2. <<"COMPLETED", o>> \in events \/ <<"UNNAMED", o>> \in events \cup answered
      BY <2>2, <3>1 DEF PaymentInv
    <3>3. <<"COMPLETED", o>> \notin answered'
      BY <1>2, <3>1
    <3>4. QED
      BY <3>2, <3>3, EventsStay
  <2>3. QED
    BY <2>1, <2>2
<1>4. QED
  BY <1>1, <1>2, <1>3

-----------------------------------------------------------------------------
LEMMA NextInv == PaymentInv /\ [Next]_vars => PaymentInv'
BY TypePreserved, KnownPreserved, InsertingPreserved, CapturingPreserved,
   EventsPreserved, HandlersPreserved, BackedPreserved, CreditsPreserved,
   StoredPreserved, ForgottenPreserved DEF PaymentInv

(* What PayPal, the table and each handler under way agree on, whatever    *)
(* fails, for any orders and workers.                                      *)
THEOREM PaymentInvariant == Spec => []PaymentInv
BY InitInv, NextInv, PTL DEF Spec

(* create_payment_order gives the approval URL away after its insert, so   *)
(* no payment is taken for an order the database does not know.            *)
THEOREM PaidOrdersHaveRows == Spec => []PaidHasRow
<1>1. PaymentInv => PaidHasRow
  BY DEF PaymentInv, TypeOK, KnownOrders, Paid, PaidHasRow
<1>2. QED
  BY <1>1, PaymentInvariant, PTL

(* What rows and credits claim of PayPal is so, for any orders and workers: *)
(* a capture made, money that came, money given back.                       *)
THEOREM RowsAreBacked == Spec => []Backed
<1>1. PaymentInv => Backed
  BY DEF PaymentInv
<1>2. QED
  BY <1>1, PaymentInvariant, PTL

(* Concurrent and repeated calls of /capture-order credit a payment once.  *)
THEOREM CapturesCreditOnce == Spec => []CaptureCreditsOnce
<1>1. PaymentInv => CaptureCreditsOnce
  BY DEF PaymentInv
<1>2. QED
  BY <1>1, PaymentInvariant, PTL

(* A payment that is not in the table is still on PayPal's list, and one   *)
(* whose webhook was answered is in the table: the safe half of            *)
(* PaymentRecorded.                                                        *)
THEOREM PaymentsAreRemembered == Spec => []NoPaymentForgotten
<1>1. PaymentInv => NoPaymentForgotten
  BY DEF PaymentInv
<1>2. QED
  BY <1>1, PaymentInvariant, PTL

(* Rows of payment_orders only ever gain.                                  *)
THEOREM RowsStay == Spec => RowsKept
<1>1. PaymentInv /\ [Next]_vars => [\A o \in Order : RowKept(o)]_vars
  BY RowsKeep
<1>2. QED
  BY <1>1, PaymentInvariant, PTL DEF Spec, RowsKept

-----------------------------------------------------------------------------
(* PayPal's side of an order moves its money and nothing else.             *)
LEMMA MoneyMoves ==
  ASSUME PaymentInv, NEW o \in Order, NEW s \in PayPalState,
         pp' = [pp EXCEPT ![o] = s], db' = db, credits' = credits,
         \/ s \in {"none", "created", "approved"} /\ ~Taken(o)
         \/ s \in {"held", "captured", "denied"} /\ pp[o] = "approved"
         \/ s \in {"captured", "denied"} /\ pp[o] = "held"
         \/ s = "refunded" /\ pp[o] = "captured"
  PROVE  [Ledger!LedgerNext]_(Ledger!ledgerVars)
<1>. USE DEF Paid, Taken
<1>. DEFINE Returned == {p \in Order : pp[p] = "refunded"}
            Came == {p \in Order : Paid(p)}
            Made == {p \in Order : Taken(p)}
<1>1. pp \in [Order -> PayPalState] /\ \A p \in Order : pp'[p] = IF p = o THEN s ELSE pp[p]
  BY DEF PaymentInv, TypeOK
<1>2. CASE s \in {"none", "created", "approved"} /\ ~Taken(o)
  BY <1>1, <1>2 DEF Ledger!ledgerVars
<1>3. CASE s \in {"held", "captured", "denied"} /\ pp[o] = "approved"
  <2>1. db[o].status # "absent"
    BY <1>3 DEF PaymentInv, KnownOrders
  <2>2. Made' = Made \cup {o} /\ o \notin Made
    BY <1>1, <1>3
  <2>3. Came' \in {Came, Came \cup {o}}
    <3>1. s = "captured" => Came' = Came \cup {o}
      BY <1>1
    <3>2. s # "captured" => Came' = Came
      BY <1>1, <1>3
    <3>3. QED
      BY <3>1, <3>2
  <2>4. Returned' = Returned
    BY <1>1, <1>3
  <2>5. Ledger!Capture(o)
    BY <2>1, <2>2, <2>3, <2>4 DEF Ledger!Capture
  <2>6. QED
    BY <2>5 DEF Ledger!LedgerNext
<1>4. CASE s = "captured" /\ pp[o] = "held"
  <2>1. Came' = Came \cup {o} /\ o \in Made \ Came
    BY <1>1, <1>4
  <2>2. Made' = Made /\ Returned' = Returned
    BY <1>1, <1>4
  <2>3. Ledger!Settle(o)
    BY <2>1, <2>2 DEF Ledger!Settle
  <2>4. QED
    BY <2>3 DEF Ledger!LedgerNext
<1>5. CASE s = "denied" /\ pp[o] = "held"
  BY <1>1, <1>5 DEF Ledger!ledgerVars
<1>6. CASE s = "refunded" /\ pp[o] = "captured"
  <2>1. Came' = Came /\ Made' = Made
    BY <1>1, <1>6
  <2>2. Returned' = Returned \cup {o} /\ o \in Came \ Returned
    BY <1>1, <1>6
  <2>3. Ledger!GiveBack(o)
    BY <2>1, <2>2 DEF Ledger!GiveBack
  <2>4. QED
    BY <2>3 DEF Ledger!LedgerNext
<1>7. QED
  BY <1>2, <1>3, <1>4, <1>5, <1>6

(* A statement on payment_orders offers an order, books a payment that has *)
(* been made, or changes a status.                                         *)
LEMMA RowsMove ==
  ASSUME PaymentInv, NEW o \in Order, pp' = pp, credits' = credits,
         \A p \in Order : p # o => db'[p] = db[p],
         \/ /\ db[o].status = "absent" <=> db'[o].status = "absent"
            /\ db'[o].txn <=> db[o].txn
         \/ db[o].status = "absent" /\ db'[o].status # "absent" /\ ~db[o].txn /\ ~db'[o].txn
         \/ /\ db[o].status # "absent" /\ db'[o].status # "absent"
            /\ db'[o].txn /\ Taken(o)
  PROVE  [Ledger!LedgerNext]_(Ledger!ledgerVars)
<1>1. \A p \in Order : (Paid(p)' <=> Paid(p)) /\ (Taken(p)' <=> Taken(p))
  BY DEF Paid, Taken
<1>2. CASE /\ db[o].status = "absent" <=> db'[o].status = "absent"
           /\ db'[o].txn <=> db[o].txn
  BY <1>1, <1>2 DEF Ledger!ledgerVars
<1>3. CASE db[o].status = "absent" /\ db'[o].status # "absent" /\ ~db[o].txn /\ ~db'[o].txn
  <2>1. {p \in Order : db'[p].status # "absent"} = {p \in Order : db[p].status # "absent"} \cup {o}
    BY <1>3
  <2>2. {p \in Order : db'[p].txn} = {p \in Order : db[p].txn}
    BY <1>3
  <2>3. Ledger!Offer(o)
    BY <1>1, <1>3, <2>1, <2>2 DEF Ledger!Offer
  <2>4. QED
    BY <2>3 DEF Ledger!LedgerNext
<1>4. CASE /\ db[o].status # "absent" /\ db'[o].status # "absent"
           /\ db'[o].txn /\ Taken(o) /\ ~db[o].txn
  <2>1. {p \in Order : db'[p].status # "absent"} = {p \in Order : db[p].status # "absent"}
    BY <1>4
  <2>2. {p \in Order : db'[p].txn} = {p \in Order : db[p].txn} \cup {o}
    BY <1>4
  <2>3. Ledger!Book(o)
    BY <1>1, <1>4, <2>1, <2>2 DEF Ledger!Book
  <2>4. QED
    BY <2>3 DEF Ledger!LedgerNext
<1>5. QED
  BY <1>2, <1>3, <1>4

(* A ledger entry credits a recorded payment or deducts one that has also  *)
(* been refunded; only the first of an order shows.                        *)
LEMMA CreditsMove ==
  ASSUME NEW o \in Order, pp' = pp, db' = db, db[o].txn,
         \A p \in Order : p # o => credits'[p] = credits[p],
         \/ /\ credits'[o].capture + credits'[o].webhook > 0
            /\ credits'[o].deducted = credits[o].deducted
         \/ /\ credits'[o].deducted > 0 /\ pp[o] = "refunded"
            /\ credits'[o].capture = credits[o].capture
            /\ credits'[o].webhook = credits[o].webhook
  PROVE  [Ledger!LedgerNext]_(Ledger!ledgerVars)
<1>1. \A p \in Order : (Paid(p)' <=> Paid(p)) /\ (Taken(p)' <=> Taken(p))
  BY DEF Paid, Taken
<1> DEFINE Given(p) == credits[p].capture + credits[p].webhook > 0
           Docked(p) == credits[p].deducted > 0
<1>2. \A p \in Order \ {o} : (Given(p)' <=> Given(p)) /\ (Docked(p)' <=> Docked(p))
  OBVIOUS
<1>3. CASE Given(o)' /\ (Docked(o)' <=> Docked(o))
  <2>1. {p \in Order : Docked(p)'} = {p \in Order : Docked(p)}
    BY <1>2, <1>3
  <2>2. {p \in Order : Given(p)'} = {p \in Order : Given(p)} \cup {o}
    BY <1>2, <1>3
  <2>3. CASE Given(o)
    <3>1. {p \in Order : Given(p)'} = {p \in Order : Given(p)}
      BY <2>2, <2>3
    <3>2. QED
      BY <1>1, <2>1, <3>1 DEF Ledger!ledgerVars
  <2>4. CASE ~Given(o)
    <3>1. Ledger!Credit(o)
      BY <1>1, <2>1, <2>2, <2>4 DEF Ledger!Credit
    <3>2. QED
      BY <3>1 DEF Ledger!LedgerNext
  <2>5. QED
    BY <2>3, <2>4
<1>4. CASE Docked(o)' /\ pp[o] = "refunded" /\ (Given(o)' <=> Given(o))
  <2>1. {p \in Order : Given(p)'} = {p \in Order : Given(p)}
    BY <1>2, <1>4
  <2>2. {p \in Order : Docked(p)'} = {p \in Order : Docked(p)} \cup {o}
    BY <1>2, <1>4
  <2>3. CASE Docked(o)
    <3>1. {p \in Order : Docked(p)'} = {p \in Order : Docked(p)}
      BY <2>2, <2>3
    <3>2. QED
      BY <1>1, <2>1, <3>1 DEF Ledger!ledgerVars
  <2>4. CASE ~Docked(o)
    <3>1. Ledger!Deduct(o)
      BY <1>1, <1>4, <2>1, <2>2, <2>4 DEF Ledger!Deduct
    <3>2. QED
      BY <3>1 DEF Ledger!LedgerNext
  <2>5. QED
    BY <2>3, <2>4
<1>5. QED
  BY <1>3, <1>4

(* Every call of a handler, to PayPal or to the database, is one stage of  *)
(* one order or none.                                                      *)
LEMMA LedgerStep == PaymentInv /\ [Next]_vars => [Ledger!LedgerNext]_(Ledger!ledgerVars)
<1>. SUFFICES ASSUME PaymentInv, [Next]_vars PROVE [Ledger!LedgerNext]_(Ledger!ledgerVars)
  OBVIOUS
<1>0. /\ pp \in [Order -> PayPalState]
      /\ db \in [Order -> [status : Status, txn : BOOLEAN, client : BOOLEAN]]
      /\ credits \in [Order -> [capture : 0 .. 2, webhook : 0 .. 2, deducted : 0 .. 2]]
      /\ approvable \subseteq Order /\ \A w \in Worker : on[w] \in Order
  BY DEF PaymentInv, TypeOK
<1>1. ASSUME UNCHANGED <<pp, db, credits>> PROVE [Ledger!LedgerNext]_(Ledger!ledgerVars)
  BY <1>1 DEF Ledger!ledgerVars, Paid, Taken
<1>2. ASSUME NEW w \in Worker, create(w) PROVE [Ledger!LedgerNext]_(Ledger!ledgerVars)
  <2>1. CASE CreateAtPayPal(w)
    BY <1>0, <2>1, MoneyMoves DEF CreateAtPayPal, Taken, PayPalState
  <2>2. CASE CreateInsert(w)
    <3>1. /\ db[on[w]].status = "absent" /\ ~db[on[w]].txn
          /\ db'[on[w]].status = "PENDING" /\ ~db'[on[w]].txn
          /\ \A p \in Order : p # on[w] => db'[p] = db[p]
      BY <1>0, <2>2 DEF CreateInsert, PaymentInv, InsertingFresh, KnownOrders
    <3>2. QED
      BY <1>0, <2>2, <3>1, RowsMove DEF CreateInsert
  <2>3. QED
    BY <1>2, <2>1, <2>2 DEF create
<1>3. ASSUME NEW w \in Worker, CaptureCompleted(w) \/ CaptureUnanswered(w)
      PROVE  [Ledger!LedgerNext]_(Ledger!ledgerVars)
  <2>1. on[w] \in Order /\ Captures(on[w]) /\ db' = db /\ credits' = credits
    BY <1>0, <1>3 DEF CaptureCompleted, CaptureUnanswered
  <2>2. PICK s \in {"held", "captured", "denied"} : pp' = [pp EXCEPT ![on[w]] = s]
    BY <2>1, CapturedOnce
  <2>3. pp[on[w]] = "approved" /\ s \in PayPalState
    BY <2>1, CapturedOnce DEF PayPalState
  <2>4. QED
    BY <2>1, <2>2, <2>3, MoneyMoves
<1>4. ASSUME NEW w \in Worker, CaptureUpdate(w) \/ WebhookCompleted(w)
      PROVE  [Ledger!LedgerNext]_(Ledger!ledgerVars)
  <2>1. Taken(on[w]) /\ db[on[w]].status # "absent"
    BY <1>0, <1>4 DEF CaptureUpdate, WebhookCompleted, PaymentInv, CapturingOnce, Capturing,
       HandlersRight, Right, KnownOrders, Paid, Taken
  <2>2. /\ db'[on[w]].status = "COMPLETED" /\ db'[on[w]].txn
        /\ \A p \in Order : p # on[w] => db'[p] = db[p]
    BY <1>0, <1>4, <2>1 DEF CaptureUpdate, WebhookCompleted
  <2>3. QED
    BY <1>0, <1>4, <2>1, <2>2, RowsMove DEF CaptureUpdate, WebhookCompleted
<1>5. ASSUME NEW w \in Worker, CaptureFail(w) \/ WebhookDenied(w) \/ WebhookRefundUpdate(w)
      PROVE  [Ledger!LedgerNext]_(Ledger!ledgerVars)
  <2>1. PICK s \in {"FAILED", "DENIED", "REFUNDED"} : SetStatus(on[w], s)
    BY <1>5 DEF CaptureFail, WebhookDenied, WebhookRefundUpdate
  <2>2. /\ db[on[w]].status = "absent" <=> db'[on[w]].status = "absent"
        /\ db'[on[w]].txn <=> db[on[w]].txn
        /\ \A p \in Order : p # on[w] => db'[p] = db[p]
    BY <1>0, <2>1 DEF SetStatus
  <2>3. QED
    BY <1>0, <1>5, <2>2, RowsMove DEF CaptureFail, WebhookDenied, WebhookRefundUpdate
<1>6. ASSUME NEW w \in Worker, CaptureCredit(w) \/ WebhookCredit(w) \/ WebhookDeduct(w)
      PROVE  [Ledger!LedgerNext]_(Ledger!ledgerVars)
  <2>1. /\ pp' = pp /\ db' = db /\ db[on[w]].txn
        /\ \A p \in Order : p # on[w] => credits'[p] = credits[p]
    BY <1>0, <1>6 DEF CaptureCredit, WebhookCredit, WebhookDeduct, PaymentInv, StoredFirst,
       HandlersRight, Right
  <2>2. /\ credits[on[w]].capture \in 0 .. 2 /\ credits[on[w]].webhook \in 0 .. 2
        /\ credits[on[w]].deducted \in 0 .. 2
    BY <1>0
  <2>3. \A n \in 0 .. 2 : Bump(n) \in 1 .. 2
    BY DEF Bump
  <2>4. CASE CaptureCredit(w)
    <3>1. /\ credits'[on[w]].capture = Bump(credits[on[w]].capture)
          /\ credits'[on[w]].webhook = credits[on[w]].webhook
          /\ credits'[on[w]].deducted = credits[on[w]].deducted
      BY <1>0, <2>4 DEF CaptureCredit
    <3>2. credits'[on[w]].capture + credits'[on[w]].webhook > 0
      BY <2>2, <2>3, <3>1
    <3>3. QED
      BY <1>0, <2>1, <3>1, <3>2, CreditsMove
  <2>5. CASE WebhookCredit(w)
    <3>1. /\ credits'[on[w]].webhook = Bump(credits[on[w]].webhook)
          /\ credits'[on[w]].capture = credits[on[w]].capture
          /\ credits'[on[w]].deducted = credits[on[w]].deducted
      BY <1>0, <2>5 DEF WebhookCredit
    <3>2. credits'[on[w]].capture + credits'[on[w]].webhook > 0
      BY <2>2, <2>3, <3>1
    <3>3. QED
      BY <1>0, <2>1, <3>1, <3>2, CreditsMove
  <2>6. CASE WebhookDeduct(w)
    <3>1. /\ credits'[on[w]].deducted = Bump(credits[on[w]].deducted)
          /\ credits'[on[w]].capture = credits[on[w]].capture
          /\ credits'[on[w]].webhook = credits[on[w]].webhook
          /\ pp[on[w]] = "refunded"
      BY <1>0, <2>6 DEF WebhookDeduct, PaymentInv, HandlersRight, Right
    <3>2. credits'[on[w]].deducted > 0
      BY <2>2, <2>3, <3>1
    <3>3. QED
      BY <1>0, <2>1, <3>1, <3>2, CreditsMove
  <2>7. QED
    BY <1>6, <2>4, <2>5, <2>6
<1>7. ASSUME NEW w \in Worker,
             \/ CaptureBegin(w) \/ CaptureIncomplete(w) \/ CaptureRefused(w) \/ CaptureFind(w)
             \/ WebhookBegin(w) \/ WebhookReread(w) \/ WebhookRefunded(w) \/ WebhookAnswer(w)
             \/ Abort(w)
      PROVE  [Ledger!LedgerNext]_(Ledger!ledgerVars)
  BY <1>1, <1>7 DEF CaptureBegin, CaptureIncomplete, CaptureRefused, CaptureFind, WebhookBegin, Deliver,
     WebhookReread, WebhookRefunded, WebhookAnswer, Acknowledge, Abort
<1>8. ASSUME NEW o \in Order, Approve(o) \/ Review(o) \/ Refund(o)
      PROVE  [Ledger!LedgerNext]_(Ledger!ledgerVars)
  <2>1. db' = db /\ credits' = credits
    BY <1>8 DEF Approve, Review, Refund, apiVars
  <2>2. CASE Approve(o)
    BY <2>1, <2>2, MoneyMoves DEF Approve, Taken, PayPalState
  <2>3. CASE Review(o)
    <3>1. PICK s \in {"captured", "denied"} : pp' = [pp EXCEPT ![o] = s]
      BY <2>3, Verdicts DEF Review
    <3>2. pp[o] = "held" /\ s \in PayPalState
      BY <2>3 DEF Review, PayPalState
    <3>3. QED
      BY <2>1, <3>1, <3>2, MoneyMoves
  <2>4. CASE Refund(o)
    BY <2>1, <2>4, MoneyMoves DEF Refund, PayPalState
  <2>5. QED
    BY <1>8, <2>2, <2>3, <2>4
<1>9. CASE UNCHANGED vars
  BY <1>1, <1>9 DEF vars, apiVars
<1>10. QED
  BY <1>2, <1>3, <1>4, <1>5, <1>6, <1>7, <1>8, <1>9 DEF Next, capture, webhook

(* The handlers implement OrderLedger, for any orders and workers: each    *)
(* order goes through its stages one at a time and in their order, and     *)
(* neither failures nor repeated or late calls and events take one back.   *)
THEOREM HandlersKeepLedger == Spec => ImplementsLedger
<1>1. Init => Ledger!LedgerInit
  BY DEF Init, Absent, Paid, Taken, Ledger!LedgerInit
<1>2. QED
  BY <1>1, LedgerStep, PaymentInvariant, PTL DEF Spec, ImplementsLedger, Ledger!LedgerSpec

-----------------------------------------------------------------------------
(* One request at a time.                                                  *)
LEMMA CreditsNothingPreserved ==
  ASSUME \A v, w \in Worker : v = w, PaymentInv, WebhookCreditsNothing, [Next]_vars
  PROVE  WebhookCreditsNothing'
<1>. USE DEF WebhookCreditsNothing, PaymentInv, TypeOK
<1>1. ASSUME NEW w \in Worker, create(w) \/ Abort(w) PROVE WebhookCreditsNothing'
  BY <1>1 DEF create, CreateAtPayPal, CreateInsert, Abort, Start, Goto, Finish
<1>2. ASSUME NEW w \in Worker, capture(w) PROVE WebhookCreditsNothing'
  <2>1. CASE CaptureUpdate(w) \/ CaptureFail(w)
    BY <2>1 DEF CaptureUpdate, CaptureFail, SetStatus, Goto, Finish
  <2>2. CASE CaptureCredit(w)
    BY <2>2 DEF CaptureCredit, Goto, Finish
  <2>3. CASE CaptureBegin(w) \/ CaptureCompleted(w) \/ CaptureIncomplete(w) \/ CaptureUnanswered(w)
             \/ CaptureRefused(w) \/ CaptureFind(w)
    BY <2>3 DEF CaptureBegin, CaptureCompleted, CaptureIncomplete, CaptureUnanswered,
       CaptureRefused, CaptureFind, Start, Goto, Finish
  <2>4. QED
    BY <1>2, <2>1, <2>2, <2>3 DEF capture
<1>3. ASSUME NEW w \in Worker, webhook(w) PROVE WebhookCreditsNothing'
  <2>1. CASE WebhookBegin(w)
    <3>1. PICK type \in EventType, o \in Order : Start(w, type, o) /\ UNCHANGED <<credits, db>>
      BY <2>1, WebhookStarts
    <3>2. QED
      BY <3>1 DEF Start, EventType
  <2>2. CASE WebhookCompleted(w)
    <3>1. db[on[w]].status # "absent" /\ on[w] \in Order
      BY <2>2 DEF WebhookCompleted, HandlersRight, Right, KnownOrders, Paid
    <3>2. on' = on /\ credits' = credits /\ db'[on[w]].status = "COMPLETED"
          /\ pc' = [pc EXCEPT ![w] = "reread"]
      BY <2>2, <3>1 DEF WebhookCompleted, Goto
    <3>3. QED
      BY <3>2
  <2>3. CASE WebhookReread(w)
    BY <2>3 DEF WebhookReread, Goto
  <2>4. CASE WebhookCredit(w) \/ WebhookDeduct(w)
    <3>1. WebhookDeduct(w)
      BY <2>4 DEF WebhookCredit
    <3>2. /\ UNCHANGED <<on, db>> /\ pc' = [pc EXCEPT ![w] = "ack_refunded"]
          /\ credits' = [credits EXCEPT ![on[w]].deducted = Bump(@)]
      BY <3>1 DEF WebhookDeduct, Goto
    <3>3. \A o \in Order : credits'[o].webhook = credits[o].webhook
      BY <3>2
    <3>4. QED
      BY <3>2, <3>3
  <2>5. CASE WebhookDenied(w) \/ WebhookRefunded(w) \/ WebhookRefundUpdate(w) \/ WebhookAnswer(w)
    BY <2>5 DEF WebhookDenied, WebhookRefunded, WebhookRefundUpdate, WebhookAnswer,
       Acknowledge, SetStatus, Goto, Finish
  <2>6. QED
    BY <1>3, <2>1, <2>2, <2>3, <2>4, <2>5 DEF webhook
<1>4. ASSUME NEW o \in Order, Approve(o) \/ Review(o) \/ Refund(o) PROVE WebhookCreditsNothing'
  BY <1>4 DEF Approve, Review, Refund, apiVars
<1>5. CASE UNCHANGED vars
  BY <1>5 DEF vars, apiVars
<1>6. QED
  BY <1>1, <1>2, <1>3, <1>4, <1>5 DEF Next

(* The webhook's "Add credits (if not already added)" adds none, for any   *)
(* orders, unless another request changes the row under it.                *)
THEOREM WebhookAddsNoCredits ==
  ASSUME \A v, w \in Worker : v = w
  PROVE  Spec => []WebhookCreditsNothing
<1>1. Init => WebhookCreditsNothing
  BY DEF Init, WebhookCreditsNothing
<1>2. PaymentInv /\ WebhookCreditsNothing /\ [Next]_vars => WebhookCreditsNothing'
  BY CreditsNothingPreserved
<1>3. QED
  BY <1>1, <1>2, PaymentInvariant, PTL DEF Spec

-----------------------------------------------------------------------------
(* The middleware only takes behaviours away: each step of the gated API   *)
(* is one of the handlers' or leaves them alone.                           *)
LEMMA GatedStep == [GatedNext]_gatedVars => [Next]_vars
<1>1. ASSUME ClientSide PROVE Next
  BY <1>1 DEF ClientSide, Next
<1>2. ASSUME NEW e \in EventType \X Order, Unauthorized(e) PROVE UNCHANGED vars
  BY <1>2 DEF Unauthorized
<1>3. ASSUME NEW e \in EventType \X Order, NEW w \in Worker, LetThrough(w, e) PROVE Next
  <2>1. Deliver(w, e) /\ e \in events
    BY <1>3 DEF LetThrough, Deliver
  <2>2. WebhookBegin(w)
    BY <2>1 DEF WebhookBegin
  <2>3. QED
    BY <2>2 DEF webhook, Next
<1>4. UNCHANGED gatedVars => UNCHANGED vars
  BY DEF gatedVars
<1>5. QED
  BY <1>1, <1>2, <1>3, <1>4 DEF GatedNext

(* The API with its middleware implements the handlers' specification, so  *)
(* all that is proved of them holds of it.                                 *)
THEOREM GatedImplements == GatedSpec => Spec
<1>1. GatedInit => Init
  BY DEF GatedInit
<1>2. QED
  BY <1>1, GatedStep, PTL DEF GatedSpec, Spec

(* Statuses, credits and money agree behind the middleware too.            *)
THEOREM GatedInvariant == GatedSpec => []PaymentInv
BY GatedImplements, PaymentInvariant, PTL

(* As long as the webhook's path is not among those let through, no step   *)
(* starts a delivery's handler.                                            *)
LEMMA NothingDelivered ==
  ASSUME "/v1/paypal/webhook" \notin Unchecked, PaymentInv, NoDeliveryHandled,
         [GatedNext]_gatedVars
  PROVE  NoDeliveryHandled' /\ events \subseteq events'
<1>. USE DEF NoDeliveryHandled, PaymentInv, TypeOK, Start, Goto, Finish
<1>1. ASSUME NEW w \in Worker, create(w) PROVE NoDeliveryHandled' /\ events \subseteq events'
  <2>1. CASE CreateAtPayPal(w)
    BY <2>1 DEF CreateAtPayPal
  <2>2. CASE CreateInsert(w)
    <3>1. PICK known \in BOOLEAN :
            db' = [db EXCEPT ![on[w]] = [status |-> "PENDING", txn |-> FALSE, client |-> known]]
      BY <2>2 DEF CreateInsert
    <3>2. \A o \in Order : db'[o].status \notin {"DENIED", "REFUNDED"}
      BY <3>1
    <3>3. QED
      BY <2>2, <3>2 DEF CreateInsert
  <2>3. QED
    BY <1>1, <2>1, <2>2 DEF create
<1>2. ASSUME NEW w \in Worker, capture(w) PROVE NoDeliveryHandled' /\ events \subseteq events'
  <2>1. CASE CaptureBegin(w) \/ CaptureCompleted(w) \/ CaptureIncomplete(w) \/ CaptureUnanswered(w)
             \/ CaptureRefused(w) \/ CaptureFind(w)
    <3>1. events \subseteq events' /\ UNCHANGED <<credits, db, answered>>
      BY <2>1 DEF CaptureBegin, CaptureCompleted, CaptureIncomplete, CaptureUnanswered,
         CaptureRefused, CaptureFind, Captures, Settles
    <3>2. \A v \in Worker : pc'[v] \in {pc[v], "idle", "capture", "find", "complete", "fail"}
      BY <2>1 DEF CaptureBegin, CaptureCompleted, CaptureIncomplete, CaptureUnanswered,
         CaptureRefused, CaptureFind
    <3>3. QED
      BY <3>1, <3>2
  <2>2. CASE CaptureUpdate(w) \/ CaptureFail(w)
    <3>1. \A o \in Order : db'[o].status \in {db[o].status, "COMPLETED", "FAILED"}
      BY <2>2 DEF CaptureUpdate, CaptureFail, SetStatus
    <3>2. \A o \in Order : db'[o].status \notin {"DENIED", "REFUNDED"}
      BY <3>1
    <3>3. QED
      BY <2>2, <3>2 DEF CaptureUpdate, CaptureFail
  <2>3. CASE CaptureCredit(w)
    BY <2>3 DEF CaptureCredit
  <2>4. QED
    BY <1>2, <2>1, <2>2, <2>3 DEF capture
<1>3. ASSUME NEW w \in Worker, Abort(w) PROVE NoDeliveryHandled' /\ events \subseteq events'
  BY <1>3 DEF Abort
<1>4. ASSUME NEW w \in Worker, pc[w] # "idle", webhook(w) PROVE FALSE
  BY <1>4 DEF webhook, WebhookBegin, Deliver, WebhookCompleted, WebhookReread,
     WebhookCredit, WebhookDenied, WebhookRefunded, WebhookRefundUpdate, WebhookDeduct,
     WebhookAnswer, Acknowledge
<1>5. ASSUME NEW o \in Order, Approve(o) \/ Review(o) \/ Refund(o)
      PROVE  NoDeliveryHandled' /\ events \subseteq events'
  BY <1>5 DEF Approve, Review, Settles, Refund, apiVars
<1>6. CASE UNCHANGED vars
  BY <1>6 DEF vars, apiVars
<1>7. QED
  BY <1>1, <1>2, <1>3, <1>4, <1>5, <1>6
     DEF GatedNext, ClientSide, Unauthorized, LetThrough, gatedVars

(* Behind the middleware as main.py has it, for any orders and workers: no *)
(* webhook is ever handled, and PayPal's list only grows.                  *)
THEOREM WebhooksNeverHandled ==
  ASSUME "/v1/paypal/webhook" \notin Unchecked
  PROVE  GatedSpec => []NoDeliveryHandled /\ EventsPileUp
<1>1. GatedInit => NoDeliveryHandled
  BY DEF GatedInit, Init, Absent, NoDeliveryHandled
<1>2. PaymentInv /\ NoDeliveryHandled /\ [GatedNext]_gatedVars
        => NoDeliveryHandled' /\ [events \subseteq events']_gatedVars
  BY NothingDelivered
<1>3. QED
  BY <1>1, <1>2, GatedInvariant, PTL DEF GatedSpec, EventsPileUp
=============================================================================
