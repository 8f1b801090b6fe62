------------------------- MODULE PaymentsBehindAuth -------------------------
(***************************************************************************)
(* PaypalPayments as api/main.py puts it together: the PayPal router is    *)
(* one of the app's routers, so AuthMiddleware stands before it.  A        *)
(* client's own calls carry X-BioShield-Token; PayPal's deliveries do not, *)
(* and the webhook's path is not among those the middleware lets through.  *)
(* A delivery gets 401 and reaches no handler; PayPal keeps the event.     *)
(***************************************************************************)
EXTENDS PaypalPayments

CONSTANT Unchecked     \* paths AuthMiddleware lets through without a key

VARIABLE rejected      \* events answered with 401 at least once

gatedVars == <<vars, rejected>>

Unauthorized(e) ==
  /\ e \in events
  /\ "/v1/paypal/webhook" \notin Unchecked
  /\ rejected' = rejected \cup {e}
  /\ UNCHANGED vars

LetThrough(w, e) ==
  /\ "/v1/paypal/webhook" \in Unchecked
  /\ Deliver(w, e)
  /\ UNCHANGED rejected

(* What is not PayPal's delivery: the client's calls, with their key,      *)
(* handlers under way, and the outside world.  A browser that PayPal sends *)
(* back to GET /capture-order brings no key: it gets 401 and changes       *)
(* nothing, so no step stands for it.                                      *)
ClientSide ==
  /\ \/ \E w \in Worker : create(w) \/ capture(w) \/ Abort(w)
     \/ \E w \in Worker : pc[w] # "idle" /\ webhook(w)
     \/ \E o \in Order : Approve(o) \/ Review(o) \/ Refund(o)
  /\ UNCHANGED rejected

WebhookCall == {"reread", "webhook_add", "ack_completed", "ack_denied", "refund",
                "deduct", "ack_refunded"} \cup EventType

GatedInit == Init /\ rejected = {}
GatedNext ==
  \/ ClientSide
  \/ \E e \in EventType \X Order :
       Unauthorized(e) \/ \E w \in Worker : LetThrough(w, e)

(* PayPal tries again until it is answered with 200, requests end, and no  *)
(* call fails every time.                                                  *)
GatedSpec ==
  /\ GatedInit /\ [][GatedNext]_gatedVars
  /\ \A e \in EventType \X Order :
       SF_gatedVars(Unauthorized(e) \/ \E w \in Worker : LetThrough(w, e))
  /\ \A w \in Worker : WF_gatedVars(Abort(w) /\ UNCHANGED rejected)
  /\ \A w \in Worker, call \in WebhookCall :
       SF_gatedVars(pc[w] = call /\ webhook(w) /\ UNCHANGED rejected)

(* What follows from a path that is checked: no handler of a delivery      *)
(* runs, so no refund or denial is ever recorded, no credits are deducted, *)
(* and only the customer's return stores a payment.                        *)
NoDeliveryHandled ==
  /\ \A w \in Worker :
       pc[w] \in {"idle", "insert", "capture", "find", "complete", "add", "fail"}
  /\ answered = {}
  /\ \A o \in Order :
       /\ db[o].status \notin {"DENIED", "REFUNDED"}
       /\ credits[o].webhook = 0 /\ credits[o].deducted = 0

(* And no event is ever off PayPal's list.                                 *)
EventsPileUp == [][events \subseteq events']_gatedVars

(* "PayPal webhook endpoint for asynchronous payment notifications",       *)
(* routers/paypal.py:143: an event PayPal keeps sending is taken in the    *)
(* end.                                                                    *)
EventsTaken == \A e \in EventType \X Order : e \in events ~> e \notin events
=============================================================================
