\* One order, two requests at a time; add_credits may return or raise.
CONSTANTS
  Order = {o1}
  Worker = {w1, w2}
  CreditCall = {"returns", "raises"}
  RefundNames = {"capture", "refund"}
SPECIFICATION FairSpec
INVARIANTS PaymentInv Backed CaptureCreditsOnce NoPaymentForgotten
PROPERTIES ImplementsLedger PaymentRecorded
CHECK_DEADLOCK FALSE
