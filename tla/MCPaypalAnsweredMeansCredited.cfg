CONSTANTS
  Order = {o1}
  Worker = {w1, w2}
  CreditCall = {"returns"}
  RefundNames = {"capture", "refund"}
SPECIFICATION Spec
INVARIANTS AnsweredMeansCredited
CHECK_DEADLOCK FALSE
