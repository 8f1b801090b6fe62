\* Bursts of two requests, one more every three ticks; two ticks to the second.
CONSTANTS
  Key = {bank, shop, unknown}
  ValidKey = {bank, shop}
  Capacity = 6
  Rate = 1
  Cost = 3
  Second = 2
  Horizon = 4
SPECIFICATION Spec
INVARIANT GatewayInv
PROPERTIES RateBound RefusedOverBudget RetryAfterHolds
