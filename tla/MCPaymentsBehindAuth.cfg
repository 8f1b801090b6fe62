\* The paths are those of api/middleware/auth.py:49.
CONSTANTS
  Order = {o1}
  Worker = {w1}
  CreditCall = {"returns"}
  RefundNames = {"capture", "refund"}
  Unchecked = {"/v1/health", "/v1/health/liveness", "/v1/health/readiness", "/metrics"}
SPECIFICATION GatedSpec
PROPERTIES EventsTaken
CHECK_DEADLOCK FALSE
