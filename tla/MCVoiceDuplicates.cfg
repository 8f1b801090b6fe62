CONSTANTS
  Worker = {w1, w2}
  Request = {r1, r2}
  NoResult = NoResult
  Stream <- MCStream
  channel <- MCChannel
  tail <- MCTail
  variance <- MCVariance
  Flagged <- MCFlagged
  Finite <- MCFinite
  Bundle <- MCBundle
  Faults = {}
SPECIFICATION Spec
INVARIANT DuplicatesPrevented
CHECK_DEADLOCK FALSE
