\* Threshold 2, and room in the map for two of the three sources.
CONSTANTS
  c1 = c1
  c2 = c2
  left = left
  right = right
  both = both
  CPU = {c1, c2}
  Source = {left, right, both}
  Steer <- MCSteer
  Threshold = 2
  MaxEntries = 2
SPECIFICATION Spec
INVARIANTS FilterInv InnocentPasses PinnedExact
