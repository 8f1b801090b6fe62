\* Two calls, a token that outlives the margin and one that hardly does, and a
\* clock set back or forward by more than the margin.
CONSTANTS
  Call = {c1, c2}
  NoToken = none
  Life = {2, 4}
  Margin = 2
  Delay = 1
  Use = 1
  Skew <- MCSkew
  MaxTime = 7
SPECIFICATION Spec
INVARIANTS TokenInv TokenFresh
PROPERTY RefreshDue
