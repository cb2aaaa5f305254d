SPECIFICATION Spec
CONSTANTS
  Wrap = 24
  SetupGap = 1
  AlertTimeout = 4
  CallStale = 3
  Round = 2
INVARIANTS SetupOnTime
PROPERTY NeverTooEarly
