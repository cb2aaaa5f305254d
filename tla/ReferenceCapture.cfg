SPECIFICATION Spec
CONSTANTS
  Mobiles = {1, 2}
  MaxBursts = 4
  First = 4317
  Lags = {0, 20, 3500}
  Gaps = {1, 2150}
  ClockShift = 7
INVARIANTS RowsGetOwnPdu WholeMessages DelaysTrue
CHECK_DEADLOCK FALSE
