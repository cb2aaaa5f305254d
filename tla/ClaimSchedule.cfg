SPECIFICATION Spec
CONSTANTS
  Firsts <- EdgeFirsts
  Heads = {0, 110, 150}
  MaxSlots = 5
INVARIANT MeasuredAsPreset
CHECK_DEADLOCK FALSE
