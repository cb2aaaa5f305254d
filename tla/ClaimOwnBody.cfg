SPECIFICATION Spec
CONSTANTS
  MS = {m1, m2}
  NoMs = NoMs
  Label = Label
  MaxPdu = 1
  Tries = 1
  SdsPdus <- NoSds
  T0Reg = 0
INVARIANTS OwnBody
