SPECIFICATION Spec
CONSTANTS
  MS = {m1, m2}
  NoMs = NoMs
  Label = Label
  MaxPdu = 2
  Tries = 1
  SdsPdus <- OneSds
  T0Reg = 0
SYMMETRY StationSymmetry
INVARIANTS BodiesConserved OwnBodyAlone
PROPERTIES PromptEndJoined
