SPECIFICATION Spec
CONSTANTS
  Issis = {i1, i2}
  Gssis = {g1}
  Default = default
  Slots <- TwoSlots
  Editors = {e1, e2}
  Profiles = {0}
  MaxTime = 2
  MaxEdits = 2
  MaxDemands = 1
  MaxCrashes = 1
  SaveFails = TRUE
  WriteFails = TRUE
SYMMETRY Symmetry
INVARIANTS FileWhole NoTwice AcceptedOnDisk EditSeen
