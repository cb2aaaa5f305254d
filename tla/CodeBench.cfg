SPECIFICATION Spec
CONSTANTS
  Channels = {"bsch", "schf", "schhd", "schhu", "aach"}
  Seeds = {2, 5}
  MaxFlips = 2
  Stride <- MCStride
  Fades = {3, 9}
INVARIANTS Corrected NearMissRefused VectorsAgree
CHECK_DEADLOCK FALSE
