SPECIFICATION Spec
CONSTANTS
  Kinds = {"D-CONNECT", "D-LOC-UPD-ACCEPT", "U-ITSI-DETACH", "U-LOC-UPD-DEMAND", "U-SETUP"}
  Addresses = {1, 4, 6}
  LlcTypes = {0, 1}
  MaxOptions = 3
  MaxTried = 1
  MaxGroups = 2
INVARIANTS ReadAsSent ToolsAgree DemandRejoined
CHECK_DEADLOCK FALSE
