SPECIFICATION FairSlotSpec
CONSTANTS
  MlePdus = {grant2}
  CmcePdus = {bcast}
  SdsPdus = {ack}
  NoPdu = NoPdu
  Depth = 2
  AllMax = 3
  OneMax = 1
  Mcch = 0
  TrafficFrames = 1
  Multiframes = 3
  VoiceTns = {1}
  FullSlot = {bcast}
  LsbAligned = {ack}
  Common = {bcast, ack}
  Reserving = {grant2}
  ResvFrames = 2
INVARIANTS
  PoppedIsCarried
  SignallingHasPdu
PROPERTIES
  QueueDrains
  ImplementsPriorityBuffer
CHECK_DEADLOCK FALSE
