SPECIFICATION FairSpec
CONSTANTS
  m1 = m1
  m2 = m2
  g1 = g1
  None = None
  Issi = {m1, m2}
  Gssi = {g1}
  MaxCalls = 2
  VoiceTs = {2, 3}
  MaxCallId = 2
  UmtMax = 5
  VoiceQuiet = 1
  CallStale = 2
  AlertTimeout = 1
  SetupGap = 1
  Delays = {1}
  BurstTs = {2}
  LossyReply = FALSE
INVARIANTS
  OneCallPerMobile
  OneCallPerTimeslot
  AachFollowsCalls
  SequenceFitsCall
  GrantedOnLiveChannel
PROPERTIES
  ChannelStays
  OthersUndisturbed
  ImplementsVoiceChannels
  AbandonedCallsEnd
  SetupCompletes
