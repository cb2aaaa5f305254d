SPECIFICATION FairSpec
CONSTANTS
  AttachFrags = {}
  SdsFrags = {s1}
  OtherFrags = {}
  SwGrants = {g1}
  Acks = {b1}
  NoReq = NoReq
  BuildTime = 1
  EncodeTime = 2
  Gap = 1
  Accepts = {la}
  Rejects = {}
  Raws = {r1}
  MleTime = 6
  SettleTime = 3
  PollTime = 4
  MaxPolls = 3
  Detaches = 1
INVARIANTS QueuedAsSubmitted OnlyDetachLoses OwnWord
PROPERTY StartedIsQueued
