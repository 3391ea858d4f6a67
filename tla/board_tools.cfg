SPECIFICATION ToolsSpec
CHECK_DEADLOCK FALSE
CONSTANTS
  Ip <- MCIp
  ZeroIp = 0
  Port = {1, 2, 3}
  Flag = {"SYN", "ACK"}
  Frame = {}
  NoFrame = NoFrame
  SeqMod = 8
  CountMod = 64
  Words = 4
  Hash1 <- MCHash1
  Hash2 <- MCHash2
  FlowBucket <- MCFlowBucket
  FlowFp <- MCFlowFp
  PortBit <- MCPortBit
  HostBit <- MCHostBit
  PktMax = 15
  SynMax = 15
  ByteMod = 16
  WindowLen = 4
  Epochs = 16
  RuleDepth = 2
  RuleHash <- MCRuleHash
  EpochMod = 4
  DefaultPort = 3
  DefaultHost = 3
  DefaultRate = 4
  C2 = {20, 22}
  CoarseBy = 2
  NewC2 = {22, 24}
  Sample = 4
  SrcA = 96
  SrcB = 97
  OtherFrame <- MCOthers
  MaxOthers = 2
  MaxFaults = 1
INVARIANTS
  KeptMembersAlwaysHit
  PassedLoadMissesNone
  PassedRoundTripHolds
  PassedFlowMeansEvicted
  PassedStreamIsWhole
  SoundBoardPasses
