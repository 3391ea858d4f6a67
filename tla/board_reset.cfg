SPECIFICATION Spec
CHECK_DEADLOCK FALSE
CONSTANTS
  Ip <- MCIp
  ZeroIp = 0
  Port = {80, 81}
  Flag = {"SYN", "ACK"}
  Words = 2
  BitPos = {0, 1}
  Hash1 <- MCHash1
  Hash2 <- MCHash2
  RuleDepth = 2
  RuleHash <- MCRuleHash
  EpochMod = 2
  DefaultPort = 2
  DefaultHost = 2
  DefaultRate = 3
  Bucket = {0, 1}
  FlowBucket <- MCFlowBucket
  Fp <- MCIp
  FlowFp <- MCFlowFp
  FpBit = {0, 1}
  PortBit <- MCPortBit
  HostBit <- MCHostBit
  PktMax = 3
  SynMax = 2
  ByteMod = 16
  WindowLen = 2
  Epochs = 2
  Bank = {1, 2}
  Col = {0, 1, 2}
  CmsHash <- MCCmsHash
  CountMax = 3
  Register = {0, 1}
  HllHash <- MCHllHash
  RankMax = 2
  HllRank <- MCHllRank
  Weight <- MCWeight
  TelEpochs = 2
  WindowCycles = 31
  WindowMod = 4
  Frame <- SomeFrames
  NoFrame = NoFrame
  SeqMod = 4
  CountMod = 8
  Gap = 11
  Slack = 1
  ResetCycles = 3
  MaxFrames = 3
  MaxResets = 1
  BootBloom <- MCBoot
  ZeroPacket <- Zero
INVARIANTS
  Schedule
  Progress
PROPERTIES
  ImplementsBoard
