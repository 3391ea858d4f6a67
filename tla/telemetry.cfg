SPECIFICATION Spec
CONSTANTS
  Ip <- MCIp
  ZeroIp = 0
  Port = {80}
  Flag = {"SYN", "ACK"}
  Bank = {1, 2}
  Col = {0, 1}
  CmsHash <- MCCmsHash
  CountMax = 2
  Register = {0, 1}
  HllHash <- MCHllHash
  RankMax = 2
  HllRank <- MCHllRank
  Weight <- MCWeight
  TelEpochs = 2
  WindowCycles = 13
  WindowMod = 2
  TelGap = 6
  MaxWindows = 4
INVARIANTS
  TelTypeOK
  NeverUndercounts
PROPERTIES
  ImplementsTwin
