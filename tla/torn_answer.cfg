SPECIFICATION Spec
CONSTANTS
  Ip <- MCIp
  ZeroIp = 0
  Port = {80}
  Flag = {"SYN", "ACK"}
  Bank = {1, 2}
  CmsHash <- MCCmsHash
  CountMax = 2
  RuleHash <- MCApart
  CutIp <- MCCutIp
  FirstEpoch = 0
  Trigger = 2
  MaxResets = 1
  SnapEvery = 1
  Kept = 1
INVARIANTS
  OnlyTopTalkersBlocked
