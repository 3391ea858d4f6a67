SPECIFICATION BusSpec
CONSTANTS
  Ip <- MCIp
  ZeroIp = 0
  Port = {80}
  Flag = {"SYN", "ACK"}
  Bank = {1, 2}
  CmsHash <- MCCmsHash
  CountMax = 2
  RuleHash <- MCApart
  CutIp <- MCCutIp
  FirstEpoch = 1
  Trigger = 2
  MaxResets = 1
  Others = {3}
  FLOOD_SRC = 3
  FLOOD_N = 2
  STREAM <- MCStream
  CMS_QUERIES <- MCQueries
  MaxRows = 4
INVARIANTS
  OnlyHotSourcesPushed
  PushedRulesStay
  CalmCheckPasses
  DemoPassMeansBlocked
  RowsLagByOne
PROPERTIES
  PersistentTopIsBlocked
