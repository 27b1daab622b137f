SPECIFICATION FairSpec
CONSTANTS
  Archive = {a1}
  EcccRun = {d1}
  LoadRun = {l1}
  Deployed = {}
  Part <- MCPart
  MaxFaults = 1
PROPERTY LoadPublishesItsRun
PROPERTY EachArchiveGoesLive
CHECK_DEADLOCK FALSE
