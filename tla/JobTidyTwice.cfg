SPECIFICATION FairSpec
CONSTANTS
  Characters <- MCCharacters
  Before <- MCBefore
  Plans <- MCPlanEndingInRepair
  MaxRetries = 1
  MaxFaults = 0
  MaxLost = 0
  Spoilt = Spoilt
PROPERTIES
  TextStays
CHECK_DEADLOCK FALSE
