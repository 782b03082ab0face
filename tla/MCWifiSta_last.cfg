SPECIFICATION FairSpec
CONSTANTS
  DEF_TIMEOUT = 3
  Lists <- SomeLists
  MaxScans = 3
PROPERTIES SeenFlagIsSuccess
CHECK_DEADLOCK FALSE
