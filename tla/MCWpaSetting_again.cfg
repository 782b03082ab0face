SPECIFICATION Spec
CONSTANTS
  Lists <- ScanResults
  Ssids <- Networks
  Hidden <- HiddenNetworks
  MaxPages = 2
  MaxEvents = 0
INVARIANTS StartedIsRunning
CHECK_DEADLOCK FALSE
