SPECIFICATION Spec
CONSTANTS
  Lists <- ScanResults
  Ssids <- Networks
  Hidden <- HiddenNetworks
  MaxPages = 1
  MaxEvents = 2
INVARIANTS TappedIsShown
CHECK_DEADLOCK FALSE
