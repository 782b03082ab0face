SPECIFICATION FairSpec
CONSTANTS
  Lists <- FewResults
  Ssids <- Networks
  Hidden <- HiddenNetworks
  MaxPages = 2
  MaxEvents = 2
CONSTRAINT Claimed
INVARIANTS TypeOK ListNotTorn NoOrphanedLock MonitorServesThePages
PROPERTIES UiReturns
CHECK_DEADLOCK FALSE
