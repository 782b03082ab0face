SPECIFICATION MicroSpec
CONSTANTS
  server = server
  client = client
  t1 = t1
  t2 = t2
  t3 = t3
  NoThread = NoThread
  NoBuffer = NoBuffer
  Preinstalled = {launcher, notes}
  Processes = {server, client}
  Threads = {t1, t2, t3}
  ProcessOf <- TwoProcesses
  Buffers = {b1, b2}
  SHM_MAX_KEY = 3
  MaxCalls = 5
  DISP_WIDTH = 3
  DISP_HEIGHT = 2
  Panels <- SmallPanels
  PageSize = 16
  MaxLayerCalls = 7
  launcher = launcher
  notes = notes
  notesPro = notesPro
  NoApp = NoApp
  Bundles = {launcher, notes, notesPro}
  BeginWith <- Beginnings
  Own = {launcher}
  PageCells <- OneCellPages
  MaxInstalls = 2
  MaxPresses = 3
  Dates <- SomeDates
  Networks = {"home"}
  Digits = {"1"}
  g_maxPassword = 2
  Permissions = {permission}
  MaxStack = 4
CONSTRAINT FewUnsupported
INVARIANTS
  MicroTypeOK HandlesNameTheirSegments EachSegmentHasOneOwner LayerIsAccounted DesktopAgrees
  WeekdayOfGivenYear SwitchesShowTheSystem
PROPERTIES AllocReturns JoinsWithShown
CHECK_DEADLOCK FALSE
