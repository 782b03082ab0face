SPECIFICATION NanoSpec
CONSTANTS
  Positions <- FewPositions
  FLIP_THRESHOLD = 100
  MSGQUEUE_COUNT = 2
  MaxReadings = 3
  Cells = {c1, c2, c3}
  Nil = Nil
  QueueSize = 1
  Texts <- FewTexts
  MaxPushed = 2
  MaxRead = 1
  Calls <- FewCalls
  MaxRounds = 3
  MaxSentences = 3
  Second = 2
  MaxTicks = 20
  MSGQUEUE_SIZE = 2
  Server = server
  Others = {a, b}
  TCP_BACKLOG = 2
  MaxSteps = 3
  NfcPages = 34
  OldLengths = {13, 250}
  Records <- SomeRecords
  MaxFaults = 1
INVARIANTS ObeyedIsQueued
CHECK_DEADLOCK FALSE
