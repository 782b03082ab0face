SPECIFICATION FairSpec
CONSTANTS
  DEF_TIMEOUT = 3
  Lists <- SomeLists
  MaxScans = 3
INVARIANTS TypeOK ExaminesWholeList
PROPERTIES KeepsPromise SuccessMeansLink LoopsEnd
CHECK_DEADLOCK FALSE
