CONSTANTS
  a = a
  b = b
  Paths <- TwoFiles
  Writers <- Both
  MaxId = 2
  MaxChanges = 2
  MaxCrashes = 2
  MaxCopies = 4
  BatchLimit = 1
  SubBatch = 1
  Ops <- NoFault
SPECIFICATION FairSpec
CHECK_DEADLOCK FALSE
INVARIANT ReportedMeansDone
PROPERTY WritersEnd EventuallyIndexed
