CONSTANTS
  a = a
  b = b
  Paths <- TwoFiles
  Writers <- BulkOnly
  MaxId = 4
  MaxChanges = 2
  MaxCrashes = 2
  MaxCopies = 3
  BatchLimit = 2
  SubBatch = 1
  Ops <- AllOps
SPECIFICATION Spec
CHECK_DEADLOCK FALSE
INVARIANT TypeOK IndexedHasVector
PROPERTY ImplementsCatalog
