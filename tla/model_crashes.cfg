CONSTANTS
  Size = 3
  MaxAttempts = 3
  MaxReleases = 3
  Kinds <- AllKinds
  MaxFaults = 4
  MaxCrashes = 2
  MaxReloads = 1
SPECIFICATION FairSpec
CHECK_DEADLOCK FALSE
INVARIANT TypeOK Unmixed
PROPERTY Settles
