CONSTANTS
    Workers = {w1}
    Requests = {r1, r2}
    SlowStop = FALSE
    MaxConfigs = 2
    MaxTries = 2
    Chunks = 1
    Cap = 2
    MaxFaults = 1
SPECIFICATION Spec
INVARIANTS TypeOK UploadWhole DoneIsGiven SessionIsCurrent
PROPERTIES Recovers
CHECK_DEADLOCK FALSE
