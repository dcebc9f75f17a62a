SPECIFICATION Spec
CONSTANTS
    Assets = {"a1", "a2"}
    Contents = {"c1", "c2"}
    Bytes <- MCBytes
    NameOf <- MCNameOf
    Sessions = {"s1", "s2"}
    Overlap = FALSE
    Numbers <- MCNumbers
    MaxFaults = 1
INVARIANTS TypeOK RecordHasContent
PROPERTIES ImplementsBackup CompletedHonest RunEnds
CHECK_DEADLOCK FALSE
