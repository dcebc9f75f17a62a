SPECIFICATION Spec
CONSTANTS
    Assets = {"a1", "a2"}
    Contents = {"c1", "c2"}
    Bytes <- MCBytes
    NameOf <- MCNameOf
    Sessions = {"s1"}
    Overlap = TRUE
    Numbers <- MCNumbers
    MaxFaults = 0
PROPERTY NothingOverwritten
CHECK_DEADLOCK FALSE
