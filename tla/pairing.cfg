SPECIFICATION Spec
CONSTANTS
    Sessions = {s1, s2}
    Devices = {d1, d2}
    Threads = {t1, t2}
    LateClaims = FALSE
    RemoveInside = FALSE
    MaxCodes = 2
    MaxFolders = 2
    MaxFaults = 1
INVARIANTS TypeOK ReferencesHold AcceptedIsServed
PROPERTIES AnswerStable CodeLeadsToDecision
CHECK_DEADLOCK FALSE
