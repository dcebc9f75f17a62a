CONSTANTS
  Nets = {a1, a2}
  Restarters = {r1, r2}
  Runs = {n1, n2, n3}
  MaxChanges = 3
  MaxCrashes = 1
  MaxFaults = 1
  Prompt = TRUE
SPECIFICATION AgentSpec
INVARIANTS AgentTypeOK NoneLeaked
PROPERTIES EndsUpVisible
CHECK_DEADLOCK FALSE
