CONSTANTS
  Sessions = {s1}
  Handlers = {h1, h2}
  Flows = {"to_pc", "revisit", "to_phone"}
  Sizes = {0, 2}
  Hosts = 2
  MaxSessions = 1
  MaxOthers = 1
  MaxGone = 1
SPECIFICATION Spec
INVARIANTS TypeOK DoneMeansAllOnce OkMeansSaved
PROPERTIES OkMeansDone StashEnds
CHECK_DEADLOCK FALSE
