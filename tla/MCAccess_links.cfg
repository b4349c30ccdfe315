SPECIFICATION Spec
CONSTANTS
  Requests = {r1, r2}
  MaxLinks = 3
  MaxSessions = 2
  MaxChanges = 4
SYMMETRY RequestSymmetry
INVARIANTS TypeOK OverIsOver
PROPERTIES OnlyAWorkingLinkActs
CHECK_DEADLOCK FALSE
