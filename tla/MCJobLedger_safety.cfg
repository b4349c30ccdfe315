SPECIFICATION Spec
CONSTANTS
  Recordings = {"r1"}
  Pipeline <- TwoSteps
  Standalone = {}
  SpendingSteps = {}
  EditSteps = {"embed"}
  MaxSweepReclaims = 2
  Costs = {0}
  DefaultCeiling = 1
  Raises = {}
  NoJob = NoJob
  Bound <- Anything
INVARIANTS
  TypeOK
  SuccessorFollows
  CrashLoopBounded
PROPERTIES
  ImplementsStatusView
