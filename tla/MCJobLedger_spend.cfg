SPECIFICATION Spec
CONSTANTS
  Recordings = {"r1"}
  Pipeline <- TwoSteps
  Standalone = {}
  SpendingSteps = {"transcribe", "embed"}
  EditSteps = {}
  MaxSweepReclaims = 2
  Costs = {0, 1, 2}
  DefaultCeiling = 2
  Raises = {3}
  NoJob = NoJob
  Bound <- Spending
INVARIANTS
  TrueCap
