SPECIFICATION Spec
CONSTANTS
  TextKinds = {"summary"}
  ListKinds = {"scripture"}
  TreeKinds = {"mind_map"}
  SummaryKinds = {"summary", "scripture"}
  Admins = {ann, ben}
  MaxItems = 5
  MaxEvents = 2
INVARIANTS TypeOK LatestApprovedStands DiscardIsFollowed
PROPERTIES RequestsEnd
CHECK_DEADLOCK FALSE
