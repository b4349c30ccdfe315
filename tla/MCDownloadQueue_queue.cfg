SPECIFICATION Spec
CONSTANTS
  Teachings = {t1, t2}
  Accounts = {ann, ben}
  Nobody = Nobody
  MaxPresses = 2
INVARIANTS
  TypeOK
  HeldHasBytes
  CancelKeepsNothing
  KeptForWhoAsked
PROPERTIES
  QueuedIsReached
\* a page that asked with no account active hangs, and takes no step
CHECK_DEADLOCK FALSE
