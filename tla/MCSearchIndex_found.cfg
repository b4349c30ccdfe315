SPECIFICATION Spec
CONSTANTS
  Members = {ann, ben}
  Admins = {ann}
  NoteIds = {n1}
  NoNote = NoNote
  Nobody = Nobody
  NoRow = NoRow
  MaxPasses = 2
  MaxEvents = 3
  Readers = {ann}
INVARIANTS TypeOK IndexCatchesUp KeptIsStillAllowed
PROPERTIES QueuedLookReachesIndex
CHECK_DEADLOCK FALSE
