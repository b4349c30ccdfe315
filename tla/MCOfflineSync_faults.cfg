SPECIFICATION Spec
CONSTANTS
  tab1 = tab1
  member1 = member1
  member2 = member2
  note1 = note1
  note2 = note2
  Tabs = {tab1}
  Accounts = {member1, member2}
  NoAccount = NoAccount
  Notes = {note1, note2}
  PictureNotes = {note1, note2}
  Wordless = {note2}
  MaxPosition = 0
  MaxSyncEntries = 2
  NoRequest = NoRequest
  Bound <- FaultsBound
SYMMETRY AnyMember
INVARIANTS
  TypeOK
  KeptNoteIsSomewhere
  ReceiptStopsReplays
\* a device with nothing to send and nobody to send it rests
CHECK_DEADLOCK FALSE
