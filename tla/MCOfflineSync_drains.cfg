SPECIFICATION Spec
CONSTANTS
  tab1 = tab1
  member1 = member1
  note1 = note1
  Tabs = {tab1}
  Accounts = {member1}
  NoAccount = NoAccount
  Notes = {note1}
  PictureNotes = {note1}
  Wordless = {}
  MaxPosition = 2
  MaxSyncEntries = 1
  NoRequest = NoRequest
  Bound <- DrainsBound
PROPERTIES
  OutboxDrains
  RevokedLeaves
\* a device with nothing to send and nobody to send it rests
CHECK_DEADLOCK FALSE
