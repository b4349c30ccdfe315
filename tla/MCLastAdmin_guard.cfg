SPECIFICATION GuardSpec
CONSTANTS
  request1 = request1
  request2 = request2
  Members = {1, 2}
  Connections = {request1, request2}
  NoOne = NoOne
INVARIANTS
  GuardTypeOK
  GuardKeepsAnAdmin
PROPERTY WritesEnd
