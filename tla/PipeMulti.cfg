\* A channel's pipe: instances are created as clients come and deleted as they go.
SPECIFICATION Spec
CONSTANTS
  p1 = p1
  p2 = p2
  b1 = b1
  b2 = b2
  Pipes = {p1, p2}
  MaxPipes = 2
  Buffers = {b1, b2}
  Size <- MCSize
  MaxQueueBytes = 2
  OtherBytes = {0}
  MaxClients = 2
  MaxFaults = 1
  MaxInbox = 0
  LastInitId = 1
SYMMETRY PipeSymmetry
INVARIANTS
  ReadNotForgotten
  NextClientCanConnect
  ClosedIsClean
\* Closed for good, with no thread left, the comm stops.
CHECK_DEADLOCK FALSE
