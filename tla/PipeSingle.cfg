\* The main manager's pipe: one instance, reset after each client.
SPECIFICATION FairSpec
CONSTANTS
  p1 = p1
  b1 = b1
  b2 = b2
  Pipes = {p1}
  MaxPipes = 1
  Buffers = {b1, b2}
  Size <- MCSize
  MaxQueueBytes = 3
  OtherBytes = {0, 1}
  MaxClients = 2
  MaxFaults = 0
  MaxInbox = 1
  LastInitId = 0
INVARIANTS
  RepliesReachTheirAsker
  HeldOnce
  BytesAccounted
  WriteNotForgotten
  OverlappedInStep
PROPERTIES
  ImplementsComm
  RepliesFinish
\* Closed for good, with no thread left, the comm stops.
CHECK_DEADLOCK FALSE
