\* The channel is deleted while a request is handled.
SPECIFICATION FairSpec
CONSTANTS
  Buffers = {b1, b2, b3, b4}
  NULL = NULL
  MaxSessions = 2
  MaxFaults = 1
PROPERTY DeletionEnds
\* A deleted channel does nothing more.
CHECK_DEADLOCK FALSE
