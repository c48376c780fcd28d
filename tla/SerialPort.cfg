\* Two requests of any kind, two bytes received, CancelIoEx at hand.
SPECIFICATION FairSpec
CONSTANTS
  Requests <- Asked
  Bytes = {x, stop}
  cStop = stop
  HasCancelIoEx = TRUE
  MaxRequests = 2
  MaxBytes = 2
INVARIANTS
  OneAnswerEach
  AbortedOnlyIfTimed
  NoByteLost
  QueueNotForgotten
PROPERTIES
  TimedIsAnswered
\* A deleted channel does nothing more.
CHECK_DEADLOCK FALSE
