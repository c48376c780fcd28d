\* Two sessions, lossless or not; frames and deletion at any time.
SPECIFICATION FairSpec
CONSTANTS
  Buffers = {b1, b2, b3, b4}
  NULL = NULL
  MaxSessions = 2
  MaxFaults = 2
INVARIANTS
  OneFrameAtATime
  ActivatorTold
PROPERTIES
  AnswerBeforeFrames
  StreamContinues
\* A deleted channel does nothing more.
CHECK_DEADLOCK FALSE
