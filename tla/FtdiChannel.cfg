\* Two clients, two requests, two activations and the faults of Faults_ for each
\* channel of Channels, whose ring grows to two blocks.
SPECIFICATION FairSpec
CONSTANTS
  Configs <- Channels
  MaxClients = 2
  Pins = {1, 2}
  Writes <- Written_
  dwPacket = 62
  dwMaxPacket = 1240
  dwSpan = 65536
  m_nMinElems = 1
  m_nMaxElems = 2
  MaxRequests = 2
  MaxUpdates = 2
  MaxFaults <- Faults_
INVARIANTS
  RequestsAccounted
  WrittenWhenAnswered
  UpdatesNotForgotten
  BlocksKept
  BuffersAgree
PROPERTIES
  AnswersFinal
  RequestsAnswered
  AdcGetsActive
\* A channel that was refused or deleted does nothing more.
CHECK_DEADLOCK FALSE
