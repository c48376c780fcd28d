\* One ADC that is activated, triggered and inactivated.
SPECIFICATION FairSpec
CONSTANTS
  Configs <- ConverterOnly
  MaxClients = 1
  Pins = {1, 2}
  Writes <- Written_
  dwPacket = 62
  dwMaxPacket = 1240
  dwSpan = 65536
  m_nMinElems = 1
  m_nMaxElems = 2
  MaxRequests = 1
  MaxUpdates = 2
  MaxFaults <- NoFaults
PROPERTY
  NoDataAfterClosing
\* A channel that was deleted does nothing more.
CHECK_DEADLOCK FALSE
