\* Five requests of any kind; a device comes or goes once, one call fails.
SPECIFICATION Spec
CONSTANTS
  NULL = NULL
  Devices = {d1, d2}
  Requests <- AllRequests
  m_usChans = 1
  MaxRequests = 5
  MaxPending = 0
  MaxFaults = 1
  MaxChanges = 1
INVARIANTS
  HandlesStayGood
  DeletedOnce
PROPERTY OpensWhatWasShown
\* After the shutdown nothing more is done.
CHECK_DEADLOCK FALSE
