\* A request is read while the reply to the one before it is still queued.
SPECIFICATION Spec
CONSTANTS
  NULL = NULL
  Devices = {"d1"}
  Requests <- AllRequests
  m_usChans = 1
  MaxRequests = 3
  MaxPending = 1
  MaxFaults = 0
  MaxChanges = 0
INVARIANT EnqueuedDevicesExist
\* After the shutdown nothing more is done.
CHECK_DEADLOCK FALSE
