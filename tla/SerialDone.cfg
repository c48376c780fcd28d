\* A packet pushed while a spurious wake-up is handled.
SPECIFICATION Spec
CONSTANTS
  Requests <- Asked
  Bytes = {x, stop}
  cStop = stop
  HasCancelIoEx = TRUE
  MaxRequests = 2
  MaxBytes = 2
INVARIANT
  DoneAsAsked
CHECK_DEADLOCK FALSE
