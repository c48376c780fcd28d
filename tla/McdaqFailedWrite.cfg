\* A write fails, and the next one changes a line it does not select.
SPECIFICATION Spec
CONSTANTS
  Ids = {0, 1}
  ucDirection = 2
  usInitialVal <- NoBits
  Setups <- Failing
PROPERTIES
  OnlySelectedBitsChange
\* A deleted channel does nothing more.
CHECK_DEADLOCK FALSE
