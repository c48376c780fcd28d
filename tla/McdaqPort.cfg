\* A continuous channel, one that reads once for each trigger, busy clients.
SPECIFICATION FairSpec
CONSTANTS
  Ids = {0, 1}
  ucDirection = 2
  usInitialVal <- NoBits
  Setups <- All
INVARIANTS
  RequestsNotForgotten
  SubscriptionKept
  OneReadingPerTrigger
PROPERTIES
  NoDataAfterCancel
  OnlySelectedBitsChange
  WritesAnswered
  GoneReadersForgotten
\* A deleted channel does nothing more.
CHECK_DEADLOCK FALSE
