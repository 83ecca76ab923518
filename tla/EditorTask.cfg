\* One Editor task, plain or interactive, with every way docker can fail.
SPECIFICATION FairSpec
INVARIANTS
  CleanUpIsInOrder
  ResultIsTrue
PROPERTIES
  CancelledRaises
  EverythingEnds
CHECK_DEADLOCK FALSE
