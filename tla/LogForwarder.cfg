\* Two print() calls of two threads, a queue of two lines sent one by one.
SPECIFICATION FairSpec
CONSTANTS
  Printers = {p1, p2}
  Prints = 2
  Capacity = 2
  BatchLimit = 1
INVARIANTS
  LinesArriveInOrder
  LonePrintsSurvive
  CloseSendsAll
PROPERTIES
  LinesLeaveTheQueue
CHECK_DEADLOCK FALSE
