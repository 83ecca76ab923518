\* One slot: every job is settled, and a cancelled Editor task stops.
SPECIFICATION FairSpec
CONSTANTS
  Jobs = {c1, e1}
  Collecting = {c1}
  EditorTasks = {e1}
  TotalSlots = 1
  RunOnce = FALSE
  MaxFaults = 2
  MaxCrashes = 1
PROPERTIES
  EveryJobSettled
  CancelledTasksStop
