\* Two slots, three faults, so that all attempts at a report can be lost, and a crash.
SPECIFICATION Spec
CONSTANTS
  Jobs = {c1, e1}
  Collecting = {c1}
  EditorTasks = {e1}
  TotalSlots = 2
  RunOnce = TRUE
  MaxFaults = 3
  MaxCrashes = 1
INVARIANTS
  SlotsRespected
  JudgedOnceAtATime
  VerdictSurvives
  ExitsWhenDone
