\* A second agent process starts while the first one judges.
SPECIFICATION Spec
CONSTANTS
  Agents = {a1, a2}
  WorkersPerAgent = 1
  Kinds = {"isolate"}
  AvailableCpus = 3
  BoxCount = 1000
  Calls = 1
  MaxCrashes = 0
  ContainersEscape = FALSE
INVARIANTS
  BoxBelongsToCall
