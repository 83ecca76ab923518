\* One agent process; docker rm may fail or time out.
SPECIFICATION Spec
CONSTANTS
  Agents = {a1}
  WorkersPerAgent = 2
  Kinds = {"isolate", "editor"}
  AvailableCpus = 2
  BoxCount = 1000
  Calls = 2
  MaxCrashes = 0
  ContainersEscape = TRUE
INVARIANTS
  OneCallPerCpu
