\* One agent process, three threads on two slots, two crashes.
SPECIFICATION FairSpec
CONSTANTS
  Agents = {a1}
  WorkersPerAgent = 3
  Kinds = {"isolate", "editor"}
  AvailableCpus = 3
  BoxCount = 1000
  Calls = 1
  MaxCrashes = 2
  ContainersEscape = FALSE
INVARIANTS
  LeaseExcludes
  OneCallPerCpu
  BoxBelongsToCall
PROPERTIES
  EveryCallReturns
