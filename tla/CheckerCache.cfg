\* Three agent processes of one thread each, two keys, one CPU, one crash.
SPECIFICATION FairSpec
CONSTANTS
  Agents = {a1, a2, a3}
  WorkersPerAgent = 1
  Keys = {k1, k2}
  CpuSlots = 1
  Jobs = 1
  MaxCrashes = 1
  NoKey = NoKey
INVARIANTS
  OneBuilderPerKey
  NoPartialChecker
  NeverAllWait
PROPERTIES
  ImplementsStore
  EveryRequestAnswered
