\* Jobs that stop at the first failure and jobs that report every case, one or two
\* workers, outputs that overrun the budget, one request or reply lost.
CONSTANTS
  MaxCases = 4
  Jobs <- AllJobs
  Runtimes = {1}
  OutputSizes = {1, 3}
  CaseCapture = 2
  RunBudget = 3
  ReferenceBudget = 4
  BatchSize = 2
  MaxLost = 1
SPECIFICATION FairReports
INVARIANTS
  WorkdirOutlivesRuns
  TimeoutsConfirmed
  ConfirmedAlone
  RuntimeOfCountedRuns
  AcceptedMeansAll
  ObservedOutputs
  HeardInOrder
  EveryResultHeard
PROPERTIES
  ProgressIsMonotone
  NoRunAfterFailure
  ImplementsInOrder
  JobEnds
