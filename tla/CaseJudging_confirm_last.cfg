\* Is a timed-out case confirmed only after all the others have ended?
CONSTANTS
  MaxCases = 3
  Jobs <- VerdictJobs
  Runtimes = {1}
  OutputSizes = {1}
  CaseCapture = 1
  RunBudget = 2
  ReferenceBudget = 3
  BatchSize = 2
  MaxLost = 0
SPECIFICATION SpecReports
INVARIANTS
  ConfirmedAfterAllCases
