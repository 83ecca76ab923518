CONSTANTS
  ExitCodes <- MCExitCodes
  Signals <- MCSignals
  InitCodes = {1, 2}
  Requests <- MCRequests
  Uses <- MCUses
  DefaultTime = 3000
  SandboxMemory = 1024
SPECIFICATION FairSpec
INVARIANTS
  AnswersAreEarned
  LimitsAreNamed
  EveryBoxIsSwept
  ProblemLimitsSuffice
PROPERTIES
  CaseEnds
