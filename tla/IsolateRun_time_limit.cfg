\* Does time_limit_exceeded mean that a time limit was exceeded?
CONSTANTS
  ExitCodes <- MCExitCodes
  Signals <- MCSignals
  InitCodes = {1, 2}
  Requests <- MCRequests
  Uses <- MCUses
  DefaultTime = 3000
  SandboxMemory = 1024
SPECIFICATION Spec
INVARIANTS
  TimeLimitMeansTime
