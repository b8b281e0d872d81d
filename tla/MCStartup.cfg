CONSTANTS
  PortMax = 65535
  IsClang = FALSE
  LogLevels <- MCLogLevels
  Known <- MCKnown
  Builds <- MCBuilds
  Environments <- MCEnvironments
  CommandLines <- MCCommandLines

SPECIFICATION Spec

INVARIANTS
  TypeOK
  ConfinedBeforeInput
  SendsAsConfigured
  HealthyHostRuns
  KilledForPipeOnly
  FailureReported
  IInv

\* main ends.
CHECK_DEADLOCK FALSE
