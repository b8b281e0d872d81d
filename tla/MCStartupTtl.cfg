CONSTANTS
  PortMax = 65535
  IsClang = FALSE
  LogLevels <- MCLogLevels
  Known <- MCKnown
  Builds <- MCBuilds
  Environments <- MCEnvironments
  CommandLines <- MCCommandLines

SPECIFICATION Spec

INVARIANT
  TtlAsGiven

\* main ends.
CHECK_DEADLOCK FALSE
