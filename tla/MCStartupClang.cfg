CONSTANTS
  PortMax = 65535
  IsClang = TRUE
  LogLevels <- MCLogLevels
  Known <- MCKnown
  Builds <- MCBuilds
  Environments <- MCEnvironments
  CommandLines <- MCCommandLines

SPECIFICATION Spec

INVARIANT
  LogLevelAsGiven

\* main ends.
CHECK_DEADLOCK FALSE
