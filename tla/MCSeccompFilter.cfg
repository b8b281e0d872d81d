CONSTANTS
  Known <- MCKnown
  Requests <- MCRequests
  Flaky <- MCFlaky

SPECIFICATION FilterSpec

INVARIANT
  NoUseAfterRelease

\* The context is released.
CHECK_DEADLOCK FALSE
