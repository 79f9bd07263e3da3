CONSTANTS
  MaxFd = 10
  NULL = NULL

SPECIFICATION Spec

\* main returns, or an assert aborts the process: the test stops.
CHECK_DEADLOCK FALSE
INVARIANT TypeOK
INVARIANT TestOutcomeDecidedByFdTable
INVARIANT TestRestoresFdTable
