\* Limits of three and one units; a program writes up to five units to a stream.
CONSTANTS
  STDOUT_LIMIT = 3
  STDERR_LIMIT = 1
  DEFAULT_TIMEOUT = 30
  Timeouts = {0, 5}
  MaxOutput = 5
SPECIFICATION Spec
INVARIANTS
  TypeOK
  SuccessWithinLimits
  OverflowIsStopped
  RejectionJustified
  FailureIsReported
PROPERTIES
  RunSettles
\* A run that is over takes no further step.
CHECK_DEADLOCK FALSE
