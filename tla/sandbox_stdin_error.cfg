\* Limits of three and one units; a program writes up to five units to a stream.
CONSTANTS
  STDOUT_LIMIT = 3
  STDERR_LIMIT = 1
  DEFAULT_TIMEOUT = 30
  Timeouts = {0, 5}
  MaxOutput = 5
SPECIFICATION Safety
INVARIANTS
  CoreSurvives
CHECK_DEADLOCK FALSE
