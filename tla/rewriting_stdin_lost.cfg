\* Stdin data of at most two characters, and no patterns.
CONSTANTS
  Symbols <- McSymbols
  Patterns = {}
  Requests <- ShortRequests
SPECIFICATION Spec
INVARIANT StdinReachesProgram
\* Every text is rewritten once.
CHECK_DEADLOCK FALSE
