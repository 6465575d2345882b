\* Patterns of at most four pieces, stdin data of at most four characters.
CONSTANTS
  Symbols <- McSymbols
  Patterns <- McPatterns
  Requests <- McRequests
SPECIFICATION Spec
INVARIANTS
  TokensDenote
  TextsInPlace
  StdinArrives
\* Every text is rewritten once.
CHECK_DEADLOCK FALSE
