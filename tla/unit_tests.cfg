\* All languages; requests with at most two test cases.
CONSTANTS
  Languages = {"javascript", "python", "cxx", "csharp", "java"}
  one = one
  two = two
  Values = {one, two}
  Nothing = Nothing
  NullError = NullError
  NoExpectation = NoExpectation
  TestLists <- SomeTestLists
SPECIFICATION Spec
INVARIANTS
  TypeOK
  VectorsFollowRun
  CompleteRunScored
  ScoreIsTrue
\* An answered request is at its end.
CHECK_DEADLOCK FALSE
