------------------------- MODULE MC_UnitTestHarness -------------------------
EXTENDS UnitTestHarness, TLC

Returns(v) == [value |-> v, exception |-> FALSE]
Throws(v)  == [value |-> v, exception |-> TRUE]

CONSTANTS one, two

\* No test, a test without cases, one test of two cases, two tests, an expectation that
\* is left out, and expectations of nothing and of its exception.
SomeTestLists == {
  <<>>, << <<>> >>,
  << <<Returns(one), Throws(one)>> >>,
  << <<Returns(two)>>, <<Returns(one)>> >>,
  << <<Returns(one)>>, <<>> >>,
  << <<NoExpectation>> >>,
  << <<Returns(Nothing), Throws(NullError)>> >>}

OneTest == {<< <<Returns(one)>> >>}
=============================================================================
