-------------------------- MODULE UnitTestHarness --------------------------
(***************************************************************************)
(* One PerformUnitTests request: the program that a language module of     *)
(* server/languages generates (CodegenUnitTests), its run in the sandbox,  *)
(* and the scoring of what it printed (PerformUnitTests in                 *)
(* server/core/source/ts/LanguageModule.ts).                               *)
(*                                                                         *)
(* The code under test is another actor: it returns, throws, prints,       *)
(* leaves callbacks or threads behind, ends the program.  The two strings  *)
(* that describe a returned or thrown object (output and type) are one     *)
(* element of Values.                                                      *)
(***************************************************************************)
EXTENDS Integers, Sequences, FiniteSets

CONSTANTS
  Languages,      \* the languages under consideration
  Values,         \* descriptions of objects that test code returns or throws
  Nothing,        \* description of null, None or undefined
  NullError,      \* description of the exception for asking null for its class
  NoExpectation,  \* a test case without its expected result
  TestLists       \* the requests: sequences of tests, each the sequence of what
                  \* its cases should give

VARIABLES
  language, tests,  \* the request
  phase,            \* how far it is
  inTest,           \* the program is between the first and last line of a test
  vectors,          \* the program's list of result vectors
  currTest,         \* the vector under construction, where it is not yet in the list
  buffered,         \* printed text that waits in C++'s stdout buffer
  background,       \* callbacks or threads of the test code that are still to run
  stdout,           \* what reached the program's real stdout
  did,              \* what each test case did (for the properties; not in the code)
  response

vars == <<language, tests, phase, inTest, vectors, currTest, buffered, background,
          stdout, did, response>>
program == <<inTest, vectors, currTest, did>>
output  == <<buffered, background, stdout>>

(***************************************************************************)
(* The generated code.  Per language: is a test's vector in the list from  *)
(* its start or only after its cases, does recording a returned object ask *)
(* the object for its class, which exceptions does a test case catch, and  *)
(* does text printed while stdout is redirected survive in a buffer.       *)
(* "ordinary" is Exception or std::runtime_error; "other" is what is       *)
(* thrown outside it: SystemExit, Error, std::logic_error or an int, and   *)
(* in JavaScript null, whose class the catch block asks for.               *)
(***************************************************************************)
JavaScript == [vectorFirst |-> TRUE,  inspects |-> TRUE,  catches |-> {"ordinary"}, buffers |-> FALSE]
Python     == [vectorFirst |-> TRUE,  inspects |-> FALSE, catches |-> {"ordinary"}, buffers |-> FALSE]
Cxx        == [vectorFirst |-> FALSE, inspects |-> FALSE, catches |-> {"ordinary"}, buffers |-> TRUE]
CSharp     == [vectorFirst |-> FALSE, inspects |-> TRUE,  catches |-> {"ordinary", "other"}, buffers |-> FALSE]
Java       == [vectorFirst |-> FALSE, inspects |-> TRUE,  catches |-> {"ordinary"}, buffers |-> FALSE]

Harness == [javascript |-> JavaScript, python |-> Python, cxx |-> Cxx,
            csharp |-> CSharp, java |-> Java]
harness == Harness[language]

TestCaseResult == [value : Values \cup {Nothing, NullError}, exception : BOOLEAN]
TestListType   == Seq(Seq(TestCaseResult \cup {NoExpectation}))

ASSUME LanguagesAssumption == Languages \subseteq DOMAIN Harness
ASSUME TestListsAssumption == TestLists \subseteq TestListType
ASSUME NoExpectationAssumption == NoExpectation \notin TestCaseResult

\* What a test case may do: return an object or nothing, or throw.
Behaviours == [how : {"returns"}, value : Values \cup {Nothing}]
                \cup [how : {"ordinary", "other"}, value : Values]

NoResponse == [error |-> "none", flags |-> <<>>, passed |-> 0, failed |-> 0]
Error(why) == [NoResponse EXCEPT !.error = why]

Init ==
  /\ language \in Languages /\ tests \in TestLists
  /\ phase = "codegen"
  /\ inTest = FALSE /\ vectors = <<>> /\ currTest = <<>> /\ did = <<>>
  /\ buffered = FALSE /\ background = FALSE /\ stdout = <<>>
  /\ response = NoResponse

-----------------------------------------------------------------------------
(***************************************************************************)
(* Code generation, as PerformUnitTests sees it.                           *)
(***************************************************************************)
Respond(r) == phase' = "answered" /\ response' = r

CodegenFails ==
  /\ phase = "codegen"
  /\ Respond(Error("codegen"))
  /\ UNCHANGED <<language, tests, program, output>>

CodegenReturns ==
  /\ phase = "codegen"
  /\ phase' = "running"
  /\ UNCHANGED <<language, tests, program, output, response>>

-----------------------------------------------------------------------------
(***************************************************************************)
(* The generated program.                                                  *)
(***************************************************************************)
\* Adds an element to the last of a sequence of sequences.
AppendToLast(seqs, x) == [seqs EXCEPT ![Len(seqs)] = Append(@, x)]

\* The vector of a new test.  (Fault...: see README.)
FaultKeepsVector ==
  IF harness.vectorFirst
  THEN vectors' = Append(vectors, <<>>) /\ UNCHANGED currTest
  ELSE UNCHANGED <<vectors, currTest>>
NewVector ==
  IF harness.vectorFirst
  THEN vectors' = Append(vectors, <<>>) /\ UNCHANGED currTest
  ELSE currTest' = <<>> /\ UNCHANGED vectors

\* The code of the next test, up to and with its setup.
BeginTest ==
  /\ phase = "running" /\ ~inTest
  /\ Len(did) < Len(tests)
  /\ inTest' = TRUE /\ did' = Append(did, <<>>)
  /\ NewVector
  /\ UNCHANGED <<language, tests, phase, output, response>>

Caught(b) == b.how \in harness.catches \cup {"returns"}

\* TestCaseTemplate: what is recorded of a returned or a caught object.
Recorded(b) ==
  IF b.how = "returns" /\ b.value = Nothing /\ harness.inspects
  THEN [value |-> NullError, exception |-> TRUE]
  ELSE [value |-> b.value, exception |-> b.how # "returns"]

CaseIsNext == phase = "running" /\ inTest /\ Len(did[Len(did)]) < Len(tests[Len(did)])

\* A test case with its setup and teardown.
RunCase ==
  /\ CaseIsNext
  /\ \E b \in Behaviours :
       /\ Caught(b)
       /\ did' = AppendToLast(did, b)
       /\ IF harness.vectorFirst
          THEN vectors' = AppendToLast(vectors, Recorded(b)) /\ UNCHANGED currTest
          ELSE currTest' = Append(currTest, Recorded(b)) /\ UNCHANGED vectors
  /\ UNCHANGED <<language, tests, phase, inTest, output, response>>

\* The exception of a test case is not caught: it ends the program.
CaseEscapes ==
  /\ CaseIsNext
  /\ \E b \in Behaviours : ~Caught(b)
  /\ phase' = "failed"
  /\ UNCHANGED <<language, tests, program, output, response>>

\* All cases of the test have run; its teardown follows.
EndTest ==
  /\ phase = "running" /\ inTest
  /\ Len(did[Len(did)]) = Len(tests[Len(did)])
  /\ inTest' = FALSE
  /\ vectors' = IF harness.vectorFirst THEN vectors ELSE Append(vectors, currTest)
  /\ UNCHANGED <<language, tests, phase, currTest, did, output, response>>

\* Test code prints while stdout is redirected.  Only C++ keeps the text: it sits in
\* stdio's buffer, which still holds it when the descriptor is put back.
TestCodePrints ==
  /\ phase = "running" /\ harness.buffers
  /\ buffered' = TRUE
  /\ UNCHANGED <<language, tests, phase, program, background, stdout, response>>

\* Test code sets a timer or starts a thread.
TestCodeLeavesWork ==
  /\ phase = "running"
  /\ background' = TRUE
  /\ UNCHANGED <<language, tests, phase, program, buffered, stdout, response>>

\* UnitTestHarness: stdout is put back and the result vectors are printed.
Restored == IF buffered THEN Append(stdout, "other") ELSE stdout
PrintResults ==
  /\ phase = "running" /\ ~inTest
  /\ Len(did) = Len(tests)
  /\ phase' = "printed"
  /\ stdout' = Append(Restored, "results") /\ buffered' = FALSE
  /\ UNCHANGED <<language, tests, program, background, response>>

\* A callback or thread prints after that.
BackgroundPrints ==
  /\ phase = "printed" /\ background
  /\ stdout' = Append(stdout, "other") /\ background' = FALSE
  /\ UNCHANGED <<language, tests, phase, program, buffered, response>>

\* The program ends with code 0: at its end, or because test code exits.
FaultPrintsAtExit ==
  /\ phase \in {"running", "printed"}
  /\ phase' = "exited"
  /\ stdout' = IF phase = "running" THEN Append(stdout, "results") ELSE stdout
  /\ UNCHANGED <<language, tests, program, buffered, background, response>>
Exits ==
  /\ phase \in {"running", "printed"}
  /\ phase' = "exited"
  /\ UNCHANGED <<language, tests, program, output, response>>

\* It ends badly: setup, teardown or background code throws, a time or memory limit.
Aborts ==
  /\ phase \in {"running", "printed"}
  /\ phase' = "failed"
  /\ UNCHANGED <<language, tests, program, output, response>>

-----------------------------------------------------------------------------
(***************************************************************************)
(* PerformUnitTests after the run.                                         *)
(***************************************************************************)
SandboxRejects ==
  /\ phase = "failed"
  /\ Respond(Error("sandbox"))
  /\ UNCHANGED <<language, tests, program, output>>

\* sortedJson on both sides, compared as strings.
FaultIgnoresException(expected, actual) == expected.value = actual.value
Matches(expected, actual) == expected = actual

Cases == UNION {{t} \X DOMAIN tests[t] : t \in DOMAIN tests}

\* A result that was not printed is undefined, which equals no expectation.
Flags == [t \in DOMAIN tests |-> [c \in DOMAIN tests[t] |->
            c \in DOMAIN vectors[t] /\ Matches(tests[t][c], vectors[t][c])]]
Passed(flags) == Cardinality({p \in Cases : flags[p[1]][p[2]]})

FaultSwapsTotals(flags) == Passed(flags) - Cardinality(Cases)
Failed(flags) == Cardinality(Cases) - Passed(flags)

\* results[index] is there for each test, no expectation is null (sortKeys throws), and
\* there is a test at all (reduce throws).
Scorable ==
  /\ tests # <<>>
  /\ Len(tests) <= Len(vectors)
  /\ \A p \in Cases : tests[p[1]][p[2]] # NoExpectation

\* The sandbox resolves with the output, or a prefix of it (see DockerSandbox).  It
\* parses when it is the result vectors and nothing else.
Score ==
  /\ phase = "exited"
  /\ \E n \in 0..Len(stdout) :
       IF SubSeq(stdout, 1, n) = <<"results">> /\ Scorable
       THEN Respond([error |-> "", flags |-> Flags,
                     passed |-> Passed(Flags), failed |-> Failed(Flags)])
       ELSE Respond(Error("output"))
  /\ UNCHANGED <<language, tests, program, output>>

Program == \/ BeginTest \/ RunCase \/ CaseEscapes \/ EndTest
           \/ TestCodePrints \/ TestCodeLeavesWork
           \/ PrintResults \/ BackgroundPrints \/ Exits \/ Aborts

Next == CodegenFails \/ CodegenReturns \/ Program \/ SandboxRejects \/ Score

Spec == Init /\ [][Next]_vars

-----------------------------------------------------------------------------
(***************************************************************************)
(* Properties.                                                             *)
(***************************************************************************)
TypeOK ==
  /\ language \in Languages /\ tests \in TestLists
  /\ phase \in {"codegen", "running", "printed", "exited", "failed", "answered"}
  /\ inTest \in BOOLEAN /\ buffered \in BOOLEAN /\ background \in BOOLEAN
  /\ vectors \in Seq(Seq(TestCaseResult)) /\ currTest \in Seq(TestCaseResult)
  /\ did \in Seq(Seq(Behaviours))
  /\ stdout \in Seq({"results", "other"})
  /\ response \in [error : {"none", "", "codegen", "sandbox", "output"},
                   flags : Seq(Seq(BOOLEAN)), passed : Nat, failed : Nat]

\* The vectors the program holds, the one under construction included, are at any time
\* what the test cases did so far: each result is in the vector of its own test and at
\* its own place, and no test sees the results of the one before it (`currTest` of the
\* compiled languages is reused, the last vector of the interpreted ones is found by
\* length).
Held == IF harness.vectorFirst \/ ~inTest THEN vectors ELSE Append(vectors, currTest)
VectorsFollowRun ==
  /\ DOMAIN Held = DOMAIN did
  /\ \A t \in DOMAIN did :
       /\ DOMAIN Held[t] = DOMAIN did[t]
       /\ \A c \in DOMAIN did[t] : Held[t][c] = Recorded(did[t][c])

Scored == phase = "answered" /\ response.error = ""

\* A score is only given for a run in which every case of every test has come to its
\* end, whatever ended the program and however much of its output arrived: not after an
\* exception that escaped, an exit in the middle of a test, or output that is cut short
\* or mixed with text of the test code.  Left out is test code that forges its score: that
\* writes JSON of results to the real stdout and exits with code 0; PerformUnitTests
\* cannot tell it from a run (LanguageModule.ts:376 finds tampering that is not JSON).
CompleteRunScored ==
  Scored => /\ DOMAIN did = DOMAIN tests
            /\ \A t \in DOMAIN tests : DOMAIN did[t] = DOMAIN tests[t]
            /\ \E i \in DOMAIN stdout : stdout[i] = "results"

\* What the proto files promise a result to say of a test case.
Faithful(b) == [value |-> b.value, exception |-> b.how # "returns"]

\* A case passed exactly if what it did is what the client expects, by value and by
\* whether it threw, and the two totals count each case once.  Left out are cases that
\* return null in a language that inspects the result: they are recorded as an exception,
\* although common.proto:28 promises "Whether an exception was thrown or not"; and test
\* code that writes results of its own, as in CompleteRunScored.
ScoreIsTrue ==
  Scored =>
    /\ \A p \in Cases :
         LET b == did[p[1]][p[2]]
         IN  (b.how = "returns" /\ b.value = Nothing /\ harness.inspects)
               \/ (response.flags[p[1]][p[2]] <=> tests[p[1]][p[2]] = Faithful(b))
    /\ response.passed + response.failed = Cardinality(Cases)
    /\ response.passed = Cardinality({p \in Cases : response.flags[p[1]][p[2]]})
=============================================================================
