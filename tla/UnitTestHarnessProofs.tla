----------------------- MODULE UnitTestHarnessProofs -----------------------
(***************************************************************************)
(* Theorems about UnitTestHarness, for all languages, values and requests. *)
(***************************************************************************)
EXTENDS UnitTestHarness, FiniteSetTheorems, SequenceTheorems, TLAPS

HasResults == \E i \in DOMAIN stdout : stdout[i] = "results"

\* How far the test cases are: earlier tests are complete, the current one is a prefix.
Progress ==
  /\ Len(did) <= Len(tests)
  /\ inTest => did # <<>>
  /\ \A t \in DOMAIN did :
       /\ Len(did[t]) <= Len(tests[t])
       /\ (t < Len(did) \/ ~inTest) => Len(did[t]) = Len(tests[t])

\* Results are only on stdout when all tests are done, and a score needs them.
ResultsLast ==
  /\ HasResults => ~inTest /\ Len(did) = Len(tests)
  /\ phase \in {"codegen", "running"} => stdout = <<>>
  /\ Scored => HasResults

IInv == TypeOK /\ VectorsFollowRun /\ Progress /\ ResultsLast /\ ScoreIsTrue

-----------------------------------------------------------------------------
\* Append, with its domain.
LEMMA AppendFacts ==
  ASSUME NEW S, NEW seq \in Seq(S), NEW elt \in S
  PROVE  /\ Append(seq, elt) \in Seq(S)
         /\ Len(Append(seq, elt)) = Len(seq) + 1
         /\ Len(seq) \in Nat /\ DOMAIN seq = 1..Len(seq)
         /\ DOMAIN Append(seq, elt) = 1..Len(seq) + 1
         /\ Append(seq, elt)[Len(seq) + 1] = elt
         /\ \A i \in 1..Len(seq) : Append(seq, elt)[i] = seq[i]
  BY AppendProperties, LenProperties

\* AppendToLast changes nothing but the last of the sequences, which grows by one.
LEMMA AppendToLastProperties ==
  ASSUME NEW S, NEW seqs \in Seq(Seq(S)), seqs # <<>>, NEW x \in S
  PROVE  /\ AppendToLast(seqs, x) \in Seq(Seq(S))
         /\ Len(AppendToLast(seqs, x)) = Len(seqs)
         /\ \A i \in 1..Len(seqs) :
              AppendToLast(seqs, x)[i] = IF i = Len(seqs) THEN Append(seqs[i], x) ELSE seqs[i]
<1>1. Len(seqs) \in 1..Len(seqs)
  BY EmptySeq, LenProperties
<1>2. seqs[Len(seqs)] \in Seq(S)
  BY <1>1, ElementOfSeq
<1>3. Append(seqs[Len(seqs)], x) \in Seq(S)
  BY <1>2, AppendProperties
<1> QED
  BY <1>1, <1>3, ExceptSeq DEF AppendToLast

\* What is recorded of a test case is a result of the right type.
LEMMA RecordedType ==
  ASSUME NEW b \in Behaviours
  PROVE  Recorded(b) \in TestCaseResult
  BY DEF Recorded, Behaviours, TestCaseResult

\* There are finitely many test cases.
LEMMA CasesFinite ==
  ASSUME tests \in TestListType
  PROVE  IsFiniteSet(Cases)
<1> DEFINE Of(t) == {t} \X DOMAIN tests[t]
           All == {Of(t) : t \in DOMAIN tests}
<1>1. \A t \in DOMAIN tests : IsFiniteSet(Of(t))
  <2> TAKE t \in DOMAIN tests
  <2>1. tests[t] \in Seq(TestCaseResult \cup {NoExpectation})
    BY LenProperties, ElementOfSeq DEF TestListType
  <2>2. IsFiniteSet(DOMAIN tests[t])
    <3>1. DOMAIN tests[t] = 1..Len(tests[t]) /\ Len(tests[t]) \in Nat
      BY <2>1, LenProperties
    <3> QED  BY <3>1, FS_Interval
  <2> QED  BY <2>2, FS_Singleton, FS_Product
<1>2. IsFiniteSet(DOMAIN tests)
  <2>1. DOMAIN tests = 1..Len(tests) /\ Len(tests) \in Nat
    BY LenProperties DEF TestListType
  <2> QED  BY <2>1, FS_Interval
<1>3. IsFiniteSet(All)
  <2> HIDE DEF Of
  <2> DEFINE f == [t \in DOMAIN tests |-> Of(t)]
  <2>1. f \in Surjection(DOMAIN tests, All)
    BY DEF Surjection
  <2> QED  BY <1>2, <2>1, FS_Surjection
<1>4. \A T \in All : IsFiniteSet(T)
  BY <1>1
<1>5. IsFiniteSet(UNION All)
  <2> HIDE DEF All
  <2> QED  BY <1>3, <1>4, FS_UNION
<1> QED
  BY <1>5 DEF Cases

\* The flags of a response are sequences like the request's.
LEMMA FlagsType ==
  ASSUME tests \in TestListType
  PROVE  Flags \in Seq(Seq(BOOLEAN))
<1>1. DOMAIN tests = 1..Len(tests) /\ Len(tests) \in Nat
  BY LenProperties DEF TestListType
<1>2. ASSUME NEW t \in DOMAIN tests
      PROVE  [c \in DOMAIN tests[t] |->
                c \in DOMAIN vectors[t] /\ Matches(tests[t][c], vectors[t][c])] \in Seq(BOOLEAN)
  <2>1. tests[t] \in Seq(TestCaseResult \cup {NoExpectation})
    BY <1>1, ElementOfSeq DEF TestListType
  <2>2. DOMAIN tests[t] = 1..Len(tests[t]) /\ Len(tests[t]) \in Nat
    BY <2>1, LenProperties
  <2> QED  BY <2>2 DEF Matches
<1> QED
  BY <1>1, <1>2 DEF Flags

\* The totals count each test case once.
LEMMA TotalsAddUp ==
  ASSUME tests \in TestListType, NEW flags
  PROVE  /\ Passed(flags) \in Nat /\ Failed(flags) \in Nat
         /\ Passed(flags) + Failed(flags) = Cardinality(Cases)
<1>1. IsFiniteSet(Cases)
  BY CasesFinite
<1>2. {p \in Cases : flags[p[1]][p[2]]} \in SUBSET Cases
  OBVIOUS
<1>3. /\ Passed(flags) \in Nat /\ Cardinality(Cases) \in Nat
      /\ Passed(flags) <= Cardinality(Cases)
  BY <1>1, <1>2, FS_Subset, FS_CardinalityType DEF Passed
<1> QED
  BY <1>3 DEF Failed

-----------------------------------------------------------------------------
(***************************************************************************)
(* The inductive invariant.                                                *)
(***************************************************************************)
\* The variables' sequences have the obvious domains.
LEMMA Domains ==
  ASSUME TypeOK
  PROVE  /\ tests \in TestListType
         /\ DOMAIN tests = 1..Len(tests) /\ Len(tests) \in Nat
         /\ DOMAIN did = 1..Len(did) /\ Len(did) \in Nat
         /\ DOMAIN vectors = 1..Len(vectors) /\ Len(vectors) \in Nat
         /\ DOMAIN currTest = 1..Len(currTest) /\ Len(currTest) \in Nat
         /\ \A t \in DOMAIN tests :
              DOMAIN tests[t] = 1..Len(tests[t]) /\ Len(tests[t]) \in Nat
         /\ \A t \in DOMAIN did :
              /\ did[t] \in Seq(Behaviours)
              /\ DOMAIN did[t] = 1..Len(did[t]) /\ Len(did[t]) \in Nat
         /\ \A t \in DOMAIN vectors :
              /\ vectors[t] \in Seq(TestCaseResult)
              /\ DOMAIN vectors[t] = 1..Len(vectors[t]) /\ Len(vectors[t]) \in Nat
<1>1. tests \in TestListType
  BY TestListsAssumption DEF TypeOK
<1>2. ASSUME NEW S, NEW seqs \in Seq(Seq(S))
      PROVE  /\ DOMAIN seqs = 1..Len(seqs) /\ Len(seqs) \in Nat
             /\ \A t \in DOMAIN seqs :
                  seqs[t] \in Seq(S) /\ DOMAIN seqs[t] = 1..Len(seqs[t]) /\ Len(seqs[t]) \in Nat
  BY LenProperties, ElementOfSeq
<1>3. DOMAIN currTest = 1..Len(currTest) /\ Len(currTest) \in Nat
  BY LenProperties DEF TypeOK
<1>4. tests \in Seq(Seq(TestCaseResult \cup {NoExpectation}))
  BY <1>1 DEF TestListType
<1>5. vectors \in Seq(Seq(TestCaseResult)) /\ did \in Seq(Seq(Behaviours))
  BY DEF TypeOK
<1>6. /\ DOMAIN tests = 1..Len(tests) /\ Len(tests) \in Nat
      /\ \A t \in DOMAIN tests :
           DOMAIN tests[t] = 1..Len(tests[t]) /\ Len(tests[t]) \in Nat
  BY <1>2, <1>4
<1>7. /\ DOMAIN did = 1..Len(did) /\ Len(did) \in Nat
      /\ \A t \in DOMAIN did :
           did[t] \in Seq(Behaviours) /\ DOMAIN did[t] = 1..Len(did[t]) /\ Len(did[t]) \in Nat
  BY <1>2, <1>5
<1>8. /\ DOMAIN vectors = 1..Len(vectors) /\ Len(vectors) \in Nat
      /\ \A t \in DOMAIN vectors :
           /\ vectors[t] \in Seq(TestCaseResult)
           /\ DOMAIN vectors[t] = 1..Len(vectors[t]) /\ Len(vectors[t]) \in Nat
  BY <1>2, <1>5
<1> QED
  BY <1>1, <1>3, <1>6, <1>7, <1>8

\* Nothing has run, nothing is answered.
LEMMA InitInvariant == Init => IInv
<1> SUFFICES ASSUME Init PROVE IInv
  OBVIOUS
<1>1. TypeOK
  <2>1. /\ <<>> \in Seq(Seq(TestCaseResult)) /\ <<>> \in Seq(TestCaseResult)
        /\ <<>> \in Seq(Seq(Behaviours)) /\ <<>> \in Seq(Seq(BOOLEAN))
        /\ <<>> \in Seq({"results", "other"})
    BY EmptySeq
  <2>2. response \in [error : {"none", "", "codegen", "sandbox", "output"},
                      flags : Seq(Seq(BOOLEAN)), passed : Nat, failed : Nat]
    BY <2>1 DEF Init, NoResponse
  <2> QED  BY <2>1, <2>2 DEF Init, TypeOK
<1>2. VectorsFollowRun
  BY DEF Init, VectorsFollowRun, Held
<1>3. Progress /\ ResultsLast
  BY EmptySeq, LenProperties, TestListsAssumption
     DEF Init, Progress, ResultsLast, HasResults, Scored, TestListType
<1>4. ScoreIsTrue
  BY DEF Init, ScoreIsTrue, Scored
<1> QED
  BY <1>1, <1>2, <1>3, <1>4 DEF IInv

\* A test begins with an empty vector, in the list or to come.
LEMMA BeginTestInvariant == IInv /\ BeginTest => IInv'
<1> SUFFICES ASSUME IInv, BeginTest PROVE IInv'
  OBVIOUS
<1> USE DEF IInv
<1>0. UNCHANGED <<language, tests, phase, buffered, background, stdout, response>> /\ harness' = harness
  BY DEF BeginTest, output, harness
<1>1. /\ <<>> \in Seq(Behaviours) /\ did \in Seq(Seq(Behaviours))
      /\ <<>> \in Seq(TestCaseResult) /\ vectors \in Seq(Seq(TestCaseResult))
  BY EmptySeq DEF TypeOK
<1>2. /\ did' \in Seq(Seq(Behaviours)) /\ DOMAIN did' = 1..Len(did) + 1
      /\ Len(did') = Len(did) + 1 /\ did'[Len(did) + 1] = <<>>
      /\ \A t \in 1..Len(did) : did'[t] = did[t]
  <2>1. did' = Append(did, <<>>)
    BY DEF BeginTest
  <2> QED  BY <1>1, <2>1, AppendFacts
<1>3. Held = vectors /\ Held' = Append(vectors, <<>>)
  BY <1>0 DEF Held, BeginTest, NewVector
<1>4. /\ Held' \in Seq(Seq(TestCaseResult)) /\ DOMAIN Held' = 1..Len(vectors) + 1
      /\ Held'[Len(vectors) + 1] = <<>>
      /\ \A t \in 1..Len(vectors) : Held'[t] = vectors[t]
  BY <1>1, <1>3, AppendFacts
<1>5. DOMAIN did = 1..Len(did) /\ Len(did) \in Nat /\ Len(vectors) = Len(did)
  <2>1. DOMAIN did = 1..Len(did) /\ Len(did) \in Nat
    BY <1>1, LenProperties
  <2>2. DOMAIN vectors = 1..Len(vectors) /\ Len(vectors) \in Nat
    BY <1>1, LenProperties
  <2> QED  BY <1>3, <2>1, <2>2 DEF VectorsFollowRun
<1>10. TypeOK'
  <2>1. vectors' \in Seq(Seq(TestCaseResult)) /\ currTest' \in Seq(TestCaseResult)
    BY <1>1, <1>3, <1>4 DEF TypeOK, BeginTest, NewVector
  <2> QED  BY <1>0, <1>2, <2>1 DEF TypeOK, BeginTest
<1>6. VectorsFollowRun'
  <2> SUFFICES ASSUME NEW t \in 1..Len(did) + 1
               PROVE  /\ DOMAIN Held'[t] = DOMAIN did'[t]
                      /\ \A c \in DOMAIN did'[t] : Held'[t][c] = Recorded(did'[t][c])
    BY <1>0, <1>2, <1>4, <1>5 DEF VectorsFollowRun, Recorded
  <2>1. CASE t \in 1..Len(did)
    BY <2>1, <1>2, <1>3, <1>4, <1>5 DEF VectorsFollowRun
  <2>2. CASE t = Len(did) + 1
    BY <2>2, <1>2, <1>4, <1>5
  <2> QED  BY <1>5, <2>1, <2>2
<1>7. Progress'
  <2>1. Len(did') <= Len(tests) /\ did' # <<>>
    BY <1>2, <1>5, <1>10, EmptySeq, Domains DEF BeginTest
  <2>2. ASSUME NEW t \in 1..Len(did) + 1
        PROVE  /\ Len(did'[t]) <= Len(tests[t])
               /\ t < Len(did) + 1 => Len(did'[t]) = Len(tests[t])
    <3>1. CASE t \in 1..Len(did)
      BY <3>1, <1>2, <1>5, Domains DEF Progress, BeginTest
    <3>2. CASE t = Len(did) + 1
      <4>1. t \in DOMAIN tests
        BY <3>2, <1>5, Domains DEF BeginTest
      <4> QED  BY <3>2, <4>1, <1>2, EmptySeq, Domains
    <3> QED  BY <1>5, <3>1, <3>2
  <2> QED  BY <1>0, <1>2, <1>5, <2>1, <2>2 DEF Progress, BeginTest
<1>8. ResultsLast'
  BY <1>0, Domains DEF ResultsLast, HasResults, Scored, BeginTest
<1>9. ScoreIsTrue'
  BY <1>0 DEF ScoreIsTrue, Scored, BeginTest
<1> QED
  BY <1>6, <1>7, <1>8, <1>9, <1>10

\* A case adds one behaviour and what is recorded of it, at the same place.
LEMMA RunCaseInvariant == IInv /\ RunCase => IInv'
<1> SUFFICES ASSUME IInv, CaseIsNext,
                    NEW b \in Behaviours,
                    did' = AppendToLast(did, b),
                    IF harness.vectorFirst
                    THEN vectors' = AppendToLast(vectors, Recorded(b)) /\ UNCHANGED currTest
                    ELSE currTest' = Append(currTest, Recorded(b)) /\ UNCHANGED vectors,
                    UNCHANGED <<language, tests, phase, inTest, output, response>>
             PROVE  IInv'
  BY DEF RunCase
<1> USE DEF IInv
<1>0. /\ UNCHANGED <<buffered, background, stdout>> /\ harness' = harness
      /\ phase = "running" /\ inTest /\ did # <<>>
      /\ Len(did[Len(did)]) < Len(tests[Len(did)])
  BY DEF output, harness, CaseIsNext, Progress
<1> DEFINE last == Len(did)
<1>1. /\ did \in Seq(Seq(Behaviours)) /\ last \in Nat
      /\ last \in 1..last /\ DOMAIN did = 1..last
  <2>1. did \in Seq(Seq(Behaviours))
    BY DEF TypeOK
  <2>2. last \in Nat \ {0} /\ DOMAIN did = 1..last
    BY <1>0, <2>1, EmptySeq, LenProperties
  <2> QED  BY <2>1, <2>2
<1>2. /\ did' \in Seq(Seq(Behaviours)) /\ Len(did') = last /\ DOMAIN did' = 1..last
      /\ \A t \in 1..last : did'[t] = IF t = last THEN Append(did[t], b) ELSE did[t]
  <2>1. /\ did' \in Seq(Seq(Behaviours)) /\ Len(did') = last
        /\ \A t \in 1..last : did'[t] = IF t = last THEN Append(did[t], b) ELSE did[t]
    BY <1>0, <1>1, AppendToLastProperties
  <2>2. DOMAIN did' = 1..last
    BY <2>1, LenProperties
  <2> QED  BY <2>1, <2>2
<1>3. /\ Held \in Seq(Seq(TestCaseResult)) /\ Len(Held) = last /\ Held # <<>>
      /\ DOMAIN Held = 1..last
  <2>1. Held \in Seq(Seq(TestCaseResult))
    BY AppendProperties DEF Held, TypeOK
  <2>2. DOMAIN Held = 1..last
    BY <1>1 DEF VectorsFollowRun
  <2> QED  BY <1>1, <2>1, <2>2, LenProperties, EmptySeq
<1>4. Recorded(b) \in TestCaseResult
  BY RecordedType
<1>5. /\ Held' \in Seq(Seq(TestCaseResult)) /\ Len(Held') = last
      /\ \A t \in 1..last : Held'[t] = IF t = last THEN Append(Held[t], Recorded(b)) ELSE Held[t]
  <2>1. CASE harness.vectorFirst
    <3>1. Held' = AppendToLast(Held, Recorded(b))
      BY <2>1, <1>0 DEF Held
    <3>2. /\ AppendToLast(Held, Recorded(b)) \in Seq(Seq(TestCaseResult))
          /\ Len(AppendToLast(Held, Recorded(b))) = Len(Held)
          /\ \A t \in 1..Len(Held) :
               AppendToLast(Held, Recorded(b))[t] =
                 IF t = Len(Held) THEN Append(Held[t], Recorded(b)) ELSE Held[t]
      BY <1>3, <1>4, AppendToLastProperties
    <3> QED  BY <3>1, <3>2, <1>3
  <2>2. CASE ~harness.vectorFirst
    <3>1. /\ vectors \in Seq(Seq(TestCaseResult)) /\ currTest \in Seq(TestCaseResult)
          /\ Append(currTest, Recorded(b)) \in Seq(TestCaseResult)
      BY <1>4, AppendFacts DEF TypeOK
    <3>2. Held = Append(vectors, currTest) /\ Held' = Append(vectors, Append(currTest, Recorded(b)))
      BY <2>2, <1>0 DEF Held
    <3>3. Len(vectors) + 1 = last /\ Len(vectors) \in Nat
      BY <3>1, <3>2, <1>3, AppendFacts
    <3>4. /\ Held' \in Seq(Seq(TestCaseResult)) /\ Len(Held') = last
          /\ Held'[last] = Append(currTest, Recorded(b))
          /\ \A t \in 1..Len(vectors) : Held'[t] = vectors[t]
      BY <3>1, <3>2, <3>3, AppendFacts
    <3>5. /\ Held[last] = currTest
          /\ \A t \in 1..Len(vectors) : Held[t] = vectors[t]
      BY <3>1, <3>2, <3>3, AppendFacts
    <3>6. \A t \in 1..last : t = last \/ t \in 1..Len(vectors)
      BY <3>3
    <3>7. Len(vectors) # last /\ last \notin 1..Len(vectors)
      BY <3>3
    <3> HIDE DEF last
    <3> QED  BY <3>4, <3>5, <3>6, <3>7
  <2> QED  BY <2>1, <2>2
<1>6. TypeOK'
  <2>1. vectors' \in Seq(Seq(TestCaseResult)) /\ currTest' \in Seq(TestCaseResult)
    <3>1. CASE harness.vectorFirst
      <4>1. Held' = vectors' /\ currTest' = currTest
        BY <3>1, <1>0 DEF Held
      <4> QED  BY <4>1, <1>5 DEF TypeOK
    <3>2. CASE ~harness.vectorFirst
      <4>1. currTest \in Seq(TestCaseResult)
        BY DEF TypeOK
      <4>2. vectors' = vectors /\ currTest' = Append(currTest, Recorded(b))
        BY <3>2
      <4>3. currTest' \in Seq(TestCaseResult)
        BY <4>1, <4>2, <1>4, AppendFacts
      <4> QED  BY <4>2, <4>3 DEF TypeOK
    <3> QED  BY <3>1, <3>2
  <2> QED  BY <1>0, <1>2, <2>1 DEF TypeOK
<1>7. VectorsFollowRun'
  <2>1. DOMAIN Held' = DOMAIN did'
    BY <1>2, <1>5, LenProperties
  <2>2. ASSUME NEW t \in 1..last
        PROVE  /\ DOMAIN Held'[t] = DOMAIN did'[t]
               /\ \A c \in DOMAIN did'[t] : Held'[t][c] = Recorded(did'[t][c])
    <3>1. /\ DOMAIN Held[t] = DOMAIN did[t]
          /\ \A c \in DOMAIN did[t] : Held[t][c] = Recorded(did[t][c])
      BY <1>1 DEF VectorsFollowRun
    <3>2. CASE t # last
      BY <3>1, <3>2, <1>2, <1>5
    <3>3. CASE t = last
      <4>1. did[t] \in Seq(Behaviours) /\ Held[t] \in Seq(TestCaseResult)
        BY <1>1, <1>3, Domains, ElementOfSeq
      <4>2. Len(did[t]) = Len(Held[t]) /\ DOMAIN did[t] = 1..Len(did[t]) /\ Len(did[t]) \in Nat
        BY <3>1, <4>1, LenProperties
      <4>3. /\ DOMAIN did'[t] = 1..Len(did[t]) + 1 /\ did'[t][Len(did[t]) + 1] = b
            /\ \A c \in 1..Len(did[t]) : did'[t][c] = did[t][c]
        <5>1. did'[t] = Append(did[t], b)
          BY <3>3, <1>2
        <5> QED  BY <5>1, <4>1, AppendFacts
      <4>4. /\ DOMAIN Held'[t] = 1..Len(did[t]) + 1 /\ Held'[t][Len(did[t]) + 1] = Recorded(b)
            /\ \A c \in 1..Len(did[t]) : Held'[t][c] = Held[t][c]
        <5>1. Held'[t] = Append(Held[t], Recorded(b))
          BY <3>3, <1>5
        <5> QED  BY <5>1, <1>4, <4>1, <4>2, AppendFacts
      <4>5. DOMAIN Held'[t] = DOMAIN did'[t]
        BY <4>3, <4>4
      <4>6. ASSUME NEW c \in DOMAIN did'[t]
            PROVE  Held'[t][c] = Recorded(did'[t][c])
        <5>1. c \in 1..Len(did[t]) \/ c = Len(did[t]) + 1
          BY <4>2, <4>3
        <5>2. CASE c \in 1..Len(did[t])
          <6>1. Held'[t][c] = Held[t][c] /\ did'[t][c] = did[t][c]
            BY <5>2, <4>3, <4>4
          <6>2. Held[t][c] = Recorded(did[t][c])
            BY <5>2, <3>1, <4>2
          <6> QED  BY <6>1, <6>2
        <5>3. CASE c = Len(did[t]) + 1
          BY <5>3, <4>3, <4>4
        <5> QED  BY <5>1, <5>2, <5>3
      <4> QED  BY <4>5, <4>6
    <3> QED  BY <3>2, <3>3
  <2>3. \A t \in DOMAIN did' :
          /\ DOMAIN Held'[t] = DOMAIN did'[t]
          /\ \A c \in DOMAIN did'[t] : Held'[t][c] = Recorded(did'[t][c])
    BY <1>2, <2>2
  <2> QED  BY <1>0, <2>1, <2>3 DEF VectorsFollowRun, Recorded
<1>8. Progress'
  <2>1. last \in DOMAIN tests
    BY <1>1, Domains DEF Progress
  <2>2. did[last] \in Seq(Behaviours) /\ Len(did[last]) \in Nat /\ Len(tests[last]) \in Nat
    BY <1>1, <2>1, Domains
  <2>3. Len(Append(did[last], b)) = Len(did[last]) + 1
    BY <2>2, AppendProperties
  <2>4. DOMAIN did' = 1..last /\ did' # <<>>
    <3>1. did' # <<>>
      <4>1. last # 0
        BY <1>1
      <4>2. Len(did') = last
        BY <1>2
      <4>3. Len(did') # 0
        BY <4>1, <4>2
      <4> QED  BY <4>3, EmptySeq
    <3> QED  BY <3>1, <1>2
  <2>5. ASSUME NEW t \in 1..last
        PROVE  /\ Len(did'[t]) <= Len(tests[t])
               /\ t < last => Len(did'[t]) = Len(tests[t])
    <3>1. /\ Len(did[t]) <= Len(tests[t])
          /\ t < last => Len(did[t]) = Len(tests[t])
      BY <1>1 DEF Progress
    <3>2. did'[t] = IF t = last THEN Append(did[t], b) ELSE did[t]
      BY <1>2
    <3>3. CASE t = last
      BY <3>2, <3>3, <1>0, <2>2, <2>3
    <3> QED  BY <3>1, <3>2, <3>3, <1>1
  <2> QED  BY <1>0, <1>2, <2>4, <2>5 DEF Progress
<1>9. ResultsLast' /\ ScoreIsTrue'
  BY <1>0, EmptySeq, LenProperties DEF ResultsLast, HasResults, ScoreIsTrue, Scored
<1> QED
  BY <1>6, <1>7, <1>8, <1>9

\* A test ends with its vector, complete, in the list.
LEMMA EndTestInvariant == IInv /\ EndTest => IInv'
<1> SUFFICES ASSUME IInv, EndTest PROVE IInv'
  OBVIOUS
<1> USE DEF IInv
<1>0. /\ UNCHANGED <<language, tests, phase, currTest, did, buffered, background, stdout, response>>
      /\ harness' = harness /\ phase = "running" /\ inTest /\ inTest' = FALSE
  BY DEF EndTest, output, harness
<1>1. Held' = Held
  BY <1>0 DEF EndTest, Held
<1>2. TypeOK'
  <2>1. vectors' \in Seq(Seq(TestCaseResult))
    BY AppendProperties DEF TypeOK, EndTest
  <2> QED  BY <1>0, <2>1 DEF TypeOK
<1>3. VectorsFollowRun'
  BY <1>0, <1>1 DEF VectorsFollowRun, Recorded
<1>4. Progress'
  BY <1>0, Domains DEF Progress, EndTest
<1>5. ResultsLast' /\ ScoreIsTrue'
  BY <1>0, EmptySeq, LenProperties DEF ResultsLast, HasResults, ScoreIsTrue, Scored
<1> QED
  BY <1>2, <1>3, <1>4, <1>5

\* The results are printed once everything has run.
LEMMA PrintResultsInvariant == IInv /\ PrintResults => IInv'
<1> SUFFICES ASSUME IInv, PrintResults PROVE IInv'
  OBVIOUS
<1> USE DEF IInv
<1>0. /\ UNCHANGED <<language, tests, inTest, vectors, currTest, did, background, response>>
      /\ harness' = harness /\ phase' = "printed" /\ ~inTest /\ Len(did) = Len(tests)
  BY DEF PrintResults, program, harness
<1>1. TypeOK'
  <2>1. Restored \in Seq({"results", "other"})
    BY AppendFacts DEF Restored, TypeOK
  <2>2. stdout' \in Seq({"results", "other"})
    BY <2>1, AppendFacts DEF PrintResults
  <2> QED  BY <1>0, <2>2 DEF TypeOK, PrintResults
<1>2. VectorsFollowRun' /\ Progress'
  BY <1>0 DEF VectorsFollowRun, Held, Recorded, Progress
<1>3. ResultsLast' /\ ScoreIsTrue'
  BY <1>0 DEF ResultsLast, ScoreIsTrue, Scored
<1> QED
  BY <1>1, <1>2, <1>3

\* The score compares what the test cases did with what was expected.
LEMMA ScoreInvariant == IInv /\ Score => IInv'
<1> SUFFICES ASSUME IInv, Score PROVE IInv'
  OBVIOUS
<1> USE DEF IInv
<1>0. /\ UNCHANGED <<language, tests, inTest, vectors, currTest, did, buffered, background, stdout>>
      /\ harness' = harness /\ phase = "exited" /\ phase' = "answered"
  BY DEF Score, Respond, program, output, harness
<1>1. CASE response' = Error("output")
  <2>1. /\ response'.error = "output" /\ response'.flags = <<>>
        /\ response' \in [error : {"none", "", "codegen", "sandbox", "output"},
                          flags : Seq(Seq(BOOLEAN)), passed : Nat, failed : Nat]
    BY <1>1, EmptySeq DEF Error, NoResponse
  <2>2. TypeOK'
    BY <1>0, <2>1 DEF TypeOK
  <2>3. VectorsFollowRun' /\ Progress'
    BY <1>0 DEF VectorsFollowRun, Held, Recorded, Progress
  <2>4. ResultsLast' /\ ScoreIsTrue'
    BY <1>0, <2>1 DEF ResultsLast, HasResults, ScoreIsTrue, Scored
  <2> QED  BY <2>2, <2>3, <2>4
<1>2. CASE /\ Scorable /\ \E n \in 0..Len(stdout) : SubSeq(stdout, 1, n) = <<"results">>
           /\ response' = [error |-> "", flags |-> Flags,
                           passed |-> Passed(Flags), failed |-> Failed(Flags)]
  <2>1. tests \in TestListType
    BY Domains
  <2>2. response' \in [error : {"none", "", "codegen", "sandbox", "output"},
                       flags : Seq(Seq(BOOLEAN)), passed : Nat, failed : Nat]
    BY <1>2, <2>1, FlagsType, TotalsAddUp
  <2>3. TypeOK'
    BY <1>0, <2>2 DEF TypeOK
  <2>4. VectorsFollowRun' /\ Progress'
    BY <1>0 DEF VectorsFollowRun, Held, Recorded, Progress
  <2>5. HasResults
    <3>1. PICK n \in 0..Len(stdout) : SubSeq(stdout, 1, n) = <<"results">>
      BY <1>2
    <3>2. stdout \in Seq({"results", "other"})
      BY DEF TypeOK
    <3>3. Len(stdout) \in Nat /\ DOMAIN stdout = 1..Len(stdout)
      BY <3>2, LenProperties
    <3>4. Len(SubSeq(stdout, 1, n)) = n /\ Len(<<"results">>) = 1 /\ <<"results">>[1] = "results"
      BY <3>2, <3>3, SubSeqProperties
    <3>5. n = 1
      BY <3>1, <3>4
    <3>6. 1 \in DOMAIN stdout
      BY <3>3, <3>5
    <3>7. SubSeq(stdout, 1, 1)[1] = stdout[1]
      BY <3>2, <3>3, <3>6, SubSeqProperties
    <3>8. stdout[1] = "results"
      BY <3>1, <3>4, <3>5, <3>7
    <3> QED  BY <3>6, <3>8 DEF HasResults
  <2>6. ResultsLast'
    BY <1>0, <2>5 DEF ResultsLast, HasResults
  <2>7. ~inTest /\ Held = vectors
    BY <2>5 DEF ResultsLast, Held
  <2>8. ASSUME NEW p \in Cases
        PROVE  LET b == did[p[1]][p[2]]
               IN  (b.how = "returns" /\ b.value = Nothing /\ harness.inspects)
                     \/ (Flags[p[1]][p[2]] <=> tests[p[1]][p[2]] = Faithful(b))
    <3>0. PICK t \in DOMAIN tests : p \in {t} \X DOMAIN tests[t]
      BY DEF Cases
    <3> DEFINE c == p[2]
    <3>1. p[1] = t /\ c \in DOMAIN tests[t]
      BY <3>0
    <3>2. t \in DOMAIN did /\ Len(did[t]) = Len(tests[t])
      BY <2>5, <2>7, Domains DEF ResultsLast, Progress
    <3>3. c \in DOMAIN did[t]
      <4>1. DOMAIN did[t] = 1..Len(did[t]) /\ DOMAIN tests[t] = 1..Len(tests[t])
        BY <3>2, Domains
      <4> QED  BY <3>1, <3>2, <4>1
    <3>4. c \in DOMAIN vectors[t] /\ vectors[t][c] = Recorded(did[t][c])
      BY <2>7, <3>2, <3>3 DEF VectorsFollowRun
    <3>5. Flags[t][c] <=> tests[t][c] = Recorded(did[t][c])
      <4>1. Flags[t][c] <=> c \in DOMAIN vectors[t] /\ tests[t][c] = vectors[t][c]
        BY <3>1 DEF Flags, Matches
      <4> QED  BY <3>4, <4>1
    <3> QED  BY <3>1, <3>5 DEF Recorded, Faithful
  <2>9. ScoreIsTrue'
    <3>1. /\ response'.flags = Flags /\ response'.passed = Passed(Flags)
          /\ response'.failed = Failed(Flags) /\ Cases' = Cases
      BY <1>0, <1>2 DEF Cases
    <3>2. Passed(Flags) + Failed(Flags) = Cardinality(Cases)
      BY <2>1, TotalsAddUp
    <3>3. \A p \in Cases' :
            LET b == did'[p[1]][p[2]]
            IN  (b.how = "returns" /\ b.value = Nothing /\ harness'.inspects)
                  \/ (response'.flags[p[1]][p[2]] <=> tests'[p[1]][p[2]] = Faithful(b))
      BY <1>0, <2>8, <3>1
    <3>4. /\ response'.passed + response'.failed = Cardinality(Cases')
          /\ response'.passed = Cardinality({p \in Cases' : response'.flags[p[1]][p[2]]})
      BY <3>1, <3>2 DEF Passed
    <3> QED  BY <3>3, <3>4 DEF ScoreIsTrue, Faithful
  <2> QED  BY <2>3, <2>4, <2>6, <2>9
<1> QED
  BY <1>1, <1>2 DEF Score, Respond

\* The other steps change only the phase, the output or the response.
LEMMA OtherInvariant ==
  ASSUME IInv,
         \/ CodegenFails \/ CodegenReturns \/ CaseEscapes \/ TestCodePrints
         \/ TestCodeLeavesWork \/ BackgroundPrints \/ Exits \/ Aborts \/ SandboxRejects
         \/ UNCHANGED vars
  PROVE  IInv'
<1> USE DEF IInv
<1>0. UNCHANGED <<language, tests, inTest, vectors, currTest, did>> /\ harness' = harness
  BY DEF CodegenFails, CodegenReturns, CaseEscapes, TestCodePrints, TestCodeLeavesWork,
         BackgroundPrints, Exits, Aborts, SandboxRejects, Respond, vars, program, harness
<1>1. VectorsFollowRun' /\ Progress'
  BY <1>0 DEF VectorsFollowRun, Held, Recorded, Progress
<1>2. CASE CodegenFails \/ SandboxRejects
  <2>1. PICK why \in {"codegen", "sandbox"} : response' = Error(why)
    BY <1>2 DEF CodegenFails, SandboxRejects, Respond
  <2>2. UNCHANGED <<buffered, background, stdout>> /\ phase' = "answered"
    BY <1>2 DEF CodegenFails, SandboxRejects, Respond, output
  <2>3. /\ response'.error \in {"codegen", "sandbox"}
        /\ response' \in [error : {"none", "", "codegen", "sandbox", "output"},
                          flags : Seq(Seq(BOOLEAN)), passed : Nat, failed : Nat]
    BY <2>1, EmptySeq DEF Error, NoResponse
  <2>4. TypeOK'
    BY <1>0, <2>2, <2>3 DEF TypeOK
  <2>5. ResultsLast' /\ ScoreIsTrue'
    BY <1>0, <2>2, <2>3 DEF ResultsLast, HasResults, ScoreIsTrue, Scored
  <2> QED  BY <1>1, <2>4, <2>5
<1>3. CASE BackgroundPrints
  <2>1. /\ UNCHANGED <<phase, response>> /\ phase = "printed" /\ background' = FALSE
        /\ buffered' = buffered /\ stdout' = Append(stdout, "other")
    BY <1>3 DEF BackgroundPrints
  <2>2. /\ stdout \in Seq({"results", "other"}) /\ stdout' \in Seq({"results", "other"})
        /\ DOMAIN stdout' = 1..Len(stdout) + 1 /\ stdout'[Len(stdout) + 1] = "other"
        /\ DOMAIN stdout = 1..Len(stdout)
        /\ \A i \in 1..Len(stdout) : stdout'[i] = stdout[i]
    <3>1. stdout \in Seq({"results", "other"})
      BY DEF TypeOK
    <3> QED  BY <2>1, <3>1, AppendFacts
  <2>3. TypeOK'
    BY <1>0, <2>1, <2>2 DEF TypeOK
  <2>4. HasResults' => HasResults
    BY <2>2 DEF HasResults
  <2>5. ResultsLast' /\ ScoreIsTrue'
    BY <1>0, <2>1, <2>4 DEF ResultsLast, ScoreIsTrue, Scored
  <2> QED  BY <1>1, <2>3, <2>5
<1>4. CASE \/ CodegenReturns \/ CaseEscapes \/ TestCodePrints \/ TestCodeLeavesWork
           \/ Exits \/ Aborts \/ UNCHANGED vars
  <2>1. /\ UNCHANGED <<stdout, response>>
        /\ phase' \in {phase, "running", "failed", "exited"}
        /\ phase' = "running" => phase \in {"codegen", "running"}
        /\ phase' # phase => phase # "answered" /\ phase' # "codegen"
        /\ buffered' \in {buffered, TRUE} /\ background' \in {background, TRUE}
    BY <1>4 DEF CodegenReturns, CaseEscapes, CaseIsNext, TestCodePrints, TestCodeLeavesWork,
                Exits, Aborts, output, vars
  <2>2. TypeOK'
    BY <1>0, <2>1 DEF TypeOK
  <2>3. ResultsLast'
    BY <1>0, <2>1 DEF ResultsLast, HasResults, Scored
  <2>4. Scored' => Scored
    BY <2>1 DEF Scored
  <2>5. ScoreIsTrue'
    BY <1>0, <2>1, <2>4 DEF ScoreIsTrue, Cases, Faithful
  <2> QED  BY <1>1, <2>2, <2>3, <2>5
<1> QED
  BY <1>2, <1>3, <1>4

\* The inductive invariant holds in every state.
THEOREM Invariance == Spec => []IInv
<1>1. Init => IInv
  BY InitInvariant
<1>2. IInv /\ [Next]_vars => IInv'
  BY BeginTestInvariant, RunCaseInvariant, EndTestInvariant, PrintResultsInvariant,
     ScoreInvariant, OtherInvariant DEF Next, Program
<1> QED
  BY <1>1, <1>2, PTL DEF Spec

-----------------------------------------------------------------------------
\* Every variable keeps its type, whatever the test code does.
THEOREM TypeCorrect == Spec => []TypeOK
<1>1. IInv => TypeOK
  BY DEF IInv
<1> QED
  BY <1>1, Invariance, PTL

\* The program's result vectors are what its test cases did, in their order.
THEOREM VectorsFollowRunHolds == Spec => []VectorsFollowRun
<1>1. IInv => VectorsFollowRun
  BY DEF IInv
<1> QED
  BY <1>1, Invariance, PTL

\* PerformUnitTests gives a score only for a run that was complete.
THEOREM CompleteRunScoredHolds == Spec => []CompleteRunScored
<1>1. IInv => CompleteRunScored
  <2> SUFFICES ASSUME IInv, Scored
               PROVE  /\ DOMAIN did = DOMAIN tests
                      /\ \A t \in DOMAIN tests : DOMAIN did[t] = DOMAIN tests[t]
                      /\ HasResults
    BY DEF CompleteRunScored, HasResults
  <2>1. HasResults /\ ~inTest /\ Len(did) = Len(tests)
    BY DEF IInv, ResultsLast
  <2>2. DOMAIN did = DOMAIN tests
    BY <2>1, Domains DEF IInv
  <2> QED  BY <2>1, <2>2, Domains DEF IInv, Progress
<1> QED
  BY <1>1, Invariance, PTL

\* A case is scored as passed exactly if it did what was expected, and the totals add up.
THEOREM ScoreIsTrueHolds == Spec => []ScoreIsTrue
<1>1. IInv => ScoreIsTrue
  BY DEF IInv
<1> QED
  BY <1>1, Invariance, PTL
=============================================================================
