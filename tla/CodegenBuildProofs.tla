------------------------- MODULE CodegenBuildProofs -------------------------
(***************************************************************************)
(* Proofs about CodegenBuild, for any number of requests and of directory  *)
(* names.                                                                  *)
(***************************************************************************)
EXTENDS CodegenBuild, TLAPS

\* The directories that exist are accounted for.
AllAccounted == \A p \in Paths : Exists(p) => AccountedFor(p)

\* A request that has drawn a name, or works under it, has one of its module's names.
LEMMA DrawnIsPath ==
  ASSUME IInv, NEW r \in Requests, pc[r] \in Holding \cup {"drawn"}
  PROVE  /\ module[r] \in Languages /\ path[r] \in NamesOf[module[r]]
         /\ path[r] \in Paths
BY DEF IInv, DrawsOwnNames, UnderWay, Paths

\* Where no two C# requests met, a request that holds a directory is the one that created
\* it, so two requests never hold the same one: what DirectoryExclusive rests on.
LEMMA HoldersDiffer ==
  ASSUME IInv, NEW r \in Requests, NEW q \in Requests, r # q,
         pc[r] \in Holding, pc[q] \in Holding, path[r] \notin collided
  PROVE  path[r] # path[q]
BY DEF IInv, HoldsOwn

\* A step of one request that holds a directory, and leaves who created what and who
\* drew what alone, keeps the books.
LEMMA HolderKeepsBooks ==
  ASSUME IInv, NEW r \in Requests, pc[r] \in Holding,
         UNCHANGED <<module, path, owner, collided>>,
         \A q \in Requests : q # r => error'[q] = error[q],
         NEW to \in Holding \cup {"leaked"}, pc' = [pc EXCEPT ![r] = to],
         to = "leaked" => error'[r] \/ module[r] # "csharp"
  PROVE  /\ AllAccounted'
         /\ pc' \in [Requests -> {"idle"} \cup UnderWay \cup Ended]
         /\ \A q \in Requests : DrawsOwnNames(q)'
<1>1. pc' \in [Requests -> {"idle"} \cup UnderWay \cup Ended]
  BY DEF IInv, TypeOK, UnderWay, Ended
<1>2. \A q \in Requests : q # r => pc'[q] = pc[q]
  BY DEF IInv, TypeOK
<1>3. pc'[r] = to
  BY DEF IInv, TypeOK
<1>4. AllAccounted'
  BY <1>2, <1>3 DEF IInv, AllAccounted, Exists, AccountedFor, TypeOK
<1>5. \A q \in Requests : DrawsOwnNames(q)'
  BY <1>2, <1>3 DEF IInv, DrawsOwnNames, Holding, UnderWay
<1>6. QED
  BY <1>1, <1>4, <1>5

\* What CodegenManager, TempDirectory and the handlers around them keep true at every
\* use of the file system, except in directories where two C# requests met: a directory
\* on disk belongs to the request that created it, its contents come from that request,
\* and the response fits what has happened.
THEOREM Invariance == Spec => []IInv
<1> USE NothingAssumption, PartialAssumption
<1>1. Init => IInv
  BY DEF Init, IInv, TypeOK, Exists, ContentsAreOwners, HoldsOwn, DrawsOwnNames, ResponseFits,
         Answered, Holding, UnderWay
<1>2. IInv /\ [Next]_vars => IInv'
  <2> SUFFICES ASSUME IInv, [Next]_vars PROVE IInv'
    OBVIOUS
  <2> USE DEF Go
  <2>0. TypeOK /\ AllAccounted
    BY DEF IInv, AllAccounted
  <2>1. CASE UNCHANGED vars
    BY <2>1 DEF vars, diskVars, IInv, TypeOK, Exists, AccountedFor, ContentsAreOwners,
                HoldsOwn, DrawsOwnNames, ResponseFits, Answered
  <2>2. ASSUME NEW r \in Requests, NEW m \in Languages, Receive(r, m) PROVE IInv'
    <3>1. /\ pc[r] = "idle" /\ pc' = [pc EXCEPT ![r] = "creating"]
          /\ module' = [module EXCEPT ![r] = m]
          /\ UNCHANGED <<path, owner, source, program, collided, error, data>>
      BY <2>2 DEF Receive, diskVars
    <3>2. TypeOK' /\ AllAccounted' /\ \A d \in Paths : ContentsAreOwners(d)'
      BY <2>0, <3>1 DEF IInv, TypeOK, UnderWay, AllAccounted, Exists, AccountedFor, Holding,
                        ContentsAreOwners
    <3>3. \A q \in Requests : DrawsOwnNames(q)' /\ HoldsOwn(q)' /\ ResponseFits(q)'
      BY <2>0, <3>1 DEF IInv, TypeOK, DrawsOwnNames, HoldsOwn, ResponseFits, Holding, UnderWay,
                        Answered
    <3>4. QED
      BY <3>1, <3>2, <3>3 DEF IInv, AllAccounted
  <2>3. ASSUME NEW r \in Requests, NEW p \in NamesOf[module[r]], ~Exists(p),
               module[r] \in Languages,
               \/ pc[r] = "creating" /\ path' = [path EXCEPT ![r] = p]
               \/ pc[r] = "drawn" /\ path[r] = p /\ UNCHANGED path,
               pc' = [pc EXCEPT ![r] = "writing"], owner' = [owner EXCEPT ![p] = r],
               UNCHANGED <<module, source, program, collided, error, data>>
        PROVE  IInv'
    <3>1. p \in Paths /\ owner[p] = Nothing
      BY <2>3 DEF Paths, Exists
    <3>2. /\ path'[r] = p /\ path' \in [Requests -> Paths \cup {Nothing}]
          /\ \A q \in Requests : q # r => path'[q] = path[q]
      BY <2>0, <2>3, <3>1 DEF TypeOK
    <3>3. TypeOK'
      BY <2>0, <2>3, <3>1, <3>2 DEF TypeOK, UnderWay, Holding
    <3>4. AllAccounted'
      BY <2>0, <2>3, <3>1, <3>2 DEF TypeOK, AllAccounted, Exists, AccountedFor, Holding
    <3>5. \A d \in Paths : ContentsAreOwners(d)'
      BY <2>0, <2>3, <3>1 DEF IInv, TypeOK, ContentsAreOwners
    <3>6. \A q \in Requests : HoldsOwn(q)'
      BY <2>0, <2>3, <3>1, <3>2 DEF IInv, TypeOK, HoldsOwn, Holding
    <3>7. \A q \in Requests : DrawsOwnNames(q)'
      BY <2>0, <2>3, <3>2 DEF IInv, TypeOK, DrawsOwnNames, Holding, UnderWay
    <3>8. \A q \in Requests : ResponseFits(q)'
      BY <2>0, <2>3, <3>2 DEF IInv, TypeOK, ResponseFits, UnderWay, Holding, Answered
    <3>9. QED
      BY <2>3, <3>3, <3>4, <3>5, <3>6, <3>7, <3>8 DEF IInv, AllAccounted
  <2>4. ASSUME NEW r \in Requests, CreateUnique(r) PROVE IInv'
    <3>1. PICK p \in NamesOf[module[r]] : /\ ~Exists(p)
                                          /\ path' = [path EXCEPT ![r] = p]
                                          /\ owner' = [owner EXCEPT ![p] = r]
      BY <2>4 DEF CreateUnique, FreeNames
    <3>2. /\ pc[r] = "creating" /\ pc' = [pc EXCEPT ![r] = "writing"]
          /\ UNCHANGED <<module, source, program, collided, error, data>>
      BY <2>4 DEF CreateUnique
    <3>3. module[r] \in Languages
      BY <3>2 DEF IInv, DrawsOwnNames, UnderWay
    <3>4. QED
      BY <2>3, <3>1, <3>2, <3>3
  <2>5. ASSUME NEW r \in Requests, DrawName(r) PROVE IInv'
    <3>1. PICK p \in NamesOf["csharp"] : path' = [path EXCEPT ![r] = p]
      BY <2>5 DEF DrawName, FreeNames
    <3>2. /\ pc[r] = "creating" /\ module[r] = "csharp" /\ pc' = [pc EXCEPT ![r] = "drawn"]
          /\ UNCHANGED <<module, owner, source, program, collided, error, data>>
      BY <2>5 DEF DrawName, diskVars
    <3>3. p \in Paths
      BY DEF Paths, Languages
    <3>4. TypeOK' /\ \A d \in Paths : ContentsAreOwners(d)'
      BY <2>0, <3>1, <3>2, <3>3 DEF IInv, TypeOK, UnderWay, ContentsAreOwners
    <3>5. AllAccounted'
      BY <2>0, <3>1, <3>2 DEF TypeOK, AllAccounted, Exists, AccountedFor, Holding
    <3>6. \A q \in Requests : DrawsOwnNames(q)' /\ HoldsOwn(q)'
      BY <2>0, <3>1, <3>2 DEF IInv, TypeOK, DrawsOwnNames, HoldsOwn, Holding, UnderWay
    <3>7. \A q \in Requests : ResponseFits(q)'
      BY <2>0, <3>1, <3>2 DEF IInv, TypeOK, ResponseFits, UnderWay, Holding, Answered
    <3>8. QED
      BY <3>2, <3>4, <3>5, <3>6, <3>7 DEF IInv, AllAccounted
  <2>6. ASSUME NEW r \in Requests, CreateDrawn(r) PROVE IInv'
    <3>1. /\ pc[r] = "drawn" /\ pc' = [pc EXCEPT ![r] = "writing"]
          /\ UNCHANGED <<module, path, source, program, error, data>>
      BY <2>6 DEF CreateDrawn
    <3>2. /\ module[r] = "csharp" /\ path[r] \in NamesOf["csharp"] /\ path[r] \in Paths
          /\ module[r] \in Languages
      BY <3>1, DrawnIsPath DEF IInv, DrawsOwnNames
    <3>3. CASE ~Exists(path[r])
      <4>1. owner' = [owner EXCEPT ![path[r]] = r] /\ UNCHANGED collided
        BY <2>6, <3>3 DEF CreateDrawn
      <4>2. QED
        BY <2>3, <3>1, <3>2, <3>3, <4>1
    <3>4. CASE Exists(path[r])
      <4>1. collided' = collided \cup {path[r]} /\ UNCHANGED owner
        BY <2>6, <3>4 DEF CreateDrawn
      <4>2. TypeOK' /\ collided' \subseteq NamesOf["csharp"]
        BY <2>0, <3>1, <3>2, <4>1 DEF IInv, TypeOK, UnderWay, Holding
      <4>3. AllAccounted' /\ \A d \in Paths : ContentsAreOwners(d)'
        BY <2>0, <3>1, <4>1 DEF IInv, TypeOK, AllAccounted, Exists, AccountedFor, Holding,
                                ContentsAreOwners
      <4>4. \A q \in Requests : DrawsOwnNames(q)' /\ HoldsOwn(q)'
        BY <2>0, <3>1, <3>2, <4>1 DEF IInv, TypeOK, DrawsOwnNames, HoldsOwn, Holding, UnderWay
      <4>5. \A q \in Requests : ResponseFits(q)'
        BY <2>0, <3>1, <4>1 DEF IInv, TypeOK, ResponseFits, UnderWay, Holding, Answered
      <4>6. QED
        BY <4>2, <4>3, <4>4, <4>5 DEF IInv, AllAccounted
    <3>5. QED
      BY <3>3, <3>4
  <2>7. ASSUME NEW r \in Requests, CreateFails(r) PROVE IInv'
    <3>1. /\ pc[r] \in {"creating", "drawn"} /\ pc' = [pc EXCEPT ![r] = "answered"]
          /\ error' = [error EXCEPT ![r] = TRUE]
          /\ UNCHANGED <<module, path, owner, source, program, collided, data>>
      BY <2>7 DEF CreateFails, diskVars
    <3>2. TypeOK' /\ AllAccounted' /\ \A d \in Paths : ContentsAreOwners(d)'
      BY <2>0, <3>1 DEF IInv, TypeOK, Ended, AllAccounted, Exists, AccountedFor, Holding,
                        ContentsAreOwners
    <3>3. \A q \in Requests : HoldsOwn(q)' /\ DrawsOwnNames(q)' /\ ResponseFits(q)'
      BY <2>0, <3>1 DEF IInv, TypeOK, HoldsOwn, DrawsOwnNames, ResponseFits, Holding,
                        UnderWay, Answered
    <3>4. QED
      BY <3>1, <3>2, <3>3 DEF IInv, AllAccounted
  <2>8. ASSUME NEW r \in Requests, pc[r] \in {"writing", "building", "reading"},
               NEW s \in Requests \cup {Nothing, Partial},
               source' = [source EXCEPT ![path[r]] = s],
               path[r] \notin collided => s \in {r, Nothing, Partial},
               UNCHANGED <<module, path, owner, program, collided, data>>,
               \/ pc' = [pc EXCEPT ![r] = "building"] /\ UNCHANGED error
               \/ pc' = [pc EXCEPT ![r] = "removing"] /\ error' = [error EXCEPT ![r] = TRUE]
        PROVE  IInv'
    <3>1. /\ path[r] \in Paths /\ pc[r] \in Holding
          /\ path[r] \notin collided => owner[path[r]] = r
      BY <2>8, DrawnIsPath DEF IInv, HoldsOwn, Holding
    <3>2. PICK to \in Holding : pc' = [pc EXCEPT ![r] = to] /\ to \in {"building", "removing"}
      BY <2>8 DEF Holding
    <3>3. /\ AllAccounted' /\ \A q \in Requests : DrawsOwnNames(q)'
          /\ pc' \in [Requests -> {"idle"} \cup UnderWay \cup Ended]
      <4>1. \A q \in Requests : q # r => error'[q] = error[q]
        BY <2>0, <2>8 DEF TypeOK
      <4>2. QED
        BY <2>8, <3>1, <3>2, <4>1, HolderKeepsBooks DEF Holding
    <3>4. TypeOK'
      BY <2>0, <2>8, <3>3 DEF TypeOK
    <3>5. \A d \in Paths : ContentsAreOwners(d)'
      BY <2>0, <2>8, <3>1 DEF IInv, TypeOK, ContentsAreOwners
    <3>6. \A q \in Requests : HoldsOwn(q)'
      BY <2>0, <2>8, <3>1, <3>2 DEF IInv, TypeOK, HoldsOwn, Holding
    <3>7. \A q \in Requests : ResponseFits(q)'
      BY <2>0, <2>8 DEF IInv, TypeOK, ResponseFits, UnderWay, Holding, Answered
    <3>8. QED
      BY <2>8, <3>3, <3>4, <3>5, <3>6, <3>7 DEF IInv, AllAccounted
  <2>9. ASSUME NEW r \in Requests, Write(r) \/ WriteFails(r) PROVE IInv'
    <3>1. /\ pc[r] = "writing" /\ path[r] \in Paths
          /\ path[r] \notin collided => owner[path[r]] = r
      BY <2>9, DrawnIsPath DEF Write, WriteFails, IInv, HoldsOwn, Holding
    <3>2. /\ source[path[r]] \in Requests \cup {Nothing, Partial}
          /\ path[r] \notin collided => source[path[r]] \in {r, Nothing, Partial}
          /\ source = [source EXCEPT ![path[r]] = source[path[r]]]
      BY <2>0, <3>1 DEF IInv, ContentsAreOwners, TypeOK
    <3>3. PICK s \in {r, Partial, source[path[r]]} : source' = [source EXCEPT ![path[r]] = s]
      BY <2>9, <3>2 DEF Write, WriteFails
    <3>4. /\ UNCHANGED <<module, path, owner, program, collided, data>>
          /\ \/ pc' = [pc EXCEPT ![r] = "building"] /\ UNCHANGED error
             \/ pc' = [pc EXCEPT ![r] = "removing"] /\ error' = [error EXCEPT ![r] = TRUE]
      BY <2>9 DEF Write, WriteFails, Throw
    <3>5. QED
      BY <2>8, <3>1, <3>2, <3>3, <3>4
  <2>10. ASSUME NEW r \in Requests, Build(r) PROVE IInv'
    <3>1. /\ pc[r] = "building" /\ pc' = [pc EXCEPT ![r] = "reading"]
          /\ source[path[r]] \in Requests
          /\ program' = [program EXCEPT ![path[r]] = source[path[r]]]
          /\ UNCHANGED <<module, path, owner, source, collided, error, data>>
      BY <2>10 DEF Build
    <3>2. /\ path[r] \in Paths /\ pc[r] \in Holding
          /\ path[r] \notin collided => owner[path[r]] = r
      BY <3>1, DrawnIsPath DEF IInv, HoldsOwn, Holding
    <3>3. path[r] \notin collided => source[path[r]] = r
      BY <3>1, <3>2 DEF IInv, ContentsAreOwners
    <3>4. /\ AllAccounted' /\ \A q \in Requests : DrawsOwnNames(q)'
          /\ pc' \in [Requests -> {"idle"} \cup UnderWay \cup Ended]
      BY <3>1, <3>2, HolderKeepsBooks DEF Holding
    <3>5. TypeOK'
      BY <2>0, <3>1, <3>4 DEF TypeOK
    <3>6. \A d \in Paths : ContentsAreOwners(d)'
      BY <2>0, <3>1, <3>2, <3>3 DEF IInv, TypeOK, ContentsAreOwners
    <3>7. \A q \in Requests : HoldsOwn(q)'
      BY <2>0, <3>1, <3>2, <3>3, HoldersDiffer DEF IInv, TypeOK, HoldsOwn, Holding
    <3>8. \A q \in Requests : ResponseFits(q)'
      BY <2>0, <3>1 DEF IInv, TypeOK, ResponseFits, UnderWay, Holding, Answered
    <3>9. QED
      BY <3>1, <3>4, <3>5, <3>6, <3>7, <3>8 DEF IInv, AllAccounted
  <2>11. ASSUME NEW r \in Requests, BuildFails(r) PROVE IInv'
    <3>1. /\ pc[r] = "building"
          /\ pc' = [pc EXCEPT ![r] = "removing"] /\ error' = [error EXCEPT ![r] = TRUE]
          /\ UNCHANGED <<module, path, owner, source, program, collided, data>>
      BY <2>11 DEF BuildFails, Throw, diskVars
    <3>2. path[r] \in Paths /\ (path[r] \notin collided => owner[path[r]] = r)
      BY <3>1, DrawnIsPath DEF IInv, HoldsOwn, Holding
    <3>3. /\ source[path[r]] \in Requests \cup {Nothing, Partial}
          /\ path[r] \notin collided => source[path[r]] \in {r, Nothing, Partial}
          /\ source' = [source EXCEPT ![path[r]] = source[path[r]]]
      BY <2>0, <3>1, <3>2 DEF IInv, ContentsAreOwners, TypeOK
    <3>4. QED
      BY <2>8, <3>1, <3>3
  <2>12. ASSUME NEW r \in Requests, Read(r) \/ ReadFails(r) PROVE IInv'
    <3>1. /\ pc[r] = "reading" /\ pc' = [pc EXCEPT ![r] = "removing"]
          /\ UNCHANGED <<module, path, owner, source, program, collided>>
          /\ \/ data' = [data EXCEPT ![r] = program[path[r]]] /\ UNCHANGED error
             \/ /\ \E got \in {Nothing, Partial} : data' = [data EXCEPT ![r] = got]
                /\ UNCHANGED error /\ module[r] = "cxx"
             \/ UNCHANGED data /\ error' = [error EXCEPT ![r] = TRUE]
      BY <2>12 DEF Read, ReadFails, Throw, diskVars
    <3>2. /\ path[r] \in Paths /\ pc[r] \in Holding
          /\ path[r] \notin collided => program[path[r]] = r
      BY <3>1, DrawnIsPath DEF IInv, HoldsOwn, Holding
    <3>3. /\ AllAccounted' /\ \A q \in Requests : DrawsOwnNames(q)'
          /\ pc' \in [Requests -> {"idle"} \cup UnderWay \cup Ended]
      <4>1. \A q \in Requests : q # r => error'[q] = error[q]
        BY <2>0, <3>1 DEF TypeOK
      <4>2. QED
        BY <3>1, <3>2, <4>1, HolderKeepsBooks DEF Holding
    <3>4. TypeOK'
      <4>1. program[path[r]] \in Requests \cup {Nothing}
        BY <2>0, <3>2 DEF TypeOK
      <4>2. data' \in [Requests -> Requests \cup {Nothing, Partial}]
        BY <2>0, <3>1, <4>1 DEF TypeOK
      <4>3. QED
        BY <2>0, <3>1, <3>3, <4>2 DEF TypeOK
    <3>5. \A d \in Paths : ContentsAreOwners(d)'
      BY <3>1 DEF IInv, ContentsAreOwners
    <3>6. \A q \in Requests : HoldsOwn(q)'
      BY <2>0, <3>1, <3>2 DEF IInv, TypeOK, HoldsOwn, Holding
    <3>7. ~error[r] /\ data[r] = Nothing
      BY <3>1 DEF IInv, ResponseFits, UnderWay, Holding
    <3>8. \A q \in Requests : ResponseFits(q)'
      BY <2>0, <3>1, <3>2, <3>7 DEF IInv, TypeOK, ResponseFits, UnderWay, Holding, Answered
    <3>9. QED
      BY <3>1, <3>3, <3>4, <3>5, <3>6, <3>8 DEF IInv, AllAccounted
  <2>13. ASSUME NEW r \in Requests, Remove(r) PROVE IInv'
    <3>1. /\ pc[r] = "removing" /\ pc' = [pc EXCEPT ![r] = "answered"]
          /\ owner' = [owner EXCEPT ![path[r]] = Nothing]
          /\ source' = [source EXCEPT ![path[r]] = Nothing]
          /\ program' = [program EXCEPT ![path[r]] = Nothing]
          /\ UNCHANGED <<module, path, collided, error, data>>
      BY <2>13 DEF Remove
    <3>2. path[r] \in Paths /\ pc[r] \in Holding
      BY <3>1, DrawnIsPath DEF Holding
    <3>3. TypeOK'
      BY <2>0, <3>1 DEF TypeOK, Ended
    <3>4. AllAccounted'
      BY <2>0, <3>1, <3>2 DEF TypeOK, AllAccounted, Exists, AccountedFor
    <3>5. \A d \in Paths : ContentsAreOwners(d)'
      BY <2>0, <3>1, <3>2 DEF IInv, TypeOK, ContentsAreOwners
    <3>6. \A q \in Requests : HoldsOwn(q)'
      <4> SUFFICES ASSUME NEW q \in Requests PROVE HoldsOwn(q)'
        OBVIOUS
      <4>1. CASE q = r
        BY <2>0, <3>1, <4>1 DEF TypeOK, HoldsOwn, Holding
      <4>2. CASE q # r
        <5>1. pc'[q] = pc[q]
          BY <2>0, <3>1, <4>2 DEF TypeOK
        <5>2. pc[q] \in Holding /\ path[q] \notin collided => path[q] # path[r]
          BY <3>2, <4>2, HoldersDiffer
        <5>3. QED
          BY <2>0, <3>1, <3>2, <5>1, <5>2 DEF IInv, TypeOK, HoldsOwn, Holding
      <4>3. QED
        BY <4>1, <4>2
    <3>7. \A q \in Requests : DrawsOwnNames(q)'
      BY <2>0, <3>1 DEF IInv, TypeOK, DrawsOwnNames, Holding, UnderWay
    <3>8. \A q \in Requests : ResponseFits(q)'
      <4> SUFFICES ASSUME NEW q \in Requests PROVE ResponseFits(q)'
        OBVIOUS
      <4>1. CASE q = r
        <5>1. path[r] \notin collided => \/ ~error[r] /\ data[r] = r
                                         \/ error[r] /\ data[r] = Nothing
                                         \/ module[r] = "cxx" /\ data[r] \in {Nothing, Partial}
          BY <3>1 DEF IInv, ResponseFits
        <5>2. pc'[r] = "answered"
          BY <2>0, <3>1 DEF TypeOK
        <5>3. QED
          BY <2>0, <3>1, <4>1, <5>1, <5>2 DEF TypeOK, ResponseFits, UnderWay, Holding
      <4>2. CASE q # r
        <5>1. pc'[q] = pc[q] /\ error'[q] = error[q] /\ data'[q] = data[q]
          BY <2>0, <3>1, <4>2 DEF TypeOK
        <5>2. QED
          BY <3>1, <5>1 DEF IInv, ResponseFits, Answered
      <4>3. QED
        BY <4>1, <4>2
    <3>9. QED
      BY <3>1, <3>3, <3>4, <3>5, <3>6, <3>7, <3>8 DEF IInv, AllAccounted
  <2>14. ASSUME NEW r \in Requests, RemoveFails(r) PROVE IInv'
    <3>1. /\ pc[r] = "removing" /\ pc' = [pc EXCEPT ![r] = "leaked"]
          /\ UNCHANGED <<module, path, owner, source, program, collided>>
          /\ \/ module[r] # "csharp" /\ UNCHANGED <<error, data>>
             \/ /\ error' = [error EXCEPT ![r] = TRUE]
                /\ data' = [data EXCEPT ![r] = Nothing]
      BY <2>14 DEF RemoveFails, diskVars
    <3>2. pc[r] \in Holding
      BY <3>1 DEF Holding
    <3>3. /\ AllAccounted' /\ \A q \in Requests : DrawsOwnNames(q)'
          /\ pc' \in [Requests -> {"idle"} \cup UnderWay \cup Ended]
      <4>1. /\ \A q \in Requests : q # r => error'[q] = error[q]
            /\ error'[r] \/ module[r] # "csharp"
        BY <2>0, <3>1 DEF TypeOK
      <4>2. QED
        BY <3>1, <3>2, <4>1, HolderKeepsBooks
    <3>4. TypeOK'
      BY <2>0, <3>1, <3>3 DEF TypeOK
    <3>5. \A d \in Paths : ContentsAreOwners(d)'
      BY <3>1 DEF IInv, ContentsAreOwners
    <3>6. \A q \in Requests : HoldsOwn(q)'
      BY <2>0, <3>1 DEF IInv, TypeOK, HoldsOwn, Holding
    <3>7. \A q \in Requests : ResponseFits(q)'
      BY <2>0, <3>1 DEF IInv, TypeOK, ResponseFits, UnderWay, Holding, Answered
    <3>8. QED
      BY <3>1, <3>3, <3>4, <3>5, <3>6, <3>7 DEF IInv, AllAccounted
  <2>15. ASSUME NEW m \in Languages, Crash(m) PROVE IInv'
    <3>1. /\ pc' \in [Requests -> {"idle"} \cup UnderWay \cup Ended]
          /\ \A r \in Requests : pc'[r] = pc[r] \/ (pc'[r] = "lost" /\ pc[r] \in UnderWay)
      <4>1. pc' = [r \in Requests |-> IF pc[r] \in UnderWay /\ module[r] = m
                                     THEN "lost" ELSE pc[r]]
        BY <2>15 DEF Crash
      <4>2. \A r \in Requests : pc[r] \in {"idle"} \cup UnderWay \cup Ended
        BY <2>0 DEF TypeOK
      <4>3. QED
        BY <4>1, <4>2 DEF Ended
    <3>2. UNCHANGED <<module, path, owner, source, program, collided, error, data>>
      BY <2>15 DEF Crash, diskVars
    <3>3. TypeOK' /\ \A d \in Paths : ContentsAreOwners(d)'
      BY <2>0, <3>1, <3>2 DEF IInv, TypeOK, ContentsAreOwners
    <3>4. AllAccounted'
      BY <2>0, <3>1, <3>2 DEF TypeOK, AllAccounted, Exists, AccountedFor
    <3>5. \A q \in Requests : HoldsOwn(q)' /\ DrawsOwnNames(q)'
      BY <3>1, <3>2 DEF IInv, HoldsOwn, DrawsOwnNames, Holding, UnderWay
    <3>6. \A q \in Requests : ResponseFits(q)'
      BY <3>1, <3>2 DEF IInv, ResponseFits, UnderWay, Holding, Answered
    <3>7. QED
      BY <3>2, <3>3, <3>4, <3>5, <3>6 DEF IInv, AllAccounted
  <2>16. QED
    BY <2>1, <2>2, <2>4, <2>5, <2>6, <2>7, <2>9, <2>10, <2>11, <2>12, <2>13, <2>14, <2>15
       DEF Next, Handle
<1>3. QED
  BY <1>1, <1>2, PTL DEF Spec

\* Every variable keeps its type; what is built is never a truncated source.
THEOREM TypeCorrect == Spec => []TypeOK
<1>1. IInv => TypeOK
  BY DEF IInv
<1>2. QED
  BY <1>1, Invariance, PTL

\* However many requests the modules serve at once, and whatever directories crashes and
\* failed clean-ups have left, two requests in one directory are C# requests, and one
\* of them found the directory that the other had created after both had checked.
THEOREM DirectoryExclusiveHolds == Spec => []DirectoryExclusive
<1>1. IInv => DirectoryExclusive
  <2> SUFFICES ASSUME IInv, NEW r \in Requests, NEW q \in Requests, r # q,
                      pc[r] \in Holding, pc[q] \in Holding, path[r] = path[q]
               PROVE  path[r] \in collided /\ module[r] = "csharp" /\ module[q] = "csharp"
    BY DEF DirectoryExclusive
  <2>1. path[r] \in collided
    BY HoldersDiffer
  <2>2. path[r] \in NamesOf["csharp"]
    BY <2>1 DEF IInv
  <2>3. /\ module[r] \in Languages /\ path[r] \in NamesOf[module[r]]
        /\ module[q] \in Languages /\ path[r] \in NamesOf[module[q]]
    BY DrawnIsPath
  <2>4. QED
    BY <2>1, <2>2, <2>3, NamesAssumption DEF Languages
<1>2. QED
  BY <1>1, Invariance, PTL

\* Outside such a shared directory, a request is answered with the program built from
\* its own source, or with an error, or in C++ with what could be read.
THEOREM AnswerIsOwnHolds == Spec => []AnswerIsOwn
<1>1. IInv => AnswerIsOwn
  BY DEF IInv, ResponseFits, AnswerIsOwn
<1>2. QED
  BY <1>1, Invariance, PTL

\* A C++ or C# directory on disk is in use, or a crash or a failed removal left it there.
THEOREM LeftoversAccountedForHolds == Spec => []LeftoversAccountedFor
<1>1. IInv => LeftoversAccountedFor
  BY DEF IInv, LeftoversAccountedFor
<1>2. QED
  BY <1>1, Invariance, PTL
=============================================================================
