---------------------------- MODULE CodegenBuild ----------------------------
(***************************************************************************)
(* Code generation by compiling, in the C++, C# and Java language modules: *)
(* CodegenManager, TempDirectory, Utility and the RPC handlers around them *)
(* (server/languages/{cxx,csharp,java}).  Each request is a thread of its  *)
(* module's gRPC server; it builds in a temporary directory.  One action   *)
(* is one use of the file system or of the compiler.  All three modules    *)
(* share one temporary directory root.  A program is identified with the   *)
(* request that it was generated for.                                      *)
(***************************************************************************)
CONSTANTS
  Requests,   \* CodegenIOCapture and CodegenUnitTests calls
  NamesOf,    \* the names that each module draws for its temporary directories
  Nothing,    \* no directory, an empty directory, no data
  Partial     \* files that are missing or truncated

Languages == {"cxx", "csharp", "java"}
Paths     == UNION {NamesOf[m] : m \in Languages}

\* Names tell their module: "-" and six hexadecimal digits (LLVM), eight characters,
\* a dot and three more (GetRandomFileName), a decimal number (createTempDirectory).
ASSUME NamesAssumption ==
  \A m, k \in Languages : m # k => NamesOf[m] \cap NamesOf[k] = {}
ASSUME NothingAssumption == Nothing \notin Requests
ASSUME PartialAssumption == Partial \notin Requests /\ Partial # Nothing

VARIABLES
  pc,       \* what a request does next
  module,   \* the language module it was sent to
  path,     \* tempDir
  owner,    \* who created a directory; Nothing: there is no such directory
  collided, \* names that CreateDirectory was called with and found in existence
  source,   \* what the source files in a directory were generated for
  program,  \* what the build output in a directory was generated for
  error,    \* the error field of the response is set
  data      \* the data field of the response

diskVars == <<owner, source, program>>
vars == <<pc, module, path, owner, source, program, collided, error, data>>

Holding   == {"writing", "building", "reading", "removing"}
UnderWay  == {"creating", "drawn"} \cup Holding

\* "answered": its directory is gone; "leaked": it was not removed;
\* "lost": the module's process ended before the answer.
Ended == {"answered", "leaked", "lost"}

TypeOK ==
  /\ pc \in [Requests -> {"idle"} \cup UnderWay \cup Ended]
  /\ module \in [Requests -> Languages \cup {Nothing}]
  /\ path \in [Requests -> Paths \cup {Nothing}]
  /\ owner \in [Paths -> Requests \cup {Nothing}]
  /\ source \in [Paths -> Requests \cup {Nothing, Partial}]
  /\ program \in [Paths -> Requests \cup {Nothing}]
  /\ collided \subseteq Paths
  /\ error \in [Requests -> BOOLEAN]
  /\ data \in [Requests -> Requests \cup {Nothing, Partial}]

Init ==
  /\ pc = [r \in Requests |-> "idle"]
  /\ module = [r \in Requests |-> Nothing]
  /\ path = [r \in Requests |-> Nothing]
  /\ owner = [p \in Paths |-> Nothing]
  /\ source = [p \in Paths |-> Nothing]
  /\ program = [p \in Paths |-> Nothing]
  /\ collided = {}
  /\ error = [r \in Requests |-> FALSE]
  /\ data = [r \in Requests |-> Nothing]

Exists(p) == owner[p] # Nothing

Go(r, to) == pc' = [pc EXCEPT ![r] = to]

-----------------------------------------------------------------------------
(* Creating the directory *)

Receive(r, m) ==
  /\ pc[r] = "idle"
  /\ module' = [module EXCEPT ![r] = m]
  /\ Go(r, "creating")
  /\ UNCHANGED <<path, diskVars, collided, error, data>>

\* Fault: a name is taken without a look at what exists.
FaultUnchecked(m) == NamesOf[m]

FreeNames(m) == {p \in NamesOf[m] : ~Exists(p)}

\* createUniqueDirectory, createTempDirectory: try names until mkdir creates one.
CreateUnique(r) ==
  /\ pc[r] = "creating" /\ module[r] # "csharp"
  /\ \E p \in FreeNames(module[r]) : /\ path' = [path EXCEPT ![r] = p]
                                     /\ owner' = [owner EXCEPT ![p] = r]
  /\ Go(r, "writing")
  /\ UNCHANGED <<module, source, program, collided, error, data>>

\* TempDirectory(): draw names until one does not exist, and then create it. Until
\* then, another request may draw it too.
DrawName(r) ==
  /\ pc[r] = "creating" /\ module[r] = "csharp"
  /\ \E p \in FreeNames(module[r]) : path' = [path EXCEPT ![r] = p]
  /\ Go(r, "drawn")
  /\ UNCHANGED <<module, diskVars, collided, error, data>>

\* CreateDirectory is content with a directory that exists.
CreateDrawn(r) ==
  /\ pc[r] = "drawn"
  /\ IF Exists(path[r])
     THEN collided' = collided \cup {path[r]} /\ UNCHANGED owner
     ELSE owner' = [owner EXCEPT ![path[r]] = r] /\ UNCHANGED collided
  /\ Go(r, "writing")
  /\ UNCHANGED <<module, path, source, program, error, data>>

\* The exception reaches the handler; there is nothing to remove.
CreateFails(r) ==
  /\ pc[r] \in {"creating", "drawn"}
  /\ error' = [error EXCEPT ![r] = TRUE]
  /\ Go(r, "answered")
  /\ UNCHANGED <<module, path, diskVars, collided, data>>

-----------------------------------------------------------------------------
(* Building *)

\* Fault: the error is answered past the clean-up.
FaultNoCleanUp(r) == error' = [error EXCEPT ![r] = TRUE] /\ Go(r, "answered")

\* An exception, or a non-zero exit code turned into one: on to the clean-up.
Throw(r) == error' = [error EXCEPT ![r] = TRUE] /\ Go(r, "removing")

Write(r) ==
  /\ pc[r] = "writing"
  /\ Exists(path[r])
  /\ source' = [source EXCEPT ![path[r]] = r]
  /\ Go(r, "building")
  /\ UNCHANGED <<module, path, owner, program, collided, error, data>>

\* C++ ignores what writeFile returns.
WriteFails(r) ==
  /\ pc[r] = "writing"
  /\ \/ UNCHANGED source
     \/ Exists(path[r]) /\ source' = [source EXCEPT ![path[r]] = Partial]
  /\ IF module[r] = "cxx" THEN Go(r, "building") /\ UNCHANGED error ELSE Throw(r)
  /\ UNCHANGED <<module, path, owner, program, collided, data>>

\* Fault: the build goes on after errors, and its exit code says nothing.
FaultBuildsAnyway(r) ==
  /\ pc[r] = "building"
  /\ program' = [program EXCEPT ![path[r]] = source[path[r]]]
  /\ Go(r, "reading")
  /\ UNCHANGED <<module, path, owner, source, collided, error, data>>

\* Incomplete files do not compile: a truncated source lacks the end of main(). C# zips
\* the output, and the zip must not exist (ZipFile.CreateFromDirectory).
Build(r) ==
  /\ pc[r] = "building"
  /\ source[path[r]] \in Requests
  /\ module[r] = "csharp" => program[path[r]] = Nothing
  /\ program' = [program EXCEPT ![path[r]] = source[path[r]]]
  /\ Go(r, "reading")
  /\ UNCHANGED <<module, path, owner, source, collided, error, data>>

BuildFails(r) ==
  /\ pc[r] = "building"
  /\ Throw(r)
  /\ UNCHANGED <<module, path, diskVars, collided, data>>

Read(r) ==
  /\ pc[r] = "reading"
  /\ program[path[r]] # Nothing
  /\ data' = [data EXCEPT ![r] = program[path[r]]]
  /\ Go(r, "removing")
  /\ UNCHANGED <<module, path, diskVars, collided, error>>

\* Fault: every module takes an unreadable file for an empty one.
FaultReadsEmpty(r) ==
  /\ pc[r] = "reading"
  /\ Go(r, "removing")
  /\ UNCHANGED <<module, path, diskVars, collided, error, data>>

\* readFile of C++ returns an empty string if the file cannot be opened, and what it has
\* if reading stops in the middle.
ReadFails(r) ==
  /\ pc[r] = "reading"
  /\ IF module[r] = "cxx"
     THEN /\ \E got \in {Nothing, Partial} : data' = [data EXCEPT ![r] = got]
          /\ Go(r, "removing") /\ UNCHANGED error
     ELSE Throw(r) /\ UNCHANGED data
  /\ UNCHANGED <<module, path, diskVars, collided>>

-----------------------------------------------------------------------------
(* The clean-up, and the answer *)

\* Java's File.delete() removes empty directories only.
Remove(r) ==
  /\ pc[r] = "removing"
  /\ Exists(path[r])
  /\ module[r] = "java" => source[path[r]] = Nothing
  /\ owner' = [owner EXCEPT ![path[r]] = Nothing]
  /\ source' = [source EXCEPT ![path[r]] = Nothing]
  /\ program' = [program EXCEPT ![path[r]] = Nothing]
  /\ Go(r, "answered")
  /\ UNCHANGED <<module, path, collided, error, data>>

\* Directory.Delete throws: the response is an error then. The others go on.
RemoveFails(r) ==
  /\ pc[r] = "removing"
  /\ IF module[r] = "csharp"
     THEN /\ error' = [error EXCEPT ![r] = TRUE]
          /\ data' = [data EXCEPT ![r] = Nothing]
     ELSE UNCHANGED <<error, data>>
  /\ Go(r, "leaked")
  /\ UNCHANGED <<module, path, diskVars, collided>>

\* The process of module m ends; the core starts it again. No handler runs.
Crash(m) ==
  /\ \E r \in Requests : pc[r] \in UnderWay /\ module[r] = m
  /\ pc' = [r \in Requests |->
              IF pc[r] \in UnderWay /\ module[r] = m THEN "lost" ELSE pc[r]]
  /\ UNCHANGED <<module, path, diskVars, collided, error, data>>

-----------------------------------------------------------------------------
Handle(r) ==
  \/ CreateUnique(r) \/ DrawName(r) \/ CreateDrawn(r) \/ CreateFails(r)
  \/ Write(r) \/ WriteFails(r) \/ Build(r) \/ BuildFails(r) \/ Read(r) \/ ReadFails(r)
  \/ Remove(r) \/ RemoveFails(r)

Next == \/ \E r \in Requests : Handle(r) \/ \E m \in Languages : Receive(r, m)
        \/ \E m \in Languages : Crash(m)

Spec == Init /\ [][Next]_vars

-----------------------------------------------------------------------------
(* Properties *)

Answered(r) == pc[r] \in {"answered", "leaked"}

\* No two requests build in one directory at the same time, whatever directories crashes
\* and failed clean-ups have left behind, and however a name is drawn, created, given up
\* and drawn again. One exception: two C# requests that both found a name free before
\* either had created it (TempDirectory.cs:14). Then the path is not the "unique path" of
\* TempDirectory.cs:13, and only the randomness of the name makes that rare.
DirectoryExclusive ==
  \A r, q \in Requests :
    r # q /\ pc[r] \in Holding /\ pc[q] \in Holding /\ path[r] = path[q] =>
      /\ path[r] \in collided
      /\ module[r] = "csharp" /\ module[q] = "csharp"

\* The program that a request is answered with was built from the request's own source,
\* and a response without an error carries one. Exceptions: a C++ output that could not
\* be read to its end (Utility.cpp:26), and a directory that C# requests share.
AnswerIsOwn ==
  \A r \in Requests : Answered(r) /\ path[r] \notin collided =>
    \/ ~error[r] /\ data[r] = r
    \/ error[r] /\ data[r] = Nothing
    \/ module[r] = "cxx" /\ data[r] \in {Nothing, Partial}

\* The creator of a directory has not finished, was cut off, or could not remove it.
AccountedFor(p) == LET r == owner[p] IN
  /\ path[r] = p
  /\ pc[r] \in Holding \cup {"lost", "leaked"}
  /\ pc[r] = "leaked" /\ ~error[r] => module[r] # "csharp"

\* A C++ or C# directory is on disk only for a request that is under way, one that a
\* crash cut off, or one whose removal failed: no failed step skips the clean-up, not
\* even where another request removed or reuses the directory. The client of a C#
\* request is told of the failure; C++ ignores it (TempDirectory.cpp:21).
LeftoversAccountedFor ==
  \A p \in Paths : Exists(p) /\ module[owner[p]] # "java" => AccountedFor(p)

-----------------------------------------------------------------------------
(* What a comment in the code says, and its file operations refute *)

\* "Remove the temporary directory and return the JAR data" (CodegenManager.java:51): a
\* Java request that returned its JAR has no directory on disk.
JavaCleansUp ==
  \A r \in Requests : Answered(r) /\ module[r] = "java" /\ data[r] = r => owner[path[r]] # r

-----------------------------------------------------------------------------
(* The inductive invariant behind these properties (CodegenBuildProofs). Where *)
(* no two C# requests met, a directory is its creator's and nobody else's.     *)

\* A name was drawn by the request's module; only C# names are drawn and then created.
DrawsOwnNames(r) == /\ pc[r] \in Holding \cup {"drawn"} => path[r] \in NamesOf[module[r]]
                    /\ pc[r] \in UnderWay => module[r] \in Languages
                    /\ pc[r] = "drawn" => module[r] = "csharp"

\* What a directory holds comes from the request that created it.
ContentsAreOwners(p) == p \notin collided =>
  /\ source[p] \in {owner[p], Nothing, Partial}
  /\ program[p] \in {owner[p], Nothing}

HoldsOwn(r) == pc[r] \in Holding /\ path[r] \notin collided =>
  /\ owner[path[r]] = r
  /\ pc[r] = "reading" => program[path[r]] = r

ResponseFits(r) ==
  /\ pc[r] \in {"idle"} \cup (UnderWay \ {"removing"}) => ~error[r] /\ data[r] = Nothing
  /\ (pc[r] = "removing" \/ Answered(r)) /\ path[r] \notin collided =>
       \/ ~error[r] /\ data[r] = r
       \/ error[r] /\ data[r] = Nothing
       \/ module[r] = "cxx" /\ data[r] \in {Nothing, Partial}

IInv == /\ TypeOK
        /\ collided \subseteq NamesOf["csharp"]
        /\ \A p \in Paths : ContentsAreOwners(p) /\ (Exists(p) => AccountedFor(p))
        /\ \A r \in Requests : DrawsOwnNames(r) /\ HoldsOwn(r) /\ ResponseFits(r)
=============================================================================
