# Formal model of Language Toolbox

Language Toolbox is a gRPC server that generates ASTs, matches program output and runs unit
tests for several programming languages. A TypeScript *server core* (`server/core`) starts one
child process per *language module* (`server/languages/*`), forwards work to it over gRPC, and
runs the code that the modules generate in docker containers. This directory holds TLA+ models
of the core, of the modules' unit testing and of their code generation, the TLC runs that check
them, and TLAPS proofs about them.

All paths below are relative to the repository; `ts/` stands for `server/core/source/ts/`.

## Inventory

| Part | State it keeps | Operations | Hard behaviour |
|---|---|---|---|
| Module supervision: `ts/ModuleManager.ts`, `ts/LanguageModule.ts` (constructor, `start`, `restart`), `ts/SubprocessManagerBase.ts`, `ts/PortAllocator.ts` | registry by language; per module: process, port, 'close' listeners, 2 s timer, client, capabilities; next port | `createFromDir`, `start`, `restart`, `addModule`, `getModule`, `listLanguages`, `once`, `kill`, `getNextPort` | a child exits between any two steps; timer, exit and query race; restart runs inside an exit handler; failed starts |
| Sandbox runner: `ts/DockerSandbox.ts` | process, two output buffers, promise | `run`, `kill` | 'data' after 'exit', kill that is late, input not read, limits, timeout |
| RPC front and pipelines: `ts/ServerCore.ts`, rest of `ts/LanguageModule.ts`, `ts/main.ts` | requests in flight, sandbox details cache, compound results | seven RPCs, `verifyAndInvoke`, `isSupported`, code generation, `GetSandboxDetails`, `ExecuteSandboxedCode` | overlapping requests; a module crashes under a request; one step of several fails |
| Unit tests: `CodegenUnitTests` and harness of each language module, `PerformUnitTests` in `ts/LanguageModule.ts`, `sortedJson` | the generated program's result vectors, its stdout; flags and totals | code generation, test cases, restoring stdout, scoring | test code that throws what is not caught, exits, prints late, returns null; missing results |
| Code generation by compiling: `CodegenManager`, `TempDirectory`, `Utility` and the handlers of the C++, C# and Java modules | temporary directories on the shared disk, the response of each request | creating the directory, writing, building, reading, removing | concurrent handlers, every step may fail, the process may end between two steps, directories left behind |
| Text rewriting: `expandRegex` in `ts/Utility.ts`, `CodegenIOCapture` and `CodegenUnitTests` of every module, the harness templates | none | token expansion, stdin encodings, substitutions into templates | each replacement searches what earlier ones produced; data passes several encodings |
| Logging: `ts/*LogProvider.ts` | none | `info`, `warn`, `error` | none |
| Rest of the language modules (JavaScript, Python, C++, C#, Java) | none | `GetCapabilities`, `GetSandboxDetails`, `GenerateAst` | AST walks |
| Protocol: `server/proto/*.proto` | none | messages of all of the above | which answers a request can get |
| Test harness, documentation generator, docker scripts | files | build and test tooling | none |

**Interaction.** `main` awaits `ServerCore.createServer`, which loads the modules one after the
other, and binds the port only then. Each RPC of a language module looks the module up in the
registry, checks its capability, and awaits calls to the module's child and, for output matching
and unit tests, one sandbox run. Supervision changes the registry in exit events and promise
continuations that run between those awaits. The core is one Node.js thread; children, docker
clients and clients run concurrently with it.

**What makes each part correct.** Supervision: a registered module can be called, a live child is
always watched for its end, starts do not overlap, ports are exclusive, the loader gets through,
every start is decided. Sandbox: successful output is within the limits and complete, a flood is
stopped, a failure is reported, a run settles. Requests: at most one answer each, of a kind its
RPC has, whatever happens to its module, and one for each whose calls come back; compound requests
are all or nothing. Unit tests: a score only
for a complete run, and one that says of each case what the case did. Compiling: a directory is
one request's, an answer is built from the request's own source, nothing stays on disk without a
reason. Rewriting: a token keeps its meaning, a text goes in its own place unchanged, a program
reads the stdin data that was sent.

## Modules

| Module | What it is |
|---|---|
| `ModuleSupervisor` | abstract life cycle of language modules: unloaded, starting, available, restarting, abandoned, and the registry |
| `ModuleManager` | supervision in detail; implements `ModuleSupervisor` |
| `MC_ModuleManager` | constant values for TLC |
| `ModuleManagerProofs` | theorems about `ModuleManager` |
| `DockerSandbox` | one sandbox run in detail |
| `DockerSandboxProofs` | theorems about `DockerSandbox` |
| `RpcService` | abstract service: a request gets one answer of a kind its RPC has |
| `ServerCore` | requests and pipelines, composed with the life cycle of `ModuleSupervisor`; implements `RpcService` |
| `MC_ServerCore` | constant values and the set of requests for TLC |
| `ServerCoreProofs` | theorems about `ServerCore` |
| `UnitTestHarness` | one request for unit tests: the generated program in five languages, its output, its score |
| `MC_UnitTestHarness` | constant values and the test lists for TLC |
| `UnitTestHarnessProofs` | theorems about `UnitTestHarness` |
| `CodegenBuild` | concurrent code generations in temporary directories, in the compiling modules |
| `MC_CodegenBuild` | the names of each module, and the symmetry of requests and names |
| `CodegenBuildProofs` | theorems about `CodegenBuild` |
| `TextRewriting` | token expansion and template filling as functions on short texts |
| `MC_TextRewriting` | the patterns and requests for TLC |
| `TextLemmas` | lemmas about texts: induction over them, reading from left to right, search and replace |
| `TextRewritingProofs` | theorems about templates and tokens: every text is in its own place, every token keeps its meaning |
| `StdinArrivesProofs` | theorems about encodings and literals: stdin data is read as it was sent |

The layers meet in the abstract specifications: `ServerCore` contains `ModuleSupervisor!Next` as
its environment, and `ModuleManager` is shown to implement that specification, so the pipelines
are checked over every life cycle that supervision can produce. Of a sandbox run, `ServerCore`
uses what `DockerSandbox` checks (`RunSettles`): it settles, successfully or not, or the core goes
down (`sandbox_stdin_error`), which ends every request and every module.
`UnitTestHarness` takes up two results of `DockerSandbox`: a run that ends badly is rejected
(`FailureIsReported`), and the output of one that succeeds may be only a prefix
(`sandbox_truncated`).

### ModuleManager

One action is one turn of Node's event loop or one promise continuation. `EventLoopFree` keeps
events waiting while a continuation is queued, as microtasks do. `start[m]` is the promise of the
last `start()`: pending, fulfilled or rejected (its awaiter has not run yet), settled (it has).

| Actions | Code |
|---|---|
| `LoadModule`, `LoadInvalid`, `LoaderAdds`, `LoaderIgnores` | `createFromDir`'s loop body up to the `await`, and after it |
| `Start` (`StillRunning`, `Spawns`, `EmitsError`, `Throws`) | the executor of `start()`; `'error'` is delivered on the next tick, before any other event |
| `ExitUnobserved`, `ExitDuringStart`, `ExitOfRegistered` | the child's 'exit' handler, by the 'close' listeners it finds |
| `TimerFires`, `TimerConnectFails` | the callback of the 2 s timer |
| `QuerySucceeds`, `QueryFails` | the callback of `GetCapabilities` |
| `RestartSucceeded`, `RestartFailed` | continuations of `restart()` in `attemptRestart` |
| `Child*`, `Query*` | the child process and the network (external); a child may live and never answer |

The 2 s of the timer are not modelled: it fires at any time. What a descriptor or command line
says is not modelled either; a descriptor is valid or not. Definitions named `Fault...` are not
part of the specification: each is a plausible mistake in the definition below it, and each
property is known to fail when one of them takes that definition's place (`PROJECT.json`,
"mutants").

### DockerSandbox

Output is counted in units per stream (`written`, `delivered`, `output`), the content is
abstracted away. Program, pipes and event queue are separate actors, so 'data' and 'exit' come in
every order, and data may come after 'exit'. Input that the container has not read when it ends
may fail (`StdinError`) before the 'exit' event destroys the stream. Exit codes are zero and
non-zero; a signal's `null` counts as non-zero, as in `code === 0`. Time is left out: a run with a
timeout may end by it at any moment, a run with `timeout 0` would not.

### ServerCore

One client is one request. A request waits for an AST, for generated code, for sandbox details
or for its sandbox run; each comes back well or badly at any time, because the module behind it
may be alive, crashed, restarting or abandoned and the request keeps its object in any case. `spawned`
holds the clients whose sandbox was started: its stdin may emit the unhandled 'error' even after
the run was settled (`StdinError`), and then `core` is down and nothing happens any more.
`current` and `results` are the loop of `PerformCompoundIOMatch`. The error paths end in three
kinds of answer: an error field (`transmitted`), `UNIMPLEMENTED`, `INTERNAL`. The texts of
sources, patterns and outputs, the merging of common fields and the scoring of tests are
abstracted: they only decide whether a step succeeds.

### UnitTestHarness

| Actions | Code |
|---|---|
| `CodegenFails`, `CodegenReturns` | `PerformUnitTests` up to the sandbox run |
| `BeginTest`, `RunCase`, `CaseEscapes`, `EndTest` | the code generated for one test and one case |
| `PrintResults` | the end of the harness: stdout is put back, the vectors are printed |
| `TestCodePrints`, `TestCodeLeavesWork`, `BackgroundPrints`, `Exits`, `Aborts` | what test code does besides (external) |
| `SandboxRejects`, `Score` | `PerformUnitTests` after the run |

The five languages differ in four respects, the fields of `Harness`: when a vector enters the
list, whether recording a result inspects it, which exceptions a case catches, whether text
printed under redirection survives in a buffer. `output` and `type` of a result are one element of
`Values`; results compare equal in `sortedJson` exactly if they are equal, so `Matches` is
equality. JSON is modelled by when it parses: the printed vectors alone do, vectors with other
text before or after them, a part of them, or nothing at all do not. `did` records what each case
did; it is not in the code, the properties compare the score with it.

### CodegenBuild

One action is one use of the file system or of the compiler by one request; `path`, `error` and
`data` are `tempDir` and the fields of the response, `owner`, `source` and `program` are the disk.
`collided` is not in the code: it holds the names that C# found in existence when it created them,
and the properties name their exception by it. Requests are threads of their module's gRPC server;
all modules use one temporary directory root.

| Actions | Code |
|---|---|
| `CreateUnique` | `createUniqueDirectory` (C++), `Files.createTempDirectory` (Java): one step, fails on a name that exists |
| `DrawName`, `CreateDrawn` | the constructor of C#'s `TempDirectory`: the name is checked, then created, in two steps; a directory that exists by then is taken as one's own |
| `Write`, `WriteFails` | the template files; C++ ignores the result of `writeFile` |
| `Build`, `BuildFails`, `Read`, `ReadFails` | `Utility.execute` with its exit code, and reading what was built; C++'s `readFile` takes an unreadable file for an empty one, and one that it can read in part for a shorter one |
| `Remove`, `RemoveFails` | destructor (C++), `Dispose` (C#), `File.delete()` (Java: only an empty directory) |
| `Crash` | the module's process ends, with all its handlers |

What is assumed: the three modules draw names of different shapes (`NamesAssumption`: LLVM's
`-xxxxxx`, .NET's `xxxxxxxx.xxx`, Java's number), so a name that is drawn twice is drawn twice in C#;
files that are missing or cut off do not compile; the C# build fails where its zip file exists; a
compiler that a crash left running does no harm. Nothing is assumed of the names of one module: two
C# requests may draw one name before either has created it. `DirectoryExclusive` and `AnswerIsOwn`
except those two, which would share a directory; only that the names are random makes it rare. A program is identified with the
request whose source it was built from, so `AnswerIsOwn` compares requests.

### TextRewriting

A text is a sequence of symbols: characters that some replacement, escape or literal treats, and
opaque runs. `Read` goes over a text from left to right; at each place a step says what is put
out and where to go on. `strReplace` is the one-pass replacement of all places, `jsReplace` that
of JavaScript's `String.replace`: one place, with `$` patterns in the new text. `Fills` lists what
each handler puts into its template, in the handler's order. `Received` is the way back: the
literal that the generated program holds, read by the rules of its language. The properties
compare with references that know no order: each token read at its own place (`OnePass`), all
slots filled at once (`Filled`), the stdin data itself. `Encodable` names what an encoding carries:
in JavaScript all but `'` and `$` patterns, in C++ all but the raw string's delimiter and CR LF,
which GCC and current Clang read as LF in a raw string; in Python all but backslashes, carriage
returns and final quotes (of which some survive); in C# and Java everything. `StdinArrives` says
that this data arrives, the theorem `EncodableIsNecessary` that other data does not (Python apart),
and the run `rewriting_stdin_lost` that this is less than the protocol promises. In JavaScript the
data is lost for certain only if the source has no `$` patterns: its own replacement comes second,
and can bring back what the first one lost. The proof failed at this case, and the request
`Restoring` of `MC_TextRewriting` shows it.

In JavaScript's unit tests, the text of a case has gone through one more replacement, of the
invocation into the template of a case (`LanguageModuleImp.ts:87`). The model starts with what came
out of it: `TextsInPlace` says nothing of an invocation or inputs with `$` patterns.

## Runs

| Run | Checks | Result |
|---|---|---|
| `supervision` | types, five safety properties, non-overlapping starts, implementation of `ModuleSupervisor`; and, unless a child lives and never answers, loader finishes, starts settle, the life cycle moves on; 2 modules | pass |
| `supervision_lost_close` | "restart the module if it crashes" | violated |
| `sandbox_run` | limits, flood, buffers, failures, settlement | pass |
| `sandbox_truncated` | "returns the output data" | violated |
| `sandbox_stdin_error` | "transmit any errors to the client" | violated |
| `requests` | compound requests, details, capability, implementation of `RpcService`; and, if a request's own calls come back and the core stays up, that it is answered; 2 clients, 2 modules | pass |
| `requests_nested_language` | nested requests keep their own language | violated |
| `unit_tests` | vectors follow the run, scores only for complete runs, scores are true; 5 languages, 7 test lists | pass |
| `codegen` | directories are exclusive and answers are one's own, unless C# requests draw one name at once; C++ and C# leftovers have a reason; 3 requests, 3 modules, 2 names each | pass |
| `codegen_java_leftover` | "Remove the temporary directory and return the JAR data" | violated |
| `rewriting` | tokens keep their meaning, texts land in their place, encodable stdin arrives; 22,500 patterns, 5,500 requests | pass |
| `rewriting_stdin_lost` | "The string (including any newlines) to be used as the stdin data" | violated |

**What the violations show.** (1) `start()` removes its termination checker before it sends
`GetCapabilities`, and `addModule` listens for 'close' only after the answer: a child that dies
in between is registered dead, and never restarted. (2) `run()` resolves on 'exit', which does
not wait for the pipes. (3) Nothing listens for 'error' on the container's stdin. (4) A compound
request runs in one module, whatever languages its nested requests name. (5) Java's
`File.delete()` does not remove a directory with contents: each code generation leaves its own
behind. (6) JavaScript, Python and C++ change some stdin data on its way into the program.

**What the passing runs say of the code's limits.** Their properties hold with exceptions that
they state: a start is decided unless its child lives and never answers (`StartSettles`,
`LoaderFinishes`, `LifeCycleAdvances`), a request is answered if its own calls come back and the
core stays up (`EveryRequestAnswered`); with `combine`, stderr's data is checked against the stderr
limit, but on the shared buffer, so that output below the combined limit is rejected
(`RejectionJustified`); a test case that returns null in JavaScript, Java or C# is recorded as one
that threw, since the result is asked for its class inside the `try` (`ScoreIsTrue`); two C# requests
that draw one random name before either has created it share a directory (`DirectoryExclusive`,
`AnswerIsOwn`); C++ leaves a directory behind that it cannot remove, and
answers with empty or shortened data and no error when the output cannot be read to its end
(`LeftoversAccountedFor`, `AnswerIsOwn`; Java is left out of the former, see (5)); a `{lbrace}` can
complete a later token or a quantifier (`TokensDenote`); source text with markers or `$` patterns
need not keep its place (`TextsInPlace`); test code that writes results of its own to the real stdout
and exits with code 0 is believed (`CompleteRunScored`, `ScoreIsTrue`; the model has no such code).

**Bounds.** Modules interact through the loader's order, the registry and the ports: with two, one
crashes and restarts while the other is being loaded, or both at once. The safety properties are
also proved, for any number. Nothing bounds the number of crashes and restarts: the port counter
advances only in the loader, so the state space is finite by itself. `MaxOutput = 5` with limits
of three and one lets each stream exceed its limit and the combined one; `Timeouts = {0, 5}` has
the default and an explicit value. Two clients are enough for requests that overlap in one
module's cache; the compound requests have none, one and two nested ones, with and without common
fields, and blank languages. The test lists have up to two tests and two cases, so that results
can be put in the wrong place, and those `PerformUnitTests` stumbles over: no test, a case without
expectation. Background code prints once; more would change nothing. Three requests let two
handlers work in one module while a third is in another one, or follows both; two names per module
let two requests keep apart or meet, and the third find what they left (where both names are taken,
creating a directory fails). `CodegenBuild` is proved for any number of both. Patterns
have up to four pieces (tokens that expand to tokens, to braces and to text, and pieces that braces
can complete), stdin data up to four characters: the longest effects need four, such as a
delimiter inside a delimiter or an escaped triple quote with one quote after it. The run of the lost
stdin data has texts of at most two characters, so that its counterexample is short. What tokens mean,
what texts land where, and which stdin data arrives, is also proved, for texts of any length. Every
run takes seconds, the longest under a minute.
`CHECK_DEADLOCK FALSE` is set in every configuration because each of these systems may come to rest:
every module given up, the run over, every request answered, every text rewritten.

**Fairness.** *ModuleManager*: continuations run as soon as the stack is empty (weak). The event
loop serves every queue in each round, so an exit, timer or gRPC callback that is enabled again
and again is delivered even though continuations disable it in between (strong). A killed child
ends, and a call to a child that does not listen yet or has ended fails (weak); a child need not
start listening, crash, stay alive or answer. *DockerSandbox*: queued events are delivered, a
signalled client ends, `timeout(1)` ends a running program; the program itself owes nothing.
*ServerCore*: a sandbox run settles while the core is up, which is `RunSettles`; clients, modules and
children need not do anything. That the calls of a request come back is no fairness of the system,
since the core sets no deadline on them: it is a premise of `EveryRequestAnswered`
(`CallsComeBack`), for the request in question only. *UnitTestHarness*
states no liveness: that a run ends is `RunSettles`, that a request is answered
`EveryRequestAnswered`. *CodegenBuild* states none either: nothing bounds the time of a build, so
that it ends would be an assumption, and the answer would follow from it step by step.

## Proofs

`tlapm` checks every proof; the theorems hold for every value of the constants under the named
assumptions of the modules (`NumModules` a natural, each module reports one of `Languages`,
`NoModule` is no module; limits are naturals and the default timeout is positive; requests have
their type and only a compound one may leave out its common message; test lists have their type;
`Nothing` and `Partial` are no requests, the modules' directory names differ; the symbols of the code are among `Symbols`, patterns are
texts of them and requests have their type).

* `ModuleManagerProofs`. The properties are not inductive: that a registered module has a
  client and no timer needs to be known from the moment its start was pending. `IInv` therefore
  says, for each state of the start promise, what holds of timer, listeners, query, process and
  failure (`ModuleInv`), that registry entries are modules that started (`RegistryEntry`), and
  that ports lie below the next one and differ (`PortsAllocated`). The proof has one step per
  action. From it follow `NeverStillRunning`, `RegisteredIsCallable`,
  `WatchedOutsideQueryWindow`, `PortExclusive`, `OrphanOnlyAfterFailedQuery`, the action property
  `StartsDoNotOverlap`, and `KeepsLifeCycle`: every step is a step of `ModuleSupervisor` or
  changes nothing there.
* `DockerSandboxProofs`. `IInv` adds that a running client has a process, that no more is
  delivered than written, and that a reason means rejection.
* `ServerCoreProofs`. `IInv` adds what each wait says of its request (`WaitFitsRequest`) and that
  the registry's entries have their own language. It is shown for one client's turn (`OwnTurn`),
  for the other clients (`OtherClients`) and for the modules (`ModulesStep`). `AnswersOnceHolds`
  is the refinement of `RpcService`.
* `UnitTestHarnessProofs`. `IInv` adds to the properties how far the test cases are (`Progress`)
  and that results are on stdout only when all are done (`ResultsLast`): without these the score
  of a run that ended early could not be excluded. Lemmas about `AppendToLast`, the finiteness of
  the cases and the totals carry the data part.
* `CodegenBuildProofs`. That no two requests share a directory does not follow from itself: it
  needs to be known that a request which holds one that was not drawn twice is the one that created
  it (`HoldsOwn`), that only C# names are drawn before they are created (`DrawsOwnNames`), that
  contents come from the creator (`ContentsAreOwners`), that a creator still holds its directory
  or has left it (`AccountedFor`), and how far a response is (`ResponseFits`). The proof has one step
  per action; `HoldersDiffer` is the fact about sharing, `HolderKeepsBooks` what all steps of a
  request inside its own directory have in common.

* `TextLemmas`, `TextRewritingProofs`, `StdinArrivesProofs`. The invariant, `Rewritten`, is short:
  an input is rewritten once, as a whole. The work is in what the functions compute for texts of
  any length. The library's induction theorems cannot be instantiated here, so `TextLemmas` proves
  induction for *sets* from the well-foundedness of `<` (`Induction`, `TextInduction`,
  `StrongInduction`): the texts with a property are a set, and `t` is reached from its tail or from
  any shorter text. `Read` is a recursive function, so `ReadFacts` and the lemmas after it can
  unfold it one place at a time; `strReplace`, `Substituted` and `Literal` are instances of it.
  - *In its place.* A text is `Clear` of a marker if no occurrence of the marker can begin in it,
    whatever follows. Replacing a marker leaves a clear text as it is and goes on behind it
    (`ReplaceClear`), so each template is filled slot by slot; what remains to show is that the
    text in front of the marker is clear, which `Inert` demands of the source and the template's
    own text gives. `TextsInPlaceHolds` follows.
  - *Tokens denote.* `ExpandStages` gives the text after each rule. `After` says what a token has
    become after *k* rules, `Pass` replaces every token of a pattern by that at once. The claim is
    that rule *k* + 1 takes the pass with the meanings after *k* rules to the one after *k* + 1
    (`PassAdvances`, by induction over the tokens of the pattern and the symbols between them). The
    meanings are left alone or replaced as wholes (`AfterTurns`); what could go wrong is a rule
    that finds a token between the meanings. Its name can only come from the pattern, since no
    meaning begins with a name (`AfterBegins`), so its closing brace, or its opening one, came out
    of `{rbrace}` or `{lbrace}`; a token once completed stays to the end (`MarkStays`), where the
    property excludes it. So `expandRegex` is one pass (`ExpandIsOnePass`). That the escaped braces
    read the same is an induction over texts that differ in them only and have their quantifiers
    in the same places (`LikeRegex`). `TokensDenoteHolds` follows.
  - *Stdin arrives.* For each language, encoding the data and reading the literal back are undone
    symbol by symbol. Python needs the quotes counted in threes, with those that stand before the
    closing ones; C++ that an occurrence of the closing sequence is one of the delimiter, that reading
    newlines stops at the closing sequence (`RawNewlinesCat`), and that it makes a text with CR LF
    shorter, as the removal of a delimiter does. In
    JavaScript data passes two string literals and `$` patterns: that nothing but `Encodable`
    data survives is shown by strong induction over what the source's replacement makes of the
    program. `StdinArrivesHolds` follows, and `EncodableIsNecessary`, its converse for C++, C#,
    Java and JavaScript.

**Only model-checked:** the liveness properties (`LoaderFinishes`, `StartSettles`,
`LifeCycleAdvances`, `RunSettles`, `EveryRequestAnswered`), since liveness under fairness is out
of the prover's reach; and the violations, which are counterexamples of small instances. Every
other property of the passing runs is a theorem. Parts of the inductive invariants that no run lists
as a property of its own (`BuffersHoldDelivered`, `NestedInOrder`) are proved only.

## Not modelled

* AST generation (`AstGenerator.cpp`, `AstGenerator.cs`, `AstTransformer.java`,
  `AstTransformer.py`, esprima): stateless walks over trees of the compilers' own classes; a model
  would repeat the walk, and there is no second description of the trees to compare it with.
* The text of errors. `PerformAstMatch` loses a module's error this way (`LanguageModule.ts:222`).
* The merging of common fields in compound requests, and the matching of patterns against output:
  they decide between success and failure in `ServerCore`, no more.
* Two modules that report one language: the crash of the first deletes the entry of the second
  (`ModuleManager.ts:63`). The proofs cover shared languages, the runs have one language per
  module, which is the convention (`README.md:184`).
* Time, and ports outside the core's own allocation (another program on the port shows as a child
  that crashes or a call that fails). That a call without a deadline never returns is in the models, as the exception of the
  liveness properties; no property says how a request or a start ends then, because it does not. The
  unbounded number of concurrent sandboxes has no code that a property could be about.
* Test code that forges its results, and `$` patterns in the invocation of a JavaScript test (see the
  limits of the passing runs, and `TextRewriting`, above).
* Logging, test harness, documentation generator, docker scripts: no state that a property is about.

## Order of the work

`ModuleSupervisor` and `ModuleManager` (the part with most interleavings), `DockerSandbox`,
`RpcService` and `ServerCore`, `UnitTestHarness`, `CodegenBuild`, each with its proofs, then
`TextRewriting` with its own. What could follow: `ServerCore` over `ModuleManager` and
`DockerSandbox` themselves instead of their abstractions, and field merging in compound requests.
