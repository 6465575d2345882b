--------------------------- MODULE ModuleManager ---------------------------
(***************************************************************************)
(* The server core's supervision of its language modules: ModuleManager,   *)
(* LanguageModule.start/restart, SubprocessManagerBase and PortAllocator   *)
(* (server/core/source/ts), with the child processes they talk to.         *)
(*                                                                         *)
(* The core is one Node.js thread.  An action is one turn of its event     *)
(* loop ('exit' event, timer, gRPC callback), or one promise continuation; *)
(* continuations run before the next event (EventLoopFree).  The child     *)
(* process and the network are separate actors that may act between any    *)
(* two of the core's steps.                                                *)
(***************************************************************************)
EXTENDS Naturals

CONSTANTS
  NumModules,   \* number of descriptors found by the glob over the languages directory
  Languages,    \* language identifiers
  LangOf,       \* the language that each module's GetCapabilities reports
  NoModule      \* "no entry" in the registry

Modules == 1..NumModules

ASSUME ModulesAssumption == NumModules \in Nat
ASSUME LanguagesAssumption == LangOf \in [Modules -> Languages]
ASSUME NoModuleAssumption == NoModule \notin Modules

VARIABLES
  loader,       \* descriptor that createFromDir's loop is at
  nextPort,     \* PortAllocator.currPort, counted from main's PORT
  registry,     \* ModuleManager.modules
  process,      \* this.process # null
  port,         \* this.port (0: never started)
  listeners,    \* callbacks of this.events for 'close'
  timer,        \* the 2 s setTimeout of start() is armed
  rpcClient,    \* this.rpcClient # null
  capabilities, \* this.capabilities # null
  start,        \* the promise of the last start(): its state and whether its awaiter ran
  failure,      \* the Error that promise was rejected with
  query,        \* the GetCapabilities call in flight
  child         \* the child process itself

promiseVars == <<start, failure>>
clientVars  == <<rpcClient, capabilities>>
coreVars == <<loader, nextPort, registry, process, port, listeners, timer, clientVars,
              promiseVars>>
vars == <<loader, nextPort, registry, process, port, listeners, timer,
          rpcClient, capabilities, start, failure, query, child>>

Listeners == {"terminationChecker", "attemptRestart"}
Promises  == {"none", "pending", "fulfilled", "rejected", "settled"}
Failures  == {"none", "stillRunning", "spawn", "exit", "query", "connect"}
Queries   == {"none", "sent", "answered", "failed"}

\* "dead": the process has ended and its 'exit' event is not yet delivered.
\* "dying": it was sent SIGTERM.
Children  == {"none", "booting", "serving", "dying", "dead"}

TypeOK ==
  /\ loader \in 1..(NumModules + 1)
  /\ nextPort \in Nat \ {0}
  /\ registry \in [Languages -> Modules \cup {NoModule}]
  /\ process \in [Modules -> BOOLEAN]
  /\ port \in [Modules -> Nat]
  /\ listeners \in [Modules -> SUBSET Listeners]
  /\ timer \in [Modules -> BOOLEAN]
  /\ rpcClient \in [Modules -> BOOLEAN]
  /\ capabilities \in [Modules -> BOOLEAN]
  /\ start \in [Modules -> Promises]
  /\ failure \in [Modules -> Failures]
  /\ query \in [Modules -> Queries]
  /\ child \in [Modules -> Children]

Init ==
  /\ loader = 1
  /\ nextPort = 1
  /\ registry = [l \in Languages |-> NoModule]
  /\ process = [m \in Modules |-> FALSE]
  /\ port = [m \in Modules |-> 0]
  /\ listeners = [m \in Modules |-> {}]
  /\ timer = [m \in Modules |-> FALSE]
  /\ rpcClient = [m \in Modules |-> FALSE]
  /\ capabilities = [m \in Modules |-> FALSE]
  /\ start = [m \in Modules |-> "none"]
  /\ failure = [m \in Modules |-> "none"]
  /\ query = [m \in Modules |-> "none"]
  /\ child = [m \in Modules |-> "none"]

-----------------------------------------------------------------------------
(* Promises and the event loop *)

\* A settled promise whose awaiting continuation is still queued.
Continuing(m) == start[m] \in {"fulfilled", "rejected"}

\* createFromDir is at its next descriptor and has not awaited anything yet.
LoaderReady(m) == m = loader /\ start[m] = "none"

\* Microtasks drain before the event loop delivers another event.
EventLoopFree == \A m \in Modules : ~Continuing(m) /\ ~LoaderReady(m)

\* reject(why) of the start promise: a promise that is settled already ignores it.
Reject(m, why) ==
  IF start[m] = "pending"
  THEN /\ start' = [start EXCEPT ![m] = "rejected"]
       /\ failure' = [failure EXCEPT ![m] = why]
  ELSE UNCHANGED promiseVars

\* Fault: the success branch of the query forgets to resolve.
FaultNoResolve(m) == UNCHANGED promiseVars

\* resolve(true) of the start promise.
Resolve(m) ==
  /\ start' = IF start[m] = "pending" THEN [start EXCEPT ![m] = "fulfilled"] ELSE start
  /\ UNCHANGED failure

\* Fault: removeListener is given another function than the one registered.
FaultRemoveNothing(m, callback) == listeners

Add(m, callback)    == [listeners EXCEPT ![m] = @ \cup {callback}]
Remove(m, callback) == [listeners EXCEPT ![m] = @ \ {callback}]

-----------------------------------------------------------------------------
(* LanguageModule.start(p), run to its end.  proc is this.process and ls    *)
(* the 'close' listeners of the module at the call.                         *)

Promise(m, state, why) ==
  /\ start' = [start EXCEPT ![m] = state]
  /\ failure' = [failure EXCEPT ![m] = why]

StartStillRunning(m, proc, ls) ==
  /\ proc
  /\ Promise(m, "rejected", "stillRunning")
  /\ process' = [process EXCEPT ![m] = proc]
  /\ listeners' = [listeners EXCEPT ![m] = ls]
  /\ UNCHANGED <<port, timer, child>>

\* spawn() creates the child; stdin is closed, the exit handler and the
\* termination checker are registered and the timer is armed.
StartSpawns(m, p, proc, ls) ==
  /\ ~proc
  /\ port' = [port EXCEPT ![m] = p]
  /\ process' = [process EXCEPT ![m] = TRUE]
  /\ child' = [child EXCEPT ![m] = "booting"]
  /\ listeners' = [listeners EXCEPT ![m] = ls \cup {"terminationChecker"}]
  /\ timer' = [timer EXCEPT ![m] = TRUE]
  /\ Promise(m, "pending", "none")

\* spawn() reports its error (ENOENT, EACCES, ...) with an 'error' event on the
\* next tick: the promise is rejected, but the ChildProcess object stays in
\* this.process, and the checker and the timer are in place.
StartEmitsError(m, p, proc, ls) ==
  /\ ~proc
  /\ port' = [port EXCEPT ![m] = p]
  /\ process' = [process EXCEPT ![m] = TRUE]
  /\ child' = [child EXCEPT ![m] = "none"]
  /\ listeners' = [listeners EXCEPT ![m] = ls \cup {"terminationChecker"}]
  /\ timer' = [timer EXCEPT ![m] = TRUE]
  /\ Promise(m, "rejected", "spawn")

\* spawn() throws (EPERM), or returns without stdio (EMFILE) so that the use of
\* stdin throws: the promise's executor ends there.
StartThrows(m, p, proc, ls) ==
  /\ ~proc
  /\ port' = [port EXCEPT ![m] = p]
  /\ \E assigned \in BOOLEAN : process' = [process EXCEPT ![m] = assigned]
  /\ child' = [child EXCEPT ![m] = "none"]
  /\ listeners' = [listeners EXCEPT ![m] = ls]
  /\ Promise(m, "rejected", "spawn")
  /\ UNCHANGED timer

Start(m, p, proc, ls) ==
  /\ \/ StartStillRunning(m, proc, ls)
     \/ StartSpawns(m, p, proc, ls)
     \/ StartEmitsError(m, p, proc, ls)
     \/ StartThrows(m, p, proc, ls)
  /\ UNCHANGED <<rpcClient, capabilities, query>>

-----------------------------------------------------------------------------
(* ModuleManager.createFromDir, one descriptor per iteration *)

\* Faults: the allocator does not advance, or runs downwards.
FaultSamePort == UNCHANGED nextPort
FaultPortsDown == nextPort' = nextPort - 1

\* PortAllocator.getNextPort: the port is used up whatever start() then does.
Allocate == nextPort' = nextPort + 1

\* A valid descriptor: construct the module and await its start.
LoadModule(m) ==
  /\ LoaderReady(m)
  /\ Allocate
  /\ Start(m, nextPort, process[m], listeners[m])
  /\ UNCHANGED <<loader, registry>>

\* The constructor rejects the descriptor: warn and go on.
LoadInvalid(m) ==
  /\ LoaderReady(m)
  /\ loader' = loader + 1
  /\ UNCHANGED <<nextPort, registry, process, port, listeners, timer, clientVars,
                 promiseVars, query, child>>

\* addModule: register the module and watch it for a crash.
AddModule(m) ==
  /\ registry' = [registry EXCEPT ![LangOf[m]] = m]
  /\ listeners' = Add(m, "attemptRestart")

\* The awaiting continuation has run.
Settle(m) == start' = [start EXCEPT ![m] = "settled"] /\ UNCHANGED failure

LoaderAdds(m) ==
  /\ m = loader
  /\ start[m] = "fulfilled"
  /\ Settle(m)
  /\ AddModule(m)
  /\ loader' = loader + 1
  /\ UNCHANGED <<nextPort, process, port, timer, clientVars, query, child>>

\* The start failed: warn and go on. Nothing is done about the module's process.
LoaderIgnores(m) ==
  /\ m = loader
  /\ start[m] = "rejected"
  /\ Settle(m)
  /\ loader' = loader + 1
  /\ UNCHANGED <<nextPort, registry, process, port, listeners, timer, clientVars,
                 query, child>>

-----------------------------------------------------------------------------
(* ModuleManager.attemptRestart: what follows module.restart() *)

RestartSucceeded(m) ==
  /\ m < loader
  /\ start[m] = "fulfilled"
  /\ Settle(m)
  /\ AddModule(m)
  /\ UNCHANGED <<loader, nextPort, process, port, timer, clientVars, query, child>>

\* Fault: the success continuation also runs after a failure (.catch before .then).
FaultAddsFailed(m) ==
  /\ m < loader
  /\ start[m] = "rejected"
  /\ Settle(m)
  /\ AddModule(m)
  /\ UNCHANGED <<loader, nextPort, process, port, timer, clientVars, query, child>>

\* Fault: a failed restart is retried at once.
FaultRetries(m) ==
  /\ m < loader
  /\ start[m] = "rejected"
  /\ Start(m, port[m], process[m], listeners[m])
  /\ UNCHANGED <<loader, nextPort, registry>>

\* The failure is logged, and that is all: there is no second attempt.
RestartFailed(m) ==
  /\ m < loader
  /\ start[m] = "rejected"
  /\ Settle(m)
  /\ UNCHANGED <<loader, nextPort, registry, process, port, listeners, timer,
                 clientVars, query, child>>

-----------------------------------------------------------------------------
(* The 'exit' event: this.process is cleared, then 'close' is emitted to    *)
(* the listeners registered at that moment.                                 *)

\* Fault: 'close' is emitted before this.process is cleared.
FaultEmitFirst(m) == TRUE

\* this.process as the 'close' listeners find it.
ProcessAtClose(m) == FALSE

ExitEvent(m) == EventLoopFree /\ child[m] = "dead"

\* Nobody listens: the module is in its query window, or was given up.
ExitUnobserved(m) ==
  /\ ExitEvent(m)
  /\ listeners[m] = {}
  /\ process' = [process EXCEPT ![m] = ProcessAtClose(m)]
  /\ child' = [child EXCEPT ![m] = "none"]
  /\ UNCHANGED <<loader, nextPort, registry, port, listeners, timer, clientVars,
                 promiseVars, query>>

\* The termination checker rejects the start. The timer stays armed.
ExitDuringStart(m) ==
  /\ ExitEvent(m)
  /\ "terminationChecker" \in listeners[m]
  /\ "attemptRestart" \notin listeners[m]
  /\ process' = [process EXCEPT ![m] = ProcessAtClose(m)]
  /\ child' = [child EXCEPT ![m] = "none"]
  /\ listeners' = Remove(m, "terminationChecker")
  /\ Reject(m, "exit")
  /\ UNCHANGED <<loader, nextPort, registry, port, timer, clientVars, query>>

\* Fault: the crashed module stays in the registry while it restarts.
FaultNoDelete(m) ==
  /\ ExitEvent(m)
  /\ "attemptRestart" \in listeners[m]
  /\ Start(m, port[m], ProcessAtClose(m), {})
  /\ UNCHANGED <<loader, nextPort, registry>>

\* attemptRestart: forget the module, then start it again on the same port.
ExitOfRegistered(m) ==
  /\ ExitEvent(m)
  /\ "attemptRestart" \in listeners[m]
  /\ registry' = [registry EXCEPT ![LangOf[m]] = NoModule]
  /\ Start(m, port[m], ProcessAtClose(m), {})
  /\ UNCHANGED <<loader, nextPort>>

-----------------------------------------------------------------------------
(* The timer callback of start() *)

TimerFires(m) ==
  /\ EventLoopFree
  /\ timer[m]
  /\ timer' = [timer EXCEPT ![m] = FALSE]
  /\ rpcClient' = [rpcClient EXCEPT ![m] = TRUE]
  /\ listeners' = Remove(m, "terminationChecker")
  /\ query' = [query EXCEPT ![m] = "sent"]
  /\ UNCHANGED <<loader, nextPort, registry, process, port, capabilities, promiseVars,
                 child>>

\* Fault: the child is not killed.
FaultNoKill(m) == UNCHANGED child

\* SubprocessManagerBase.kill: SIGTERM to the child, if there is one.
Kill(m) ==
  child' = IF process[m] /\ child[m] \in {"booting", "serving"}
           THEN [child EXCEPT ![m] = "dying"] ELSE child

\* Fault: the catch block does not reject.
FaultConnectErrorLost(m) ==
  /\ EventLoopFree
  /\ timer[m]
  /\ timer' = [timer EXCEPT ![m] = FALSE]
  /\ listeners' = Remove(m, "terminationChecker")
  /\ Kill(m)
  /\ UNCHANGED <<loader, nextPort, registry, process, port, clientVars, promiseVars, query>>

\* Creating the client, or issuing the call on it, throws.
TimerConnectFails(m) ==
  /\ EventLoopFree
  /\ timer[m]
  /\ timer' = [timer EXCEPT ![m] = FALSE]
  /\ \E made \in BOOLEAN : rpcClient' = [rpcClient EXCEPT ![m] = @ \/ made]
  /\ listeners' = Remove(m, "terminationChecker")
  /\ Kill(m)
  /\ Reject(m, "connect")
  /\ UNCHANGED <<loader, nextPort, registry, process, port, capabilities, query>>

\* The callback of the GetCapabilities call.
QuerySucceeds(m) ==
  /\ EventLoopFree
  /\ query[m] = "answered"
  /\ query' = [query EXCEPT ![m] = "none"]
  /\ capabilities' = [capabilities EXCEPT ![m] = TRUE]
  /\ Resolve(m)
  /\ UNCHANGED <<loader, nextPort, registry, process, port, listeners, timer, rpcClient,
                 child>>

\* Fault: an error of the query is only logged.
FaultQueryErrorLost(m) ==
  /\ EventLoopFree
  /\ query[m] = "failed"
  /\ query' = [query EXCEPT ![m] = "none"]
  /\ UNCHANGED <<coreVars, child>>

QueryFails(m) ==
  /\ EventLoopFree
  /\ query[m] = "failed"
  /\ query' = [query EXCEPT ![m] = "none"]
  /\ Reject(m, "query")
  /\ UNCHANGED <<loader, nextPort, registry, process, port, listeners, timer, clientVars,
                 child>>

-----------------------------------------------------------------------------
(* The child process and its gRPC server *)

ChildStep(m, from, to) ==
  /\ child[m] \in from
  /\ child' = [child EXCEPT ![m] = to]
  /\ UNCHANGED <<coreVars, query>>

ChildListens(m) == ChildStep(m, {"booting"}, "serving")

\* A crash at any time, or the end that SIGTERM brings about.
ChildCrashes(m) == ChildStep(m, {"booting", "serving"}, "dead")
ChildDies(m)    == ChildStep(m, {"dying"}, "dead")

QueryStep(m, outcome) ==
  /\ query[m] = "sent"
  /\ query' = [query EXCEPT ![m] = outcome]
  /\ UNCHANGED <<coreVars, child>>

QueryAnswered(m) == child[m] = "serving" /\ QueryStep(m, "answered")

\* Connection refused or lost, or an error status from the module.
QueryRefused(m) == QueryStep(m, "failed")

-----------------------------------------------------------------------------
Continue(m) == \/ LoadModule(m) \/ LoadInvalid(m) \/ LoaderAdds(m) \/ LoaderIgnores(m)
               \/ RestartSucceeded(m) \/ RestartFailed(m)

Exit(m)  == ExitUnobserved(m) \/ ExitDuringStart(m) \/ ExitOfRegistered(m)
Timer(m) == TimerFires(m) \/ TimerConnectFails(m)
Reply(m) == QuerySucceeds(m) \/ QueryFails(m)
Child(m) == ChildListens(m) \/ ChildCrashes(m) \/ ChildDies(m)
Network(m) == QueryAnswered(m) \/ QueryRefused(m)

Next == \E m \in Modules :
          Continue(m) \/ Exit(m) \/ Timer(m) \/ Reply(m) \/ Child(m) \/ Network(m)

(***************************************************************************)
(* Fairness.  Continuations run as soon as the stack is empty.  An event   *)
(* stays queued until the loop delivers it, and the loop serves every      *)
(* queue in each of its rounds: an event that is enabled again and again   *)
(* is delivered, even though EventLoopFree is false in between.  A signal  *)
(* ends its process, and a call to a port where nobody listens, or whose   *)
(* server has gone, fails.  A child that serves owes no answer: the call   *)
(* has no deadline (LanguageModule.ts:135).                                *)
(***************************************************************************)
Fairness == \A m \in Modules :
  /\ WF_vars(Continue(m))
  /\ SF_vars(Exit(m))
  /\ SF_vars(Timer(m))
  /\ SF_vars(Reply(m))
  /\ WF_vars(ChildDies(m))
  /\ WF_vars(child[m] # "serving" /\ QueryRefused(m))

Safety == Init /\ [][Next]_vars
Spec   == Safety /\ Fairness

-----------------------------------------------------------------------------
(* Properties *)

Registered(m) == registry[LangOf[m]] = m
Alive(m)      == child[m] \in {"booting", "serving"}
GivenUp(m)    == start[m] = "settled" /\ failure[m] # "none"

\* Between sending GetCapabilities and addModule, 'close' has no listener.
QueryWindow(m) == query[m] # "none" \/ start[m] = "fulfilled"

\* attemptRestart runs inside the 'close' emitted by the dying process's own exit
\* handler, and restarts the module at once: start() must never find the previous
\* process still there (LanguageModule.ts:68, 113).
NeverStillRunning == \A m \in Modules : failure[m] # "stillRunning"

\* A module that getModule can return has a client and capabilities to use
\* (ListCapabilities and every RPC dereference them unchecked), was started
\* successfully, and is watched or has a crash in the past.
RegisteredIsCallable ==
  \A l \in Languages : registry[l] # NoModule =>
    LET m == registry[l]
    IN  /\ LangOf[m] = l
        /\ rpcClient[m] /\ capabilities[m]
        /\ start[m] = "settled" /\ failure[m] = "none"
        /\ query[m] = "none" /\ ~timer[m]

\* A live child that was not given up has exactly one 'close' listener, the
\* termination checker until its timer fires and attemptRestart once it is
\* registered; only the query window leaves it with none.
WatchedOutsideQueryWindow ==
  \A m \in Modules : Alive(m) /\ ~GivenUp(m) /\ failure[m] = "none" /\ ~QueryWindow(m) =>
    listeners[m] = IF start[m] = "settled" THEN {"attemptRestart"}
                   ELSE {"terminationChecker"}

\* Two modules are never told to listen on one port, however many descriptors
\* failed, and a restart takes no port of another module.
PortExclusive ==
  \A m, k \in Modules : m # k /\ port[m] # 0 => port[m] # port[k]

\* A process left running by a failed start is the result of a failed capabilities
\* query, the one failure after which start() kills nothing (LanguageModule.ts:137).
OrphanOnlyAfterFailedQuery ==
  \A m \in Modules : GivenUp(m) /\ Alive(m) => failure[m] = "query"

\* No process is started while the timer or the query of an earlier start of the
\* same module is outstanding: they would speak for the wrong process.
StartsDoNotOverlap ==
  [][\A m \in Modules : child[m] # "booting" /\ child'[m] = "booting" =>
       ~timer[m] /\ query[m] = "none"]_vars

\* The child took the GetCapabilities call and says nothing.
Silent(m) == query[m] = "sent" /\ child[m] = "serving"

\* createFromDir gets through all descriptors, however their children crash, hang
\* before they listen or refuse, so the server core comes up (main.ts binds its port
\* only then). One child can prevent it: one that listens, lives and never answers
\* GetCapabilities, a call without a deadline.
LoaderFinishes == <>(loader = NumModules + 1) \/ \E m \in Modules : <>[]Silent(m)

\* Every start is decided, and with it every restart after a crash, unless the module's
\* own child lives and never answers GetCapabilities.
StartSettles ==
  \A m \in Modules : ((start[m] = "pending") ~> (start[m] = "settled")) \/ <>[]Silent(m)

-----------------------------------------------------------------------------
(* What comments in the code say, and other interleavings refute *)

\* "Attempt to restart the module if it crashes" (ModuleManager.ts:82): the crash of
\* a registered module is followed by an attempt to start it again.
CrashIsNoticed ==
  \A m \in Modules : (Registered(m) /\ child[m] = "none") ~> (start[m] # "settled")

-----------------------------------------------------------------------------
(* The inductive invariant behind these properties: what each state of the  *)
(* start promise says about the rest of the module (ModuleManagerProofs).   *)

UnstartedIsBlank(m) == start[m] = "none" =>
  /\ ~process[m] /\ ~timer[m] /\ listeners[m] = {}
  /\ query[m] = "none" /\ failure[m] = "none" /\ child[m] = "none" /\ port[m] = 0

LoaderPosition(m) == /\ m > loader => start[m] = "none"
                     /\ m = loader => start[m] # "settled"

PendingIsTimedThenQueried(m) == start[m] = "pending" =>
  /\ failure[m] = "none"
  /\ timer[m] => listeners[m] = {"terminationChecker"} /\ query[m] = "none"
  /\ ~timer[m] => listeners[m] = {} /\ query[m] # "none" /\ rpcClient[m]

Succeeded(m) == start[m] = "fulfilled" \/ (start[m] = "settled" /\ failure[m] = "none")

SucceededIsReady(m) == Succeeded(m) =>
  /\ failure[m] = "none"
  /\ rpcClient[m] /\ capabilities[m] /\ ~timer[m] /\ query[m] = "none"
  /\ listeners[m] = IF start[m] = "settled" THEN {"attemptRestart"} ELSE {}

Failed(m) == start[m] \in {"rejected", "settled"} /\ failure[m] # "none"

FailedIsForgotten(m) == Failed(m) =>
  /\ "attemptRestart" \notin listeners[m]
  /\ failure[m] # "stillRunning"
  /\ failure[m] \in {"exit", "spawn"} => child[m] = "none"
  /\ failure[m] = "connect" => ~Alive(m)

RejectedHasReason(m) == start[m] = "rejected" => failure[m] # "none"

ChildIsHeld(m) == child[m] # "none" => process[m]

RegistryEntry(l) == registry[l] # NoModule =>
  /\ LangOf[registry[l]] = l
  /\ start[registry[l]] = "settled"
  /\ failure[registry[l]] = "none"

PortsAllocated == /\ \A m \in Modules : port[m] < nextPort
                  /\ PortExclusive

ModuleInv(m) ==
  /\ UnstartedIsBlank(m) /\ LoaderPosition(m) /\ PendingIsTimedThenQueried(m)
  /\ SucceededIsReady(m) /\ FailedIsForgotten(m) /\ RejectedHasReason(m)
  /\ ChildIsHeld(m)

IInv == /\ TypeOK
        /\ \A m \in Modules : ModuleInv(m)
        /\ \A l \in Languages : RegistryEntry(l)
        /\ PortsAllocated

-----------------------------------------------------------------------------
(* The life cycle that ModuleSupervisor describes *)

Status(m) ==
  IF m > loader \/ LoaderReady(m) THEN "unloaded"
  ELSE IF m = loader THEN "starting"
  ELSE IF start[m] = "none" \/ GivenUp(m) THEN "abandoned"
  ELSE IF start[m] = "settled" THEN "available" ELSE "restarting"

Supervisor == INSTANCE ModuleSupervisor
                WITH status <- [m \in Modules |-> Status(m)]

\* Every step of the supervision code is a step of the promised life cycle, or none.
KeepsLifeCycle == Supervisor!Safety

\* And the life cycle moves on: loading proceeds, and starts and restarts are decided,
\* for every module but one whose child lives and never answers GetCapabilities.
LifeCycleAdvances == \A m \in Modules : Supervisor!Proceeds(m) \/ <>[]Silent(m)
=============================================================================
