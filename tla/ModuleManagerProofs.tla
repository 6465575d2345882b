------------------------ MODULE ModuleManagerProofs ------------------------
(***************************************************************************)
(* Proofs about ModuleManager, for any number of modules and languages.    *)
(***************************************************************************)
EXTENDS ModuleManager, TLAPS

\* Whatever start() does, it leaves the module's variables in their types.
LEMMA StartTypes ==
  ASSUME TypeOK, NEW m \in Modules, NEW p \in Nat, NEW proc \in BOOLEAN,
         NEW ls \in SUBSET Listeners, Start(m, p, proc, ls)
  PROVE  /\ process' \in [Modules -> BOOLEAN]
         /\ port' \in [Modules -> Nat]
         /\ listeners' \in [Modules -> SUBSET Listeners]
         /\ timer' \in [Modules -> BOOLEAN]
         /\ rpcClient' \in [Modules -> BOOLEAN]
         /\ capabilities' \in [Modules -> BOOLEAN]
         /\ start' \in [Modules -> Promises]
         /\ failure' \in [Modules -> Failures]
         /\ query' \in [Modules -> Queries]
         /\ child' \in [Modules -> Children]
<1> USE DEF TypeOK, Listeners, Promises, Failures, Children, Promise
<1>1. CASE StartStillRunning(m, proc, ls)
  BY <1>1 DEF Start, StartStillRunning
<1>2. CASE StartSpawns(m, p, proc, ls)
  BY <1>2 DEF Start, StartSpawns
<1>3. CASE StartEmitsError(m, p, proc, ls)
  BY <1>3 DEF Start, StartEmitsError
<1>4. CASE StartThrows(m, p, proc, ls)
  BY <1>4 DEF Start, StartThrows
<1>5. QED
  BY <1>1, <1>2, <1>3, <1>4 DEF Start

\* Every step leaves the variables in their types.
LEMMA TypeStep == TypeOK /\ [Next]_vars => TypeOK'
<1> SUFFICES ASSUME TypeOK, [Next]_vars PROVE TypeOK'
  OBVIOUS
<1> USE ModulesAssumption, LanguagesAssumption
    DEF TypeOK, Modules, Listeners, Promises, Failures, Queries, Children
<1>1. CASE UNCHANGED vars
  BY <1>1 DEF vars
<1>2. ASSUME NEW m \in Modules, LoadModule(m) PROVE TypeOK'
  <2>1. /\ nextPort \in Nat /\ process[m] \in BOOLEAN /\ listeners[m] \in SUBSET Listeners
        /\ Start(m, nextPort, process[m], listeners[m])
    BY <1>2 DEF LoadModule
  <2>2. nextPort' \in Nat \ {0} /\ UNCHANGED <<loader, registry>>
    BY <1>2 DEF LoadModule, Allocate
  <2>3. QED
    BY <2>1, <2>2, StartTypes
<1>3. ASSUME NEW m \in Modules, LoadInvalid(m) PROVE TypeOK'
  BY <1>3 DEF LoadInvalid, LoaderReady, clientVars, promiseVars
<1>4. ASSUME NEW m \in Modules, LoaderAdds(m) PROVE TypeOK'
  BY <1>4 DEF LoaderAdds, Settle, AddModule, Add, clientVars
<1>5. ASSUME NEW m \in Modules, LoaderIgnores(m) PROVE TypeOK'
  BY <1>5 DEF LoaderIgnores, Settle, clientVars
<1>6. ASSUME NEW m \in Modules, RestartSucceeded(m) PROVE TypeOK'
  BY <1>6 DEF RestartSucceeded, Settle, AddModule, Add, clientVars
<1>7. ASSUME NEW m \in Modules, RestartFailed(m) PROVE TypeOK'
  BY <1>7 DEF RestartFailed, Settle, clientVars
<1>8. ASSUME NEW m \in Modules, ExitUnobserved(m) PROVE TypeOK'
  BY <1>8 DEF ExitUnobserved, ProcessAtClose, clientVars, promiseVars
<1>9. ASSUME NEW m \in Modules, ExitDuringStart(m) PROVE TypeOK'
  BY <1>9 DEF ExitDuringStart, ProcessAtClose, Remove, Reject, clientVars, promiseVars
<1>10. ASSUME NEW m \in Modules, ExitOfRegistered(m) PROVE TypeOK'
  <2>1. port[m] \in Nat /\ FALSE \in BOOLEAN /\ {} \in SUBSET Listeners
        /\ Start(m, port[m], FALSE, {})
    BY <1>10 DEF ExitOfRegistered, ProcessAtClose
  <2>2. QED
    BY <1>10, <2>1, StartTypes DEF ExitOfRegistered
<1>11. ASSUME NEW m \in Modules, TimerFires(m) PROVE TypeOK'
  BY <1>11 DEF TimerFires, Remove, promiseVars
<1>12. ASSUME NEW m \in Modules, TimerConnectFails(m) PROVE TypeOK'
  BY <1>12 DEF TimerConnectFails, Remove, Kill, Reject, promiseVars
<1>13. ASSUME NEW m \in Modules, QuerySucceeds(m) PROVE TypeOK'
  BY <1>13 DEF QuerySucceeds, Resolve
<1>14. ASSUME NEW m \in Modules, QueryFails(m) PROVE TypeOK'
  BY <1>14 DEF QueryFails, Reject, clientVars, promiseVars
<1>15. ASSUME NEW m \in Modules, Child(m) PROVE TypeOK'
  BY <1>15 DEF Child, ChildListens, ChildCrashes, ChildDies, ChildStep, coreVars,
               clientVars, promiseVars
<1>16. ASSUME NEW m \in Modules, Network(m) PROVE TypeOK'
  BY <1>16 DEF Network, QueryAnswered, QueryRefused, QueryStep, coreVars, clientVars,
               promiseVars
<1>17. QED
  BY <1>1, <1>2, <1>3, <1>4, <1>5, <1>6, <1>7, <1>8, <1>9, <1>10, <1>11, <1>12, <1>13,
     <1>14, <1>15, <1>16 DEF Next, Continue, Exit, Timer, Reply

\* The variables hold what the program's fields, events and processes can be.
THEOREM TypeCorrect == Safety => []TypeOK
<1>1. Init => TypeOK
  BY ModulesAssumption DEF Init, TypeOK, Listeners, Promises, Failures, Queries, Children
<1>2. QED
  BY <1>1, TypeStep, PTL DEF Safety

-----------------------------------------------------------------------------
(* The inductive invariant *)

Act(m) == Continue(m) \/ Exit(m) \/ Timer(m) \/ Reply(m) \/ Child(m) \/ Network(m)

\* Nothing of module k changes.
Untouched(k) ==
  /\ process'[k] = process[k] /\ port'[k] = port[k] /\ listeners'[k] = listeners[k]
  /\ timer'[k] = timer[k] /\ rpcClient'[k] = rpcClient[k]
  /\ capabilities'[k] = capabilities[k] /\ start'[k] = start[k]
  /\ failure'[k] = failure[k] /\ query'[k] = query[k] /\ child'[k] = child[k]

\* An action of one module touches no other module.
LEMMA OthersUntouched ==
  ASSUME TypeOK, NEW m \in Modules, NEW k \in Modules, k # m, Act(m)
  PROVE  Untouched(k)
<1> USE DEF TypeOK, Untouched
<1>1. ASSUME NEW p, NEW proc, NEW ls, Start(m, p, proc, ls) PROVE Untouched(k)
  BY <1>1 DEF Start, StartStillRunning, StartSpawns, StartEmitsError, StartThrows, Promise
<1>2. CASE LoadModule(m)
  BY <1>1, <1>2 DEF LoadModule
<1>3. CASE ExitOfRegistered(m)
  BY <1>1, <1>3 DEF ExitOfRegistered
<1>4. CASE LoadInvalid(m) \/ LoaderAdds(m) \/ LoaderIgnores(m) \/ RestartSucceeded(m)
           \/ RestartFailed(m)
  BY <1>4 DEF LoadInvalid, LoaderAdds, LoaderIgnores, RestartSucceeded, RestartFailed,
              Settle, AddModule, Add, clientVars, promiseVars
<1>5. CASE ExitUnobserved(m) \/ ExitDuringStart(m)
  BY <1>5 DEF ExitUnobserved, ExitDuringStart, Remove, Reject, clientVars, promiseVars
<1>6. CASE Timer(m)
  BY <1>6 DEF Timer, TimerFires, TimerConnectFails, Remove, Kill, Reject, promiseVars
<1>7. CASE Reply(m)
  BY <1>7 DEF Reply, QuerySucceeds, QueryFails, Resolve, Reject, clientVars, promiseVars
<1>8. CASE Child(m)
  BY <1>8 DEF Child, ChildListens, ChildCrashes, ChildDies, ChildStep, coreVars,
              clientVars, promiseVars
<1>9. CASE Network(m)
  BY <1>9 DEF Network, QueryAnswered, QueryRefused, QueryStep, coreVars, clientVars,
              promiseVars
<1>10. QED
  BY <1>2, <1>3, <1>4, <1>5, <1>6, <1>7, <1>8, <1>9 DEF Act, Continue, Exit

\* A start() of a module with nothing outstanding, of a module that is no longer
\* registered, establishes what is promised of a pending or a failed start.
LEMMA StartEstablishes ==
  ASSUME TypeOK, NEW m \in Modules, NEW p, Start(m, p, FALSE, {}),
         ~timer[m], query[m] = "none"
  PROVE  /\ start'[m] \in {"pending", "rejected"}
         /\ UnstartedIsBlank(m)' /\ PendingIsTimedThenQueried(m)' /\ SucceededIsReady(m)'
         /\ FailedIsForgotten(m)' /\ RejectedHasReason(m)' /\ ChildIsHeld(m)'
         /\ port'[m] = p
<1> USE DEF TypeOK, Promise, UnstartedIsBlank, PendingIsTimedThenQueried, Succeeded,
            SucceededIsReady, Failed, FailedIsForgotten, RejectedHasReason, ChildIsHeld, Alive
<1>1. CASE StartSpawns(m, p, FALSE, {})
  BY <1>1 DEF Start, StartSpawns
<1>2. CASE StartEmitsError(m, p, FALSE, {})
  BY <1>2 DEF Start, StartEmitsError
<1>3. CASE StartThrows(m, p, FALSE, {})
  BY <1>3 DEF Start, StartThrows
<1>4. QED
  BY <1>1, <1>2, <1>3 DEF Start, StartStillRunning

\* What the promise of a module says about the module survives the module's own steps.
LEMMA OwnStep ==
  ASSUME TypeOK, NEW m \in Modules, ModuleInv(m), Act(m)
  PROVE  ModuleInv(m)'
<1> loader \in Nat /\ m \in Nat
  BY ModulesAssumption DEF TypeOK, Modules
<1> USE DEF ModuleInv
<1>1. CASE LoadModule(m)
  <2>1. Start(m, nextPort, FALSE, {}) /\ ~timer[m] /\ query[m] = "none" /\ loader' = loader
    BY <1>1 DEF LoadModule, LoaderReady, UnstartedIsBlank, TypeOK
  <2>2. start'[m] \in {"pending", "rejected"}
    BY <2>1, StartEstablishes
  <2>3. LoaderPosition(m)'
    BY <1>1, <2>1, <2>2 DEF LoadModule, LoaderReady, LoaderPosition
  <2>4. QED
    BY <2>1, <2>3, StartEstablishes
<1>2. CASE ExitOfRegistered(m)
  <2>1. start[m] = "settled" /\ failure[m] = "none"
    BY <1>2 DEF ExitOfRegistered, UnstartedIsBlank, PendingIsTimedThenQueried, Succeeded,
                SucceededIsReady, Failed, FailedIsForgotten, RejectedHasReason, TypeOK,
                Promises
  <2>2. Start(m, port[m], FALSE, {}) /\ ~timer[m] /\ query[m] = "none" /\ loader' = loader
    BY <1>2, <2>1 DEF ExitOfRegistered, ProcessAtClose, Succeeded, SucceededIsReady
  <2>3. LoaderPosition(m)'
    BY <2>1, <2>2, StartEstablishes DEF LoaderPosition
  <2>4. QED
    BY <2>2, <2>3, StartEstablishes
<1> USE DEF UnstartedIsBlank, LoaderPosition, PendingIsTimedThenQueried, Succeeded,
            SucceededIsReady, Failed, FailedIsForgotten, RejectedHasReason, ChildIsHeld,
            Alive, TypeOK
<1>3. CASE LoadInvalid(m)
  BY <1>3 DEF LoadInvalid, LoaderReady, clientVars, promiseVars
<1>4. CASE LoaderAdds(m) \/ RestartSucceeded(m)
  <2>1. start[m] = "fulfilled" /\ start'[m] = "settled" /\ listeners'[m] = {"attemptRestart"}
    BY <1>4 DEF LoaderAdds, RestartSucceeded, Settle, AddModule, Add
  <2>2. loader' \in Nat
    BY <1>4 DEF LoaderAdds, RestartSucceeded
  <2>3. UNCHANGED <<process, port, timer, rpcClient, capabilities, failure, query, child>>
    BY <1>4 DEF LoaderAdds, RestartSucceeded, Settle, clientVars
  <2>4. m < loader'
    BY <1>4 DEF LoaderAdds, RestartSucceeded
  <2>5. LoaderPosition(m)'
    BY <2>2, <2>4
  <2>6. QED
    BY <2>1, <2>3, <2>5
<1>5. CASE LoaderIgnores(m) \/ RestartFailed(m)
  BY <1>5 DEF LoaderIgnores, RestartFailed, Settle, clientVars
<1>6. CASE ExitUnobserved(m)
  BY <1>6 DEF ExitUnobserved, ExitEvent, ProcessAtClose, clientVars, promiseVars
<1>7. CASE ExitDuringStart(m)
  BY <1>7 DEF ExitDuringStart, ExitEvent, ProcessAtClose, Remove, Reject, clientVars,
              promiseVars
<1>8. CASE TimerFires(m)
  BY <1>8 DEF TimerFires, EventLoopFree, Continuing, Remove, promiseVars, Promises
<1>9. CASE TimerConnectFails(m)
  BY <1>9 DEF TimerConnectFails, EventLoopFree, Continuing, Remove, Kill, Reject, promiseVars
<1>10. CASE QuerySucceeds(m)
  BY <1>10 DEF QuerySucceeds, Resolve
<1>11. CASE QueryFails(m)
  BY <1>11 DEF QueryFails, Reject, clientVars, promiseVars
<1>12. CASE Child(m)
  BY <1>12 DEF Child, ChildListens, ChildCrashes, ChildDies, ChildStep, coreVars,
               clientVars, promiseVars
<1>13. CASE Network(m)
  BY <1>13 DEF Network, QueryAnswered, QueryRefused, QueryStep, coreVars, clientVars,
               promiseVars
<1>14. QED
  BY <1>1, <1>2, <1>3, <1>4, <1>5, <1>6, <1>7, <1>8, <1>9, <1>10, <1>11, <1>12, <1>13
     DEF Act, Continue, Exit, Timer, Reply

\* The loader moves on only past the module it is at, and only one module further.
LEMMA LoaderStep ==
  ASSUME TypeOK, NEW m \in Modules, Act(m)
  PROVE  \/ loader' = loader
         \/ m = loader /\ loader' = loader + 1
BY DEF Act, Continue, LoadModule, LoadInvalid, LoaderReady, LoaderAdds, LoaderIgnores,
       RestartSucceeded, RestartFailed, Exit, ExitUnobserved, ExitDuringStart,
       ExitOfRegistered, Timer, TimerFires, TimerConnectFails, Reply, QuerySucceeds,
       QueryFails, Child, ChildListens, ChildCrashes, ChildDies, ChildStep, Network,
       QueryAnswered, QueryRefused, QueryStep, coreVars

\* A step of one module keeps what is said of every other module.
LEMMA OtherStep ==
  ASSUME TypeOK, NEW m \in Modules, NEW k \in Modules, k # m, ModuleInv(k), Act(m)
  PROVE  ModuleInv(k)'
<1>1. loader \in Nat /\ m \in Nat /\ k \in Nat
  BY ModulesAssumption DEF TypeOK, Modules
<1>2. Untouched(k)
  BY OthersUntouched
<1>3. LoaderPosition(k)'
  <2>1. (k > loader => start'[k] = "none") /\ (k = loader => start'[k] # "settled")
    BY <1>2 DEF ModuleInv, LoaderPosition, Untouched
  <2>2. CASE loader' = loader
    BY <2>1, <2>2 DEF LoaderPosition
  <2>3. CASE m = loader /\ loader' = loader + 1
    BY <1>1, <2>1, <2>3 DEF LoaderPosition
  <2>4. QED
    BY <2>2, <2>3, LoaderStep
<1>4. QED
  BY <1>2, <1>3 DEF ModuleInv, Untouched, UnstartedIsBlank, PendingIsTimedThenQueried,
     Succeeded, SucceededIsReady, Failed, FailedIsForgotten, RejectedHasReason, ChildIsHeld,
     Alive

\* A module enters the registry with a successful start and leaves it with its crash;
\* only a registered module is restarted.
LEMMA RegistryStep ==
  ASSUME TypeOK, NEW m \in Modules, \A k \in Modules : ModuleInv(k),
         \A l \in Languages : RegistryEntry(l), Act(m)
  PROVE  \A l \in Languages : RegistryEntry(l)'
<1> SUFFICES ASSUME NEW l \in Languages, registry'[l] # NoModule
             PROVE  /\ LangOf[registry'[l]] = l
                    /\ start'[registry'[l]] = "settled"
                    /\ failure'[registry'[l]] = "none"
  BY DEF RegistryEntry
<1> USE LanguagesAssumption, NoModuleAssumption DEF TypeOK
<1>1. CASE LoaderAdds(m) \/ RestartSucceeded(m)
  <2>1. /\ registry' = [registry EXCEPT ![LangOf[m]] = m]
        /\ start' = [start EXCEPT ![m] = "settled"] /\ UNCHANGED failure
        /\ start[m] = "fulfilled"
    BY <1>1 DEF LoaderAdds, RestartSucceeded, AddModule, Settle
  <2>2. failure[m] = "none"
    BY <2>1 DEF ModuleInv, Succeeded, SucceededIsReady
  <2>3. QED
    BY <2>1, <2>2 DEF RegistryEntry
<1>2. CASE ExitOfRegistered(m)
  <2>1. registry' = [registry EXCEPT ![LangOf[m]] = NoModule]
    BY <1>2 DEF ExitOfRegistered
  <2>2. registry'[l] = registry[l] /\ registry[l] \in Modules /\ registry[l] # m
    BY <2>1 DEF RegistryEntry
  <2>3. Untouched(registry[l])
    BY <1>2, <2>2, OthersUntouched DEF Act, Exit
  <2>4. QED
    BY <2>2, <2>3 DEF RegistryEntry, Untouched
<1>3. CASE ~(LoaderAdds(m) \/ RestartSucceeded(m) \/ ExitOfRegistered(m))
  <2>1. UNCHANGED registry
    BY <1>3 DEF Act, Continue, LoadModule, LoadInvalid, LoaderIgnores,
       RestartFailed, Exit, ExitUnobserved, ExitDuringStart, Timer, TimerFires,
       TimerConnectFails, Reply, QuerySucceeds, QueryFails, Child, ChildListens,
       ChildCrashes, ChildDies, ChildStep, Network, QueryAnswered, QueryRefused, QueryStep,
       coreVars
  <2>2. CASE registry[l] # m
    BY <2>1, <2>2, OthersUntouched DEF RegistryEntry, Untouched
  <2>3. CASE registry[l] = m
    <3>1. start[m] = "settled" /\ failure[m] = "none" /\ LangOf[m] = l
      BY <2>1, <2>3 DEF RegistryEntry
    <3>2. start'[m] = "settled" /\ failure'[m] = "none"
      <4>1. ~LoadModule(m) /\ ~LoaderIgnores(m) /\ ~RestartFailed(m)
        BY <3>1 DEF LoadModule, LoaderReady, LoaderIgnores, RestartFailed
      <4>2. QED
        BY <1>3, <3>1, <4>1 DEF Act, Continue, LoadInvalid, Exit, ExitUnobserved,
           ExitDuringStart, Reject, Timer, TimerFires, TimerConnectFails, Reply,
           QuerySucceeds, Resolve, QueryFails, Child, ChildListens, ChildCrashes, ChildDies,
           ChildStep, Network, QueryAnswered, QueryRefused, QueryStep, coreVars, promiseVars
    <3>3. QED
      BY <2>1, <2>3, <3>1, <3>2
  <2>4. QED
    BY <2>2, <2>3
<1>4. QED
  BY <1>1, <1>2, <1>3

\* A new port is larger than every port in use, and a restart reuses the module's own.
LEMMA PortStep ==
  ASSUME TypeOK, NEW m \in Modules, \A k \in Modules : ModuleInv(k), PortsAllocated, Act(m)
  PROVE  PortsAllocated'
<1> USE DEF TypeOK, PortsAllocated, PortExclusive
<1>1. CASE LoadModule(m)
  <2>1. Start(m, nextPort, FALSE, {}) /\ ~timer[m] /\ query[m] = "none"
    BY <1>1 DEF LoadModule, LoaderReady, ModuleInv, UnstartedIsBlank
  <2>2. port'[m] = nextPort /\ nextPort' = nextPort + 1
    BY <1>1, <2>1, StartEstablishes DEF LoadModule, Allocate
  <2>3. \A k \in Modules : k # m => port'[k] = port[k]
    BY OthersUntouched DEF Untouched
  <2>4. QED
    BY <2>2, <2>3
<1>2. CASE ExitOfRegistered(m)
  <2>1. Start(m, port[m], FALSE, {}) /\ nextPort' = nextPort
    BY <1>2 DEF ExitOfRegistered, ProcessAtClose
  <2>2. port' = port
    BY <2>1 DEF Start, StartStillRunning, StartSpawns, StartEmitsError, StartThrows
  <2>3. QED
    BY <2>1, <2>2
<1>3. CASE ~(LoadModule(m) \/ ExitOfRegistered(m))
  <2>1. UNCHANGED <<port, nextPort>>
    BY <1>3 DEF Act, Continue, LoadInvalid, LoaderAdds, LoaderIgnores, RestartSucceeded,
       RestartFailed, Exit, ExitUnobserved, ExitDuringStart, Timer, TimerFires,
       TimerConnectFails, Reply, QuerySucceeds, QueryFails, Child, ChildListens,
       ChildCrashes, ChildDies, ChildStep, Network, QueryAnswered, QueryRefused, QueryStep,
       coreVars
  <2>2. QED
    BY <2>1
<1>4. QED
  BY <1>1, <1>2, <1>3

\* The promise of a module tells which listeners, timer, query and process it has, the
\* registry holds started modules only, and ports are not shared.
THEOREM Invariance == Safety => []IInv
<1>1. Init => IInv
  <2> SUFFICES ASSUME Init PROVE IInv
    OBVIOUS
  <2>1. TypeOK
    BY ModulesAssumption DEF Init, TypeOK, Listeners, Promises, Failures, Queries, Children
  <2>2. ASSUME NEW m \in Modules PROVE ModuleInv(m)
    BY DEF Init, ModuleInv, UnstartedIsBlank, LoaderPosition, PendingIsTimedThenQueried,
       Succeeded, SucceededIsReady, Failed, FailedIsForgotten, RejectedHasReason, ChildIsHeld
  <2>3. ASSUME NEW l \in Languages PROVE RegistryEntry(l)
    BY DEF Init, RegistryEntry
  <2>4. PortsAllocated
    BY DEF Init, PortsAllocated, PortExclusive
  <2>5. QED
    BY <2>1, <2>2, <2>3, <2>4 DEF IInv
<1>2. IInv /\ [Next]_vars => IInv'
  <2> SUFFICES ASSUME IInv, [Next]_vars PROVE IInv'
    OBVIOUS
  <2>1. TypeOK'
    BY TypeStep DEF IInv
  <2>2. CASE UNCHANGED vars
    BY <2>1, <2>2 DEF IInv, vars, ModuleInv, UnstartedIsBlank, LoaderPosition,
       PendingIsTimedThenQueried, Succeeded, SucceededIsReady, Failed, FailedIsForgotten,
       RejectedHasReason, ChildIsHeld, Alive, RegistryEntry, PortsAllocated, PortExclusive
  <2>3. ASSUME NEW m \in Modules, Act(m) PROVE IInv'
    <3>1. \A k \in Modules : ModuleInv(k)'
      BY <2>3, OwnStep, OtherStep DEF IInv
    <3>2. \A l \in Languages : RegistryEntry(l)'
      BY <2>3, RegistryStep DEF IInv
    <3>3. PortsAllocated'
      BY <2>3, PortStep DEF IInv
    <3>4. QED
      BY <2>1, <3>1, <3>2, <3>3 DEF IInv
  <2>4. QED
    BY <2>2, <2>3 DEF Next, Act
<1>3. QED
  BY <1>1, <1>2, PTL DEF Safety

-----------------------------------------------------------------------------
(* What follows from it *)

\* A restart from inside the exit handler always finds the previous process released.
THEOREM NeverStillRunningHolds == Safety => []NeverStillRunning
<1>1. IInv => NeverStillRunning
  BY DEF IInv, TypeOK, Promises, ModuleInv, UnstartedIsBlank, PendingIsTimedThenQueried,
     Succeeded, SucceededIsReady, Failed, FailedIsForgotten, NeverStillRunning
<1>2. QED
  BY <1>1, Invariance, PTL

\* Whatever getModule returns has a client, capabilities, and no start under way.
THEOREM RegisteredIsCallableHolds == Safety => []RegisteredIsCallable
<1>1. IInv => RegisteredIsCallable
  BY DEF IInv, TypeOK, ModuleInv, Succeeded, SucceededIsReady, RegistryEntry,
     RegisteredIsCallable
<1>2. QED
  BY <1>1, Invariance, PTL

\* Outside the query window a live child always has the one listener it should have.
THEOREM WatchedHolds == Safety => []WatchedOutsideQueryWindow
<1>1. IInv => WatchedOutsideQueryWindow
  BY DEF IInv, TypeOK, Promises, ModuleInv, UnstartedIsBlank, PendingIsTimedThenQueried,
     Succeeded, SucceededIsReady, RejectedHasReason, Alive, GivenUp, QueryWindow,
     WatchedOutsideQueryWindow
<1>2. QED
  BY <1>1, Invariance, PTL

\* No two modules share a port, whichever starts and restarts fail.
THEOREM PortExclusiveHolds == Safety => []PortExclusive
<1>1. IInv => PortExclusive
  BY DEF IInv, PortsAllocated
<1>2. QED
  BY <1>1, Invariance, PTL

\* Only a failed capabilities query leaves a process behind.
THEOREM OrphanHolds == Safety => []OrphanOnlyAfterFailedQuery
<1>1. IInv => OrphanOnlyAfterFailedQuery
  BY DEF IInv, TypeOK, Failures, ModuleInv, Failed, FailedIsForgotten, GivenUp, Alive,
     OrphanOnlyAfterFailedQuery
<1>2. QED
  BY <1>1, Invariance, PTL

\* A start never overlaps the timer or the query of an earlier one.
THEOREM StartsDoNotOverlapHolds == Safety => StartsDoNotOverlap
<1>1. IInv /\ [Next]_vars =>
        [\A m \in Modules : child[m] # "booting" /\ child'[m] = "booting" =>
           ~timer[m] /\ query[m] = "none"]_vars
  <2> SUFFICES ASSUME IInv, NEW k \in Modules, Act(k), NEW m \in Modules,
                      child[m] # "booting", child'[m] = "booting"
               PROVE  ~timer[m] /\ query[m] = "none"
    BY DEF Next, Act
  <2>1. m = k
    BY OthersUntouched DEF IInv, Untouched
  <2>2. CASE LoadModule(m)
    BY <2>2 DEF LoadModule, LoaderReady, IInv, ModuleInv, UnstartedIsBlank
  <2>3. CASE ExitOfRegistered(m)
    <3>1. start[m] = "settled" /\ failure[m] = "none"
      BY <2>3 DEF ExitOfRegistered, IInv, TypeOK, Promises, ModuleInv, UnstartedIsBlank,
         PendingIsTimedThenQueried, Succeeded, SucceededIsReady, Failed, FailedIsForgotten,
         RejectedHasReason
    <3>2. QED
      BY <3>1 DEF IInv, ModuleInv, Succeeded, SucceededIsReady
  <2>4. ASSUME ~LoadModule(m), ~ExitOfRegistered(m) PROVE FALSE
    BY <2>1, <2>4 DEF Act, Continue, LoadInvalid, LoaderAdds, LoaderIgnores,
       RestartSucceeded, RestartFailed, Exit, ExitUnobserved, ExitDuringStart, Timer,
       TimerFires, TimerConnectFails, Kill, Reply, QuerySucceeds, QueryFails, Child,
       ChildListens, ChildCrashes, ChildDies, ChildStep, Network, QueryAnswered,
       QueryRefused, QueryStep, coreVars, IInv, TypeOK
  <2>5. QED
    BY <2>2, <2>3, <2>4
<1>2. QED
  BY <1>1, Invariance, PTL DEF Safety, StartsDoNotOverlap

-----------------------------------------------------------------------------
(* The supervision code implements ModuleSupervisor *)

LifeCycle == [m \in Modules |-> Status(m)]

\* A step of one module leaves the status of every other module as it was.
LEMMA StatusOfOthers ==
  ASSUME IInv, IInv', NEW m \in Modules, NEW k \in Modules, k # m, Act(m)
  PROVE  Status(k)' = Status(k)
<1>1. loader \in Nat /\ loader' \in Nat /\ m \in Nat /\ k \in Nat
  BY ModulesAssumption DEF IInv, TypeOK, Modules
<1>2. start'[k] = start[k] /\ failure'[k] = failure[k]
  BY OthersUntouched DEF IInv, Untouched
<1>3. CASE loader' = loader
  BY <1>2, <1>3 DEF Status, LoaderReady, GivenUp
<1>4. CASE m = loader /\ loader' = loader + 1
  <2>1. CASE k > loader
    <3>1. start[k] = "none"
      BY <2>1 DEF IInv, ModuleInv, LoaderPosition
    <3>2. QED
      BY <1>1, <1>2, <1>4, <2>1, <3>1 DEF Status, LoaderReady
  <2>2. CASE k < loader
    BY <1>1, <1>2, <1>4, <2>2 DEF Status, LoaderReady, GivenUp
  <2>3. QED
    BY <1>1, <1>4, <2>1, <2>2
<1>5. QED
  BY <1>3, <1>4, LoaderStep DEF IInv

\* If only module m changes its status, the mapped function changes at m.
LEMMA LifeCycleAt ==
  ASSUME NEW m \in Modules, \A k \in Modules : k # m => Status(k)' = Status(k)
  PROVE  LifeCycle' = [LifeCycle EXCEPT ![m] = Status(m)']
BY DEF LifeCycle

\* Each action of a module is the life cycle's step it stands for, or changes nothing of it.
LEMMA StepSimulation ==
  ASSUME IInv, IInv', NEW m \in Modules, Act(m)
  PROVE  Supervisor!Next \/ UNCHANGED Supervisor!vars
<1>1. loader \in Nat /\ m \in Nat /\ m \in Supervisor!Modules
  BY ModulesAssumption DEF IInv, TypeOK, Modules, Supervisor!Modules
<1>2. LifeCycle' = [LifeCycle EXCEPT ![m] = Status(m)'] /\ LifeCycle[m] = Status(m)
  BY StatusOfOthers, LifeCycleAt DEF LifeCycle
<1>3. CASE LoadModule(m) \/ LoadInvalid(m)
  <2>1. m = loader /\ start[m] = "none" /\ Status(m) = "unloaded" /\ UNCHANGED registry
    BY <1>3 DEF LoadModule, LoadInvalid, LoaderReady, Status
  <2>2. \A k \in 1..(m - 1) : k \in Modules /\ k < loader
    BY <1>1, <2>1, ModulesAssumption DEF Modules
  <2>3. \A k \in 1..(m - 1) : LifeCycle[k] \notin {"unloaded", "starting"}
    BY <1>1, <2>2 DEF LifeCycle, Status, LoaderReady
  <2>4. Supervisor!IsNext(m)
    BY <1>2, <2>1, <2>3 DEF Supervisor!IsNext, LifeCycle
  <2>5. CASE LoadModule(m)
    <3>1. start'[m] \in {"pending", "rejected"} /\ loader' = loader
      <4>1. ~timer[m] /\ query[m] = "none" /\ Start(m, nextPort, FALSE, {})
        BY <2>1, <2>5 DEF LoadModule, IInv, ModuleInv, UnstartedIsBlank, TypeOK
      <4>2. QED
        BY <2>5, <4>1, StartEstablishes DEF LoadModule, IInv
    <3>2. Status(m)' = "starting"
      BY <1>1, <2>1, <3>1 DEF Status, LoaderReady, GivenUp
    <3>3. Supervisor!Load(m)
      BY <1>2, <2>1, <2>4, <3>2 DEF Supervisor!Load, Supervisor!Become, LifeCycle
    <3>4. QED
      BY <1>1, <3>3 DEF Supervisor!Next
  <2>6. CASE LoadInvalid(m)
    <3>1. start'[m] = "none" /\ loader' = loader + 1
      BY <2>1, <2>6 DEF LoadInvalid, promiseVars
    <3>2. Status(m)' = "abandoned"
      BY <1>1, <2>1, <3>1 DEF Status, LoaderReady
    <3>3. Supervisor!Ignore(m)
      BY <1>2, <2>1, <2>4, <3>2 DEF Supervisor!Ignore, Supervisor!Become, LifeCycle
    <3>4. QED
      BY <1>1, <3>3 DEF Supervisor!Next
  <2>7. QED
    BY <1>3, <2>5, <2>6
<1>4. CASE LoaderAdds(m) \/ RestartSucceeded(m)
  <2>1. /\ start[m] = "fulfilled" /\ start'[m] = "settled" /\ failure'[m] = failure[m]
        /\ registry' = [registry EXCEPT ![LangOf[m]] = m]
        /\ m <= loader /\ m < loader'
    BY <1>1, <1>4 DEF LoaderAdds, RestartSucceeded, Settle, AddModule, IInv, TypeOK
  <2>2. failure[m] = "none"
    BY <2>1 DEF IInv, ModuleInv, Succeeded, SucceededIsReady
  <2>3. Status(m) \in {"starting", "restarting"}
    BY <1>1, <2>1, <2>2 DEF Status, LoaderReady, GivenUp, IInv, TypeOK
  <2>4. Status(m)' = "available"
    <3>1. loader' \in Nat
      BY <2>1 DEF IInv, TypeOK
    <3>2. QED
      BY <1>1, <2>1, <2>2, <3>1 DEF Status, LoaderReady, GivenUp
  <2>5. Supervisor!Register(m)
    BY <1>2, <2>1, <2>3, <2>4 DEF Supervisor!Register, Supervisor!Become, LifeCycle
  <2>6. QED
    BY <1>1, <2>5 DEF Supervisor!Next
<1>5. CASE LoaderIgnores(m) \/ RestartFailed(m)
  <2>1. /\ start[m] = "rejected" /\ start'[m] = "settled" /\ failure'[m] = failure[m]
        /\ UNCHANGED registry
        /\ m <= loader /\ m < loader'
    BY <1>1, <1>5 DEF LoaderIgnores, RestartFailed, Settle, IInv, TypeOK
  <2>2. failure[m] # "none"
    BY <2>1 DEF IInv, ModuleInv, RejectedHasReason
  <2>3. Status(m) \in {"starting", "restarting"}
    BY <1>1, <2>1, <2>2 DEF Status, LoaderReady, GivenUp, IInv, TypeOK
  <2>4. Status(m)' = "abandoned"
    <3>1. loader' \in Nat
      BY <2>1 DEF IInv, TypeOK
    <3>2. QED
      BY <1>1, <2>1, <2>2, <3>1 DEF Status, LoaderReady, GivenUp
  <2>5. Supervisor!Abandon(m)
    BY <1>2, <2>1, <2>3, <2>4 DEF Supervisor!Abandon, Supervisor!Become, LifeCycle
  <2>6. QED
    BY <1>1, <2>5 DEF Supervisor!Next
<1>6. CASE ExitOfRegistered(m)
  <2>1. start[m] = "settled" /\ failure[m] = "none"
    BY <1>6 DEF ExitOfRegistered, IInv, TypeOK, Promises, ModuleInv, UnstartedIsBlank,
       PendingIsTimedThenQueried, Succeeded, SucceededIsReady, Failed, FailedIsForgotten,
       RejectedHasReason
  <2>2. m < loader
    BY <1>1, <2>1 DEF IInv, ModuleInv, LoaderPosition
  <2>3. Status(m) = "available"
    BY <1>1, <2>1, <2>2 DEF Status, LoaderReady, GivenUp
  <2>4. start'[m] \in {"pending", "rejected"} /\ loader' = loader
    <3>1. Start(m, port[m], FALSE, {}) /\ ~timer[m] /\ query[m] = "none"
      BY <1>6, <2>1 DEF ExitOfRegistered, ProcessAtClose, IInv, ModuleInv, Succeeded,
                        SucceededIsReady
    <3>2. QED
      BY <1>6, <3>1, StartEstablishes DEF ExitOfRegistered, IInv
  <2>5. Status(m)' = "restarting"
    BY <1>1, <2>2, <2>4 DEF Status, LoaderReady, GivenUp
  <2>6. Supervisor!Crash(m)
    BY <1>2, <1>6, <2>3, <2>5 DEF ExitOfRegistered, Supervisor!Crash, Supervisor!Become,
                                  LifeCycle
  <2>7. QED
    BY <1>1, <2>6 DEF Supervisor!Next
<1>7. CASE ~Continue(m) /\ ~ExitOfRegistered(m)
  <2>1. UNCHANGED <<loader, registry>>
    BY <1>7 DEF Act, Exit, ExitUnobserved, ExitDuringStart, Timer, TimerFires,
       TimerConnectFails, Reply, QuerySucceeds, QueryFails, Child, ChildListens,
       ChildCrashes, ChildDies, ChildStep, Network, QueryAnswered, QueryRefused, QueryStep,
       coreVars
  <2>2. \/ start'[m] = start[m] /\ failure'[m] = failure[m]
        \/ start[m] = "pending" /\ start'[m] \in {"fulfilled", "rejected"}
    BY <1>7 DEF Act, Exit, ExitUnobserved, ExitDuringStart, Reject, Resolve, Timer,
       TimerFires, TimerConnectFails, Reply, QuerySucceeds, QueryFails, Child,
       ChildListens, ChildCrashes, ChildDies, ChildStep, Network, QueryAnswered,
       QueryRefused, QueryStep, coreVars, promiseVars, IInv, TypeOK
  <2>3. Status(m)' = Status(m)
    BY <2>1, <2>2 DEF Status, LoaderReady, GivenUp
  <2>4. LifeCycle' = LifeCycle
    BY <1>2, <2>3 DEF LifeCycle
  <2>5. QED
    BY <2>1, <2>4 DEF Supervisor!vars, LifeCycle
<1>8. QED
  BY <1>3, <1>4, <1>5, <1>6, <1>7 DEF Continue

\* Every behaviour of the supervision code is one the promised life cycle allows.
THEOREM KeepsLifeCycleHolds == Safety => KeepsLifeCycle
<1>1. Init => Supervisor!Init
  BY ModulesAssumption DEF Init, Supervisor!Init, Supervisor!Modules, Modules, Status,
     LoaderReady
<1>2. IInv /\ IInv' /\ [Next]_vars => [Supervisor!Next]_(Supervisor!vars)
  <2> SUFFICES ASSUME IInv, IInv', [Next]_vars
               PROVE  Supervisor!Next \/ UNCHANGED Supervisor!vars
    OBVIOUS
  <2>1. CASE UNCHANGED vars
    BY <2>1 DEF vars, Supervisor!vars, Status, LoaderReady, GivenUp
  <2>2. ASSUME NEW m \in Modules, Act(m) PROVE Supervisor!Next \/ UNCHANGED Supervisor!vars
    BY <2>2, StepSimulation
  <2>3. QED
    BY <2>1, <2>2 DEF Next, Act
<1>3. QED
  BY <1>1, <1>2, Invariance, PTL DEF Safety, KeepsLifeCycle, Supervisor!Safety

=============================================================================
