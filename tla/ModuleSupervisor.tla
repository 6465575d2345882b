-------------------------- MODULE ModuleSupervisor --------------------------
(***************************************************************************)
(* What the server core promises of its language modules, seen from the    *)
(* RPCs that look modules up: modules are loaded one after the other; a    *)
(* module is registered for its language exactly while it is available; a  *)
(* module whose crash is noticed is unregistered and restarted once; a     *)
(* module whose start fails is given up for good; every start is decided.  *)
(* ModuleManager.tla implements this specification.                        *)
(***************************************************************************)
EXTENDS Naturals

CONSTANTS NumModules,   \* descriptors found in the languages directory
          Languages,    \* language identifiers
          LangOf,       \* the language each module reports
          NoModule      \* the registry's entry for a language without a module

Modules == 1..NumModules

VARIABLES status,       \* life cycle of each module
          registry      \* getModule's answer for each language

vars == <<status, registry>>

Statuses == {"unloaded", "starting", "available", "restarting", "abandoned"}

TypeOK == /\ status \in [Modules -> Statuses]
          /\ registry \in [Languages -> Modules \cup {NoModule}]

Init == /\ status = [m \in Modules |-> "unloaded"]
        /\ registry = [l \in Languages |-> NoModule]

\* Modules are loaded one at a time, in the order of their descriptors.
IsNext(m) == /\ status[m] = "unloaded"
             /\ \A k \in 1..(m - 1) : status[k] \notin {"unloaded", "starting"}

Become(m, s) == status' = [status EXCEPT ![m] = s]

Load(m) == IsNext(m) /\ Become(m, "starting") /\ UNCHANGED registry

Ignore(m) == IsNext(m) /\ Become(m, "abandoned") /\ UNCHANGED registry

Register(m) == /\ status[m] \in {"starting", "restarting"}
               /\ Become(m, "available")
               /\ registry' = [registry EXCEPT ![LangOf[m]] = m]

Crash(m) == /\ status[m] = "available"
            /\ Become(m, "restarting")
            /\ registry' = [registry EXCEPT ![LangOf[m]] = NoModule]

Abandon(m) == /\ status[m] \in {"starting", "restarting"}
              /\ Become(m, "abandoned")
              /\ UNCHANGED registry

Next == \E m \in Modules :
          Load(m) \/ Ignore(m) \/ Register(m) \/ Crash(m) \/ Abandon(m)

\* The module's turn to be loaded is taken, and its starts and restarts are decided.
Proceeds(m) == /\ WF_vars(Load(m) \/ Ignore(m))
               /\ WF_vars(Register(m) \/ Abandon(m))

Fairness == \A m \in Modules : Proceeds(m)

Safety == Init /\ [][Next]_vars
Spec   == Safety /\ Fairness
=============================================================================
