----------------------------- MODULE ServerCore -----------------------------
(***************************************************************************)
(* The RPC side of the server core: ServerCore.verifyAndInvoke and the     *)
(* RPC pipelines of LanguageModule (server/core/source/ts), for several    *)
(* clients at once, on top of the modules' life cycle.                     *)
(*                                                                         *)
(* The life cycle is ModuleSupervisor, which ModuleManager implements.     *)
(* A request keeps the LanguageModule object it looked up, whatever then   *)
(* happens to the module: a call to its child can come to any end at any   *)
(* time.  One action is one turn of the event loop with the continuations  *)
(* that run in it.  A sandbox run is seen as DockerSandbox shows it to its *)
(* caller: it is settled, one way or the other, or takes the core down.    *)
(***************************************************************************)
EXTENDS Naturals, Sequences

CONSTANTS
  Clients,                                  \* requests that may be under way together
  NumModules, Languages, LangOf, NoModule,  \* as in ModuleSupervisor
  CapabilitiesOf,                           \* what each module's GetCapabilities reports
  Requests,                                 \* what a client may ask
  Blank, Null                               \* a string field left blank, a message left out

VARIABLES
  core,              \* the server core's own process
  status, registry,  \* the modules (ModuleSupervisor)
  sandboxDetails,    \* modules whose sandbox details are cached
  request,           \* the request of each client
  module,            \* the module object it works with
  pc,                \* what it is waiting for
  current,           \* PerformCompoundIOMatch: index of the nested request
  results,           \* results gathered so far
  spawned,           \* clients for whose request a docker client was spawned
  answer             \* what its callback was given

moduleVars  == <<status, registry>>
requestVars == <<request, module, pc, current, results, spawned, answer>>
vars == <<core, status, registry, sandboxDetails, request, module, pc, current, results,
          spawned, answer>>

Supervisor == INSTANCE ModuleSupervisor
Modules    == 1..NumModules

Capabilities == {"GENERATE_ASTS", "IO_MATCHING", "UNIT_TESTING"}

\* getRpcMappings: the capability that an RPC of a language module requires.
capability == [GenerateAst            |-> "GENERATE_ASTS",
               PerformAstMatch        |-> "GENERATE_ASTS",
               PerformIOMatch         |-> "IO_MATCHING",
               PerformCompoundIOMatch |-> "IO_MATCHING",
               PerformUnitTests       |-> "UNIT_TESTING"]

ModuleRpcs == DOMAIN capability
RpcNames   == ModuleRpcs \cup {"InvokeCustomSandbox", "ListCapabilities"}

\* A request names its RPC and its language; a compound one has the common fields'
\* language (common itself may be left out) and its nested requests' languages.
RequestType == [rpc      : RpcNames,
                language : Languages \cup {Blank, Null},
                nested   : Seq(Languages \cup {Blank})]

ASSUME ModulesAssumption == NumModules \in Nat
ASSUME LanguagesAssumption == LangOf \in [Modules -> Languages]
ASSUME CapabilitiesAssumption == CapabilitiesOf \in [Modules -> SUBSET Capabilities]
ASSUME RequestsAssumption ==  \* proto3 has no absent strings: only a message can be left out
  Requests \subseteq {req \in RequestType :
                        req.language = Null => req.rpc = "PerformCompoundIOMatch"}
ASSUME NoModuleAssumption == NoModule \notin Modules

NoRequest == [rpc |-> "none", language |-> Blank, nested |-> <<>>]

\* "ast", "codegen", "details": for the answer of that call to the module's child;
\* "sandbox": for the sandbox run.
Waits == {"idle", "ast", "codegen", "details", "sandbox", "done"}
Kinds == {"none", "ok", "transmitted", "unimplemented", "internal"}

TypeOK ==
  /\ core \in {"up", "down"}
  /\ Supervisor!TypeOK
  /\ sandboxDetails \subseteq Modules
  /\ request \in [Clients -> Requests \cup {NoRequest}]
  /\ module \in [Clients -> Modules \cup {NoModule}]
  /\ pc \in [Clients -> Waits]
  /\ current \in [Clients -> Nat]
  /\ results \in [Clients -> Nat]
  /\ spawned \subseteq Clients
  /\ answer \in [Clients -> Kinds]

Init ==
  /\ core = "up"
  /\ Supervisor!Init
  /\ sandboxDetails = {}
  /\ request = [c \in Clients |-> NoRequest]
  /\ module = [c \in Clients |-> NoModule]
  /\ pc = [c \in Clients |-> "idle"]
  /\ current = [c \in Clients |-> 0]
  /\ results = [c \in Clients |-> 0]
  /\ spawned = {}
  /\ answer = [c \in Clients |-> "none"]

-----------------------------------------------------------------------------
(* Helpers *)

\* main() binds the port after all modules were loaded.
Bound == \A m \in Modules : status[m] \notin {"unloaded", "starting"}

\* The language whose module handles a request; Null where evaluating it throws.
language(req) ==
  IF req.rpc # "PerformCompoundIOMatch" THEN req.language
  ELSE IF req.language = Null THEN Null
  ELSE IF req.language # Blank THEN req.language
  ELSE IF req.nested = <<>> THEN Null
  ELSE req.nested[1]

\* Fault: only the language is looked up.
FaultAnyCapability(lang, rpc) == lang \in Languages /\ registry[lang] # NoModule

isSupported(lang, rpc) ==
  /\ lang \in Languages
  /\ registry[lang] # NoModule
  /\ capability[rpc] \in CapabilitiesOf[registry[lang]]

\* What the request waited for has come, and a live core takes it up.
Resumes(c, what) == core = "up" /\ pc[c] = what

\* A request that waits for its sandbox has had it spawned.
Wait(c, what) == /\ pc' = [pc EXCEPT ![c] = what]
                 /\ spawned' = IF what = "sandbox" THEN spawned \cup {c} ELSE spawned
                 /\ UNCHANGED <<answer, core>>

Answer(c, kind) == /\ pc' = [pc EXCEPT ![c] = "done"]
                   /\ answer' = [answer EXCEPT ![c] = kind]
                   /\ UNCHANGED <<spawned, core>>

IsCompound(c) == request[c].rpc = "PerformCompoundIOMatch"

-----------------------------------------------------------------------------
(* A request arrives *)

Arrives(c, req) ==
  /\ Bound
  /\ Resumes(c, "idle")
  /\ request' = [request EXCEPT ![c] = req]
  /\ UNCHANGED <<moduleVars, sandboxDetails, results>>

\* Every nested request succeeded, of which there may be none: no call is made then.
InvokeEmptyCompound(c, req) ==
  /\ req.rpc = "PerformCompoundIOMatch" /\ req.nested = <<>>
  /\ Answer(c, "ok")
  /\ UNCHANGED current

InvokeAst(c, req) ==
  /\ req.rpc \in {"GenerateAst", "PerformAstMatch"}
  /\ Wait(c, "ast")
  /\ UNCHANGED current

InvokeCodegen(c, req) ==
  /\ \/ req.rpc \in {"PerformIOMatch", "PerformUnitTests"}
     \/ req.rpc = "PerformCompoundIOMatch" /\ req.nested # <<>>
  /\ Wait(c, "codegen")
  /\ current' = [current EXCEPT ![c] = 1]

\* verifyAndInvoke up to its await: the check and the lookup see one registry.
Invoke(c, req) ==
  /\ req.rpc \in ModuleRpcs
  /\ Arrives(c, req)
  /\ language(req) # Null
  /\ isSupported(language(req), req.rpc)
  /\ module' = [module EXCEPT ![c] = registry[language(req)]]
  /\ InvokeEmptyCompound(c, req) \/ InvokeAst(c, req) \/ InvokeCodegen(c, req)

ReportUnimplemented(c, req) ==
  /\ req.rpc \in ModuleRpcs
  /\ Arrives(c, req)
  /\ language(req) # Null
  /\ ~isSupported(language(req), req.rpc)
  /\ Answer(c, "unimplemented")
  /\ UNCHANGED <<module, current>>

\* The language of the request cannot be determined: verifyAndInvoke's catch.
ReportNoLanguage(c, req) ==
  /\ req.rpc \in ModuleRpcs
  /\ Arrives(c, req)
  /\ language(req) = Null
  /\ Answer(c, "internal")
  /\ UNCHANGED <<module, current>>

\* ListCapabilities answers from the registry; the modules' capabilities are cached.
ListCapabilities(c, req) ==
  /\ req.rpc = "ListCapabilities"
  /\ Arrives(c, req)
  /\ Answer(c, "ok")
  /\ UNCHANGED <<module, current>>

\* InvokeCustomSandbox needs no module.
InvokeCustomSandbox(c, req) ==
  /\ req.rpc = "InvokeCustomSandbox"
  /\ Arrives(c, req)
  /\ Wait(c, "sandbox")
  /\ UNCHANGED <<module, current>>

-----------------------------------------------------------------------------
(* How a request ends, or goes on *)

\* Faults: results of earlier nested requests are sent with the error; only the last
\* of them is dropped; PerformX lets errors through.
FaultKeepsResults(c) == Answer(c, "transmitted") /\ UNCHANGED <<results, current>>
FaultDropsLast(c) ==
  /\ Answer(c, "transmitted")
  /\ results' = [results EXCEPT ![c] = @ - 1]
  /\ UNCHANGED current
FaultErrorEscapes(c) ==
  /\ Answer(c, "internal")
  /\ results' = [results EXCEPT ![c] = 0]
  /\ UNCHANGED current

\* A nested request of a compound one failed: its error is the answer, and what was
\* gathered is dropped. Otherwise PerformX transmits its own error.
Fails(c) ==
  /\ Answer(c, "transmitted")
  /\ results' = [results EXCEPT ![c] = 0]
  /\ UNCHANGED current

\* PerformIOMatch succeeded: the next nested request, or the answer.
Succeeds(c) ==
  /\ results' = [results EXCEPT ![c] = @ + 1]
  /\ IF IsCompound(c) /\ current[c] < Len(request[c].nested)
     THEN Wait(c, "codegen") /\ current' = [current EXCEPT ![c] = @ + 1]
     ELSE Answer(c, "ok") /\ UNCHANGED current

-----------------------------------------------------------------------------
(* The callbacks of the calls to the module's child *)

\* Fault: GenerateAst rejects, but nothing catches it.
FaultAstErrorLost(c) ==
  /\ Resumes(c, "ast")
  /\ IF request[c].rpc = "GenerateAst" THEN Wait(c, "nothing") ELSE Answer(c, "transmitted")
  /\ UNCHANGED <<moduleVars, sandboxDetails, request, module, current, results>>

\* GenerateAst lets its error through to verifyAndInvoke; PerformAstMatch transmits it.
AstFails(c) ==
  /\ Resumes(c, "ast")
  /\ Answer(c, IF request[c].rpc = "GenerateAst" THEN "internal" ELSE "transmitted")
  /\ UNCHANGED <<moduleVars, sandboxDetails, request, module, current, results>>

\* GenerateAst passes the module's response on, its error field included.
\* PerformAstMatch parses the AST and applies the patterns, either of which may throw.
AstReturns(c) ==
  /\ Resumes(c, "ast")
  /\ Answer(c, "ok") \/ Answer(c, "transmitted")
  /\ UNCHANGED <<moduleVars, sandboxDetails, request, module, current, results>>

\* The call failed, or the response carries an error (the code does not compile).
CodegenFails(c) ==
  /\ Resumes(c, "codegen")
  /\ Fails(c)
  /\ UNCHANGED <<moduleVars, sandboxDetails, request, module>>

\* Fault: a fetch under way for another request counts as cached.
FaultFetchingIsCached(m) ==
  m \in sandboxDetails \/ \E c \in Clients : pc[c] = "details" /\ module[c] = m

Cached(m) == m \in sandboxDetails

\* GetSandboxDetails: from the cache, or by a call; several may be under way.
CodegenReturns(c) ==
  /\ Resumes(c, "codegen")
  /\ Wait(c, IF Cached(module[c]) THEN "sandbox" ELSE "details")
  /\ UNCHANGED <<moduleVars, sandboxDetails, request, module, current, results>>

DetailsFail(c) ==
  /\ Resumes(c, "details")
  /\ Fails(c)
  /\ UNCHANGED <<moduleVars, sandboxDetails, request, module>>

DetailsReturn(c) ==
  /\ Resumes(c, "details")
  /\ sandboxDetails' = sandboxDetails \cup {module[c]}
  /\ Wait(c, "sandbox")
  /\ UNCHANGED <<moduleVars, request, module, current, results>>

-----------------------------------------------------------------------------
(* The sandbox run is settled *)

\* It failed; or its output does not fit the patterns' syntax or the tests.
SandboxFails(c) ==
  /\ Resumes(c, "sandbox")
  /\ Fails(c)
  /\ UNCHANGED <<moduleVars, sandboxDetails, request, module>>

SandboxReturns(c) ==
  /\ Resumes(c, "sandbox")
  /\ Succeeds(c)
  /\ UNCHANGED <<moduleVars, sandboxDetails, request, module>>

\* The docker client ended before it read its input: the stdin stream emits 'error',
\* nothing listens to it, and the uncaught exception ends the core with all requests.
StdinError(c) ==
  /\ core = "up"
  /\ c \in spawned
  /\ core' = "down"
  /\ UNCHANGED <<moduleVars, sandboxDetails, requestVars>>

-----------------------------------------------------------------------------
Arrive(c)  == \E req \in Requests :
                 \/ Invoke(c, req) \/ ReportUnimplemented(c, req) \/ ReportNoLanguage(c, req)
                 \/ ListCapabilities(c, req) \/ InvokeCustomSandbox(c, req)
Ast(c)     == AstFails(c) \/ AstReturns(c)
Codegen(c) == CodegenFails(c) \/ CodegenReturns(c)
Details(c) == DetailsFail(c) \/ DetailsReturn(c)
Sandbox(c) == SandboxFails(c) \/ SandboxReturns(c)

ModuleStep == core = "up" /\ Supervisor!Next /\ UNCHANGED <<core, sandboxDetails, requestVars>>

Next == \/ ModuleStep
        \/ \E c \in Clients : \/ Arrive(c) \/ Ast(c) \/ Codegen(c) \/ Details(c) \/ Sandbox(c)
                              \/ StdinError(c)

(***************************************************************************)
(* Fairness.  A sandbox run settles while the core lives, by RunSettles of *)
(* DockerSandbox.  Nothing else is assumed: clients need not ask, modules  *)
(* need not crash, and a child need not answer a call, which has no        *)
(* deadline (LanguageModule.ts:391).                                       *)
(***************************************************************************)
Fairness == \A c \in Clients : WF_vars(Sandbox(c))

Safety == Init /\ [][Next]_vars
Spec   == Safety /\ Fairness

-----------------------------------------------------------------------------
(* Properties *)

\* A compound request is all or nothing, whichever nested request fails and why: its
\* answer has a result for each nested request, or an error and no result.
CompoundAllOrNothing ==
  \A c \in Clients : pc[c] = "done" /\ IsCompound(c) =>
    results[c] = IF answer[c] = "ok" THEN Len(request[c].nested) ELSE 0

\* A nested request starts only when every one before it gave its result.
NestedInOrder ==
  \A c \in Clients : IsCompound(c) /\ pc[c] \notin {"idle", "done"} =>
    results[c] = current[c] - 1 /\ current[c] <= Len(request[c].nested)

\* A sandbox is started for a module only with the module's details at hand, however
\* the first requests of the module overlap (docker run would get no image).
SandboxHasDetails ==
  \A c \in Clients : pc[c] = "sandbox" /\ module[c] # NoModule => module[c] \in sandboxDetails

\* The module that works on a request reported the language asked for and the
\* capability for the RPC, also after that module was dropped from the registry.
ModuleIsCapable ==
  \A c \in Clients : module[c] # NoModule =>
    /\ LangOf[module[c]] = language(request[c])
    /\ capability[request[c].rpc] \in CapabilitiesOf[module[c]]

\* The inductive invariant behind these properties (ServerCoreProofs).
RegistryHoldsLanguage ==
  \A l \in Languages : registry[l] # NoModule => LangOf[registry[l]] = l

IoRpcs == {"PerformIOMatch", "PerformCompoundIOMatch", "PerformUnitTests"}

WaitFitsRequest(c) ==
  /\ pc[c] = "idle" <=> request[c] = NoRequest
  /\ pc[c] = "done" <=> answer[c] # "none"
  /\ pc[c] \in {"idle", "ast"} => results[c] = 0
  /\ pc[c] = "idle" => module[c] = NoModule
  /\ pc[c] = "ast" => request[c].rpc \in {"GenerateAst", "PerformAstMatch"}
  /\ pc[c] \in {"codegen", "details"} => request[c].rpc \in IoRpcs /\ module[c] \in Modules
  /\ pc[c] = "sandbox" =>
       \/ request[c].rpc \in IoRpcs /\ module[c] \in Modules
       \/ request[c].rpc = "InvokeCustomSandbox" /\ module[c] = NoModule

IInv == /\ TypeOK
        /\ CompoundAllOrNothing /\ NestedInOrder /\ SandboxHasDetails /\ ModuleIsCapable
        /\ RegistryHoldsLanguage
        /\ \A c \in Clients : WaitFitsRequest(c)

-----------------------------------------------------------------------------
(* The service that clients see *)

\* What each RPC can be answered with: an INTERNAL status (ServerCore.ts:187) is left
\* for a GenerateAst call that fails and a compound request that lacks a language.
AnswersTo(name) ==
  CASE name \in {"GenerateAst", "PerformCompoundIOMatch"} ->
         {"ok", "transmitted", "unimplemented", "internal"}
    [] name = "ListCapabilities"    -> {"ok"}
    [] name = "InvokeCustomSandbox" -> {"ok", "transmitted"}
    [] OTHER                        -> {"ok", "transmitted", "unimplemented"}

Service == INSTANCE RpcService WITH Answers <- AnswersTo,
                                    rpc <- [c \in Clients |-> request[c].rpc]

\* Every request gets one answer of a kind that its RPC has.
AnswersOnce == Service!Safety

\* The calls of the client's request to its module's child come back: an answer, an
\* error, or the loss of the connection when the child dies.
CallsComeBack(c) == WF_vars(Ast(c) \/ Codegen(c) \/ Details(c))

\* A request is answered if its own calls come back, whatever other requests, their
\* modules and their children do, unless a sandbox run takes the core down.
EveryRequestAnswered ==
  \A c \in Clients : CallsComeBack(c) => Service!Answered(c) \/ <>(core = "down")

\* "The common field values that will override any left blank in the individual
\* requests" (server.proto:69): a nested request that names a language is run by the
\* module of that language.
NestedRunsOnItsLanguage ==
  \A c \in Clients : IsCompound(c) /\ pc[c] \notin {"idle", "done"} =>
    LET own == request[c].nested[current[c]]
    IN  own # Blank => LangOf[module[c]] = own
=============================================================================
