-------------------------- MODULE ServerCoreProofs --------------------------
(***************************************************************************)
(* Proofs about ServerCore, for any clients, modules and set of requests.  *)
(***************************************************************************)
EXTENDS ServerCore, TLAPS

Turn(c) == Arrive(c) \/ Ast(c) \/ Codegen(c) \/ Details(c) \/ Sandbox(c)

\* What IInv says of one client.
ClientInv(c) ==
  /\ WaitFitsRequest(c)
  /\ pc[c] = "done" /\ IsCompound(c) =>
       results[c] = IF answer[c] = "ok" THEN Len(request[c].nested) ELSE 0
  /\ IsCompound(c) /\ pc[c] \notin {"idle", "done"} =>
       results[c] = current[c] - 1 /\ current[c] <= Len(request[c].nested)
  /\ pc[c] = "sandbox" /\ module[c] # NoModule => module[c] \in sandboxDetails
  /\ module[c] # NoModule =>
       /\ LangOf[module[c]] = language(request[c])
       /\ capability[request[c].rpc] \in CapabilitiesOf[module[c]]

\* The properties of all clients are those of each.
LEMMA IInvByClient ==
  IInv <=> TypeOK /\ RegistryHoldsLanguage /\ \A c \in Clients : ClientInv(c)
BY DEF IInv, CompoundAllOrNothing, NestedInOrder, SandboxHasDetails, ModuleIsCapable, ClientInv

\* The modules' life cycle keeps the registry's entries under their own language.
LEMMA ModulesStep ==
  ASSUME TypeOK, RegistryHoldsLanguage, Supervisor!Next
  PROVE  Supervisor!TypeOK' /\ RegistryHoldsLanguage'
<1> USE LanguagesAssumption, NoModuleAssumption
        DEF TypeOK, Supervisor!TypeOK, Supervisor!Modules, Modules, Supervisor!Statuses
<1>1. PICK m \in Modules : \/ Supervisor!Load(m) \/ Supervisor!Ignore(m)
                            \/ Supervisor!Register(m) \/ Supervisor!Crash(m)
                            \/ Supervisor!Abandon(m)
  BY DEF Supervisor!Next
<1>2. status' \in [Modules -> Supervisor!Statuses]
  BY <1>1 DEF Supervisor!Load, Supervisor!Ignore, Supervisor!Register, Supervisor!Crash,
     Supervisor!Abandon, Supervisor!Become
<1>3. \/ UNCHANGED registry
      \/ registry' = [registry EXCEPT ![LangOf[m]] = m]
      \/ registry' = [registry EXCEPT ![LangOf[m]] = NoModule]
  BY <1>1 DEF Supervisor!Load, Supervisor!Ignore, Supervisor!Register, Supervisor!Crash,
     Supervisor!Abandon
<1>4. registry' \in [Languages -> Modules \cup {NoModule}]
  BY <1>3
<1>5. RegistryHoldsLanguage'
  BY <1>3 DEF RegistryHoldsLanguage
<1>6. QED
  BY <1>2, <1>4, <1>5

\* A turn for one client leaves the variables in their types.
LEMMA TurnTypes ==
  ASSUME IInv, NEW c \in Clients, Turn(c)
  PROVE  TypeOK'
<1> USE DEF Waits, Kinds, Resumes, Wait, Answer
<1>1. TypeOK /\ WaitFitsRequest(c) /\ Supervisor!TypeOK
  BY DEF IInv, TypeOK
<1>2. UNCHANGED moduleVars => Supervisor!TypeOK'
  BY <1>1 DEF moduleVars, Supervisor!TypeOK, Supervisor!Modules, Supervisor!Statuses
<1> USE <1>1, <1>2
<1>3. ASSUME NEW req \in Requests, Arrives(c, req) PROVE
        /\ Supervisor!TypeOK' /\ sandboxDetails' = sandboxDetails /\ results' = results
        /\ request' \in [Clients -> Requests \cup {NoRequest}]
  BY <1>3 DEF Arrives, TypeOK
<1>4. ASSUME NEW req \in Requests, Invoke(c, req) PROVE TypeOK'
  <2>1. registry[language(req)] \in Modules
    BY <1>4 DEF Invoke, isSupported, TypeOK, Supervisor!TypeOK, Supervisor!Modules, Modules
  <2>2. module' \in [Clients -> Modules \cup {NoModule}]
    BY <1>4, <2>1 DEF Invoke, TypeOK
  <2>3. /\ current' \in [Clients -> Nat] /\ pc' \in [Clients -> Waits]
        /\ answer' \in [Clients -> Kinds]
        /\ core' \in {"up", "down"} /\ spawned' \subseteq Clients
    <3>1. CASE InvokeEmptyCompound(c, req)
      BY <3>1 DEF InvokeEmptyCompound, TypeOK
    <3>2. CASE InvokeAst(c, req)
      BY <3>2 DEF InvokeAst, TypeOK
    <3>3. CASE InvokeCodegen(c, req)
      <4>1. /\ pc' = [pc EXCEPT ![c] = "codegen"] /\ UNCHANGED <<answer, core, spawned>>
            /\ current' = [current EXCEPT ![c] = 1]
        BY <3>3 DEF InvokeCodegen
      <4>2. QED
        BY <4>1 DEF TypeOK
    <3>4. QED
      BY <1>4, <3>1, <3>2, <3>3 DEF Invoke
  <2>4. QED
    BY <1>3, <1>4, <2>2, <2>3 DEF Invoke, TypeOK
<1>5. ASSUME NEW req \in Requests,
             \/ ReportUnimplemented(c, req) \/ ReportNoLanguage(c, req)
             \/ ListCapabilities(c, req) \/ InvokeCustomSandbox(c, req)
      PROVE  TypeOK'
  BY <1>3, <1>5 DEF ReportUnimplemented, ReportNoLanguage, ListCapabilities,
     InvokeCustomSandbox, TypeOK
<1>6. CASE Ast(c)
  BY <1>6 DEF Ast, AstFails, AstReturns, TypeOK
<1>7. CASE CodegenFails(c) \/ DetailsFail(c) \/ SandboxFails(c)
  BY <1>7 DEF CodegenFails, DetailsFail, SandboxFails, Fails, TypeOK
<1>8. CASE CodegenReturns(c)
  BY <1>8 DEF CodegenReturns, TypeOK
<1>9. CASE DetailsReturn(c)
  BY <1>9 DEF DetailsReturn, WaitFitsRequest, TypeOK
<1>10. CASE SandboxReturns(c)
  <2>1. /\ results' = [results EXCEPT ![c] = @ + 1]
        /\ current' \in {current, [current EXCEPT ![c] = @ + 1]}
        /\ pc' \in [Clients -> Waits] /\ answer' \in [Clients -> Kinds]
        /\ UNCHANGED <<core, spawned>>
    <3>1. CASE IsCompound(c) /\ current[c] < Len(request[c].nested)
      BY <1>10, <3>1 DEF SandboxReturns, Succeeds, TypeOK
    <3>2. CASE ~(IsCompound(c) /\ current[c] < Len(request[c].nested))
      BY <1>10, <3>2 DEF SandboxReturns, Succeeds, TypeOK
    <3>3. QED
      BY <3>1, <3>2
  <2>2. results' \in [Clients -> Nat] /\ current' \in [Clients -> Nat]
    BY <2>1 DEF TypeOK
  <2>3. QED
    BY <1>10, <2>1, <2>2 DEF SandboxReturns, TypeOK
<1>11. QED
  BY <1>4, <1>5, <1>6, <1>7, <1>8, <1>9, <1>10 DEF Turn, Arrive, Codegen, Details, Sandbox

\* A turn for one client changes nothing of another, and the cache only grows.
LEMMA OtherClients ==
  ASSUME TypeOK, NEW c \in Clients, NEW d \in Clients, d # c, Turn(c), ClientInv(d)
  PROVE  ClientInv(d)'
<1>1. /\ request'[d] = request[d] /\ module'[d] = module[d] /\ pc'[d] = pc[d]
      /\ current'[d] = current[d] /\ results'[d] = results[d] /\ answer'[d] = answer[d]
      /\ sandboxDetails \subseteq sandboxDetails'
  <2> USE DEF TypeOK, Resumes, Wait, Answer
  <2>1. CASE Arrive(c)
    BY <2>1 DEF Arrive, Invoke, InvokeEmptyCompound, InvokeAst, InvokeCodegen,
       ReportUnimplemented, ReportNoLanguage, ListCapabilities, InvokeCustomSandbox, Arrives
  <2>2. CASE Ast(c) \/ Codegen(c)
    BY <2>2 DEF Ast, AstFails, AstReturns, Codegen, CodegenFails, CodegenReturns, Fails
  <2>3. CASE Details(c) \/ Sandbox(c)
    BY <2>3 DEF Details, DetailsFail, DetailsReturn, Sandbox, SandboxFails, SandboxReturns,
       Fails, Succeeds
  <2>4. QED
    BY <2>1, <2>2, <2>3 DEF Turn
<1>2. QED
  BY <1>1 DEF ClientInv, WaitFitsRequest, IsCompound

\* What is said of a client survives its own turns.
LEMMA OwnTurn ==
  ASSUME TypeOK, TypeOK', RegistryHoldsLanguage, NEW c \in Clients, ClientInv(c), Turn(c)
  PROVE  ClientInv(c)'
<1> USE RequestsAssumption, NoModuleAssumption
        DEF ClientInv, WaitFitsRequest, IsCompound, IoRpcs, Resumes
<1>1. ASSUME NEW req \in Requests, Arrives(c, req)
      PROVE  /\ pc[c] = "idle" /\ request'[c] = req /\ results'[c] = 0 /\ answer[c] = "none"
             /\ module[c] = NoModule /\ sandboxDetails' = sandboxDetails
             /\ req \in RequestType /\ req # NoRequest
  BY <1>1 DEF Arrives, TypeOK, RequestType, NoRequest, RpcNames, ModuleRpcs, capability, Kinds
<1>2. ASSUME NEW req \in Requests, Invoke(c, req) PROVE ClientInv(c)'
  <2>1. /\ module'[c] \in Modules /\ LangOf[module'[c]] = language(req)
        /\ capability[req.rpc] \in CapabilitiesOf[module'[c]]
    BY <1>2 DEF Invoke, isSupported, TypeOK, Supervisor!TypeOK, Supervisor!Modules, Modules,
                RegistryHoldsLanguage
  <2>2. Arrives(c, req)
    BY <1>2 DEF Invoke
  <2>3. CASE InvokeEmptyCompound(c, req)
    <3>1. /\ req.nested = <<>> /\ pc'[c] = "done" /\ answer'[c] = "ok"
      BY <2>3 DEF InvokeEmptyCompound, Answer, TypeOK
    <3>2. QED
      BY <1>1, <2>1, <2>2, <3>1
  <2>4. CASE InvokeAst(c, req)
    BY <1>1, <2>1, <2>2, <2>4 DEF InvokeAst, Wait, TypeOK
  <2>5. CASE InvokeCodegen(c, req)
    <3>1. /\ req.rpc \in IoRpcs /\ pc'[c] = "codegen" /\ answer'[c] = answer[c]
          /\ current'[c] = 1
      BY <2>5 DEF InvokeCodegen, Wait, TypeOK
    <3>2. req.rpc = "PerformCompoundIOMatch" => 1 <= Len(req.nested)
      <4>1. req.nested \in Seq(Languages \cup {Blank})
        BY <1>1, <2>2 DEF RequestType
      <4>2. req.rpc = "PerformCompoundIOMatch" => req.nested # <<>>
        BY <2>5 DEF InvokeCodegen
      <4>3. QED
        BY <4>1, <4>2
    <3>3. QED
      BY <1>1, <2>1, <2>2, <3>1, <3>2
  <2>6. QED
    BY <1>2, <2>3, <2>4, <2>5 DEF Invoke
<1>3. ASSUME NEW req \in Requests,
             ReportUnimplemented(c, req) \/ ReportNoLanguage(c, req) \/ ListCapabilities(c, req)
      PROVE  ClientInv(c)'
  <2>1. /\ Arrives(c, req) /\ pc'[c] = "done" /\ answer'[c] \notin {"none", "transmitted"}
        /\ module'[c] = module[c]
        /\ req.rpc = "PerformCompoundIOMatch" => answer'[c] # "ok"
    BY <1>3 DEF ReportUnimplemented, ReportNoLanguage, ListCapabilities, Answer, TypeOK
  <2>2. QED
    BY <1>1, <2>1
<1>4. ASSUME NEW req \in Requests, InvokeCustomSandbox(c, req) PROVE ClientInv(c)'
  <2>1. /\ Arrives(c, req) /\ pc'[c] = "sandbox" /\ answer'[c] = answer[c]
        /\ module'[c] = module[c] /\ req.rpc = "InvokeCustomSandbox"
    BY <1>4 DEF InvokeCustomSandbox, Wait, TypeOK
  <2>2. QED
    BY <1>1, <2>1
<1>5. ASSUME Ast(c) \/ Codegen(c) \/ Details(c) \/ Sandbox(c)
      PROVE  /\ pc[c] \notin {"idle", "done"} /\ answer[c] = "none"
             /\ request'[c] = request[c] /\ module'[c] = module[c]
             /\ sandboxDetails \subseteq sandboxDetails' /\ request[c] # NoRequest
             /\ module[c] # NoModule => module[c] \in Modules
  BY <1>5 DEF Ast, AstFails, AstReturns, Codegen, CodegenFails, CodegenReturns, Details,
     DetailsFail, DetailsReturn, Sandbox, SandboxFails, SandboxReturns, TypeOK
<1>6. CASE Ast(c)
  <2>1. pc[c] = "ast" /\ results'[c] = results[c] /\ pc'[c] = "done" /\ answer'[c] # "none"
    BY <1>6 DEF Ast, AstFails, AstReturns, Answer, TypeOK
  <2>2. QED
    BY <1>5, <1>6, <2>1
<1>7. CASE CodegenFails(c) \/ DetailsFail(c) \/ SandboxFails(c)
  <2>1. results'[c] = 0 /\ pc'[c] = "done" /\ answer'[c] = "transmitted"
    BY <1>7 DEF CodegenFails, DetailsFail, SandboxFails, Fails, Answer, TypeOK
  <2>2. QED
    BY <1>5, <1>7, <2>1 DEF Codegen, Details, Sandbox
<1>8. CASE CodegenReturns(c) \/ DetailsReturn(c)
  <2>1. /\ pc[c] \in {"codegen", "details"} /\ pc'[c] \in {"details", "sandbox"}
        /\ pc'[c] = "sandbox" => module[c] \in sandboxDetails'
        /\ answer'[c] = answer[c] /\ results'[c] = results[c] /\ current'[c] = current[c]
    BY <1>8 DEF CodegenReturns, DetailsReturn, Cached, Wait, TypeOK
  <2>2. QED
    BY <1>5, <1>8, <2>1 DEF Codegen, Details
<1>9. CASE SandboxReturns(c)
  <2>1. pc[c] = "sandbox" /\ results'[c] = results[c] + 1
    BY <1>9 DEF SandboxReturns, Succeeds, TypeOK
  <2>2. CASE IsCompound(c) /\ current[c] < Len(request[c].nested)
    <3>1. pc'[c] = "codegen" /\ answer'[c] = answer[c] /\ current'[c] = current[c] + 1
      BY <1>9, <2>2 DEF SandboxReturns, Succeeds, Wait, TypeOK
    <3>2. module[c] \in Modules /\ results[c] = current[c] - 1
      BY <2>1, <2>2
    <3>3. QED
      BY <1>5, <1>9, <2>1, <2>2, <3>1, <3>2 DEF Sandbox, TypeOK
  <2>3. CASE ~(IsCompound(c) /\ current[c] < Len(request[c].nested))
    <3>1. pc'[c] = "done" /\ answer'[c] = "ok"
      BY <1>9, <2>3 DEF SandboxReturns, Succeeds, Answer, TypeOK
    <3>2. IsCompound(c) => results'[c] = Len(request[c].nested)
      <4>1. CASE IsCompound(c)
        <5>1. request[c] \in RequestType
          BY <1>5, <1>9 DEF Sandbox, TypeOK
        <5>2. Len(request[c].nested) \in Nat
          BY <5>1 DEF RequestType
        <5>3. QED
          BY <2>1, <2>3, <4>1, <5>2 DEF TypeOK
      <4>2. QED
        BY <4>1
    <3>3. QED
      BY <1>5, <1>9, <2>1, <3>1, <3>2 DEF Sandbox
  <2>4. QED
    BY <2>2, <2>3
<1>10. QED
  BY <1>2, <1>3, <1>4, <1>6, <1>7, <1>8, <1>9 DEF Turn, Arrive, Codegen, Details, Sandbox

\* The strengthened invariant, of every step of the requests and of the modules.
THEOREM Invariance == Safety => []IInv
<1>1. Init => IInv
  <2> SUFFICES ASSUME Init PROVE IInv
    OBVIOUS
  <2>1. Supervisor!TypeOK /\ RegistryHoldsLanguage
    BY NoModuleAssumption DEF Init, Supervisor!Init, Supervisor!TypeOK, Supervisor!Modules,
       Supervisor!Statuses, Modules, RegistryHoldsLanguage
  <2>2. TypeOK
    BY <2>1 DEF Init, TypeOK, Waits, Kinds
  <2>3. \A c \in Clients : ClientInv(c)
    BY DEF Init, ClientInv, WaitFitsRequest, IsCompound, NoRequest
  <2>4. QED
    BY <2>1, <2>2, <2>3, IInvByClient
<1>2. IInv /\ [Next]_vars => IInv'
  <2> SUFFICES ASSUME IInv, [Next]_vars PROVE IInv'
    OBVIOUS
  <2>1. TypeOK /\ RegistryHoldsLanguage /\ \A c \in Clients : ClientInv(c)
    BY IInvByClient
  <2>2. SUFFICES TypeOK' /\ RegistryHoldsLanguage' /\ \A c \in Clients : ClientInv(c)'
    BY IInvByClient DEF IInv, CompoundAllOrNothing, NestedInOrder, SandboxHasDetails,
       ModuleIsCapable, ClientInv
  <2>3. CASE ModuleStep
    <3>1. Supervisor!TypeOK' /\ RegistryHoldsLanguage'
      BY <2>1, <2>3, ModulesStep DEF ModuleStep
    <3>2. UNCHANGED <<core, sandboxDetails, request, module, pc, current, results, spawned,
                      answer>>
      BY <2>3 DEF ModuleStep, requestVars
    <3>3. QED
      BY <2>1, <3>1, <3>2 DEF TypeOK, ClientInv, WaitFitsRequest, IsCompound
  <2>4. ASSUME NEW c \in Clients, Turn(c)
        PROVE  TypeOK' /\ RegistryHoldsLanguage' /\ \A d \in Clients : ClientInv(d)'
    <3>1. TypeOK'
      BY <2>4, TurnTypes
    <3>2. UNCHANGED moduleVars
      BY <2>4 DEF Turn, Arrive, Invoke, ReportUnimplemented, ReportNoLanguage,
         ListCapabilities, InvokeCustomSandbox, Arrives, Ast, AstFails, AstReturns, Codegen,
         CodegenFails, CodegenReturns, Details, DetailsFail, DetailsReturn, Sandbox,
         SandboxFails, SandboxReturns
    <3>3. RegistryHoldsLanguage'
      BY <2>1, <3>2 DEF RegistryHoldsLanguage, moduleVars
    <3>4. ClientInv(c)'
      BY <2>1, <2>4, <3>1, OwnTurn
    <3>5. ASSUME NEW d \in Clients, d # c PROVE ClientInv(d)'
      BY <2>1, <2>4, <3>5, OtherClients
    <3>6. QED
      BY <3>1, <3>3, <3>4, <3>5
  <2>5. CASE \E c \in Clients : StdinError(c)
    <3>1. core' = "down" /\ UNCHANGED <<moduleVars, sandboxDetails, requestVars>>
      BY <2>5 DEF StdinError
    <3>2. QED
      BY <2>1, <3>1 DEF moduleVars, requestVars, TypeOK, Supervisor!TypeOK,
         RegistryHoldsLanguage, ClientInv, WaitFitsRequest, IsCompound
  <2>6. CASE UNCHANGED vars
    BY <2>1, <2>6 DEF vars, TypeOK, Supervisor!TypeOK, RegistryHoldsLanguage, ClientInv,
       WaitFitsRequest, IsCompound
  <2>7. QED
    BY <2>3, <2>4, <2>5, <2>6 DEF Next, Turn
<1>3. QED
  BY <1>1, <1>2, PTL DEF Safety

\* Every variable keeps its type.
THEOREM TypeCorrect == Safety => []TypeOK
<1>1. IInv => TypeOK
  BY DEF IInv
<1>2. QED
  BY <1>1, Invariance, PTL

\* The answer of a compound request is all its results or none (LanguageModule.ts:311).
THEOREM CompoundAllOrNothingHolds == Safety => []CompoundAllOrNothing
<1>1. IInv => CompoundAllOrNothing
  BY DEF IInv
<1>2. QED
  BY <1>1, Invariance, PTL

\* Nested requests run one after the other, and only after successes.
THEOREM NestedInOrderHolds == Safety => []NestedInOrder
<1>1. IInv => NestedInOrder
  BY DEF IInv
<1>2. QED
  BY <1>1, Invariance, PTL

\* No sandbox is started for a module whose details are missing (LanguageModule.ts:178).
THEOREM SandboxHasDetailsHolds == Safety => []SandboxHasDetails
<1>1. IInv => SandboxHasDetails
  BY DEF IInv
<1>2. QED
  BY <1>1, Invariance, PTL

\* The module that works on a request has the language and the capability it needs.
THEOREM ModuleIsCapableHolds == Safety => []ModuleIsCapable
<1>1. IInv => ModuleIsCapable
  BY DEF IInv
<1>2. QED
  BY <1>1, Invariance, PTL

\* A turn for a client is a step of the service: it receives a request, answers it, or
\* changes nothing that the client sees.
LEMMA TurnIsServiceStep ==
  ASSUME TypeOK, NEW c \in Clients, ClientInv(c), Turn(c)
  PROVE  [Service!Next]_Service!vars
<1> USE DEF Service!Next, Service!vars, Service!Request, Service!Answer, Service!Receive,
            Service!Reply, Resumes
<1> DEFINE asked == [d \in Clients |-> request[d].rpc]
<1>1. ASSUME NEW req \in Requests, Arrives(c, req)
      PROVE  /\ asked[c] = "none" /\ answer[c] = "none" /\ req.rpc \in Service!RpcNames
             /\ asked' = [asked EXCEPT ![c] = req.rpc]
  <2>1. pc[c] = "idle" /\ request' = [request EXCEPT ![c] = req]
    BY <1>1 DEF Arrives
  <2>2. request[c] = NoRequest /\ answer[c] = "none"
    BY <2>1 DEF ClientInv, WaitFitsRequest
  <2>3. req.rpc \in Service!RpcNames
    BY RequestsAssumption DEF RequestType, RpcNames, ModuleRpcs, capability, Service!RpcNames
  <2>4. asked' = [asked EXCEPT ![c] = req.rpc]
    BY <2>1 DEF TypeOK
  <2>5. QED
    BY <2>2, <2>3, <2>4 DEF NoRequest
<1>2. ASSUME NEW req \in Requests, Arrives(c, req),
             \/ UNCHANGED answer
             \/ \E kind \in AnswersTo(req.rpc) : answer' = [answer EXCEPT ![c] = kind]
      PROVE  Service!Next
  BY <1>1, <1>2
<1>3. ASSUME UNCHANGED request, answer[c] = "none", request[c].rpc # "none",
             \/ UNCHANGED answer
             \/ \E kind \in AnswersTo(request[c].rpc) : answer' = [answer EXCEPT ![c] = kind]
      PROVE  [Service!Next]_Service!vars
  BY <1>3
<1>4. CASE Arrive(c)
  <2>1. PICK req \in Requests : \/ Invoke(c, req) \/ ReportUnimplemented(c, req)
                                \/ ReportNoLanguage(c, req) \/ ListCapabilities(c, req)
                                \/ InvokeCustomSandbox(c, req)
    BY <1>4 DEF Arrive
  <2>2. Arrives(c, req)
    BY <2>1 DEF Invoke, ReportUnimplemented, ReportNoLanguage, ListCapabilities,
       InvokeCustomSandbox
  <2>3. CASE Invoke(c, req)
    BY <1>2, <2>2, <2>3 DEF Invoke, InvokeEmptyCompound, InvokeAst, InvokeCodegen, Wait, Answer,
       AnswersTo
  <2>4. CASE ReportUnimplemented(c, req)
    BY <1>2, <2>2, <2>4 DEF ReportUnimplemented, Answer, AnswersTo, ModuleRpcs, capability
  <2>5. CASE ReportNoLanguage(c, req)
    <3>1. req.rpc = "PerformCompoundIOMatch"
      BY <2>5, RequestsAssumption DEF ReportNoLanguage, language
    <3>2. QED
      BY <1>2, <2>2, <2>5, <3>1 DEF ReportNoLanguage, Answer, AnswersTo
  <2>6. CASE ListCapabilities(c, req)
    BY <1>2, <2>2, <2>6 DEF ListCapabilities, Answer, AnswersTo
  <2>7. CASE InvokeCustomSandbox(c, req)
    BY <1>2, <2>2, <2>7 DEF InvokeCustomSandbox, Wait
  <2>8. QED
    BY <2>1, <2>3, <2>4, <2>5, <2>6, <2>7
<1>5. CASE Ast(c) \/ Codegen(c) \/ Details(c) \/ Sandbox(c)
  <2>1. /\ UNCHANGED request /\ pc[c] \in {"ast", "codegen", "details", "sandbox"}
    BY <1>5 DEF Ast, AstFails, AstReturns, Codegen, CodegenFails, CodegenReturns, Details,
       DetailsFail, DetailsReturn, Sandbox, SandboxFails, SandboxReturns
  <2>2. /\ answer[c] = "none"
        /\ request[c].rpc \in {"GenerateAst", "PerformAstMatch", "InvokeCustomSandbox"} \cup IoRpcs
    BY <2>1 DEF ClientInv, WaitFitsRequest, TypeOK, Waits
  <2>3. CASE Ast(c)
    <3>1. request[c].rpc \in {"GenerateAst", "PerformAstMatch"}
      BY <2>3 DEF Ast, AstFails, AstReturns, ClientInv, WaitFitsRequest
    <3>2. QED
      BY <1>3, <2>1, <2>2, <2>3, <3>1 DEF Ast, AstFails, AstReturns, Answer, AnswersTo
  <2>4. CASE Codegen(c) \/ Details(c) \/ Sandbox(c)
    <3>1. request[c].rpc \in {"InvokeCustomSandbox"} \cup IoRpcs
      BY <2>4 DEF Codegen, CodegenFails, CodegenReturns, Details, DetailsFail, DetailsReturn,
         Sandbox, SandboxFails, SandboxReturns, ClientInv, WaitFitsRequest, TypeOK, Waits
    <3>2. {"ok", "transmitted"} \subseteq AnswersTo(request[c].rpc)
      BY <3>1 DEF IoRpcs, AnswersTo
    <3>3. UNCHANGED answer \/ \E kind \in {"ok", "transmitted"} :
                                  answer' = [answer EXCEPT ![c] = kind]
      BY <2>4 DEF Codegen, CodegenFails, CodegenReturns, Details, DetailsFail, DetailsReturn,
         Sandbox, SandboxFails, SandboxReturns, Fails, Succeeds, Wait, Answer
    <3>4. QED
      BY <1>3, <2>1, <2>2, <3>1, <3>2, <3>3 DEF IoRpcs
  <2>5. QED
    BY <1>5, <2>3, <2>4
<1>6. QED
  BY <1>4, <1>5 DEF Turn

\* The server core implements the service: every request is answered at most once, and
\* with a kind of answer that its RPC has.
THEOREM AnswersOnceHolds == Safety => AnswersOnce
<1>1. Init => Service!Init
  BY DEF Init, Service!Init, NoRequest
<1>2. IInv /\ [Next]_vars => [Service!Next]_Service!vars
  <2> SUFFICES ASSUME IInv, [Next]_vars PROVE [Service!Next]_Service!vars
    OBVIOUS
  <2>1. TypeOK /\ \A c \in Clients : ClientInv(c)
    BY IInvByClient
  <2>2. CASE ModuleStep \/ (\E c \in Clients : StdinError(c)) \/ UNCHANGED vars
    BY <2>2 DEF ModuleStep, StdinError, requestVars, vars, Service!vars
  <2>3. CASE \E c \in Clients : Turn(c)
    BY <2>1, <2>3, TurnIsServiceStep
  <2>4. QED
    BY <2>2, <2>3 DEF Next, Turn
<1>3. QED
  BY <1>1, <1>2, Invariance, PTL DEF Safety, AnswersOnce, Service!Safety
=============================================================================
