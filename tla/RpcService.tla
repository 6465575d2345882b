----------------------------- MODULE RpcService -----------------------------
(***************************************************************************)
(* What the gRPC service promises its clients: every request it receives   *)
(* is answered once, and which kinds of answer a request can get.          *)
(*   "ok"            a result                                              *)
(*   "transmitted"   a response whose error field is set                   *)
(*   "unimplemented" no such language, or no such capability               *)
(*   "internal"      an error status                                       *)
(***************************************************************************)
CONSTANTS Clients,     \* request slots
          Answers(_)   \* the kinds of answer to an RPC of this name

VARIABLES rpc,         \* the RPC that each slot asked for, or "none"
          answer       \* the answer it was given, or "none"

vars == <<rpc, answer>>

RpcNames == {"GenerateAst", "PerformAstMatch", "PerformIOMatch", "PerformCompoundIOMatch",
             "PerformUnitTests", "InvokeCustomSandbox", "ListCapabilities"}

Init == rpc = [c \in Clients |-> "none"] /\ answer = [c \in Clients |-> "none"]

Receive(c, name) == /\ rpc[c] = "none"
                    /\ rpc' = [rpc EXCEPT ![c] = name]

Reply(c, name, kind) == /\ answer[c] = "none"
                        /\ kind \in Answers(name)
                        /\ answer' = [answer EXCEPT ![c] = kind]

\* The answer to a request received earlier.
Answer(c) == /\ rpc[c] # "none"
             /\ \E kind \in Answers(rpc[c]) : Reply(c, rpc[c], kind)
             /\ UNCHANGED rpc

\* A request that needs nothing from outside is answered on the spot.
Request(c) == \E name \in RpcNames :
                /\ Receive(c, name)
                /\ \/ UNCHANGED answer
                   \/ \E kind \in Answers(name) : Reply(c, name, kind)

Next == \E c \in Clients : Request(c) \/ Answer(c)

\* A request that was received is answered.
Answered(c) == WF_vars(Answer(c))

Safety == Init /\ [][Next]_vars
Spec   == Safety /\ \A c \in Clients : Answered(c)
=============================================================================
