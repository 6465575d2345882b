------------------------ MODULE DockerSandboxProofs ------------------------
(***************************************************************************)
(* Proofs about DockerSandbox, for any limits, timeouts and amount of      *)
(* output.                                                                 *)
(***************************************************************************)
EXTENDS DockerSandbox, TLAPS

\* The buffers, the pipes, the client and the promise agree in every state: what the
\* size checks and the 'exit' handler rely on.
THEOREM Invariance == Safety => []IInv
<1> USE LimitsAssumption, TimeoutsAssumption, BoundAssumption
        DEF Streams, Clients, Inputs, Promises, Reasons, Buffers, Nothing, stdoutLimit
<1>1. Init => IInv
  <2> SUFFICES ASSUME Init PROVE IInv
    OBVIOUS
  <2>1. TypeOK
    BY DEF Init, TypeOK
  <2>2. \A s \in Streams : output[s] = 0 /\ delivered[s] = 0 /\ written[s] = 0
    BY DEF Init
  <2>3. OverflowIsStopped
    BY <2>2 DEF OverflowIsStopped
  <2>4. BuffersHoldDelivered
    BY <2>2 DEF Init, BuffersHoldDelivered
  <2>5. SuccessWithinLimits /\ RejectionJustified /\ FailureIsReported
    BY DEF Init, SuccessWithinLimits, RejectionJustified, FailureIsReported
  <2>6. QED
    BY <2>1, <2>2, <2>3, <2>4, <2>5 DEF Init, IInv
<1>2. IInv /\ [Next]_vars => IInv'
  <2> SUFFICES ASSUME IInv, [Next]_vars PROVE IInv'
    OBVIOUS
  <2> USE DEF IInv, TypeOK, SuccessWithinLimits, OverflowIsStopped,
              RejectionJustified, BuffersHoldDelivered, FailureIsReported
  <2>1. CASE UNCHANGED vars
    BY <2>1 DEF vars
  <2>2. CASE RunSpawns
    BY <2>2 DEF RunSpawns, Ready, args, pipes, result
  <2>3. CASE RunEmitsError \/ RunThrows
    <3>1. /\ client = "none" /\ promise = "pending" /\ process' \in BOOLEAN
          /\ promise' = "rejected" /\ reason' = "spawn" /\ returned' = returned
          /\ UNCHANGED <<args, client, exitCode, stdin, pipes, core>>
      BY <2>3 DEF RunEmitsError, RunThrows, Ready, Reject
    <3>2. QED
      BY <3>1 DEF args, pipes
  <2>4. ASSUME NEW s \in Streams, DataEvent(s) PROVE IInv'
    <3>1. PICK n \in 1..(written[s] - delivered[s]) :
            /\ delivered' = [delivered EXCEPT ![s] = @ + n]
            /\ outputHelper(n, target(s), limit(s))
      BY <2>4 DEF DataEvent
    <3>2. /\ UNCHANGED <<combine, timeout, process, exitCode, stdin, written, core>>
          /\ n \in Nat /\ delivered[s] + n <= written[s]
      BY <2>4 DEF DataEvent, args
    <3>3. output' = [output EXCEPT ![target(s)] = @ + n] /\ target(s) \in Streams
      BY <3>1 DEF outputHelper, target, stderrTarget
    <3>4. delivered' \in Buffers /\ output' \in Buffers
      BY <3>1, <3>2, <3>3
    <3>5. \A t \in Streams : delivered'[t] <= written'[t]
      BY <3>1, <3>2
    <3>6. BuffersHoldDelivered'
      <4>1. CASE combine
        BY <3>1, <3>2, <3>3, <4>1 DEF target, stderrTarget
      <4>2. CASE ~combine
        <5>1. target(s) = s
          BY <4>2 DEF target, stderrTarget
        <5>2. output' = delivered'
          BY <3>1, <3>3, <4>2, <5>1
        <5>3. QED
          BY <3>2, <4>2, <5>2
      <4>3. QED
        BY <4>1, <4>2
    <3>7. CASE output'[target(s)] > limit(s)
      <4>1. Reject("limit") /\ Kill
        BY <3>1, <3>7 DEF outputHelper
      <4>2. promise' # "pending" /\ client' # "running"
        BY <4>1 DEF Reject, Kill, result
      <4>3. RejectionJustified'
        BY <3>2, <3>3, <3>4, <3>5, <3>6, <3>7, <4>1 DEF Reject, result, target, limit,
                                                        stderrTarget
      <4>4. QED
        BY <3>2, <3>4, <3>5, <3>6, <4>1, <4>2, <4>3 DEF Reject, Kill, result
    <3>8. CASE ~(output'[target(s)] > limit(s))
      <4>1. UNCHANGED <<promise, reason, returned, client>>
        BY <3>1, <3>8 DEF outputHelper, result
      <4>2. OverflowIsStopped'
        BY <3>2, <3>3, <3>8, <4>1 DEF target, limit, stderrTarget
      <4>3. QED
        BY <3>2, <3>4, <3>5, <3>6, <4>1, <4>2
    <3>9. QED
      BY <3>7, <3>8
  <2>5. CASE ExitEvent
    <3>1. /\ client = "ended" /\ client' = "reaped" /\ process' = FALSE
          /\ stdin' \in Inputs /\ UNCHANGED <<args, exitCode, pipes, core>>
      BY <2>5 DEF ExitEvent
    <3>2. CASE exitCode = 0 /\ promise = "pending"
      <4>1. promise' = "resolved" /\ returned' = output /\ reason' = reason
        BY <2>5, <3>2 DEF ExitEvent, Resolve
      <4>2. SuccessWithinLimits'
        BY <3>1, <3>2, <4>1 DEF args
      <4>3. QED
        BY <3>1, <3>2, <4>1, <4>2 DEF args, pipes
    <3>3. CASE exitCode # 0 /\ promise = "pending"
      <4>1. promise' = "rejected" /\ returned' = returned /\ reason' = "exit"
        BY <2>5, <3>3 DEF ExitEvent, Reject
      <4>2. QED
        BY <3>1, <4>1 DEF args, pipes
    <3>4. CASE promise # "pending"
      <4>1. UNCHANGED <<promise, reason, returned>>
        BY <2>5, <3>4 DEF ExitEvent, Resolve, Reject, result
      <4>2. QED
        BY <3>1, <3>4, <4>1 DEF args, pipes
    <3>5. QED
      BY <3>2, <3>3, <3>4
  <2>6. CASE StdinError
    BY <2>6 DEF StdinError, args, pipes, result
  <2>7. ASSUME NEW s \in Streams, ProgramWrites(s) PROVE IInv'
    BY <2>7 DEF ProgramWrites, Live, args, result
  <2>8. CASE ReadsInput
    BY <2>8 DEF ReadsInput, args, pipes, result
  <2>9. CASE ProgramEnds \/ SignalEnds \/ TimeoutExpires
    BY <2>9 DEF ProgramEnds, SignalEnds, TimeoutExpires, Ends, args, pipes, result
  <2>10. QED
    BY <2>1, <2>2, <2>3, <2>4, <2>5, <2>6, <2>7, <2>8, <2>9 DEF Next, Run, Program
<1>3. QED
  BY <1>1, <1>2, PTL DEF Safety

\* Every variable keeps its type.
THEOREM TypeCorrect == Safety => []TypeOK
<1>1. IInv => TypeOK
  BY DEF IInv
<1>2. QED
  BY <1>1, Invariance, PTL

\* A successful run's output is within the limits.
THEOREM SuccessWithinLimitsHolds == Safety => []SuccessWithinLimits
<1>1. IInv => SuccessWithinLimits
  BY DEF IInv
<1>2. QED
  BY <1>1, Invariance, PTL

\* A client whose output is over a limit has been signalled or has ended.
THEOREM OverflowIsStoppedHolds == Safety => []OverflowIsStopped
<1>1. IInv => OverflowIsStopped
  BY DEF IInv
<1>2. QED
  BY <1>1, Invariance, PTL

\* Only output that is too long is rejected as too long, or combined output with something
\* from stderr that is longer than stderr may be.
THEOREM RejectionJustifiedHolds == Safety => []RejectionJustified
<1>1. IInv => RejectionJustified
  BY DEF IInv
<1>2. QED
  BY <1>1, Invariance, PTL

\* What the listeners were given is in the buffers, once, and in the right one.
THEOREM BuffersHoldDeliveredHolds == Safety => []BuffersHoldDelivered
<1>1. IInv => BuffersHoldDelivered
  BY DEF IInv
<1>2. QED
  BY <1>1, Invariance, PTL

\* A run resolves only after the client ended with code 0.
THEOREM FailureIsReportedHolds == Safety => []FailureIsReported
<1>1. IInv => FailureIsReported
  BY DEF IInv
<1>2. QED
  BY <1>1, Invariance, PTL
=============================================================================
