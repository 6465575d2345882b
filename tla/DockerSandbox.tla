--------------------------- MODULE DockerSandbox ---------------------------
(***************************************************************************)
(* One run of DockerSandbox.run (server/core/source/ts/DockerSandbox.ts):  *)
(* the core spawns the docker client, feeds it the generated code, buffers *)
(* what comes out of its two pipes and settles a promise.  The docker      *)
(* client with its container, the pipes and Node's event queues are        *)
(* actors of their own: 'data' events and the 'exit' event come in any     *)
(* order, and data may still be in a pipe when 'exit' is delivered.        *)
(*                                                                         *)
(* Output is counted in units; what it says does not matter here.          *)
(***************************************************************************)
EXTENDS Naturals

CONSTANTS
  STDOUT_LIMIT, STDERR_LIMIT,  \* size limits
  DEFAULT_TIMEOUT,             \* seconds
  Timeouts,                    \* values of the request's timeout field
  MaxOutput                    \* bound: units the program writes to one stream

ASSUME LimitsAssumption == STDOUT_LIMIT \in Nat /\ STDERR_LIMIT \in Nat
ASSUME TimeoutsAssumption == DEFAULT_TIMEOUT \in Nat \ {0} /\ Timeouts \subseteq Nat
ASSUME BoundAssumption == MaxOutput \in Nat

Streams == {"stdout", "stderr"}

VARIABLES
  combine,    \* argument: stderr goes to the stdout buffer
  timeout,    \* argument: 0 means "use the default"
  process,    \* this.process # null
  client,     \* the docker client
  exitCode,   \* 0 for success, 1 for everything else (a signal's null too)
  stdin,      \* what has become of the input
  written,    \* units the program has written to each pipe
  delivered,  \* units handed to the 'data' listeners
  output,     \* byteLength of the SandboxOutput's two buffers
  promise,    \* the promise of run()
  reason,     \* why it was rejected
  returned,   \* the output as the awaiting code finds it
  core        \* the server core's own process

args   == <<combine, timeout>>
result == <<promise, reason, returned>>
pipes  == <<written, delivered, output>>
vars   == <<combine, timeout, process, client, exitCode, stdin, written, delivered, output,
            promise, reason, returned, core>>

\* "ended": the client is gone, its 'exit' event still queued; "reaped": delivered.
Clients  == {"none", "running", "signalled", "ended", "reaped"}
\* "pending": more input than the pipe holds is waiting for the client to read it.
Inputs   == {"none", "pending", "consumed"}
Promises == {"pending", "resolved", "rejected"}
Reasons  == {"none", "spawn", "limit", "exit"}
Buffers  == [Streams -> Nat]
Nothing  == [s \in Streams |-> 0]

TypeOK ==
  /\ combine \in BOOLEAN /\ timeout \in Timeouts
  /\ process \in BOOLEAN
  /\ client \in Clients
  /\ exitCode \in {0, 1}
  /\ stdin \in Inputs
  /\ written \in Buffers /\ delivered \in Buffers /\ output \in Buffers
  /\ promise \in Promises /\ reason \in Reasons /\ returned \in Buffers
  /\ core \in {"up", "down"}

Init ==
  /\ combine \in BOOLEAN /\ timeout \in Timeouts
  /\ process = FALSE
  /\ client = "none"
  /\ exitCode = 0
  /\ stdin = "none"
  /\ written = Nothing /\ delivered = Nothing /\ output = Nothing
  /\ promise = "pending" /\ reason = "none" /\ returned = Nothing
  /\ core = "up"

-----------------------------------------------------------------------------
(* The promise, and SubprocessManagerBase.kill *)

Reject(why) ==
  IF promise = "pending"
  THEN promise' = "rejected" /\ reason' = why /\ UNCHANGED returned
  ELSE UNCHANGED result

\* Fault: only the stdout buffer is handed on.
FaultResolvesStdout(out) ==
  /\ promise' = "resolved" /\ UNCHANGED reason
  /\ returned' = [s \in {"stdout"} |-> out[s]]

\* The awaiting continuations run, and read both buffers, before the next event.
Resolve(out) ==
  IF promise = "pending"
  THEN promise' = "resolved" /\ returned' = out /\ UNCHANGED reason
  ELSE UNCHANGED result

\* Fault: the client is not killed.
FaultNoKill == UNCHANGED client

\* SIGTERM to the docker client, if this.process is set.
Kill == client' = IF process /\ client = "running" THEN "signalled" ELSE client

-----------------------------------------------------------------------------
(* run(): spawn, feed the input, register the handlers *)

\* Fault: timeout(1) is given a 0, which disables it.
FaultNoDefault == timeout

sandboxTimeout == IF timeout # 0 THEN timeout ELSE DEFAULT_TIMEOUT

Ready == client = "none" /\ ~process /\ promise = "pending" /\ core = "up"

RunSpawns ==
  /\ Ready
  /\ process' = TRUE
  /\ client' = "running"
  /\ stdin' \in {"pending", "consumed"}
  /\ UNCHANGED <<args, exitCode, pipes, result, core>>

\* spawn() reports an 'error' event (Node destroys the stdin stream on the way);
\* this.process stays set.
RunEmitsError ==
  /\ Ready
  /\ process' = TRUE
  /\ Reject("spawn")
  /\ UNCHANGED <<args, client, exitCode, stdin, pipes, core>>

\* spawn() throws, or returns without stdio so that stdin.write throws: the
\* promise's executor ends there.
RunThrows ==
  /\ Ready
  /\ process' \in BOOLEAN
  /\ Reject("spawn")
  /\ UNCHANGED <<args, client, exitCode, stdin, pipes, core>>

-----------------------------------------------------------------------------
(* 'data' events *)

stdoutLimit  == IF combine THEN STDOUT_LIMIT + STDERR_LIMIT ELSE STDOUT_LIMIT
stderrTarget == IF combine THEN "stdout" ELSE "stderr"

\* The buffer and the limit that each stream's listener hands to outputHelper.
target(s) == IF s = "stdout" THEN "stdout" ELSE stderrTarget
limit(s)  == IF s = "stdout" THEN stdoutLimit ELSE STDERR_LIMIT

\* Faults: the size of the chunk is compared instead of the buffer's; >= instead of >.
FaultChunkSize(n, key, max) ==
  /\ output' = [output EXCEPT ![key] = @ + n]
  /\ IF n > max THEN Reject("limit") /\ Kill ELSE UNCHANGED <<result, client>>
FaultOffByOne(n, key, max) ==
  /\ output' = [output EXCEPT ![key] = @ + n]
  /\ IF output'[key] >= max THEN Reject("limit") /\ Kill ELSE UNCHANGED <<result, client>>

outputHelper(n, key, max) ==
  /\ output' = [output EXCEPT ![key] = @ + n]
  /\ IF output'[key] > max THEN Reject("limit") /\ Kill ELSE UNCHANGED <<result, client>>

\* Some of what is in pipe s is read and handed over: before or after the client
\* ends, before or after its 'exit' event.
DataEvent(s) ==
  /\ core = "up"
  /\ \E n \in 1..(written[s] - delivered[s]) :
       /\ delivered' = [delivered EXCEPT ![s] = @ + n]
       /\ outputHelper(n, target(s), limit(s))
  /\ UNCHANGED <<args, process, exitCode, stdin, written, core>>

-----------------------------------------------------------------------------
(* The 'exit' event *)

\* Fault: the exit code is not looked at.
FaultIgnoresCode ==
  /\ core = "up" /\ client = "ended"
  /\ client' = "reaped"
  /\ process' = FALSE
  /\ Resolve(output)
  /\ UNCHANGED <<args, exitCode, stdin, pipes, core>>

\* Node destroys the stdin stream, and with it input still waiting, as it emits 'exit'.
ExitEvent ==
  /\ core = "up" /\ client = "ended"
  /\ client' = "reaped"
  /\ process' = FALSE
  /\ stdin' = IF stdin = "pending" THEN "none" ELSE stdin
  /\ IF exitCode = 0 THEN Resolve(output) ELSE Reject("exit")
  /\ UNCHANGED <<args, exitCode, pipes, core>>

-----------------------------------------------------------------------------
(* The docker client, the container and the pipes *)

Live == client \in {"running", "signalled"}

ProgramWrites(s) ==
  /\ Live
  /\ written[s] < MaxOutput
  /\ written' = [written EXCEPT ![s] = @ + 1]
  /\ UNCHANGED <<args, process, client, exitCode, stdin, delivered, output, result, core>>

ReadsInput ==
  /\ Live
  /\ stdin = "pending"
  /\ stdin' = "consumed"
  /\ UNCHANGED <<args, process, client, exitCode, pipes, result, core>>

Ends(codes) ==
  /\ client' = "ended"
  /\ exitCode' \in codes
  /\ UNCHANGED <<args, process, stdin, pipes, result, core>>

\* The program ends by itself, or docker fails; either may happen before the input is read.
ProgramEnds == client = "running" /\ Ends({0, 1})

\* A signalled client ends, perhaps normally if the program was just done.
SignalEnds == client = "signalled" /\ Ends({0, 1})

\* timeout --signal=SIGKILL: a duration of 0 would never expire.
TimeoutExpires == client = "running" /\ sandboxTimeout # 0 /\ Ends({1})

\* The write of the pending input fails (EPIPE) before 'exit' is delivered: the stdin
\* stream emits 'error', nothing listens, and the uncaught exception ends the core.
StdinError ==
  /\ core = "up"
  /\ stdin = "pending" /\ client = "ended"
  /\ core' = "down"
  /\ UNCHANGED <<args, process, client, exitCode, stdin, pipes, result>>

-----------------------------------------------------------------------------
Run     == RunSpawns \/ RunEmitsError \/ RunThrows
Program == (\E s \in Streams : ProgramWrites(s)) \/ ReadsInput \/ ProgramEnds
             \/ SignalEnds \/ TimeoutExpires

Next == Run \/ (\E s \in Streams : DataEvent(s)) \/ ExitEvent \/ StdinError \/ Program

(***************************************************************************)
(* Fairness.  run() is called.  Queued events are delivered.  A signalled  *)
(* client ends, and timeout(1) ends a program that does not end by itself. *)
(* A program need never write, read or end on its own.                     *)
(***************************************************************************)
Fairness ==
  /\ WF_vars(Run)
  /\ \A s \in Streams : WF_vars(DataEvent(s))
  /\ WF_vars(ExitEvent)
  /\ WF_vars(SignalEnds)
  /\ WF_vars(TimeoutExpires)

Safety == Init /\ [][Next]_vars
Spec   == Safety /\ Fairness

-----------------------------------------------------------------------------
(* Properties *)

\* The output of a successful run is within the limits, although the check comes
\* after the data is stored and data keeps arriving after a kill that may be late.
SuccessWithinLimits ==
  promise = "resolved" =>
    /\ returned["stdout"] <= stdoutLimit
    /\ returned["stderr"] <= STDERR_LIMIT

\* Once a buffer is over its limit the client is not left running: a program that
\* floods its output is stopped, not just reported.
OverflowIsStopped ==
  \A s \in Streams : output[s] > (IF s = "stdout" THEN stdoutLimit ELSE STDERR_LIMIT) =>
    client # "running" /\ promise # "pending"

\* A run is rejected for its length only if its output really is too long: one of the
\* streams, or both together if they are combined ("in which case we combine their size
\* limits", DockerSandbox.ts:94). The code makes one exception: as soon as a combined run
\* writes to stderr, that listener holds the shared buffer against the stderr limit alone.
RejectionJustified ==
  LET total == written["stdout"] + written["stderr"]
  IN reason = "limit" =>
       IF combine
       THEN \/ total > STDOUT_LIMIT + STDERR_LIMIT
            \/ written["stderr"] > 0 /\ total > STDERR_LIMIT
       ELSE written["stdout"] > STDOUT_LIMIT \/ written["stderr"] > STDERR_LIMIT

\* Nothing that was handed to the listeners is lost or stored twice: with combine
\* everything is in stdout, otherwise each stream is in its own buffer.
BuffersHoldDelivered ==
  IF combine
  THEN output["stdout"] = delivered["stdout"] + delivered["stderr"] /\ output["stderr"] = 0
  ELSE output = delivered

\* A failed program is never reported as a success, nor one that was cut off.
FailureIsReported ==
  promise = "resolved" => exitCode = 0 /\ client = "reaped" /\ ~process

\* Whatever the program does, run() settles, unless the core itself goes down.
RunSettles == <>(promise # "pending" \/ core = "down")

\* The inductive invariant behind the safety properties (DockerSandboxProofs).
IInv ==
  /\ TypeOK
  /\ SuccessWithinLimits /\ OverflowIsStopped /\ RejectionJustified
  /\ BuffersHoldDelivered /\ FailureIsReported
  /\ client = "running" => process
  /\ client = "none" => written = Nothing
  /\ \A s \in Streams : delivered[s] <= written[s]
  /\ reason # "none" => promise = "rejected"

-----------------------------------------------------------------------------
(* What comments in the code and the protocol say, and other orders refute *)

\* "returns the output data" (DockerSandbox.ts:32), "The captured stdout data"
\* (server.proto:60): a successful run returns all that the program wrote.
OutputComplete ==
  promise = "resolved" =>
    returned["stdout"] + returned["stderr"] = written["stdout"] + written["stderr"]

\* "Transmit any errors to the client" (LanguageModule.ts:284): no outcome of a run
\* ends the core.
CoreSurvives == core = "up"
=============================================================================
