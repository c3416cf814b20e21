---------------------------- MODULE SapiFunction ----------------------------
(***************************************************************************)
(* One SapiBiddingFunction (src/function/sapi_bidding_function.cc) and the *)
(* sandboxee process it talks to (the ServeRequest loop in the same file    *)
(* and bidding_function_sapi_adapter.cc).                                   *)
(*                                                                         *)
(* Create, run by the refresh thread, starts the sandbox, arms a 5 s wall  *)
(* time limit, sends kCompile and the spec, reads the status and disarms   *)
(* the limit.  The function then sits in the repository and every request  *)
(* thread holding the repository reader lock may call BatchInvoke on it:   *)
(* arm the 1 s limit, send kBatchExecute and the inputs, read a status and *)
(* on success the outputs, disarm.  Nothing serialises these exchanges.    *)
(*                                                                         *)
(* sandbox2::Comms sends and receives one whole message under its own      *)
(* lock, so a message is the unit of interleaving.  A payload is abstracted *)
(* to the party whose inputs (or spec) it was computed from.                *)
(***************************************************************************)
EXTENDS Integers, Sequences, FiniteSets

CONSTANTS
    Callers,    \* request threads sharing the function (under the reader lock)
    Creator,    \* the refresh thread running Create (owner of the spec)
    Loops,      \* whether a compile or a batch may run forever: {FALSE} or BOOLEAN
    NoOwner,
    NoResult

ASSUME Creator \notin Callers /\ Loops \subseteq BOOLEAN /\ Loops # {}

VARIABLES
    creator,    \* where Create is: "init" .. "ready" | "failed"
    pc,         \* per caller: where its BatchInvoke is
    result,     \* per caller: what its last BatchInvoke returned
    toBox,      \* messages sent to the sandboxee, in order
    toHost,     \* messages sent by the sandboxee, in order
    alive,      \* the sandboxee process runs
    armed,      \* a wall time limit is set on the sandbox
    box,        \* the sandboxee: "serve" | "recv_spec" | "recv_inputs" | "compiling" | "executing"
    boxFn,      \* function_type in the sandboxee: "empty" | "ready"
    running,    \* owner of the spec or inputs being compiled or executed
    looping     \* the script being run never finishes

vars == <<creator, pc, result, toBox, toHost, alive, armed, box, boxFn, running, looping>>

-----------------------------------------------------------------------------
(* Messages and results.                                                    *)

Cmd(op) == [tag |-> op]
Payload(o) == [tag |-> "proto", owner |-> o]
Status(code) == [tag |-> "status", code |-> code]

ErrorCodes == {"INVALID_ARGUMENT", "FAILED_PRECONDITION", "INTERNAL", "UNAVAILABLE"}
Outputs(o) == [ok |-> TRUE, owner |-> o]
Error(code) == [ok |-> FALSE, code |-> code]

Busy == box \in {"compiling", "executing"}

\* The process is gone: sandbox2 closed both ends of the comms channel.
Terminated ==
    /\ alive' = FALSE /\ armed' = FALSE
    /\ toBox' = <<>> /\ toHost' = <<>>
    /\ box' = "serve" /\ running' = NoOwner /\ looping' = FALSE

-----------------------------------------------------------------------------
(* SapiBiddingFunction::Create (155-168), Sandbox::CompileFunction (110-125). *)
(* Every RETURN_IF_ERROR drops the sandbox, whose destructor ends it.        *)

CreateFails ==
    /\ creator' = "failed"
    /\ Terminated
    /\ UNCHANGED <<pc, result, boxFn>>

CreateStep(from, to, effect) ==
    /\ creator = from
    /\ IF alive THEN effect /\ creator' = to ELSE CreateFails

\* sandbox->Init(): the forkserver spawns the sandboxee, or fails.
CreateInit ==
    /\ creator = "init"
    /\ \/ /\ alive' = TRUE /\ creator' = "arm"
          /\ UNCHANGED <<pc, result, toBox, toHost, armed, box, boxFn, running, looping>>
       \/ CreateFails

\* Variant: Create compiles with no wall time limit.
CreateArmSkipped ==
    CreateStep("arm", "send_cmd",
        UNCHANGED <<pc, result, toBox, toHost, alive, armed, box, boxFn, running, looping>>)

\* SetWallTimeLimit(kCompileTimeLimit).
CreateArm ==
    CreateStep("arm", "send_cmd",
        armed' = TRUE /\ UNCHANGED <<pc, result, toBox, toHost, alive, box, boxFn, running, looping>>)

CreateSendCmd ==
    CreateStep("send_cmd", "send_spec",
        toBox' = Append(toBox, Cmd("compile"))
        /\ UNCHANGED <<pc, result, toHost, alive, armed, box, boxFn, running, looping>>)

CreateSendSpec ==
    CreateStep("send_spec", "recv_status",
        toBox' = Append(toBox, Payload(Creator))
        /\ UNCHANGED <<pc, result, toHost, alive, armed, box, boxFn, running, looping>>)

\* RecvStatus blocks until a message arrives or the channel closes; a compile
\* error, or a message that is not a status, fails Create.
CreateRecvStatus ==
    /\ creator = "recv_status"
    /\ toHost # <<>> \/ ~alive
    /\ IF alive /\ Head(toHost) = Status("OK")
       THEN /\ creator' = "disarm" /\ toHost' = Tail(toHost)
            /\ UNCHANGED <<pc, result, toBox, alive, armed, box, boxFn, running, looping>>
       ELSE CreateFails

\* SetWallTimeLimit(absl::ZeroDuration()), then the function is handed out.
CreateDisarm ==
    CreateStep("disarm", "ready",
        armed' = FALSE /\ UNCHANGED <<pc, result, toBox, toHost, alive, box, boxFn, running, looping>>)

-----------------------------------------------------------------------------
(* SapiBiddingFunction::BatchInvoke (170-188) and Sandbox::BatchExecute      *)
(* (127-153), by caller c.  A failed BatchExecute still disarms (179); a     *)
(* failed SetWallTimeLimit returns at once.                                  *)

Goto(c, to) == pc' = [pc EXCEPT ![c] = to]
Fail(c, code, to) == result' = [result EXCEPT ![c] = Error(code)] /\ Goto(c, to)

Invoke(c) ==
    /\ pc[c] = "idle"
    /\ creator = "ready"
    /\ Goto(c, "arm")
    /\ result' = [result EXCEPT ![c] = NoResult]
    /\ UNCHANGED <<creator, toBox, toHost, alive, armed, box, boxFn, running, looping>>

\* Variant: BatchInvoke never arms the wall time limit.
ArmSkipped(c) ==
    /\ pc[c] = "arm"
    /\ IF alive
       THEN Goto(c, "send_cmd") /\ UNCHANGED result
       ELSE Fail(c, "UNAVAILABLE", "idle")
    /\ UNCHANGED <<creator, toBox, toHost, alive, armed, box, boxFn, running, looping>>

\* SetWallTimeLimit(execute_duration_limit_): refused once the sandbox is gone.
Arm(c) ==
    /\ pc[c] = "arm"
    /\ IF alive
       THEN armed' = TRUE /\ Goto(c, "send_cmd") /\ UNCHANGED result
       ELSE Fail(c, "UNAVAILABLE", "idle") /\ UNCHANGED armed
    /\ UNCHANGED <<creator, toBox, toHost, alive, box, boxFn, running, looping>>

SendCmd(c) ==
    /\ pc[c] = "send_cmd"
    /\ IF alive
       THEN toBox' = Append(toBox, Cmd("execute")) /\ Goto(c, "send_inputs") /\ UNCHANGED result
       ELSE Fail(c, "INTERNAL", "disarm") /\ UNCHANGED toBox
    /\ UNCHANGED <<creator, toHost, alive, armed, box, boxFn, running, looping>>

SendInputs(c) ==
    /\ pc[c] = "send_inputs"
    /\ IF alive
       THEN toBox' = Append(toBox, Payload(c)) /\ Goto(c, "recv_status") /\ UNCHANGED result
       ELSE Fail(c, "INTERNAL", "disarm") /\ UNCHANGED toBox
    /\ UNCHANGED <<creator, toHost, alive, armed, box, boxFn, running, looping>>

\* Variant: the status is returned even when it is OK, outputs never read.
RecvStatusReturnsOk(c) ==
    /\ pc[c] = "recv_status"
    /\ toHost # <<>> \/ ~alive
    /\ IF ~alive THEN Fail(c, "INTERNAL", "disarm") /\ UNCHANGED toHost
       ELSE LET m == Head(toHost) IN
            /\ toHost' = Tail(toHost)
            /\ IF m.tag = "status" THEN Fail(c, m.code, "disarm")
               ELSE Fail(c, "INTERNAL", "disarm")
    /\ UNCHANGED <<creator, toBox, alive, armed, box, boxFn, running, looping>>

\* RecvStatus: an error status is the result; a message of another kind, or a
\* closed channel, is "RecvStatus failed".
RecvStatus(c) ==
    /\ pc[c] = "recv_status"
    /\ toHost # <<>> \/ ~alive
    /\ IF ~alive THEN Fail(c, "INTERNAL", "disarm") /\ UNCHANGED toHost
       ELSE LET m == Head(toHost) IN
            /\ toHost' = Tail(toHost)
            /\ CASE m = Status("OK") -> Goto(c, "recv_outputs") /\ UNCHANGED result
                 [] m.tag = "status" -> Fail(c, m.code, "disarm")
                 [] OTHER            -> Fail(c, "INTERNAL", "disarm")
    /\ UNCHANGED <<creator, toBox, alive, armed, box, boxFn, running, looping>>

\* RecvProtoBuf: the outputs whatever inputs they were computed from.
RecvOutputs(c) ==
    /\ pc[c] = "recv_outputs"
    /\ toHost # <<>> \/ ~alive
    /\ IF ~alive THEN Fail(c, "INTERNAL", "disarm") /\ UNCHANGED toHost
       ELSE LET m == Head(toHost) IN
            /\ toHost' = Tail(toHost)
            /\ IF m.tag = "proto"
               THEN result' = [result EXCEPT ![c] = Outputs(m.owner)] /\ Goto(c, "disarm")
               ELSE Fail(c, "INTERNAL", "disarm")
    /\ UNCHANGED <<creator, toBox, alive, armed, box, boxFn, running, looping>>

\* SetWallTimeLimit(absl::ZeroDuration()): its error replaces the result.
Disarm(c) ==
    /\ pc[c] = "disarm"
    /\ IF alive
       THEN armed' = FALSE /\ Goto(c, "idle") /\ UNCHANGED result
       ELSE Fail(c, "UNAVAILABLE", "idle") /\ UNCHANGED armed
    /\ UNCHANGED <<creator, toBox, toHost, alive, box, boxFn, running, looping>>

-----------------------------------------------------------------------------
(* The sandboxee: ServeRequest (sapi_bidding_function.cc 291-324) with       *)
(* CompileFunction / BatchExecuteFunction of the adapter.                    *)

\* RecvTLV takes any message as a command; an unknown tag matches no case.
BoxRecvCommand ==
    /\ alive /\ box = "serve" /\ toBox # <<>>
    /\ box' = CASE Head(toBox).tag = "compile" -> "recv_spec"
                [] Head(toBox).tag = "execute" -> "recv_inputs"
                [] OTHER                       -> "serve"
    /\ toBox' = Tail(toBox)
    /\ UNCHANGED <<creator, pc, result, toHost, alive, armed, boxFn, running, looping>>

\* RecvProtoBuf of the spec or of the inputs; a message of another kind is
\* consumed and answered with "RecvProtoBuf failed".
BoxRecvProto ==
    /\ alive /\ box \in {"recv_spec", "recv_inputs"} /\ toBox # <<>>
    /\ toBox' = Tail(toBox)
    /\ IF Head(toBox).tag = "proto"
       THEN /\ box' = IF box = "recv_spec" THEN "compiling" ELSE "executing"
            /\ running' = Head(toBox).owner
            /\ looping' \in Loops
            /\ UNCHANGED toHost
       ELSE /\ box' = "serve"
            /\ toHost' = Append(toHost, Status("INVALID_ARGUMENT"))
            /\ UNCHANGED <<running, looping>>
    /\ UNCHANGED <<creator, pc, result, alive, armed, boxFn>>

\* DoCompileFunction: BiddingFunction::Create may fail on the script; a
\* second compile in the same sandboxee is refused.
BoxCompile ==
    /\ alive /\ box = "compiling" /\ ~looping
    /\ \/ /\ boxFn = "empty" /\ boxFn' = "ready"
          /\ toHost' = Append(toHost, Status("OK"))
       \/ /\ boxFn = "ready" /\ UNCHANGED boxFn
          /\ toHost' = Append(toHost, Status("FAILED_PRECONDITION"))
       \/ /\ UNCHANGED boxFn
          /\ toHost' = Append(toHost, Status("INVALID_ARGUMENT"))
    /\ box' = "serve" /\ running' = NoOwner
    /\ UNCHANGED <<creator, pc, result, toBox, alive, armed, looping>>

\* Variant: the outputs are sent after an error status too.
BoxExecuteSendsOnError ==
    /\ alive /\ box = "executing" /\ ~looping
    /\ \/ /\ boxFn = "empty"
          /\ toHost' = toHost \o <<Status("FAILED_PRECONDITION"), Payload(running)>>
       \/ /\ boxFn = "ready"
          /\ toHost' = toHost \o <<Status("OK"), Payload(running)>>
       \/ /\ boxFn = "ready"
          /\ toHost' = toHost \o <<Status("INVALID_ARGUMENT"), Payload(running)>>
    /\ box' = "serve" /\ running' = NoOwner
    /\ UNCHANGED <<creator, pc, result, toBox, alive, armed, boxFn, looping>>

\* BatchExecuteFunction, then SendStatus and, only on success, SendProtoBuf.
BoxExecute ==
    /\ alive /\ box = "executing" /\ ~looping
    /\ \/ /\ boxFn = "empty"
          /\ toHost' = Append(toHost, Status("FAILED_PRECONDITION"))
       \/ /\ boxFn = "ready"
          /\ toHost' = toHost \o <<Status("OK"), Payload(running)>>
       \/ /\ boxFn = "ready"
          /\ toHost' = Append(toHost, Status("INVALID_ARGUMENT"))
    /\ box' = "serve" /\ running' = NoOwner
    /\ UNCHANGED <<creator, pc, result, toBox, alive, armed, boxFn, looping>>

\* The sandbox2 monitor kills a sandboxee that outlives its wall time limit.
Kill ==
    /\ alive /\ armed
    /\ Terminated
    /\ UNCHANGED <<creator, pc, result, boxFn>>

\* ModifyPolicy (72-107): seccomp kills the sandboxee on any syscall the
\* policy does not list.  Which scripts make V8 issue one is outside the
\* model, so the kill may come at any point of a compile or a run, armed
\* limit or not.
PolicyKill ==
    /\ alive /\ Busy
    /\ Terminated
    /\ UNCHANGED <<creator, pc, result, boxFn>>

-----------------------------------------------------------------------------
(* The next refresh replaces the function by a freshly created one; the      *)
(* writer lock waits until no caller is inside BatchInvoke.                   *)

Replace ==
    /\ creator \in {"ready", "failed"}
    /\ \A c \in Callers : pc[c] = "idle"
    /\ creator' = "init" /\ boxFn' = "empty"
    /\ Terminated
    /\ UNCHANGED <<pc, result>>

Init ==
    /\ creator = "init"
    /\ pc = [c \in Callers |-> "idle"]
    /\ result = [c \in Callers |-> NoResult]
    /\ toBox = <<>> /\ toHost = <<>>
    /\ alive = FALSE /\ armed = FALSE
    /\ box = "serve" /\ boxFn = "empty" /\ running = NoOwner /\ looping = FALSE

CreateNext ==
    CreateInit \/ CreateArm \/ CreateSendCmd \/ CreateSendSpec \/ CreateRecvStatus \/ CreateDisarm

CallerStep(c) == Arm(c) \/ SendCmd(c) \/ SendInputs(c) \/ RecvStatus(c) \/ RecvOutputs(c) \/ Disarm(c)

BoxNext == BoxRecvCommand \/ BoxRecvProto \/ BoxCompile \/ BoxExecute

Next ==
    \/ CreateNext \/ BoxNext \/ Kill \/ PolicyKill \/ Replace
    \/ \E c \in Callers : Invoke(c) \/ CallerStep(c)

\* Threads that are inside a call keep running; the sandboxee keeps serving;
\* the monitor enforces an armed limit.  Requests and refreshes need not come.
Fairness ==
    /\ WF_vars(CreateNext) /\ WF_vars(BoxNext) /\ WF_vars(Kill)
    /\ \A c \in Callers : WF_vars(CallerStep(c))

Spec == Init /\ [][Next]_vars /\ Fairness

-----------------------------------------------------------------------------
(* Properties.                                                              *)

Results == {NoResult} \cup {Outputs(o) : o \in Callers \cup {Creator}}
                      \cup {Error(e) : e \in ErrorCodes}

TypeOK ==
    /\ creator \in {"init", "arm", "send_cmd", "send_spec", "recv_status", "disarm", "ready", "failed"}
    /\ pc \in [Callers -> {"idle", "arm", "send_cmd", "send_inputs", "recv_status", "recv_outputs", "disarm"}]
    /\ result \in [Callers -> Results]
    /\ alive \in BOOLEAN /\ armed \in BOOLEAN /\ looping \in BOOLEAN
    /\ box \in {"serve", "recv_spec", "recv_inputs", "compiling", "executing"}
    /\ boxFn \in {"empty", "ready"}

\* BatchInvoke returns the outputs computed from the caller's own inputs
\* (spec: invocation is thread-safe).  BatchExecute (132-152) sends and
\* receives with no lock, so two callers' exchanges may interleave.
ResponsesMatchCaller ==
    \A c \in Callers : result[c] # NoResult /\ result[c].ok => result[c].owner = c

\* Whenever a call is over, host and sandboxee are in step: the sandboxee
\* waits for a command and no message of an earlier exchange is left over
\* (ServeRequest sends the outputs only after an OK status, 311-313).
ProtocolInSync ==
    (alive /\ creator = "ready" /\ \A c \in Callers : pc[c] = "idle")
        => (toBox = <<>> /\ toHost = <<>> /\ box = "serve")

\* While the sandboxee compiles or runs a script, a wall time limit is armed
\* (Create 162-166, BatchInvoke 174-179): a runaway script is always cut off.
DeadlineArmedWhileBusy == (alive /\ Busy) => armed

\* Create and every BatchInvoke return: a script that never finishes is
\* killed by the wall time limit and the blocked receive then fails.
CallsReturn ==
    /\ creator = "init" ~> creator \in {"ready", "failed"}
    /\ \A c \in Callers : pc[c] # "idle" ~> pc[c] = "idle"

=============================================================================
