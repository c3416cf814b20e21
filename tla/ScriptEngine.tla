---------------------------- MODULE ScriptEngine ----------------------------
(***************************************************************************)
(* The in-process script engine, BiddingFunction                            *)
(* (src/function/bidding_function.cc), used when --use_sandbox2 is off and  *)
(* inside every sandboxee.                                                   *)
(*                                                                         *)
(* Create compiles and runs the script in a SnapshotCreator isolate, finds *)
(* the function, installs it under an internal global, calls it 10 times  *)
(* with an empty input (errors ignored) and snapshots the isolate, globals *)
(* included.  BatchInvoke takes the v8::Locker, makes ONE context from the *)
(* snapshot and runs the inputs in it one after the other, stopping at the *)
(* first error.  Nothing bounds the time a call takes.                      *)
(*                                                                         *)
(* The function is abstracted as in EngineSpec, by Behave(g, x).  The      *)
(* module is checked against EngineSpec through a refinement mapping.      *)
(***************************************************************************)
EXTENDS Integers, Sequences

CONSTANTS Callers, Scripts, Batches, Behave(_, _), G0, Empty, WarmUps,
          NoSnap, NoResult, NoCaller, NoVal,
          Fields(_),  \* an input's top-level fields in declaration order: [type, json]
          Flatten     \* options_.flatten_function_arguments

VARIABLES
    script,     \* the source this function object is created from
    cstate,     \* Create: "compile" | "run" | "lookup" | "warmup" | "ok" | "failed"
    cstatus,    \* the status the last Create returned, or "NONE"
    cg,         \* globals of the construction context
    warm,       \* warmup calls done
    snap,       \* globals in the startup snapshot, or NoSnap
    locker,     \* the thread holding the isolate's v8::Locker, or NoCaller
    pc,         \* per caller: "idle" | "locking" | "invoke"
    batch,      \* per caller: its bidding_function_inputs
    i,          \* per caller: index of the input being run
    ctx,        \* per caller: globals of the context its batch runs in
    outs,       \* per caller: outputs so far
    result      \* per caller: what its last BatchInvoke returned

vars == <<script, cstatus, cstate, cg, warm, snap, locker, pc, batch, i, ctx, outs, result>>

Ok(v) == [ok |-> TRUE, val |-> v]
Err(code) == [ok |-> FALSE, code |-> code]

-----------------------------------------------------------------------------
(* The arguments of one call.  A field's json says whether its value has a   *)
(* JSON form (MessageToJsonString succeeds); the script never sees the rest. *)

\* ConvertArgument: MessageToJsonString, then JSON::Parse of the string.
ConvertArgument(jsonable) == IF jsonable THEN "OK" ELSE "INTERNAL"

\* GetMapArgument: an object of the map's entries, each value converted; the
\* first failure is returned.
GetMapArgument(f) == ConvertArgument(f.json)

\* The switch on a field's type in flattened mode.
FieldArgument(f) ==
    CASE f.type = "map"     -> GetMapArgument(f)
      [] f.type = "message" -> ConvertArgument(f.json)
      [] f.type = "double"  -> "OK"
      [] OTHER              -> "FAILED_PRECONDITION"

\* The fields in declaration order; ASSIGN_OR_RETURN stops at the first failure.
RECURSIVE FlattenedArguments(_)
FlattenedArguments(fs) ==
    IF fs = <<>> THEN "OK"
    ELSE IF FieldArgument(Head(fs)) # "OK" THEN FieldArgument(Head(fs))
    ELSE FlattenedArguments(Tail(fs))

\* InvokeFunctionOnce up to the call: the status of building the arguments;
\* in object mode the whole input is converted at once.
BuildArguments(x) ==
    IF Flatten THEN FlattenedArguments(Fields(x))
    ELSE ConvertArgument(\A k \in DOMAIN Fields(x) : Fields(x)[k].json)

-----------------------------------------------------------------------------
(* One call of the installed function.                                       *)

\* Variant: a promise still pending is read as if it were fulfilled.
WaitForPromiseNoPendingCase(b) ==
    CASE b.kind = "reject" -> Err("INVALID_ARGUMENT")
      [] OTHER             -> [ok |-> TRUE, val |-> IF b.kind = "fulfill" THEN b.val ELSE NoVal,
                                json |-> b.json, shape |-> b.shape]

\* Polls microtasks until the promise settles or the async wait elapses, then
\* switches on its state.
WaitForPromise(b) ==
    CASE b.kind = "fulfill" -> [ok |-> TRUE, val |-> b.val, json |-> b.json, shape |-> b.shape]
      [] b.kind = "reject"  -> Err("INVALID_ARGUMENT")
      [] b.kind = "pending" -> Err("INVALID_ARGUMENT")

\* Function::Call under a TryCatch; a promise is waited for.
InvokeFunctionWithJsonInput(b) ==
    CASE b.kind = "throw" -> Err("INTERNAL")
      [] b.kind = "value" -> [ok |-> TRUE, val |-> b.val, json |-> b.json, shape |-> b.shape]
      [] OTHER            -> WaitForPromise(b)

\* JSON::Stringify, whose empty result (a value with no JSON form, e.g. a
\* cycle or a BigInt) is INTERNAL, then JsonStringToMessage into the output
\* proto.
ConvertOutput(r) ==
    CASE ~r.ok     -> r
      [] ~r.json   -> Err("INTERNAL")
      [] ~r.shape  -> Err("FAILED_PRECONDITION")
      [] OTHER     -> Ok(r.val)

\* Variant: WaitForPromise waits for as long as the promise is pending.
ReturnsUnlessPending(b) == b.kind \notin {"loop", "pending"}

\* A call comes back unless the script never stops; the WaitForPromise loop
\* itself ends when the async wait elapses.
Returns(b) == b.kind # "loop"

-----------------------------------------------------------------------------
(* BiddingFunction::Create (313-380), run by the refresh thread.             *)

\* ToLocalTryCatch: an empty MaybeLocal returns the given code (with the
\* TryCatch message); otherwise the value.
ToLocalTryCatch(ok, code) == IF ok THEN "OK" ELSE code

\* An early return of Create with status code.
CreateFail(code) ==
    /\ cstate' = "failed" /\ cstatus' = code
    /\ UNCHANGED <<script, cg, warm, snap, locker, pc, batch, i, ctx, outs, result>>

\* NewFromUtf8 of the source (ToLocalChecked: INTERNAL when V8 cannot make
\* the string, i.e. a source past V8's string length limit), then
\* v8::Script::Compile; a syntax error is INVALID_ARGUMENT.
CreateCompile ==
    LET st == IF script.vm = "oversized" THEN "INTERNAL"
              ELSE ToLocalTryCatch(script.compiles, "INVALID_ARGUMENT") IN
    /\ cstate = "compile"
    /\ IF st = "OK"
       THEN cstate' = "run" /\ UNCHANGED <<script, cstatus, cg, warm, snap, locker, pc, batch, i, ctx, outs, result>>
       ELSE CreateFail(st)

\* script->Run: the top-level code runs and leaves its globals.
CreateRun ==
    LET st == ToLocalTryCatch(script.runs, "INVALID_ARGUMENT") IN
    /\ cstate = "run"
    /\ IF st = "OK"
       THEN cstate' = "lookup" /\ cg' = G0
            /\ UNCHANGED <<script, cstatus, warm, snap, locker, pc, batch, i, ctx, outs, result>>
       ELSE CreateFail(st)

\* The value of the script if callable, else the global generateBid/scoreAd;
\* a non-function is INVALID_ARGUMENT.  Then SetFunctionValue installs it:
\* Global()->Set fails (INTERNAL) when the script's top-level code made the
\* internal global's name read-only.
CreateLookup ==
    /\ cstate = "lookup"
    /\ CASE script.exports \notin {"callable", "named"} -> CreateFail("INVALID_ARGUMENT")
         [] script.vm = "readonly"                     -> CreateFail("INTERNAL")
         [] OTHER -> /\ cstate' = "warmup" /\ warm' = 0
                    /\ UNCHANGED <<script, cstatus, cg, snap, locker, pc, batch, i, ctx, outs, result>>

\* WarmUpBiddingFunction: one InvokeFunctionOnce on the empty input, its
\* status ignored, its effect on the globals kept.
CreateWarmUp ==
    LET b == Behave(cg, Empty)
        called == BuildArguments(Empty) = "OK"
    IN
    /\ cstate = "warmup" /\ warm < WarmUps
    /\ called => Returns(b)
    /\ cg' = IF called THEN b.g ELSE cg
    /\ warm' = warm + 1
    /\ UNCHANGED <<script, cstatus, cstate, snap, locker, pc, batch, i, ctx, outs, result>>

\* SetDefaultContext and CreateBlob: the snapshot holds the warmed globals.
CreateSnapshot ==
    /\ cstate = "warmup" /\ warm = WarmUps
    /\ cstate' = "ok" /\ cstatus' = "OK" /\ snap' = cg
    /\ UNCHANGED <<script, cg, warm, locker, pc, batch, i, ctx, outs, result>>

-----------------------------------------------------------------------------
(* BiddingFunction::BatchInvoke (398-418), by caller c.                      *)

Begin(c, b) ==
    /\ pc[c] = "idle" /\ cstate = "ok"
    /\ pc' = [pc EXCEPT ![c] = "locking"]
    /\ batch' = [batch EXCEPT ![c] = b]
    /\ result' = [result EXCEPT ![c] = NoResult]
    /\ UNCHANGED <<script, cstatus, cstate, cg, warm, snap, locker, i, ctx, outs>>

\* Variant: the context of the previous batch is reused.
LockKeepsContext(c) ==
    /\ pc[c] = "locking" /\ locker = NoCaller
    /\ locker' = c
    /\ pc' = [pc EXCEPT ![c] = "invoke"]
    /\ i' = [i EXCEPT ![c] = 1]
    /\ outs' = [outs EXCEPT ![c] = <<>>]
    /\ UNCHANGED <<script, cstatus, cstate, cg, warm, snap, batch, ctx, result>>

\* v8::Locker, then v8::Context::New: one context from the snapshot.
Lock(c) ==
    /\ pc[c] = "locking" /\ locker = NoCaller
    /\ locker' = c
    /\ ctx' = [ctx EXCEPT ![c] = snap]
    /\ pc' = [pc EXCEPT ![c] = "invoke"]
    /\ i' = [i EXCEPT ![c] = 1]
    /\ outs' = [outs EXCEPT ![c] = <<>>]
    /\ UNCHANGED <<script, cstatus, cstate, cg, warm, snap, batch, result>>

Release(c, r) ==
    /\ locker' = NoCaller
    /\ pc' = [pc EXCEPT ![c] = "idle"]
    /\ result' = [result EXCEPT ![c] = r]

\* InvokeFunctionOnce and ConvertOutput on the next input, in the batch's
\* context; the first failure is returned at once.  An input whose
\* arguments cannot be built fails before the function is called.
InvokeInput(c) ==
    LET x == batch[c][i[c]]
        b == Behave(ctx[c], x)
        called == BuildArguments(x) = "OK"
        r == IF called THEN ConvertOutput(InvokeFunctionWithJsonInput(b))
             ELSE Err(BuildArguments(x))
    IN
    /\ pc[c] = "invoke" /\ i[c] <= Len(batch[c])
    /\ called => Returns(b)
    /\ ctx' = [ctx EXCEPT ![c] = IF called THEN b.g ELSE @]
    /\ IF r.ok
       THEN /\ outs' = [outs EXCEPT ![c] = Append(@, r.val)]
            /\ i' = [i EXCEPT ![c] = @ + 1]
            /\ UNCHANGED <<locker, pc, result>>
       ELSE Release(c, r) /\ UNCHANGED <<outs, i>>
    /\ UNCHANGED <<script, cstatus, cstate, cg, warm, snap, batch>>

\* Every input ran: the outputs are returned and the Locker released.
FinishBatch(c) ==
    /\ pc[c] = "invoke" /\ i[c] > Len(batch[c])
    /\ Release(c, [ok |-> TRUE, outs |-> outs[c]])
    /\ UNCHANGED <<script, cstatus, cstate, cg, warm, snap, batch, i, ctx, outs>>

\* The next refresh swaps in a function created from the current source.
Replace ==
    /\ cstate \in {"ok", "failed"}
    /\ \A c \in Callers : pc[c] = "idle"
    /\ script' \in Scripts
    /\ cstate' = "compile" /\ snap' = NoSnap
    /\ UNCHANGED <<cstatus, cg, warm, locker, pc, batch, i, ctx, outs, result>>

Init ==
    /\ script \in Scripts
    /\ cstate = "compile" /\ cstatus = "NONE" /\ cg = G0 /\ warm = 0 /\ snap = NoSnap
    /\ locker = NoCaller
    /\ pc = [c \in Callers |-> "idle"]
    /\ batch = [c \in Callers |-> <<>>]
    /\ i = [c \in Callers |-> 1]
    /\ ctx = [c \in Callers |-> G0]
    /\ outs = [c \in Callers |-> <<>>]
    /\ result = [c \in Callers |-> NoResult]

CreateNext == CreateCompile \/ CreateRun \/ CreateLookup \/ CreateWarmUp \/ CreateSnapshot

CallerStep(c) == Lock(c) \/ InvokeInput(c) \/ FinishBatch(c)

Next ==
    \/ CreateNext \/ Replace
    \/ \E c \in Callers : CallerStep(c) \/ \E b \in Batches : Begin(c, b)

\* The refresh thread and a thread inside BatchInvoke keep running.
Spec == Init /\ [][Next]_vars /\ WF_vars(CreateNext) /\ \A c \in Callers : WF_vars(CallerStep(c))

-----------------------------------------------------------------------------
(* Properties.                                                              *)

Results == {NoResult} \cup [ok : {TRUE}, outs : Seq(Nat)]
           \cup {Err(e) : e \in {"INVALID_ARGUMENT", "FAILED_PRECONDITION", "INTERNAL"}}

TypeOK ==
    /\ cstate \in {"compile", "run", "lookup", "warmup", "ok", "failed"}
    /\ cstatus \in {"NONE", "OK", "INVALID_ARGUMENT", "INTERNAL"}
    /\ warm \in 0..WarmUps
    /\ locker \in Callers \cup {NoCaller}
    /\ pc \in [Callers -> {"idle", "locking", "invoke"}]
    /\ \A c \in Callers : result[c] \in Results /\ outs[c] \in Seq(Nat)

FnState == CASE cstate = "ok" -> "ok" [] cstate = "failed" -> "failed" [] OTHER -> "creating"

Abstract == INSTANCE EngineSpec WITH
    fnState <- FnState,
    created <- cstatus,
    inside <- [c \in Callers |-> pc[c] # "idle"]

\* Create and BatchInvoke do what spec 4.B says: the snapshot holds the globals
\* after the warmups, and each input runs on a fresh copy of it, in order,
\* with the first failure returned and no partial outputs.
ImplementsEngineSafety == Abstract!SafetySpec

\* When the scheduler keeps running the refresh thread and the callers,
\* Create and every BatchInvoke return.
ImplementsEngineSpec == Abstract!Spec

=============================================================================
