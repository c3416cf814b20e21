----------------------------- MODULE EngineSpec -----------------------------
(***************************************************************************)
(* What the script engine promises (spec section 4.B), with no mechanism:  *)
(* Create is one step whose outcome is fixed by the script, and a          *)
(* BatchInvoke is one step that runs every input on a fresh copy of the    *)
(* snapshot, in order, stopping at the first failure.  The function is     *)
(* replaced when the repository is rebuilt.                                *)
(*                                                                         *)
(* A JavaScript function is abstracted by Behave(g, x): what calling it    *)
(* with input x does in a context whose globals are g, as a record         *)
(* [kind, val, json, shape, g] with kind one of "value", "throw", "fulfill",     *)
(* "reject", "pending" (a promise that never settles), "loop"; shape says  *)
(* whether its value has the output's JSON shape, json whether it has a JSON form at all; g is the globals after.  *)
(***************************************************************************)
EXTENDS Integers, Sequences

CONSTANTS
    Callers,        \* threads that may call BatchInvoke
    Scripts,        \* [vm, compiles, runs, exports] of the sources a refresh may fetch
    Batches,        \* input sequences a caller may pass
    Behave(_, _),   \* the function: globals x input -> [kind, val, json, shape, g]
    G0,             \* globals after the script's top-level run
    Empty,          \* the default-constructed input used for warmup
    WarmUps,        \* kWarmupIterations
    Fields(_),      \* an input's top-level fields in declaration order: [type, json],
                    \* json: the value has a JSON form (a double always has one)
    Flatten,        \* options.flatten_arguments
    NoSnap, NoResult

VARIABLES script, fnState,
          created,  \* the status the last Create returned, or "NONE"
          snap, inside, batch, result

vars == <<script, fnState, created, snap, inside, batch, result>>

Ok(v) == [ok |-> TRUE, val |-> v]
Err(code) == [ok |-> FALSE, code |-> code]

\* Step 4.B.2, building the arguments.  In flattened mode a field of a type
\* other than message, map or double is failed-precondition.  The spec names
\* no kind for a value with no JSON form; it is taken as internal, the kind
\* of an unexpected VM failure (section 7).
ArgumentStatus(x) ==
    LET fs == Fields(x)
        types == {fs[k].type : k \in DOMAIN fs}
    IN CASE Flatten /\ ~(types \subseteq {"message", "map", "double"}) -> "FAILED_PRECONDITION"
         [] \E k \in DOMAIN fs : ~fs[k].json                              -> "INTERNAL"
         [] OTHER                                                       -> "OK"

\* Steps 4.B.2-5 of an invocation; a runaway script is aborted by the deadline.
Call(g, x) ==
    LET b == Behave(g, x) IN
    CASE ArgumentStatus(x) # "OK" -> Err(ArgumentStatus(x))
      [] b.kind \in {"value", "fulfill"} -> CASE ~b.json  -> Err("INTERNAL")
                                                [] ~b.shape -> Err("FAILED_PRECONDITION")
                                                [] OTHER    -> Ok(b.val)
      [] b.kind = "throw"                -> Err("INTERNAL")
      [] b.kind \in {"reject", "pending"} -> Err("INVALID_ARGUMENT")
      [] b.kind = "loop"                 -> Err("INTERNAL")

\* Every input on a fresh copy of snapshot s; the first failure is the result.
RECURSIVE BatchResult(_, _)
BatchResult(s, b) ==
    IF b = <<>> THEN [ok |-> TRUE, outs |-> <<>>]
    ELSE LET r == Call(s, Head(b))
             rest == BatchResult(s, Tail(b))
         IN CASE ~r.ok    -> r
              [] ~rest.ok -> rest
              [] OTHER    -> [ok |-> TRUE, outs |-> <<r.val>> \o rest.outs]

\* The globals after n warmup calls with the empty input, errors swallowed.
RECURSIVE WarmState(_, _)
WarmState(g, n) ==
    IF n = 0 THEN g
    ELSE WarmState(IF ArgumentStatus(Empty) = "OK" THEN Behave(g, Empty).g ELSE g, n - 1)

\* Construction steps 2-7.  A script the VM cannot take (s.vm: a source too
\* long for a VM string, or one that blocks the function's installation) is
\* internal, the kind of an unexpected VM failure (section 7).
CreateResult(s) ==
    CASE s.vm = "oversized"                                      -> Err("INTERNAL")
      [] ~(s.compiles /\ s.runs /\ s.exports \in {"callable", "named"}) -> Err("INVALID_ARGUMENT")
      [] s.vm = "readonly"                                       -> Err("INTERNAL")
      [] OTHER -> [ok |-> TRUE, snap |-> WarmState(G0, WarmUps)]

Create ==
    /\ fnState = "creating"
    /\ LET r == CreateResult(script) IN
       IF r.ok THEN fnState' = "ok" /\ created' = "OK" /\ snap' = r.snap
               ELSE fnState' = "failed" /\ created' = r.code /\ UNCHANGED snap
    /\ UNCHANGED <<script, inside, batch, result>>

Begin(c, b) ==
    /\ fnState = "ok" /\ ~inside[c]
    /\ inside' = [inside EXCEPT ![c] = TRUE]
    /\ batch' = [batch EXCEPT ![c] = b]
    /\ result' = [result EXCEPT ![c] = NoResult]
    /\ UNCHANGED <<script, created, fnState, snap>>

End(c) ==
    /\ inside[c]
    /\ inside' = [inside EXCEPT ![c] = FALSE]
    /\ result' = [result EXCEPT ![c] = BatchResult(snap, batch[c])]
    /\ UNCHANGED <<script, created, fnState, snap, batch>>

Replace ==
    /\ fnState \in {"ok", "failed"}
    /\ \A c \in Callers : ~inside[c]
    /\ script' \in Scripts
    /\ fnState' = "creating" /\ snap' = NoSnap
    /\ UNCHANGED <<created, inside, batch, result>>

Init ==
    /\ script \in Scripts
    /\ fnState = "creating" /\ created = "NONE" /\ snap = NoSnap
    /\ inside = [c \in Callers |-> FALSE]
    /\ batch = [c \in Callers |-> <<>>]
    /\ result = [c \in Callers |-> NoResult]

Next ==
    \/ Create \/ Replace
    \/ \E c \in Callers : End(c) \/ \E b \in Batches : Begin(c, b)

SafetySpec == Init /\ [][Next]_vars

\* Create and every BatchInvoke return.
Spec == SafetySpec /\ WF_vars(Create) /\ \A c \in Callers : WF_vars(End(c))

=============================================================================
