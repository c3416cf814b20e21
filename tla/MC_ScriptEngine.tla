--------------------------- MODULE MC_ScriptEngine ---------------------------
(* Instantiation of ScriptEngine for TLC: a script keeping a call counter   *)
(* modulo 3 in a global, and inputs that make it take each path.            *)
EXTENDS ScriptEngine, TLC

CONSTANTS c1, c2

MCOneCaller == {c1}
MCTwoCallers == {c1, c2}

MCScripts ==
    {[vm |-> "ok",        compiles |-> TRUE,  runs |-> TRUE,  exports |-> "callable"],
     [vm |-> "ok",        compiles |-> TRUE,  runs |-> TRUE,  exports |-> "named"],
     [vm |-> "ok",        compiles |-> FALSE, runs |-> TRUE,  exports |-> "callable"],
     [vm |-> "ok",        compiles |-> TRUE,  runs |-> FALSE, exports |-> "callable"],
     [vm |-> "ok",        compiles |-> TRUE,  runs |-> TRUE,  exports |-> "none"],
     [vm |-> "oversized", compiles |-> TRUE,  runs |-> TRUE,  exports |-> "callable"],
     [vm |-> "readonly",  compiles |-> TRUE,  runs |-> TRUE,  exports |-> "callable"]}

\* Every call bumps the counter; the returned value is the counter before.
\* "cyclic" returns an object that refers to itself.
MCBehave(g, x) ==
    LET kind == CASE x = "empty" -> "throw"
                  [] x \in {"badshape", "nojson", "cyclic"} -> "value"
                  [] OTHER -> x
    IN [kind |-> kind, val |-> g, json |-> x # "cyclic", shape |-> x # "badshape",
        g |-> (g + 1) % 3]

\* BiddingFunctionInput: interest_group, auction_signals, per_buyer_signals,
\* trusted_bidding_signals (a map) and browser_signals.  In "nojson" a
\* trusted signal's value has no JSON form.
MCFields(x) ==
    LET msg == [type |-> "message", json |-> TRUE] IN
    <<msg, msg, msg, [type |-> "map", json |-> x # "nojson"], msg>>

MCBatches == {<<"value">>, <<"fulfill">>, <<"badshape">>, <<"throw">>,
              <<"pending">>, <<"reject">>, <<"nojson">>, <<"cyclic">>}
MCPairBatches == {<<"value", "value">>}
MCLoopBatches == {<<"value">>, <<"loop">>}
=============================================================================
