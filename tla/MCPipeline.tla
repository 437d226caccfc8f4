----------------------------- MODULE MCPipeline -----------------------------
(* Small instances of Pipeline.                                            *)
EXTENDS Pipeline, TLC

CONSTANTS r1, r2

Declares(l, rules) == [language |-> l, checked |-> TRUE, rules |-> rules]
Anything(l) == [language |-> l, checked |-> FALSE, rules |-> {}]

\* Lints of two languages in either order, one that declares a single rule
\* and one that no plugin declared.
Lints ==
    {<<Declares("Tsx", {r1, r2}), Declares("Rust", {r1})>>,
     <<Anything("Rust"), Declares("Rust", {r2})>>}

\* Two neighbouring nodes, and two values under the same key.
TwoNodes == {[node |-> n, key |-> "type", layout |-> v] : <<n, v>> \in {<<1, "a">>, <<1, "b">>, <<2, "a">>}}
Languages == {"Rust", "Tsx"}
=============================================================================
