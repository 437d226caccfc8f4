----------------------------- MODULE MCCheckRun -----------------------------
(* Small instances of CheckRun: two grammars, alternating over the files.  *)
EXTENDS CheckRun, TLC

MCGrammar == {"Rust", "Tsx"}
MCGrammarOf == [f \in File |-> IF f % 2 = 1 THEN "Rust" ELSE "Tsx"]
=============================================================================
