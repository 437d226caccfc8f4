---------------------------- MODULE MCLintCache ----------------------------
(* Small instances of LintCache.                                           *)
EXTENDS LintCache, TLC

Symmetric == Permutations(Run) \cup Permutations(Lint)
=============================================================================
