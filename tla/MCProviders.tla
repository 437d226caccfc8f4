----------------------------- MODULE MCProviders -----------------------------
(* Small instances of Providers.                                           *)
EXTENDS Providers, TLC

CONSTANTS plain, marked

\* One TypeScript file in the outer directory and one in the inner.
Nested == [f \in TsFile |-> f]

\* The marked text is the plain one with a byte order mark before it.
WithoutMark == [t \in Marked |-> plain]
=============================================================================
