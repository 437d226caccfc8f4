-------------------------- MODULE MCCheckerThreads --------------------------
(* Two groups that overlap or follow each other, with a thread less than   *)
(* they have jobs.                                                         *)
EXTENDS CheckerThreads

MCCount == [g \in Group |-> 2]
=============================================================================
