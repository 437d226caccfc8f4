---------------------------- MODULE MCFileQueue ----------------------------
(* Three checkers.  The last has no bit, and the longest queue, which the  *)
(* others steal from; it ends with a file that weighs nothing.             *)
EXTENDS FileQueue

MCWeights == << <<1>>, <<1>>, <<2, 1, 0>> >>
=============================================================================
