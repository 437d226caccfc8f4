---------------------------- MODULE MCSplitCheck ----------------------------
(* Three checkers with a file each; the first two are declaration files    *)
(* that may be split, into at most three pieces and two.                   *)
EXTENDS SplitCheck, TLC

MCStatements == <<3, 2, 1>>
MCOwned == << <<1>>, <<2>>, <<3>> >>

MCLocated == [twoPieces |-> 1, firstAndLast |-> 1, wholeFile |-> 1, elsewhere |-> 3]
MCFinders ==
    [twoPieces    |-> {<<1, 2>>, <<1, 3>>},   \* found in two pieces, or in one
     firstAndLast |-> {<<1, 1>>, <<1, 3>>},   \* found by the owner and by another
     wholeFile    |-> {<<1, FileLevel>>},
     elsewhere    |-> {<<3, 1>>, <<1, 2>>}]   \* located in the third file
MCDiag == DOMAIN MCLocated

\* Besides: an interface that a split file and the third file declare with
\* different type parameters, which is an error at each declaration.
MergedLocated == MCLocated @@ ("merged" :> 1)
MergedFinders == MCFinders @@ ("merged" :> {<<1, 3>>, <<3, 1>>})
MergedDiag == DOMAIN MergedLocated
=============================================================================
