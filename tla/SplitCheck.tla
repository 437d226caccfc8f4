----------------------------- MODULE SplitCheck -----------------------------
(***************************************************************************)
(* Checking one heavy declaration file on several checkers:                *)
(* crates/stiles-tsrs/tsrs_compiler/src/splitcheck.rs, `plan_splits` and   *)
(* the loop of checkerpool.rs that runs the items, and what a checker does *)
(* with a piece (tsrs_checker/src/checker_02.rs).                          *)
(*                                                                         *)
(* A file is cut into ranges of statements.  The checker that takes the    *)
(* file checks the first piece; the others are items of their own, in      *)
(* other checkers' queues.  A piece is claimed by a compare-exchange, its  *)
(* results are published under the mutex `results`, and the owner, which   *)
(* claims what nobody has started, sleeps on `finished` until the rest is  *)
(* done.  Then it merges what the others found and reports the file.       *)
(*                                                                         *)
(* Who takes which item is the business of FileQueue: here an item leaves  *)
(* the front for the owner of the queue and the back for any other.        *)
(* Checking is local to a checker, so it is part of the step it precedes.  *)
(* Pieces count from 1, files from 1, and 0 stands for "none".             *)
(***************************************************************************)
EXTENDS Naturals, Sequences, FiniteSets

CONSTANTS
    N,            \* how many checkers there are, all of them active
    Statements,   \* how many statements each file has
    Splittable,   \* the declaration files that are heavy enough
    Owned,        \* the files in each checker's queue
    Diag,         \* the diagnostics there are to be found
    Located,      \* the file each one is located in
    Finders,      \* the statements <<file, s>> whose check reports it
    MaxLength     \* bound on the length of a statement's text

Checker == 1 .. N
File == DOMAIN Statements
None == 0
FileLevel == 0   \* the "statement" that stands for the checks of a whole file

ASSUME CheckerAssumption == N \in Nat \ {0, 1}
ASSUME FileAssumption ==
    /\ Statements \in Seq(Nat \ {0})
    /\ Splittable \subseteq File
    /\ Owned \in [Checker -> Seq(File)]
ASSUME OwnedAssumption ==   \* a file has one checker
    \A c, b \in Checker : \A i \in DOMAIN Owned[c], j \in DOMAIN Owned[b] :
        Owned[c][i] = Owned[b][j] => c = b /\ i = j
ASSUME DiagAssumption ==
    /\ Located \in [Diag -> File]
    /\ \A d \in Diag : Finders[d] \subseteq File \X Nat
    \* "the diagnostics found for a node are a function of the program"
    /\ \A d \in Diag : \E s \in 0 .. Statements[Located[d]] : <<Located[d], s>> \in Finders[d]

VARIABLES
    shadow,    \* TSRS_SPLIT_FILES=shadow
    pieces,    \* the statements of each piece of a file; <<>>: not split
    queue,     \* the items left in each checker's queue
    states,    \* NOT_STARTED, RUNNING or DONE, for each piece but the first
    results,   \* the `PieceResult`s of each split file
    ownerFound,\* shadow mode: what the owner found in the others' pieces
    found,     \* each checker's collection of diagnostics
    inPieces,  \* each checker's `statements_checked_in_pieces`
    reported,  \* each file's checker, and the diagnostics it reported
    pc,        \* the step each checker is about to take
    item       \* the file and the piece it is busy with

vars == <<shadow, pieces, queue, states, results, ownerFound, found, inPieces, reported, pc, item>>

-----------------------------------------------------------------------------
(* Planning the pass *)

\* Mistake: a piece may end with the last statement though others must follow.
LeaveNothing(left, open) == TRUE
LeavesOneEach(left, open) == left >= open

\* The loop of `statement_pieces`: the last statements of the pieces closed by
\* the time the first i are seen, each piece once it has its share of the text.
Cut(length, most) ==
    LET n == Len(length)
        sum[i \in 0 .. n] == IF i = 0 THEN 0 ELSE sum[i - 1] + length[i]
        cut[i \in 0 .. n] ==
            IF i = 0 THEN <<>>
            ELSE LET closed == cut[i - 1]
                     k == Len(closed) + 1
                 IN IF sum[i] * most >= sum[n] * k /\ LeavesOneEach(n - i, most - k) /\ k < most
                      THEN Append(closed, i) ELSE closed
    IN cut

\* `statement_pieces`: ranges of about equal length, at most count of them.
StatementPieces(length, count) ==
    LET n == Len(length)
        most == IF count < n THEN count ELSE n
        ends == Append(Cut(length, most)[n], n)
        piece == [k \in DOMAIN ends |-> (IF k = 1 THEN 1 ELSE ends[k - 1] + 1) .. ends[k]]
    IN IF most < 2 \/ Len(piece) < 2 THEN <<>> ELSE piece

\* What the weights and the shares of a pass can make of file f.
Cuts(f) ==
    IF f \notin Splittable THEN {<<>>}
    ELSE {StatementPieces(length, count) :
              length \in [1 .. Statements[f] -> 1 .. MaxLength], count \in 1 .. N}

Queued(f) == 2 .. Len(pieces[f])
Item(f, k) == [file |-> f, piece |-> k]

\* The queued pieces in the order of `piece_items`.
PieceItems ==
    LET upTo[f \in 0 .. Len(Statements)] ==
            IF f = 0 THEN <<>>
            ELSE upTo[f - 1] \o [j \in 1 .. Cardinality(Queued(f)) |-> Item(f, j + 1)]
    IN upTo[Len(Statements)]
IsOwner(c, f) == \E i \in DOMAIN Owned[c] : Owned[c][i] = f

\* Every piece goes to a checker other than the file's owner.  Heavy ones come
\* before the files of that checker, light ones after them.
PlanSplits(target, heavy) ==
    /\ \A i \in DOMAIN PieceItems : ~IsOwner(target[i], PieceItems[i].file)
    /\ queue = [c \in Checker |->
         LET at == {i \in DOMAIN PieceItems : target[i] = c}
             own == [i \in DOMAIN Owned[c] |-> Item(Owned[c][i], 1)]
             rank(i) == Cardinality({j \in at : j <= i})
             placed == [r \in 1 .. Cardinality(at) |->
                            PieceItems[CHOOSE i \in at : rank(i) = r]]
         IN IF heavy THEN placed \o own ELSE own \o placed]

Init ==
    /\ shadow \in BOOLEAN
    /\ pieces \in {p \in [File -> UNION {Cuts(f) : f \in File}] : \A f \in File : p[f] \in Cuts(f)}
    /\ \E target \in [DOMAIN PieceItems -> Checker], heavy \in BOOLEAN : PlanSplits(target, heavy)
    /\ states = [f \in File |-> [k \in Queued(f) |-> "notStarted"]]
    /\ results = [f \in File |-> <<>>]
    /\ ownerFound = [f \in File |-> {}]
    /\ found = [c \in Checker |-> {}]
    /\ inPieces = [c \in Checker |-> None]
    /\ reported = [f \in File |-> [by |-> None, diagnostics |-> {}]]
    /\ pc = [c \in Checker |-> "next"]
    /\ item = [c \in Checker |-> Item(None, None)]

-----------------------------------------------------------------------------
(* What a checker finds *)

Go(c, l) == pc' = [pc EXCEPT ![c] = l]
InFile(f, ds) == {d \in ds : Located[d] = f}
TypeChecked(c, f) == reported[f].by = c

\* What checking the statements ss of file f reports, wherever it is located.
Reports(f, ss) == {d \in Diag : \E s \in ss : <<f, s>> \in Finders[d]}

\* `check_source_file_piece`: nothing for a file this checker is done with.
PieceReports(c, f, k) == IF TypeChecked(c, f) THEN {} ELSE Reports(f, pieces[f][k])

\* Mistake: the list to compare with is made after the check.
AddedAfterwards(c, f, k) == InFile(f, PieceReports(c, f, k) \ (found[c] \cup PieceReports(c, f, k)))
\* "Only what this piece adds is handed back."
Added(c, f, k) == InFile(f, PieceReports(c, f, k) \ found[c])

Finds(c, ds) == found' = [found EXCEPT ![c] = @ \cup ds]

-----------------------------------------------------------------------------
(* The items of a queue *)

\* The item to take is a piece, the first piece of a split file, or a file.
Start(c, it) ==
    /\ LET own == it.piece = 1
           split == pieces[it.file] # <<>>
       IN IF own /\ split
            THEN /\ Finds(c, PieceReports(c, it.file, 1))
                 /\ item' = [item EXCEPT ![c] = Item(it.file, 2)]
                 /\ Go(c, "claim")
            ELSE /\ item' = [item EXCEPT ![c] = it]
                 /\ Go(c, IF own THEN "callback" ELSE "queued")
                 /\ UNCHANGED found
    /\ UNCHANGED <<shadow, pieces, states, results, ownerFound, inPieces, reported>>

TakeOwn(c) ==
    /\ pc[c] = "next" /\ queue[c] # <<>>
    /\ queue' = [queue EXCEPT ![c] = Tail(@)]
    /\ Start(c, Head(queue[c]))

Steal(c) ==
    /\ pc[c] = "next" /\ queue[c] = <<>>
    /\ \E q \in Checker :
          /\ queue[q] # <<>>
          /\ queue' = [queue EXCEPT ![q] = SubSeq(@, 1, Len(@) - 1)]
          /\ Start(c, queue[q][Len(queue[q])])

\* With its own queue empty a checker may be refused everywhere else.
Stop(c) ==
    /\ pc[c] = "next" /\ queue[c] = <<>>
    /\ Go(c, "stopped")
    /\ UNCHANGED <<shadow, pieces, queue, states, results, ownerFound, found, inPieces, reported, item>>

\* Mistake: a piece that runs may be claimed again.
ClaimUnlessDone(f, k) == states[f][k] # "done" /\ states' = [states EXCEPT ![f][k] = "running"]
\* `claim`, the compare-exchange.
Claim(f, k) == states[f][k] = "notStarted" /\ states' = [states EXCEPT ![f][k] = "running"]
Claimed(f, k) == states[f][k] # "notStarted" /\ UNCHANGED states

\* Mistake: the sleeping owner is not told.
AwakeNobody(c, f, l) == [pc EXCEPT ![c] = l]
\* `notify_all` on `finished`; checker c goes on at l.
Awakened(c, f, l) ==
    [b \in Checker |-> IF b = c THEN l
                       ELSE IF pc[b] = "asleep" /\ item[b].file = f THEN "wait" ELSE pc[b]]

\* `finish`, under the mutex.
Finish(c, f, k, byOther, ds, l) ==
    /\ results' = [results EXCEPT
           ![f] = Append(@, [piece |-> k, byOther |-> byOther, diagnostics |-> ds])]
    /\ states' = [states EXCEPT ![f][k] = "done"]
    /\ pc' = Awakened(c, f, l)

\* `run_queued_piece`
RunQueuedPiece(c) ==
    /\ pc[c] = "queued"
    /\ \/ Claim(item[c].file, item[c].piece) /\ Go(c, "piece")
       \/ Claimed(item[c].file, item[c].piece) /\ Go(c, "next")
    /\ UNCHANGED <<shadow, pieces, queue, results, ownerFound, found, inPieces, reported, item>>

FinishQueuedPiece(c) ==
    /\ pc[c] = "piece"
    /\ LET f == item[c].file
           k == item[c].piece
       IN /\ Finish(c, f, k, TRUE, Added(c, f, k), "next")
          /\ Finds(c, PieceReports(c, f, k))
    /\ UNCHANGED <<shadow, pieces, queue, ownerFound, inPieces, reported, item>>

-----------------------------------------------------------------------------
(* `run_owner` *)

\* The pieces nobody has started, one after the other.
RunOwner(c) ==
    /\ pc[c] = "claim"
    /\ LET f == item[c].file
           k == item[c].piece
       IN \/ /\ k \in Queued(f)
             /\ \/ Claim(f, k) /\ Go(c, "ownPiece") /\ UNCHANGED item
                \/ /\ Claimed(f, k)
                   /\ item' = [item EXCEPT ![c].piece = k + 1]
                   /\ UNCHANGED pc
          \/ k \notin Queued(f) /\ Go(c, "wait") /\ UNCHANGED <<states, item>>
    /\ UNCHANGED <<shadow, pieces, queue, results, ownerFound, found, inPieces, reported>>

FinishOwnPiece(c) ==
    /\ pc[c] = "ownPiece"
    /\ LET f == item[c].file
           k == item[c].piece
       IN /\ Finish(c, f, k, FALSE, {}, "claim")
          /\ Finds(c, PieceReports(c, f, k))
          /\ item' = [item EXCEPT ![c].piece = k + 1]
    /\ UNCHANGED <<shadow, pieces, queue, ownerFound, inPieces, reported>>

AllDone(f) == \A k \in Queued(f) : states[f][k] = "done"

ByOther(f) == {i \in DOMAIN results[f] : results[f][i].byOther}
Found(f, is) == UNION {results[f][i].diagnostics : i \in is}

\* `wait_for_pieces`: the owner releases the mutex and sleeps in one step.
Sleep(c) ==
    /\ pc[c] = "wait" /\ ~AllDone(item[c].file)
    /\ Go(c, "asleep")
    /\ UNCHANGED <<shadow, pieces, queue, states, results, ownerFound, found, inPieces, reported, item>>

\* A condition variable may wake without cause.
WakeUp(c) ==
    /\ pc[c] = "asleep"
    /\ Go(c, "wait")
    /\ UNCHANGED <<shadow, pieces, queue, states, results, ownerFound, found, inPieces, reported, item>>

\* The owner merges the others' diagnostics; in shadow mode it checks their
\* pieces itself instead (`add_piece_diagnostics` then adds nothing).
Merge(c) ==
    /\ pc[c] = "wait" /\ AllDone(item[c].file)
    /\ LET f == item[c].file
           others == {results[f][i].piece : i \in ByOther(f)}
       IN /\ IF shadow
               THEN /\ ownerFound' = [ownerFound EXCEPT
                           ![f] = UNION {Added(c, f, k) : k \in others}]
                    /\ Finds(c, UNION {PieceReports(c, f, k) : k \in others})
               ELSE Finds(c, Found(f, DOMAIN results[f])) /\ UNCHANGED ownerFound
          /\ inPieces' = [inPieces EXCEPT ![c] = f]
    /\ Go(c, "callback")
    /\ UNCHANGED <<shadow, pieces, queue, states, results, reported, item>>

\* The callback: `check_source_file`, then the checker's collection for the file.
Callback(c) ==
    /\ pc[c] = "callback"
    /\ LET f == item[c].file
           ss == {FileLevel} \cup (IF inPieces[c] = f THEN {} ELSE 1 .. Statements[f])
           all == found[c] \cup Reports(f, ss)
       IN /\ found' = [found EXCEPT ![c] = all]
          /\ reported' = [reported EXCEPT ![f] = [by |-> c, diagnostics |-> InFile(f, all)]]
          /\ Go(c, IF shadow /\ pieces[f] # <<>> THEN "compare" ELSE "next")
    /\ inPieces' = [inPieces EXCEPT ![c] = None]
    /\ UNCHANGED <<shadow, pieces, queue, states, results, ownerFound, item>>

\* Mistake: the lists are compared the wrong way round.
ShadowCompareSwapped(c) ==
    /\ pc[c] = "compare"
    /\ LET f == item[c].file
           others == Found(f, ByOther(f))
       IN Go(c, IF reported[f].diagnostics \subseteq others THEN "next" ELSE "differs")
    /\ UNCHANGED <<shadow, pieces, queue, states, results, ownerFound, found, inPieces, reported, item>>

\* `shadow_compare`: the split check must report what the whole check reports.
ShadowCompare(c) ==
    /\ pc[c] = "compare"
    /\ LET f == item[c].file
           others == Found(f, ByOther(f))
       IN Go(c, IF others \subseteq reported[f].diagnostics /\ ownerFound[f] \subseteq others
                  THEN "next" ELSE "differs")
    /\ UNCHANGED <<shadow, pieces, queue, states, results, ownerFound, found, inPieces, reported, item>>

-----------------------------------------------------------------------------
\* A check panics, and the checker's thread with it: the loop is over, and a
\* piece that it had claimed stays so.
Panic(c) ==
    /\ pc[c] \in {"piece", "ownPiece", "callback"}
    /\ Go(c, "panicked")
    /\ UNCHANGED <<shadow, pieces, queue, states, results, ownerFound, found, inPieces, reported, item>>

Ended(c) == pc[c] \in {"stopped", "differs", "panicked"}

\* The file has a piece that nobody will finish.
Orphaned(f) ==
    \E c \in Checker : /\ pc[c] = "panicked"
                       /\ item[c].file = f
                       /\ item[c].piece \in Queued(f) /\ states[f][item[c].piece] = "running"

Over ==
    \A c \in Checker : Ended(c) \/ (pc[c] \in {"wait", "asleep"} /\ Orphaned(item[c].file))

Done == Over /\ UNCHANGED vars

CheckerStep(c) ==
    \/ TakeOwn(c) \/ Steal(c) \/ Stop(c) \/ RunQueuedPiece(c) \/ FinishQueuedPiece(c)
    \/ RunOwner(c) \/ FinishOwnPiece(c) \/ Sleep(c) \/ Merge(c) \/ Callback(c)
    \/ ShadowCompare(c)

Next == (\E c \in Checker : CheckerStep(c) \/ WakeUp(c) \/ Panic(c)) \/ Done

(* Every checker has a thread of its own and checking a piece ends.  A     *)
(* sleeping owner is woken by `notify_all` only: no fairness for WakeUp.   *)
Fairness == \A c \in Checker : WF_vars(CheckerStep(c))

Spec == Init /\ [][Next]_vars /\ Fairness

-----------------------------------------------------------------------------
\* However long the statements are, the pieces of a file cover it, overlap
\* nowhere and are not empty: `statement_pieces` loses no statement.
PiecesPartition ==
    \A f \in File : pieces[f] # <<>> =>
        /\ UNION {pieces[f][k] : k \in DOMAIN pieces[f]} = 1 .. Statements[f]
        /\ \A k, l \in DOMAIN pieces[f] : k # l => pieces[f][k] \cap pieces[f][l] = {}
        /\ \A k \in DOMAIN pieces[f] : pieces[f][k] # {}

\* Owner and helpers race for the pieces: none is checked twice, and when the
\* file is reported each has left its result.
EachPieceOnce ==
    \A f \in File :
        /\ \A i, j \in DOMAIN results[f] : results[f][i].piece = results[f][j].piece => i = j
        /\ reported[f].by # None => {results[f][i].piece : i \in DOMAIN results[f]} = Queued(f)

\* "Why the output is the same": whoever checks which piece, and when, a file
\* reports exactly the diagnostics located in it.  SplitCheck_merged.cfg shows
\* a merged interface for which `Added` makes that false.
SplitReportsTheFile ==
    \A f \in File : reported[f].by # None => reported[f].diagnostics = InFile(f, Diag)

\* An error of a merged declaration: the check of another file reports it too.
FoundElsewhere(d) == \E at \in Finders[d] : at[1] # Located[d]

\* A helper may have met it there before its piece, and the owner, which does
\* not go through the statements itself, has not met it in its own part.
MayMiss(f, d) ==
    /\ ~shadow /\ pieces[f] # <<>>
    /\ FoundElsewhere(d)
    /\ \A s \in {FileLevel} \cup pieces[f][1] : <<f, s>> \notin Finders[d]

\* How far "why the output is the same" holds: whoever checks which piece, and
\* when, a file reports nothing that is not located in it, and lacks at most
\* errors of merged declarations that neither the first piece nor the checks of
\* the whole file report.  Unsplit, or in shadow mode, it lacks nothing.
SplitMissesOnlyMerged ==
    \A f \in File : reported[f].by # None =>
        /\ reported[f].diagnostics \subseteq InFile(f, Diag)
        /\ \A d \in InFile(f, Diag) \ reported[f].diagnostics : MayMiss(f, d)

\* When the comparison of the shadow mode fails, it has caught such a loss: an
\* error of a merged declaration that the owner found in another's piece and
\* the checker of that piece did not hand back.
ShadowDiffersOnlyOnMerged ==
    \A c \in Checker : pc[c] = "differs" =>
        \E d \in ownerFound[item[c].file] \ Found(item[c].file, ByOther(item[c].file)) :
            FoundElsewhere(d)

\* The owner waits for the pieces in flight only ("they never wait on anything,
\* so this cannot deadlock"), also when two owners run each other's pieces, and
\* no wake-up is lost between its look at the states and its sleep.  The one
\* thing it waits for in vain is a piece whose check has panicked.
PassEnds == <>Over
=============================================================================
