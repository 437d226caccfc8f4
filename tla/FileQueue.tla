----------------------------- MODULE FileQueue -----------------------------
(***************************************************************************)
(* The queues a type-check pass takes its files from:                      *)
(* crates/stiles-tsrs/tsrs_compiler/src/checkerpool.rs, `FileQueue`,       *)
(* `queues_next` and the loop of `for_each_checker_group_do_inner`.        *)
(*                                                                         *)
(* Every checker takes the files of its own queue from the front.  One     *)
(* whose queue is empty steals from the back of the fullest other queue,   *)
(* and a queue may admit a few thieves only.  There is no lock: each       *)
(* `Relaxed` access of `range` or of `thieves` is a step, and what a thief *)
(* has read of a queue may be old when it acts on it.  (The two loads that *)
(* ask one queue whether it admits the thief, and how much it has left,    *)
(* are one step: `admit` and `take` decide whatever they said.)            *)
(*                                                                         *)
(* Checkers count from 1 here, and 0 stands for the code's `usize::MAX`.   *)
(***************************************************************************)
EXTENDS Naturals, Sequences, FiniteSets

CONSTANTS
    N,           \* how many checkers, and queues, there are
    Weights,     \* the weight of each file in each checker's queue
    Counted,     \* 64 in the code: later checkers have no bit in `thieves`
    MaxThieves   \* bound on the limits that are tried

ASSUME CheckerAssumption == N \in Nat \ {0}
ASSUME WeightsAssumption == Weights \in [1 .. N -> Seq(Nat)]
ASSUME BoundAssumption == Counted \in Nat /\ MaxThieves \in Nat

None == 0
Checker == 1 .. N
File == UNION {{[owner |-> q, index |-> i] : i \in 1 .. Len(Weights[q])} : q \in Checker}

VARIABLES
    mode,      \* `steal`, `sticky` and `max_thieves` of the pass
    range,     \* the files each queue has left: from front + 1 to back
    thieves,   \* the checkers whose bit is set in each queue
    owners,    \* the checker that later passes ask about each file
    checks,    \* history: the checkers that checked each file
    pc,        \* the step each checker is about to take
    at,        \* the queue its scan has come to
    best,      \* the victim it has in mind and the work seen there
    slot,      \* the queue it steals from now
    last       \* the queue it last chose

locals == <<pc, at, best, slot, last>>
vars == <<mode, range, thieves, owners, checks, locals>>

-----------------------------------------------------------------------------
(* FileQueue *)

\* `FileQueue::new`: the sums of the weights before each file.
prefix == [q \in Checker |->
    LET sum[i \in 0 .. Len(Weights[q])] == IF i = 0 THEN 0 ELSE sum[i - 1] + Weights[q][i]
    IN sum]

HasFiles(q) == range[q].front < range[q].back
Remaining(q) == IF HasFiles(q) THEN prefix[q][range[q].back] - prefix[q][range[q].front] ELSE 0

\* Whether the limit does not bind checker c.
Unlimited(c) == mode.max = 0 \/ c > Counted
Admits(q, c) == Unlimited(c) \/ c \in thieves[q] \/ Cardinality(thieves[q]) < mode.max

\* The file the next `take` yields, and the queue after it.
Taken(q, front) == [owner |-> q, index |-> IF front THEN range[q].front + 1 ELSE range[q].back]
\* Mistake: a thief leaves the queue as it was.
RangeOfOwner(q, front) == IF front THEN [range EXCEPT ![q].front = @ + 1] ELSE range
RangeAfter(q, front) ==
    IF front THEN [range EXCEPT ![q].front = @ + 1] ELSE [range EXCEPT ![q].back = @ - 1]

\* Mistake: a place is given up by nobody.
KeepPlace(q, c) == thieves
Release(q, c) == IF q # None /\ c <= Counted THEN [thieves EXCEPT ![q] = @ \ {c}] ELSE thieves

Active == {c \in Checker : Weights[c] # <<>>}

LastQueue == N

Init ==
    /\ mode \in [steal : BOOLEAN, sticky : BOOLEAN, max : 0 .. MaxThieves]
    /\ mode.sticky => mode.steal
    /\ range = [q \in Checker |-> [front |-> 0, back |-> Len(Weights[q])]]
    /\ thieves = [q \in Checker |-> {}]
    /\ owners = [f \in File |-> f.owner]
    /\ checks = [f \in File |-> <<>>]
    /\ pc = [c \in Checker |-> IF c \in Active THEN "own" ELSE "stopped"]
    /\ at = [c \in Checker |-> 1]
    /\ best = [c \in Checker |-> [victim |-> None, left |-> 0]]
    /\ slot = [c \in Checker |-> None]
    /\ last = [c \in Checker |-> None]

-----------------------------------------------------------------------------
(* The steps of `queues_next`. *)

Go(c, l) == pc' = [pc EXCEPT ![c] = l]
From(c, q) == at' = [at EXCEPT ![c] = q]
Rescan(c) ==
    /\ Go(c, "scan")
    /\ From(c, 1)
    /\ best' = [best EXCEPT ![c] = [victim |-> None, left |-> 0]]

\* Mistake: only a file stolen for its weight gets a new owner.
OwnersKept(c, q, front) ==
    IF front \/ pc[c] = "drain" THEN owners ELSE [owners EXCEPT ![Taken(q, front)] = c]
OwnersAfter(c, q, front) ==
    IF front THEN owners ELSE [owners EXCEPT ![Taken(q, front)] = c]

\* Checker c takes a file of queue q, and the loop of the pass checks it.
Take(c, q, front) ==
    /\ range' = RangeAfter(q, front)
    /\ checks' = [checks EXCEPT ![Taken(q, front)] = Append(@, c)]
    /\ owners' = OwnersAfter(c, q, front)
    /\ Go(c, "own")
    /\ From(c, 1)
    /\ best' = [best EXCEPT ![c] = [victim |-> None, left |-> 0]]
    /\ UNCHANGED <<mode, thieves, slot, last>>

TakeOwn(c) ==
    /\ pc[c] = "own"
    /\ HasFiles(c)
    /\ Take(c, c, TRUE)

OwnIsEmpty(c) ==
    /\ pc[c] = "own"
    /\ ~HasFiles(c)
    /\ IF mode.steal THEN Rescan(c) ELSE Go(c, "stopped") /\ UNCHANGED <<at, best>>
    /\ UNCHANGED <<mode, range, thieves, owners, checks, slot, last>>

\* Is there work in any queue?  The scan ends at the first that has some.
Scan(c) ==
    /\ pc[c] = "scan"
    /\ IF Remaining(at[c]) > 0
         THEN Go(c, "pick") /\ From(c, 1)
         ELSE IF at[c] = LastQueue THEN Go(c, "drain") /\ From(c, 1)
         ELSE From(c, at[c] + 1) /\ UNCHANGED pc
    /\ UNCHANGED <<mode, range, thieves, owners, checks, best, slot, last>>

\* The files that weigh nothing: the first queue that has one.
Drain(c) ==
    /\ pc[c] = "drain"
    /\ at[c] # c /\ HasFiles(at[c])
    /\ Take(c, at[c], FALSE)

DrainNext(c) ==
    /\ pc[c] = "drain"
    /\ at[c] = c \/ ~HasFiles(at[c])
    /\ IF at[c] = LastQueue
         THEN Go(c, "stopped") /\ UNCHANGED at
         ELSE From(c, at[c] + 1) /\ UNCHANGED pc
    /\ UNCHANGED <<mode, range, thieves, owners, checks, best, slot, last>>

\* `max_by_key`: the fullest queue that admits the thief, the first of equals.
Better(c) ==
    IF at[c] # c /\ Admits(at[c], c) /\ (best[c].victim = None \/ Remaining(at[c]) > best[c].left)
      THEN [victim |-> at[c], left |-> Remaining(at[c])]
      ELSE best[c]

\* Without a victim the call ends; with one that has no work, "the queues with
\* work left have their thieves", and the checker leaves its place first.
Pick(c) ==
    /\ pc[c] = "pick"
    /\ best' = [best EXCEPT ![c] = Better(c)]
    /\ IF at[c] # LastQueue THEN From(c, at[c] + 1) /\ UNCHANGED pc
       ELSE /\ UNCHANGED at
            /\ Go(c, CASE Better(c).victim = None -> "stopped"
                       [] Better(c).victim # None /\ Better(c).left = 0 -> "giveUp"
                       [] OTHER -> IF mode.sticky THEN "keep" ELSE "admit")
    /\ UNCHANGED <<mode, range, thieves, owners, checks, slot, last>>

GiveUp(c) ==
    /\ pc[c] = "giveUp"
    /\ thieves' = Release(slot[c], c)
    /\ Go(c, "stopped")
    /\ UNCHANGED <<mode, range, owners, checks, at, best, slot, last>>

\* A sticky thief keeps its victim while that has half the work of the fullest.
Keep(c) ==
    /\ pc[c] = "keep"
    /\ LET keeps == /\ last[c] # None
                    /\ Admits(last[c], c)
                    /\ Remaining(last[c]) * 2 >= best[c].left
           victim == IF keeps THEN last[c] ELSE best[c].victim
       IN /\ best' = [best EXCEPT ![c].victim = victim]
          /\ last' = [last EXCEPT ![c] = victim]
    /\ Go(c, "admit")
    /\ UNCHANGED <<mode, range, thieves, owners, checks, at, slot>>

\* Mistake: the exchange does not look at the limit again.
AdmitAnyone(c) ==
    /\ pc[c] = "admit"
    /\ thieves' = IF best[c].victim = slot[c] \/ Unlimited(c)
                    THEN thieves ELSE [thieves EXCEPT ![best[c].victim] = @ \cup {c}]
    /\ Go(c, IF best[c].victim = slot[c] THEN "steal" ELSE "move")
    /\ UNCHANGED <<mode, range, owners, checks, at, best, slot, last>>

\* The compare-exchange of `admit`; a thief that is refused looks again.
Admit(c) ==
    /\ pc[c] = "admit"
    /\ \/ /\ best[c].victim = slot[c]
          /\ Go(c, "steal")
          /\ UNCHANGED <<thieves, at, best>>
       \/ /\ best[c].victim # slot[c]
          /\ Admits(best[c].victim, c)
          /\ thieves' = IF Unlimited(c) THEN thieves
                        ELSE [thieves EXCEPT ![best[c].victim] = @ \cup {c}]
          /\ Go(c, "move")
          /\ UNCHANGED <<at, best>>
       \/ /\ best[c].victim # slot[c]
          /\ ~Admits(best[c].victim, c)
          /\ Rescan(c)
          /\ UNCHANGED thieves
    /\ UNCHANGED <<mode, range, owners, checks, slot, last>>

\* The place in the queue it stole from before is free again.
Move(c) ==
    /\ pc[c] = "move"
    /\ thieves' = Release(slot[c], c)
    /\ slot' = [slot EXCEPT ![c] = best[c].victim]
    /\ Go(c, "steal")
    /\ UNCHANGED <<mode, range, owners, checks, at, best, last>>

Steal(c) ==
    /\ pc[c] = "steal"
    /\ HasFiles(best[c].victim)
    /\ Take(c, best[c].victim, FALSE)

\* Mistake: the thief tries the same queue again.
TryAgain(c) == pc[c] = "steal" /\ ~HasFiles(best[c].victim) /\ UNCHANGED vars
TooLate(c) ==
    /\ pc[c] = "steal"
    /\ ~HasFiles(best[c].victim)
    /\ Rescan(c)
    /\ UNCHANGED <<mode, range, thieves, owners, checks, slot, last>>

Stopped == \A c \in Checker : pc[c] = "stopped"
Done == Stopped /\ UNCHANGED vars

CheckerStep(c) ==
    \/ TakeOwn(c) \/ OwnIsEmpty(c) \/ Scan(c) \/ Drain(c) \/ DrainNext(c) \/ Pick(c)
    \/ GiveUp(c) \/ Keep(c) \/ Admit(c) \/ Move(c) \/ Steal(c) \/ TooLate(c)

Next == (\E c \in Checker : CheckerStep(c)) \/ Done

(* Every checker runs on a thread of its own, which the system schedules,  *)
(* and checking a file ends.                                               *)
Fairness == \A c \in Checker : WF_vars(CheckerStep(c))

Spec == Init /\ [][Next]_vars /\ Fairness

-----------------------------------------------------------------------------
\* The amounts of work that a look at a queue can find there.
Work ==
    {0} \cup UNION {{prefix[q][j] - prefix[q][i] : i, j \in 0 .. Len(Weights[q])} : q \in Checker}

\* The state of the pass.
TypeOK ==
    /\ mode \in [steal : BOOLEAN, sticky : BOOLEAN, max : 0 .. MaxThieves]
    /\ range \in [Checker -> [front : Nat, back : Nat]]
    /\ \A q \in Checker : range[q].front <= range[q].back /\ range[q].back <= Len(Weights[q])
    /\ thieves \in [Checker -> SUBSET Checker]
    /\ owners \in [File -> Checker]
    /\ checks \in [File -> Seq(Checker)]
    /\ pc \in [Checker -> {"own", "scan", "drain", "pick", "giveUp", "keep", "admit", "move",
                           "steal", "stopped"}]
    /\ at \in [Checker -> Checker]
    /\ best \in [Checker -> [victim : Checker \cup {None}, left : Work]]
    /\ slot \in [Checker -> Checker \cup {None}]
    /\ last \in [Checker -> Checker \cup {None}]

\* When the pass is over every file was checked once, and later passes over it
\* go to the checker that checked it, whoever owned it first.
CheckedByItsOwner ==
    Stopped => \A f \in File : checks[f] = <<owners[f]>>

\* No file is checked twice, however thieves and owner race for the last one.
NeverTwice == \A f \in File : Len(checks[f]) <= 1

\* The checkers that steal from a queue now are never more than the limit,
\* though each read the count before it asked to be admitted.  Only a checker
\* that drains takes from others unasked, and by then no queue has work that
\* it could take: what is left weighs nothing.
ThievesWithinLimit ==
    mode.max > 0 =>
        \A q \in Checker :
            /\ Cardinality({c \in Checker : /\ c <= Counted
                                            /\ pc[c] = "steal"
                                            /\ best[c].victim = q}) <= mode.max
            /\ (\E c \in Checker : pc[c] = "drain") => Remaining(q) = 0

\* A place in a queue belongs to a thief that steals from it, or is about to:
\* none is kept after a move, and none on a queue with work by a checker that
\* has stopped, so that the limit never turns away a thief for nothing.
PlacesAreInUse ==
    \A c, q \in Checker : c \in thieves[q] =>
        /\ slot[c] = q \/ (pc[c] = "move" /\ best[c].victim = q)
        /\ pc[c] = "stopped" => Remaining(q) = 0

\* A refused thief looks again, and a thief may come too late: the pass ends
\* all the same.
PassEnds == <>Stopped
=============================================================================
