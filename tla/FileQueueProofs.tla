-------------------------- MODULE FileQueueProofs --------------------------
(***************************************************************************)
(* For any number of checkers, any queues, and any limit: a type-check     *)
(* pass checks every file once and leaves it to the checker that did, and  *)
(* no queue has more thieves than it may have.                             *)
(***************************************************************************)
EXTENDS FileQueue, FiniteSetTheorems, WellFoundedInduction, TLAPS

Left(f) == range[f.owner].front < f.index /\ f.index <= range[f.owner].back

\* A file is in its queue and nobody has checked it, or the checker that later
\* passes ask has, and nobody else.
FilesInv ==
    \A f \in File : IF Left(f) THEN checks[f] = <<>> /\ owners[f] = f.owner
                               ELSE checks[f] = <<owners[f]>>

\* A checker that looks further than its own queue has emptied it.
OwnInv == \A c \in Checker : pc[c] # "own" => ~HasFiles(c)

\* A thief that asks for a place, or steals, has a victim.
VictimInv ==
    \A c \in Checker : pc[c] \in {"keep", "admit", "move", "steal"} => best[c].victim \in Checker

\* What the bits of the thieves stand for.
SlotInv ==
    \A c \in Checker : /\ pc[c] = "steal" => best[c].victim = slot[c]
                       /\ pc[c] = "move" => best[c].victim # slot[c]
UseInv ==
    \A c, q \in Checker : c \in thieves[q] =>
        /\ c <= Counted
        /\ slot[c] = q \/ (pc[c] = "move" /\ best[c].victim = q)
HeldInv ==
    mode.max > 0 => \A c \in Checker : c <= Counted =>
        /\ pc[c] # "stopped" /\ slot[c] # None => c \in thieves[slot[c]]
        /\ pc[c] = "move" => c \in thieves[best[c].victim]
LimitInv == mode.max > 0 => \A q \in Checker : Cardinality(thieves[q]) <= mode.max
PlaceInv == SlotInv /\ UseInv /\ HeldInv /\ LimitInv

PassInv == FilesInv /\ OwnInv /\ VictimInv

-----------------------------------------------------------------------------
LEMMA FileFields ==
    ASSUME NEW f \in File
    PROVE  /\ f.owner \in Checker
           /\ f.index \in 1 .. Len(Weights[f.owner])
           /\ f = [owner |-> f.owner, index |-> f.index]
BY DEF File

LEMMA FileMade ==
    ASSUME NEW q \in Checker, NEW i \in 1 .. Len(Weights[q])
    PROVE  [owner |-> q, index |-> i] \in File
BY DEF File

LEMMA LengthType == ASSUME NEW q \in Checker PROVE Len(Weights[q]) \in Nat
BY WeightsAssumption DEF Checker

\* What a look at a queue finds is one of the amounts a queue can hold.
LEMMA RemainingType == ASSUME TypeOK, NEW q \in Checker PROVE Remaining(q) \in Work
<1>1. range[q].front \in 0 .. Len(Weights[q]) /\ range[q].back \in 0 .. Len(Weights[q])
  BY LengthType DEF TypeOK
<1>2. prefix[q][range[q].back] - prefix[q][range[q].front] \in
        {prefix[q][j] - prefix[q][i] : i, j \in 0 .. Len(Weights[q])}
  BY <1>1
<1> QED
  BY <1>2 DEF Remaining, Work

\* Every file of a queue that has one is taken from either end: what it yields
\* was unchecked, and is checked by its owner to be.
LEMMA TakeFile ==
    ASSUME TypeOK, PassInv, NEW c \in Checker, NEW q \in Checker, NEW front \in BOOLEAN,
           HasFiles(q), front => q = c, Take(c, q, front)
    PROVE  TypeOK' /\ PassInv'
<1>0. PICK g : g = Taken(q, front)
  OBVIOUS
<1>1. /\ range[q].front \in Nat /\ range[q].back \in Nat
      /\ range[q].front < range[q].back /\ range[q].back <= Len(Weights[q])
      /\ range[q] = [front |-> range[q].front, back |-> range[q].back]
  BY DEF TypeOK, HasFiles
<1>2. g.owner = q /\ g.index = (IF front THEN range[q].front + 1 ELSE range[q].back)
  BY <1>0 DEF Taken
<1>3. g \in File
  BY <1>0, <1>1, FileMade, LengthType DEF Taken
<1>4. Left(g)
  BY <1>1, <1>2 DEF Left
<1>5. checks[g] = <<>> /\ owners[g] = q
  BY <1>2, <1>3, <1>4 DEF PassInv, FilesInv
<1>6. /\ range' \in [Checker -> [front : Nat, back : Nat]]
      /\ \A r \in Checker : r # q => range'[r] = range[r]
      /\ range'[q].front = (IF front THEN range[q].front + 1 ELSE range[q].front)
      /\ range'[q].back = (IF front THEN range[q].back ELSE range[q].back - 1)
  BY <1>1 DEF Take, RangeAfter, TypeOK
<1>7. /\ checks' = [checks EXCEPT ![g] = Append(@, c)]
      /\ owners' = (IF front THEN owners ELSE [owners EXCEPT ![g] = c])
  BY <1>0 DEF Take, OwnersAfter
<1>8. checks'[g] = <<owners'[g]>>
  BY <1>3, <1>5, <1>7 DEF TypeOK
<1>9. \A f \in File : f # g => checks'[f] = checks[f] /\ owners'[f] = owners[f]
  BY <1>3, <1>7 DEF TypeOK
<1>10. \A f \in File : f # g => (Left(f)' <=> Left(f))
  <2> SUFFICES ASSUME NEW f \in File, f # g PROVE Left(f)' <=> Left(f)
    OBVIOUS
  <2>1. f.owner = q => f.index # g.index
    BY <1>0, <1>2, FileFields DEF Taken
  <2>2. f.index \in Nat /\ f.owner \in Checker
    BY FileFields, LengthType
  <2> QED
    BY <1>1, <1>2, <1>6, <2>1, <2>2 DEF Left
<1>11. ~Left(g)'
  BY <1>1, <1>2, <1>6 DEF Left
<1>12. FilesInv'
  BY <1>8, <1>9, <1>10, <1>11 DEF FilesInv, PassInv
<1>13. OwnInv'
  BY <1>1, <1>6 DEF OwnInv, PassInv, HasFiles, Take, Go, TypeOK
<1>14. VictimInv'
  BY DEF VictimInv, PassInv, Take, Go, TypeOK
<1>15. checks' \in [File -> Seq(Checker)] /\ owners' \in [File -> Checker]
  BY <1>3, <1>7 DEF TypeOK
<1>16. 0 \in Work /\ 1 \in Checker
  BY CheckerAssumption DEF Work, Checker
<1>17. /\ pc' \in [Checker -> {"own", "scan", "drain", "pick", "giveUp", "keep", "admit", "move",
                               "steal", "stopped"}]
       /\ at' \in [Checker -> Checker]
       /\ best' \in [Checker -> [victim : Checker \cup {None}, left : Work]]
  BY <1>16 DEF TypeOK, Take, Go, From
<1>18. \A r \in Checker : range'[r].front <= range'[r].back /\ range'[r].back <= Len(Weights[r])
  <2> SUFFICES ASSUME NEW r \in Checker
               PROVE  range'[r].front <= range'[r].back /\ range'[r].back <= Len(Weights[r])
    OBVIOUS
  <2>1. CASE r = q
    BY <2>1, <1>1, <1>6, LengthType
  <2>2. CASE r # q
    BY <2>2, <1>6 DEF TypeOK
  <2> QED
    BY <2>1, <2>2
<1>19. UNCHANGED <<mode, thieves, slot, last>>
  BY DEF Take
<1> QED
  BY <1>6, <1>12, <1>13, <1>14, <1>15, <1>17, <1>18, <1>19 DEF TypeOK, PassInv

\* A step that takes no file moves one checker, which had no file of its own to
\* take unless it is where it was.
LEMMA QuietStep ==
    ASSUME PassInv, UNCHANGED <<range, owners, checks>>,
           \A c \in Checker : pc'[c] # "own" => pc[c] # "own" \/ ~HasFiles(c),
           VictimInv'
    PROVE  PassInv'
BY DEF PassInv, FilesInv, Left, OwnInv, HasFiles

LEMMA BetterType ==
    ASSUME TypeOK, NEW c \in Checker
    PROVE  Better(c) \in [victim : Checker \cup {None}, left : Work]
BY RemainingType DEF Better, TypeOK

LEMMA FirstIsThere == 0 \in Work /\ 1 \in Checker
BY CheckerAssumption DEF Work, Checker

LEMMA NextIsThere ==
    ASSUME NEW q \in Checker, q # LastQueue
    PROVE  q + 1 \in Checker
BY CheckerAssumption DEF Checker, LastQueue

LEMMA ReleaseType ==
    ASSUME TypeOK, NEW c \in Checker, NEW q \in Checker \cup {None}
    PROVE  Release(q, c) \in [Checker -> SUBSET Checker]
BY DEF Release, TypeOK, None, Checker

LEMMA RescanType ==
    ASSUME TypeOK, NEW c \in Checker, Rescan(c)
    PROVE  /\ pc' = [pc EXCEPT ![c] = "scan"]
           /\ at' \in [Checker -> Checker]
           /\ best' \in [Checker -> [victim : Checker \cup {None}, left : Work]]
BY FirstIsThere DEF TypeOK, Rescan, Go, From

LEMMA StepInv == TypeOK /\ PassInv /\ [Next]_vars => TypeOK' /\ PassInv'
<1> SUFFICES ASSUME TypeOK, PassInv, [Next]_vars
             PROVE  TypeOK' /\ PassInv'
  OBVIOUS
<1>1. ASSUME NEW c \in Checker, TakeOwn(c) PROVE TypeOK' /\ PassInv'
  BY <1>1, TakeFile DEF TakeOwn
<1>2. ASSUME NEW c \in Checker, OwnIsEmpty(c) PROVE TypeOK' /\ PassInv'
  <2>1. TypeOK'
    <3>1. CASE Rescan(c)
      BY <1>2, <3>1, RescanType DEF TypeOK, OwnIsEmpty
    <3>2. CASE Go(c, "stopped") /\ UNCHANGED <<at, best>>
      BY <1>2, <3>2 DEF TypeOK, OwnIsEmpty, Go
    <3> QED
      BY <1>2, <3>1, <3>2 DEF OwnIsEmpty
  <2>2. VictimInv'
    BY <1>2 DEF TypeOK, OwnIsEmpty, Rescan, Go, PassInv, VictimInv
  <2> QED
    BY <1>2, <2>1, <2>2, QuietStep DEF TypeOK, OwnIsEmpty, Rescan, Go
<1>3. ASSUME NEW c \in Checker, Scan(c) PROVE TypeOK' /\ PassInv'
  <2>1. TypeOK'
    BY <1>3, FirstIsThere, NextIsThere DEF TypeOK, Scan, Go, From
  <2>2. VictimInv'
    BY <1>3 DEF TypeOK, Scan, Go, PassInv, VictimInv
  <2> QED
    BY <1>3, <2>1, <2>2, QuietStep DEF TypeOK, Scan, Go
<1>4. ASSUME NEW c \in Checker, Drain(c) PROVE TypeOK' /\ PassInv'
  <2>1. at[c] \in Checker
    BY DEF TypeOK
  <2> QED
    BY <1>4, <2>1, TakeFile DEF Drain
<1>5. ASSUME NEW c \in Checker, DrainNext(c) PROVE TypeOK' /\ PassInv'
  <2>1. TypeOK'
    BY <1>5, NextIsThere DEF TypeOK, DrainNext, Go, From
  <2>2. VictimInv'
    BY <1>5 DEF TypeOK, DrainNext, Go, PassInv, VictimInv
  <2> QED
    BY <1>5, <2>1, <2>2, QuietStep DEF TypeOK, DrainNext, Go
<1>6. ASSUME NEW c \in Checker, Pick(c) PROVE TypeOK' /\ PassInv'
  <2> DEFINE after == CASE Better(c).victim = None -> "stopped"
                        [] Better(c).victim # None /\ Better(c).left = 0 -> "giveUp"
                        [] OTHER -> IF mode.sticky THEN "keep" ELSE "admit"
  <2>1. after \in {"stopped", "giveUp", "keep", "admit"} /\ (Better(c).victim = None => after = "stopped")
    OBVIOUS
  <2>2. pc' = IF at[c] # LastQueue THEN pc ELSE [pc EXCEPT ![c] = after]
    BY <1>6 DEF Pick, Go
  <2>3. at' = IF at[c] # LastQueue THEN [at EXCEPT ![c] = at[c] + 1] ELSE at
    BY <1>6 DEF Pick, From
  <2>4. best' = [best EXCEPT ![c] = Better(c)] /\ pc[c] = "pick"
    BY <1>6 DEF Pick
  <2>5. UNCHANGED <<mode, range, thieves, owners, checks, slot, last>>
    BY <1>6 DEF Pick
  <2> HIDE DEF after
  <2>6. at' \in [Checker -> Checker]
    BY <2>3, NextIsThere DEF TypeOK
  <2>7. TypeOK'
    BY <2>1, <2>2, <2>4, <2>5, <2>6, BetterType DEF TypeOK
  <2>8. VictimInv'
    BY <2>1, <2>2, <2>4, BetterType DEF TypeOK, PassInv, VictimInv
  <2> QED
    BY <2>1, <2>2, <2>4, <2>5, <2>7, <2>8, QuietStep DEF TypeOK
<1>7. ASSUME NEW c \in Checker, GiveUp(c) PROVE TypeOK' /\ PassInv'
  <2>1. slot[c] \in Checker \cup {None}
    BY DEF TypeOK
  <2>2. TypeOK'
    BY <1>7, <2>1, ReleaseType DEF TypeOK, GiveUp, Go
  <2>3. VictimInv'
    BY <1>7 DEF TypeOK, GiveUp, Go, PassInv, VictimInv
  <2> QED
    BY <1>7, <2>2, <2>3, QuietStep DEF TypeOK, GiveUp, Go
<1>8. ASSUME NEW c \in Checker, Keep(c) PROVE TypeOK' /\ PassInv'
  <2>1. PICK v \in Checker :
          /\ best' = [best EXCEPT ![c].victim = v]
          /\ last' = [last EXCEPT ![c] = v]
    <3>1. best[c].victim \in Checker
      BY <1>8 DEF Keep, PassInv, VictimInv
    <3>2. last[c] = None \/ last[c] \in Checker
      BY DEF TypeOK
    <3> QED
      BY <1>8, <3>1, <3>2 DEF Keep
  <2>2. pc[c] = "keep" /\ pc' = [pc EXCEPT ![c] = "admit"]
    BY <1>8 DEF Keep, Go
  <2>3. UNCHANGED <<mode, range, thieves, owners, checks, at, slot>>
    BY <1>8 DEF Keep
  <2>4. TypeOK'
    BY <2>1, <2>2, <2>3 DEF TypeOK
  <2>5. VictimInv'
    BY <2>1, <2>2 DEF TypeOK, PassInv, VictimInv
  <2> QED
    BY <2>2, <2>3, <2>4, <2>5, QuietStep DEF TypeOK
<1>9. ASSUME NEW c \in Checker, Admit(c) PROVE TypeOK' /\ PassInv'
  <2>0. best[c].victim \in Checker
    BY <1>9 DEF Admit, PassInv, VictimInv
  <2>1. TypeOK'
    <3>1. CASE Rescan(c) /\ UNCHANGED thieves
      BY <1>9, <3>1, RescanType DEF TypeOK, Admit
    <3>2. CASE Go(c, "steal") /\ UNCHANGED <<thieves, at, best>>
      BY <1>9, <3>2 DEF TypeOK, Admit, Go
    <3>3. CASE /\ thieves' = IF Unlimited(c) THEN thieves
                             ELSE [thieves EXCEPT ![best[c].victim] = @ \cup {c}]
               /\ Go(c, "move") /\ UNCHANGED <<at, best>>
      <4>1. thieves' \in [Checker -> SUBSET Checker]
        BY <2>0, <3>3 DEF TypeOK
      <4> QED
        BY <1>9, <3>3, <4>1 DEF TypeOK, Admit, Go
    <3> QED
      BY <1>9, <3>1, <3>2, <3>3 DEF Admit
  <2>2. VictimInv'
    BY <1>9, <2>0 DEF TypeOK, Admit, Rescan, Go, PassInv, VictimInv
  <2> QED
    BY <1>9, <2>1, <2>2, QuietStep DEF TypeOK, Admit, Rescan, Go
<1>10. ASSUME NEW c \in Checker, Move(c) PROVE TypeOK' /\ PassInv'
  <2>1. slot[c] \in Checker \cup {None} /\ best[c].victim \in Checker
    BY <1>10 DEF TypeOK, Move, PassInv, VictimInv
  <2>2. TypeOK'
    BY <1>10, <2>1, ReleaseType DEF TypeOK, Move, Go
  <2>3. VictimInv'
    BY <1>10, <2>1 DEF TypeOK, Move, Go, PassInv, VictimInv
  <2> QED
    BY <1>10, <2>2, <2>3, QuietStep DEF TypeOK, Move, Go
<1>11. ASSUME NEW c \in Checker, Steal(c) PROVE TypeOK' /\ PassInv'
  <2>1. best[c].victim \in Checker
    BY <1>11 DEF Steal, PassInv, VictimInv
  <2> QED
    BY <1>11, <2>1, TakeFile DEF Steal
<1>12. ASSUME NEW c \in Checker, TooLate(c) PROVE TypeOK' /\ PassInv'
  <2>1. TypeOK'
    BY <1>12, FirstIsThere DEF TypeOK, TooLate, Rescan, Go, From
  <2>2. VictimInv'
    BY <1>12 DEF TypeOK, TooLate, Rescan, Go, PassInv, VictimInv
  <2> QED
    BY <1>12, <2>1, <2>2, QuietStep DEF TypeOK, TooLate, Rescan, Go
<1>13. ASSUME UNCHANGED vars PROVE TypeOK' /\ PassInv'
  BY <1>13 DEF vars, locals, TypeOK, PassInv, FilesInv, Left, OwnInv, HasFiles, VictimInv
<1> QED
  BY <1>1, <1>2, <1>3, <1>4, <1>5, <1>6, <1>7, <1>8, <1>9, <1>10, <1>11, <1>12, <1>13
  DEF Next, CheckerStep, Done

LEMMA InitInv == Init => TypeOK /\ PassInv
<1> SUFFICES ASSUME Init PROVE TypeOK /\ PassInv
  OBVIOUS
<1>1. TypeOK
  BY FirstIsThere, LengthType, FileFields, CheckerAssumption, BoundAssumption
  DEF Init, TypeOK, Active, None
<1>2. FilesInv
  <2> SUFFICES ASSUME NEW f \in File PROVE Left(f) /\ checks[f] = <<>> /\ owners[f] = f.owner
    BY DEF FilesInv
  <2> QED
    BY FileFields, LengthType DEF Init, Left
<1>3. OwnInv
  <2> SUFFICES ASSUME NEW c \in Checker, pc[c] # "own" PROVE ~HasFiles(c)
    BY DEF OwnInv
  <2>1. Weights[c] = <<>>
    BY DEF Init, Active
  <2> QED
    BY <2>1 DEF Init, HasFiles
<1>4. VictimInv
  BY DEF Init, VictimInv
<1> QED
  BY <1>1, <1>2, <1>3, <1>4 DEF PassInv

\* The state of the pass keeps its type, a file in its queue is unchecked, and
\* a file that is not was checked by the one checker that owns it now.
THEOREM TypeCorrect == Spec => [](TypeOK /\ PassInv)
<1>1. Init => TypeOK /\ PassInv
  BY InitInv
<1>2. TypeOK /\ PassInv /\ [Next]_vars => (TypeOK /\ PassInv)'
  BY StepInv
<1> QED
  BY <1>1, <1>2, PTL DEF Spec

\* However the owner of a queue and its thieves race, no file of it is checked
\* twice.
THEOREM FilesAreTakenOnce == Spec => []NeverTwice
<1>1. TypeOK /\ PassInv => NeverTwice
  <2> SUFFICES ASSUME TypeOK, PassInv, NEW f \in File PROVE Len(checks[f]) <= 1
    BY DEF NeverTwice
  <2>1. checks[f] = <<>> \/ checks[f] = <<owners[f]>>
    BY DEF PassInv, FilesInv
  <2>2. Len(<<>>) = 0 /\ Len(<<owners[f]>>) = 1
    OBVIOUS
  <2>3. Len(checks[f]) = 0 \/ Len(checks[f]) = 1
    BY <2>1, <2>2, Zenon
  <2>4. \A n : n = 0 \/ n = 1 => n <= 1
    OBVIOUS
  <2> QED
    BY <2>3, <2>4, Zenon
<1> QED
  BY <1>1, TypeCorrect, PTL

\* When all checkers have stopped every file was checked, by the checker that
\* later passes ask.
THEOREM PassIsComplete == Spec => []CheckedByItsOwner
<1>1. TypeOK /\ PassInv => CheckedByItsOwner
  <2> SUFFICES ASSUME TypeOK, PassInv, Stopped, NEW f \in File PROVE checks[f] = <<owners[f]>>
    BY DEF CheckedByItsOwner
  <2>1. f.owner \in Checker /\ f.index \in Nat
    BY FileFields, LengthType
  <2>2. ~HasFiles(f.owner)
    BY <2>1 DEF Stopped, PassInv, OwnInv
  <2>3. ~Left(f)
    BY <2>1, <2>2 DEF HasFiles, Left, TypeOK
  <2> QED
    BY <2>3 DEF PassInv, FilesInv
<1> QED
  BY <1>1, TypeCorrect, PTL

-----------------------------------------------------------------------------
\* A step of checker c that touches no bit, and neither starts nor ends a move.
LEMMA QuietPlaces ==
    ASSUME PlaceInv, UNCHANGED <<mode, thieves, slot>>, NEW c \in Checker,
           \A d \in Checker : d # c => pc'[d] = pc[d] /\ best'[d] = best[d],
           pc[c] # "move", pc[c] # "stopped", pc'[c] # "move",
           pc'[c] = "steal" => best'[c].victim = slot[c]
    PROVE  PlaceInv'
<1>1. SlotInv' /\ LimitInv'
  BY DEF PlaceInv, SlotInv, LimitInv
<1>2. UseInv'
  BY DEF PlaceInv, UseInv
<1>3. HeldInv'
  BY DEF PlaceInv, HeldInv
<1> QED
  BY <1>1, <1>2, <1>3 DEF PlaceInv

LEMMA FiniteThieves ==
    ASSUME TypeOK, NEW q \in Checker
    PROVE  IsFiniteSet(thieves[q]) /\ Cardinality(thieves[q]) \in Nat
<1>1. IsFiniteSet(Checker)
  BY FS_Interval, CheckerAssumption DEF Checker
<1>2. thieves[q] \subseteq Checker
  BY DEF TypeOK
<1> QED
  BY <1>1, <1>2, FS_Subset, FS_CardinalityType

\* A thief that is admitted finds the limit not reached yet.
LEMMA AdmitPlaces ==
    ASSUME TypeOK, PassInv, PlaceInv, NEW c \in Checker, pc[c] = "admit",
           best[c].victim # slot[c], Admits(best[c].victim, c),
           thieves' = IF Unlimited(c) THEN thieves
                      ELSE [thieves EXCEPT ![best[c].victim] = @ \cup {c}],
           pc' = [pc EXCEPT ![c] = "move"], UNCHANGED <<mode, best, slot>>
    PROVE  PlaceInv'
<1> DEFINE v == best[c].victim
<1>1. v \in Checker
  BY DEF PassInv, VictimInv
<1>2. /\ \A q \in Checker : q # v => thieves'[q] = thieves[q]
      /\ thieves'[v] = IF Unlimited(c) THEN thieves[v] ELSE thieves[v] \cup {c}
  BY <1>1 DEF TypeOK
<1>3. /\ pc'[c] = "move"
      /\ \A d \in Checker : d # c => pc'[d] = pc[d]
  BY DEF TypeOK
<1>4. \A q \in Checker : thieves[q] \subseteq thieves'[q]
  BY <1>2
<1>5. \A q \in Checker : \A d \in thieves'[q] : d \in thieves[q] \/ (d = c /\ q = v /\ c <= Counted)
  BY <1>2, BoundAssumption DEF Unlimited, Checker
<1>6. mode.max > 0 /\ c <= Counted => c \in thieves'[v]
  BY <1>2, BoundAssumption DEF Unlimited, TypeOK, Checker
<1>7. SlotInv'
  BY <1>3 DEF PlaceInv, SlotInv
<1>8. UseInv'
  BY <1>3, <1>5 DEF PlaceInv, UseInv
<1>9. HeldInv'
  <2> SUFFICES ASSUME mode.max > 0, NEW d \in Checker, d <= Counted
               PROVE  /\ pc'[d] # "stopped" /\ slot[d] # None => d \in thieves'[slot[d]]
                      /\ pc'[d] = "move" => d \in thieves'[best[d].victim]
    BY DEF HeldInv
  <2>1. pc'[d] # "stopped" /\ slot[d] # None => d \in thieves'[slot[d]]
    <3>1. slot[d] # None => slot[d] \in Checker
      BY DEF TypeOK
    <3> QED
      BY <1>3, <1>4, <3>1 DEF PlaceInv, HeldInv
  <2>2. pc'[d] = "move" => d \in thieves'[best[d].victim]
    <3>1. CASE d = c
      BY <1>6, <3>1
    <3>2. CASE d # c
      <4>1. pc[d] = "move" => best[d].victim \in Checker
        BY DEF PassInv, VictimInv
      <4> QED
        BY <1>3, <1>4, <3>2, <4>1 DEF PlaceInv, HeldInv
    <3> QED
      BY <3>1, <3>2
  <2> QED
    BY <2>1, <2>2
<1>10. LimitInv'
  <2> SUFFICES ASSUME mode.max > 0, NEW q \in Checker
               PROVE  Cardinality(thieves'[q]) <= mode.max
    BY DEF LimitInv
  <2>1. CASE q # v \/ Unlimited(c) \/ c \in thieves[v]
    <3>1. thieves'[q] = thieves[q]
      BY <1>2, <2>1
    <3> QED
      BY <3>1 DEF PlaceInv, LimitInv
  <2>2. CASE q = v /\ ~Unlimited(c) /\ c \notin thieves[v]
    <3>1. Cardinality(thieves[v]) < mode.max
      BY <2>2 DEF Admits
    <3>2. Cardinality(thieves[v] \cup {c}) = Cardinality(thieves[v]) + 1
      BY <1>1, <2>2, FiniteThieves, FS_AddElement
    <3>3. mode.max \in Nat /\ Cardinality(thieves[v]) \in Nat
      BY <1>1, FiniteThieves, BoundAssumption DEF TypeOK
    <3> QED
      BY <1>2, <2>2, <3>1, <3>2, <3>3
  <2> QED
    BY <2>1, <2>2
<1> QED
  BY <1>7, <1>8, <1>9, <1>10 DEF PlaceInv

\* What `release` leaves: everybody else's bits, and all other bits of c.
LEMMA ReleasePlaces ==
    ASSUME TypeOK, LimitInv, NEW c \in Checker, UNCHANGED mode,
           thieves' = Release(slot[c], c)
    PROVE  /\ \A q \in Checker : thieves'[q] \subseteq thieves[q]
           /\ \A q, d \in Checker : d # c /\ d \in thieves[q] => d \in thieves'[q]
           /\ \A q \in Checker : q # slot[c] => thieves'[q] = thieves[q]
           /\ slot[c] # None /\ c <= Counted => c \notin thieves'[slot[c]]
           /\ LimitInv'
<1>1. slot[c] = None \/ slot[c] \in Checker
  BY DEF TypeOK
<1>2. /\ \A q \in Checker : thieves'[q] \subseteq thieves[q]
      /\ \A q, d \in Checker : d # c /\ d \in thieves[q] => d \in thieves'[q]
      /\ \A q \in Checker : q # slot[c] => thieves'[q] = thieves[q]
      /\ slot[c] # None /\ c <= Counted => c \notin thieves'[slot[c]]
  BY <1>1 DEF Release, TypeOK
<1>3. LimitInv'
  <2> SUFFICES ASSUME mode.max > 0, NEW q \in Checker
               PROVE  Cardinality(thieves'[q]) <= mode.max
    BY DEF LimitInv
  <2>1. Cardinality(thieves'[q]) <= Cardinality(thieves[q]) /\ Cardinality(thieves'[q]) \in Nat
    BY <1>2, FiniteThieves, FS_Subset, FS_CardinalityType
  <2>2. Cardinality(thieves[q]) <= mode.max
    BY DEF LimitInv
  <2> QED
    BY <2>1, <2>2, FiniteThieves, BoundAssumption DEF TypeOK
<1> QED
  BY <1>2, <1>3

LEMMA PlaceStep == TypeOK /\ PassInv /\ PlaceInv /\ [Next]_vars => PlaceInv'
<1> SUFFICES ASSUME TypeOK, PassInv, PlaceInv, [Next]_vars PROVE PlaceInv'
  OBVIOUS
<1>0. ASSUME NEW c \in Checker, NEW q, NEW front, Take(c, q, front),
             pc[c] # "move", pc[c] # "stopped"
      PROVE  PlaceInv'
  BY <1>0, QuietPlaces DEF Take, Go, TypeOK
<1>1. ASSUME NEW c \in Checker, TakeOwn(c) \/ Drain(c) \/ Steal(c) PROVE PlaceInv'
  BY <1>0, <1>1 DEF TakeOwn, Drain, Steal
<1>2. ASSUME NEW c \in Checker, OwnIsEmpty(c) \/ TooLate(c) PROVE PlaceInv'
  BY <1>2, QuietPlaces DEF TypeOK, OwnIsEmpty, TooLate, Rescan, Go
<1>3. ASSUME NEW c \in Checker, Scan(c) \/ DrainNext(c) PROVE PlaceInv'
  BY <1>3, QuietPlaces DEF TypeOK, Scan, DrainNext, Go
<1>4. ASSUME NEW c \in Checker, Pick(c) PROVE PlaceInv'
  <2>1. /\ pc'[c] \in {"pick", "stopped", "giveUp", "keep", "admit"}
        /\ pc[c] = "pick"
        /\ \A d \in Checker : d # c => pc'[d] = pc[d] /\ best'[d] = best[d]
    BY <1>4 DEF Pick, Go, TypeOK
  <2> QED
    BY <1>4, <2>1, QuietPlaces DEF Pick
<1>5. ASSUME NEW c \in Checker, GiveUp(c) PROVE PlaceInv'
  <2>1. /\ pc[c] = "giveUp" /\ pc'[c] = "stopped"
        /\ \A d \in Checker : d # c => pc'[d] = pc[d]
        /\ thieves' = Release(slot[c], c)
        /\ UNCHANGED <<mode, best, slot>>
    BY <1>5 DEF GiveUp, Go, TypeOK
  <2>2. /\ \A q \in Checker : thieves'[q] \subseteq thieves[q]
        /\ \A q, d \in Checker : d # c /\ d \in thieves[q] => d \in thieves'[q]
        /\ LimitInv'
    BY <2>1, ReleasePlaces DEF PlaceInv
  <2>3. SlotInv'
    BY <2>1 DEF PlaceInv, SlotInv
  <2>4. UseInv'
    BY <2>1, <2>2 DEF PlaceInv, UseInv
  <2>5. HeldInv'
    <3>1. \A d \in Checker : slot[d] # None => slot[d] \in Checker
      BY DEF TypeOK
    <3>2. \A d \in Checker : pc[d] = "move" => best[d].victim \in Checker
      BY DEF PassInv, VictimInv
    <3> QED
      BY <2>1, <2>2, <3>1, <3>2 DEF PlaceInv, HeldInv
  <2> QED
    BY <2>2, <2>3, <2>4, <2>5 DEF PlaceInv
<1>6. ASSUME NEW c \in Checker, Keep(c) PROVE PlaceInv'
  BY <1>6, QuietPlaces DEF TypeOK, Keep, Go
<1>7. ASSUME NEW c \in Checker, Admit(c) PROVE PlaceInv'
  <2>1. CASE best[c].victim = slot[c]
    BY <1>7, <2>1, QuietPlaces DEF TypeOK, Admit, Go
  <2>2. CASE best[c].victim # slot[c] /\ Admits(best[c].victim, c)
    BY <1>7, <2>2, AdmitPlaces DEF Admit, Go
  <2>3. CASE best[c].victim # slot[c] /\ ~Admits(best[c].victim, c)
    BY <1>7, <2>3, QuietPlaces DEF TypeOK, Admit, Rescan, Go
  <2> QED
    BY <2>1, <2>2, <2>3
<1>8. ASSUME NEW c \in Checker, Move(c) PROVE PlaceInv'
  <2>1. /\ pc[c] = "move" /\ pc'[c] = "steal"
        /\ \A d \in Checker : d # c => pc'[d] = pc[d] /\ slot'[d] = slot[d]
        /\ thieves' = Release(slot[c], c)
        /\ slot'[c] = best[c].victim
        /\ UNCHANGED <<mode, best>>
    BY <1>8 DEF Move, Go, TypeOK
  <2>2. /\ \A q \in Checker : thieves'[q] \subseteq thieves[q]
        /\ \A q, d \in Checker : d # c /\ d \in thieves[q] => d \in thieves'[q]
        /\ \A q \in Checker : q # slot[c] => thieves'[q] = thieves[q]
        /\ slot[c] # None /\ c <= Counted => c \notin thieves'[slot[c]]
        /\ LimitInv'
    BY <2>1, ReleasePlaces DEF PlaceInv
  <2>3. best[c].victim \in Checker /\ best[c].victim # slot[c] /\ None \notin Checker
    BY <2>1 DEF PassInv, VictimInv, PlaceInv, SlotInv, None, Checker
  <2>4. SlotInv'
    BY <2>1 DEF PlaceInv, SlotInv
  <2>5. UseInv'
    BY <2>1, <2>2, <2>3 DEF PlaceInv, UseInv
  <2>6. HeldInv'
    BY <2>1, <2>2, <2>3 DEF PlaceInv, HeldInv, PassInv, VictimInv, TypeOK
  <2> QED
    BY <2>2, <2>4, <2>5, <2>6 DEF PlaceInv
<1>9. ASSUME UNCHANGED vars PROVE PlaceInv'
  BY <1>9 DEF vars, locals, PlaceInv, SlotInv, UseInv, HeldInv, LimitInv
<1> QED
  BY <1>1, <1>2, <1>3, <1>4, <1>5, <1>6, <1>7, <1>8, <1>9 DEF Next, CheckerStep, Done

LEMMA PlacesStart == Init => PlaceInv
<1> SUFFICES ASSUME Init PROVE PlaceInv
  OBVIOUS
<1>1. \A q \in Checker : Cardinality(thieves[q]) = 0
  BY FS_EmptySet DEF Init
<1>2. mode.max \in Nat
  BY BoundAssumption DEF Init
<1>3. LimitInv
  BY <1>1, <1>2 DEF LimitInv
<1>4. SlotInv /\ UseInv /\ HeldInv
  BY DEF Init, SlotInv, UseInv, HeldInv
<1> QED
  BY <1>3, <1>4 DEF PlaceInv

\* Every bit of a queue stands for a checker that steals from it or is about
\* to, every such checker has its bit, and there are no more than the limit.
THEOREM PlacesAreRight == Spec => []PlaceInv
<1>1. Init => PlaceInv
  BY PlacesStart
<1>2. TypeOK /\ PassInv /\ PlaceInv /\ [Next]_vars => PlaceInv'
  BY PlaceStep
<1> QED
  BY <1>1, <1>2, TypeCorrect, PTL DEF Spec

-----------------------------------------------------------------------------
(* The weights of a queue.                                                 *)

\* Induction up to a number, over a set.
LEMMA UpTo ==
    ASSUME NEW n \in Nat, NEW S, 0 \in S, \A i \in 0 .. n : i < n /\ i \in S => i + 1 \in S
    PROVE  0 .. n \subseteq S
<1> DEFINE T == (0 .. n) \ S
<1> SUFFICES ASSUME T # {} PROVE FALSE
  OBVIOUS
<1>0. T \in SUBSET Nat
  OBVIOUS
<1> HIDE DEF T
<1>1. PICK m \in T : \A i \in Nat : <<i, m>> \in OpToRel(<, Nat) => i \notin T
  BY <1>0, NatLessThanWellFounded, WFMin
<1>2. m \in 0 .. n /\ m # 0 /\ m \notin S
  BY <1>1 DEF T
<1>3. m - 1 \in 0 .. n /\ m - 1 < n /\ (m - 1) + 1 = m /\ m - 1 \in Nat /\ m - 1 < m
  BY <1>2
<1>4. m - 1 \notin T
  <2>1. \A i \in Nat : i < m => i \notin T
    BY <1>0, <1>1 DEF OpToRel
  <2> QED
    BY <1>3, <2>1
<1>5. m - 1 \in S
  BY <1>3, <1>4 DEF T
<1> QED
  BY <1>2, <1>3, <1>5

\* The sums that `FileQueue::new` computes exist.
Sums(w, n) == {g \in [0 .. n -> Nat] : g[0] = 0 /\ \A i \in 1 .. n : g[i] = g[i - 1] + w[i]}

LEMMA SumsExist ==
    ASSUME NEW n \in Nat, NEW w \in [1 .. n -> Nat]
    PROVE  Sums(w, n) # {}
<1> DEFINE Good == {m \in 0 .. n : Sums(w, m) # {}}
<1>1. 0 \in Good
  <2>1. [i \in 0 .. 0 |-> 0] \in Sums(w, 0)
    BY DEF Sums
  <2> QED
    BY <2>1
<1>2. ASSUME NEW m \in 0 .. n, m < n, m \in Good PROVE m + 1 \in Good
  <2>1. PICK g \in [0 .. m -> Nat] : g[0] = 0 /\ \A i \in 1 .. m : g[i] = g[i - 1] + w[i]
    BY <1>2 DEF Sums
  <2> DEFINE h == [i \in 0 .. m + 1 |-> IF i = m + 1 THEN g[m] + w[m + 1] ELSE g[i]]
  <2>2. m \in Nat /\ m + 1 \in 1 .. n /\ g[m] \in Nat /\ w[m + 1] \in Nat
    BY <1>2, <2>1
  <2>3. h \in [0 .. m + 1 -> Nat] /\ h[0] = 0
    BY <2>1, <2>2
  <2>4. ASSUME NEW i \in 1 .. m + 1 PROVE h[i] = h[i - 1] + w[i]
    <3>1. i - 1 \in 0 .. m /\ h[i - 1] = g[i - 1]
      BY <2>2, <2>4
    <3>2. CASE i = m + 1
      BY <2>2, <3>1, <3>2
    <3>3. CASE i # m + 1
      <4>1. i \in 1 .. m
        BY <2>2, <2>4, <3>3
      <4> QED
        BY <2>1, <2>2, <3>1, <3>3, <4>1
    <3> QED
      BY <3>2, <3>3
  <2> HIDE DEF h
  <2>5. h \in Sums(w, m + 1)
    BY <2>3, <2>4 DEF Sums
  <2> QED
    BY <2>2, <2>5
<1> HIDE DEF Good
<1>3. 0 .. n \subseteq Good
  BY <1>1, <1>2, UpTo
<1> QED
  BY <1>3 DEF Good

LEMMA PrefixIsSums ==
    ASSUME NEW q \in Checker
    PROVE  prefix[q] \in Sums(Weights[q], Len(Weights[q]))
<1> DEFINE n == Len(Weights[q])
           w == Weights[q]
           sum == prefix[q]
<1>1. n \in Nat /\ w \in [1 .. n -> Nat]
  BY WeightsAssumption DEF Checker
<1>2. sum = CHOOSE f : f = [i \in 0 .. n |-> IF i = 0 THEN 0 ELSE f[i - 1] + w[i]]
  BY DEF prefix
<1> HIDE DEF n, w, sum
<1>3. PICK g \in [0 .. n -> Nat] : g[0] = 0 /\ \A i \in 1 .. n : g[i] = g[i - 1] + w[i]
  BY <1>1, SumsExist DEF Sums
<1>4. ASSUME NEW i \in 0 .. n PROVE g[i] = IF i = 0 THEN 0 ELSE g[i - 1] + w[i]
  <2>1. i # 0 => i \in 1 .. n
    BY <1>1
  <2> QED
    BY <1>3, <2>1
<1>5. g = [i \in 0 .. n |-> IF i = 0 THEN 0 ELSE g[i - 1] + w[i]]
  BY <1>3, <1>4
<1>6. sum = [i \in 0 .. n |-> IF i = 0 THEN 0 ELSE sum[i - 1] + w[i]]
  BY <1>2, <1>5
<1>7. sum[0] = 0 /\ \A i \in 1 .. n : i - 1 \in 0 .. n /\ sum[i] = sum[i - 1] + w[i]
  BY <1>1, <1>6
<1> DEFINE Good == {i \in 0 .. n : sum[i] \in Nat}
<1>8. 0 \in Good
  BY <1>1, <1>7
<1>9. ASSUME NEW i \in 0 .. n, i < n, i \in Good PROVE i + 1 \in Good
  <2>1. i + 1 \in 1 .. n /\ (i + 1) - 1 = i
    BY <1>1, <1>9
  <2>2. sum[i + 1] = sum[i] + w[i + 1] /\ w[i + 1] \in Nat
    BY <1>1, <1>7, <2>1
  <2> QED
    BY <1>9, <2>1, <2>2
<1>10. 0 .. n \subseteq Good
  <2> HIDE DEF Good
  <2> QED
    BY <1>1, <1>8, <1>9, UpTo
<1>11. sum \in [0 .. n -> Nat]
  BY <1>6, <1>10
<1> QED
  BY <1>7, <1>11 DEF Sums, sum, n, w

\* A queue weighs no more than a longer one.
LEMMA PrefixGrows ==
    ASSUME NEW q \in Checker, NEW i \in 0 .. Len(Weights[q]), NEW j \in 0 .. Len(Weights[q]), i <= j
    PROVE  prefix[q][i] \in Nat /\ prefix[q][j] \in Nat /\ prefix[q][i] <= prefix[q][j]
<1> DEFINE n == Len(Weights[q])
           w == Weights[q]
           sum == prefix[q]
           Good == {k \in 0 .. n : i <= k => sum[i] <= sum[k]}
<1>1. n \in Nat /\ w \in [1 .. n -> Nat] /\ i \in 0 .. n /\ j \in 0 .. n
  BY WeightsAssumption DEF Checker
<1>2. sum \in [0 .. n -> Nat] /\ \A k \in 1 .. n : sum[k] = sum[k - 1] + w[k]
  BY PrefixIsSums DEF Sums
<1> HIDE DEF n, w, sum
<1>3. 0 \in Good
  BY <1>1, <1>2
<1>4. ASSUME NEW k \in 0 .. n, k < n, k \in Good PROVE k + 1 \in Good
  <2>1. k + 1 \in 1 .. n /\ (k + 1) - 1 = k
    BY <1>1, <1>4
  <2>2. /\ sum[k + 1] = sum[k] + w[k + 1] /\ w[k + 1] \in Nat
        /\ sum[k] \in Nat /\ sum[i] \in Nat
    BY <1>1, <1>2, <2>1
  <2>3. CASE i <= k
    BY <1>1, <1>4, <2>1, <2>2, <2>3
  <2>4. CASE i = k + 1
    BY <1>2, <2>1, <2>2, <2>4
  <2> QED
    BY <1>1, <1>4, <2>1, <2>3, <2>4
<1>5. 0 .. n \subseteq Good
  <2> HIDE DEF Good
  <2> QED
    BY <1>1, <1>3, <1>4, UpTo
<1>6. sum[i] <= sum[j]
  BY <1>1, <1>5
<1> QED
  BY <1>1, <1>2, <1>6 DEF n, sum

-----------------------------------------------------------------------------
(* Places that nobody needs.                                               *)

\* A queue that has no work left never has any again: its owner and its
\* thieves only take from it.
LEMMA RangeShrinks ==
    ASSUME TypeOK, PassInv, [Next]_vars, NEW q \in Checker
    PROVE  range[q].front <= range'[q].front /\ range'[q].back <= range[q].back
<1>0. range[q].front \in Nat /\ range[q].back \in Nat
  BY DEF TypeOK
<1>1. CASE range' = range
  BY <1>0, <1>1
<1>2. ASSUME NEW c, NEW r \in Checker, NEW front, Take(c, r, front)
      PROVE  range[q].front <= range'[q].front /\ range'[q].back <= range[q].back
  <2>1. range' = RangeAfter(r, front)
    BY <1>2 DEF Take
  <2> QED
    BY <1>0, <2>1 DEF RangeAfter, TypeOK
<1>3. ASSUME NEW c \in Checker, TakeOwn(c) \/ Drain(c) \/ Steal(c)
      PROVE  \E r \in Checker : \E front : Take(c, r, front)
  BY <1>3 DEF TakeOwn, Drain, Steal, TypeOK, PassInv, VictimInv
<1>4. ASSUME NEW c \in Checker, CheckerStep(c), ~(TakeOwn(c) \/ Drain(c) \/ Steal(c))
      PROVE  range' = range
  BY <1>4 DEF CheckerStep, OwnIsEmpty, Scan, DrainNext, Pick, GiveUp, Keep, Admit, Move, TooLate
<1>5. UNCHANGED vars => range' = range
  BY DEF vars
<1> QED
  BY <1>1, <1>2, <1>3, <1>4, <1>5 DEF Next, Done

LEMMA RemainingIsNatural == ASSUME TypeOK, NEW q \in Checker PROVE Remaining(q) \in Nat
<1>1. range[q].front \in Nat /\ range[q].back \in Nat /\ range[q].back <= Len(Weights[q])
  BY DEF TypeOK
<1>2. CASE HasFiles(q)
  <2>1. /\ range[q].front \in 0 .. Len(Weights[q]) /\ range[q].back \in 0 .. Len(Weights[q])
        /\ range[q].front <= range[q].back
    BY <1>1, <1>2, LengthType DEF HasFiles
  <2>2. PICK a \in Nat, b \in Nat : /\ a = prefix[q][range[q].front]
                                    /\ b = prefix[q][range[q].back] /\ a <= b
    BY <2>1, PrefixGrows
  <2>3. Remaining(q) = b - a
    BY <1>2, <2>2 DEF Remaining
  <2> QED
    BY <2>2, <2>3
<1>3. CASE ~HasFiles(q)
  BY <1>3 DEF Remaining
<1> QED
  BY <1>2, <1>3

LEMMA StaysEmpty ==
    ASSUME TypeOK, PassInv, [Next]_vars, NEW q \in Checker, Remaining(q) = 0
    PROVE  Remaining(q)' = 0
<1>1. PICK f \in Nat, b \in Nat, f2 \in Nat, b2 \in Nat, n \in Nat :
          /\ f = range[q].front /\ b = range[q].back /\ f2 = range'[q].front /\ b2 = range'[q].back
          /\ n = Len(Weights[q]) /\ b <= n /\ f <= f2 /\ b2 <= b
  <2>1. TypeOK'
    BY StepInv
  <2>2. range'[q].front \in Nat /\ range'[q].back \in Nat
    BY <2>1 DEF TypeOK
  <2>3. range[q].front \in Nat /\ range[q].back \in Nat /\ range[q].back <= Len(Weights[q])
    BY DEF TypeOK
  <2> QED
    BY <2>2, <2>3, RangeShrinks, LengthType
<1>2. CASE ~(f2 < b2)
  BY <1>1, <1>2 DEF Remaining, HasFiles
<1>3. CASE f2 < b2
  <2>1. f < b /\ f \in 0 .. n /\ b \in 0 .. n /\ f2 \in 0 .. n /\ b2 \in 0 .. n /\ f2 <= b2
    BY <1>1, <1>3
  <2>2. PICK pf \in Nat, pb \in Nat, pf2 \in Nat, pb2 \in Nat :
          /\ pf = prefix[q][f] /\ pb = prefix[q][b] /\ pf2 = prefix[q][f2] /\ pb2 = prefix[q][b2]
          /\ pf <= pf2 /\ pf2 <= pb2 /\ pb2 <= pb
    <3>1. prefix[q][f] \in Nat /\ prefix[q][f2] \in Nat /\ prefix[q][f] <= prefix[q][f2]
      BY <1>1, <2>1, PrefixGrows
    <3>2. prefix[q][b2] \in Nat /\ prefix[q][f2] <= prefix[q][b2]
      BY <1>1, <2>1, PrefixGrows
    <3>3. prefix[q][b] \in Nat /\ prefix[q][b2] <= prefix[q][b]
      BY <1>1, <2>1, PrefixGrows
    <3> QED
      BY <3>1, <3>2, <3>3
  <2>3. pb - pf = 0
    BY <1>1, <2>1, <2>2 DEF Remaining, HasFiles
  <2>4. pb2 - pf2 = 0
    BY <2>2, <2>3
  <2>5. Remaining(q)' = pb2 - pf2
    BY <1>1, <1>3, <2>2 DEF Remaining, HasFiles, prefix
  <2> QED
    BY <2>4, <2>5
<1> QED
  BY <1>2, <1>3

\* What a checker knows when it gives up.  One that drains has seen no work in
\* any queue, and one that picks a victim finds at least the queue that it has
\* a place in, which is never its own.
WorkOk(c) ==
    /\ best[c].victim # c /\ last[c] # c /\ slot[c] # c
    /\ mode.steal \/ (pc[c] \in {"own", "stopped"} /\ \A q \in Checker : c \notin thieves[q])
    /\ \A q \in Checker : (pc[c] = "scan" /\ q < at[c]) \/ pc[c] = "drain" => Remaining(q) = 0
    /\ \A q \in Checker : pc[c] = "pick" /\ q < at[c] /\ c \in thieves[q] => best[c].victim # None
    /\ \A q \in Checker : pc[c] = "stopped" /\ c \in thieves[q] => Remaining(q) = 0
WorkInv == \A c \in Checker : WorkOk(c)

\* A step of c leaves what concerns another checker as it is.
OnlyMoves(c) ==
    /\ mode' = mode
    /\ \A d \in Checker : d # c =>
         /\ pc'[d] = pc[d] /\ at'[d] = at[d] /\ best'[d] = best[d]
         /\ slot'[d] = slot[d] /\ last'[d] = last[d]
         /\ \A q \in Checker : d \in thieves'[q] => d \in thieves[q]

LEMMA OthersKept ==
    ASSUME TypeOK, PassInv, WorkInv, [Next]_vars, NEW c \in Checker, OnlyMoves(c), WorkOk(c)'
    PROVE  WorkInv'
<1> SUFFICES ASSUME NEW d \in Checker, d # c PROVE WorkOk(d)'
  BY DEF WorkInv
<1>1. WorkOk(d) /\ mode' = mode
  BY DEF WorkInv, OnlyMoves
<1>2. /\ pc'[d] = pc[d] /\ at'[d] = at[d] /\ best'[d] = best[d]
      /\ slot'[d] = slot[d] /\ last'[d] = last[d]
      /\ \A q \in Checker : d \in thieves'[q] => d \in thieves[q]
  BY DEF OnlyMoves
<1>3. \A q \in Checker : Remaining(q) = 0 => Remaining(q)' = 0
  BY StaysEmpty
<1> QED
  BY <1>1, <1>2, <1>3 DEF WorkOk

LEMMA StepMovesOne ==
    ASSUME TypeOK, PassInv, NEW c \in Checker, CheckerStep(c)
    PROVE  OnlyMoves(c)
<1>1. mode' = mode /\ \A d \in Checker : d # c =>
         /\ pc'[d] = pc[d] /\ at'[d] = at[d] /\ best'[d] = best[d]
         /\ slot'[d] = slot[d] /\ last'[d] = last[d]
  <2>1. CASE TakeOwn(c) \/ Drain(c) \/ Steal(c)
    BY <2>1 DEF TakeOwn, Drain, Steal, Take, Go, From, TypeOK
  <2>2. CASE OwnIsEmpty(c) \/ TooLate(c)
    BY <2>2 DEF OwnIsEmpty, TooLate, Rescan, Go, From, TypeOK
  <2>3. CASE Scan(c) \/ DrainNext(c)
    BY <2>3 DEF Scan, DrainNext, Go, From, TypeOK
  <2>4. CASE Pick(c)
    BY <2>4 DEF Pick, Go, From, TypeOK
  <2>5. CASE GiveUp(c) \/ Move(c)
    BY <2>5 DEF GiveUp, Move, Go, TypeOK
  <2>6. CASE Keep(c)
    BY <2>6 DEF Keep, Go, TypeOK
  <2>7. CASE Admit(c)
    BY <2>7 DEF Admit, Rescan, Go, From, TypeOK
  <2> QED
    BY <2>1, <2>2, <2>3, <2>4, <2>5, <2>6, <2>7 DEF CheckerStep
<1>2. ASSUME NEW d \in Checker, d # c, NEW q \in Checker, d \in thieves'[q] PROVE d \in thieves[q]
  <2>1. CASE thieves' = thieves
    BY <1>2, <2>1
  <2>2. CASE thieves' = Release(slot[c], c)
    BY <1>2, <2>2 DEF Release, TypeOK
  <2>3. CASE Admit(c)
    <3>1. best[c].victim \in Checker
      BY <2>3 DEF Admit, PassInv, VictimInv
    <3>2. thieves' = thieves \/ thieves' = [thieves EXCEPT ![best[c].victim] = @ \cup {c}]
      BY <2>3 DEF Admit
    <3>3. thieves'[q] \subseteq thieves[q] \cup {c}
      BY <3>1, <3>2 DEF TypeOK
    <3> QED
      BY <1>2, <3>3
  <2>4. thieves' = thieves \/ thieves' = Release(slot[c], c) \/ Admit(c)
    BY DEF CheckerStep, TakeOwn, Drain, Steal, Take, OwnIsEmpty, TooLate, Scan, DrainNext, Pick,
           GiveUp, Move, Keep
  <2> QED
    BY <2>1, <2>2, <2>3, <2>4
<1> QED
  BY <1>1, <1>2 DEF OnlyMoves

LEMMA NobodyIsNone == \A c \in Checker : c # None /\ c \in Nat
BY DEF Checker, None

LEMMA WorkStep ==
    ASSUME TypeOK, PassInv, PlaceInv, WorkInv, NEW c \in Checker, CheckerStep(c)
    PROVE  WorkOk(c)'
<1>0. WorkOk(c) /\ mode' = mode /\ [Next]_vars
  BY StepMovesOne DEF WorkInv, OnlyMoves, Next
<1>1. \A q \in Checker : Remaining(q) = 0 => Remaining(q)' = 0
  BY <1>0, StaysEmpty
<1>2. CASE TakeOwn(c) \/ Drain(c) \/ Steal(c)
  <2>1. PICK q, front : Take(c, q, front)
    BY <1>2 DEF TakeOwn, Drain, Steal
  <2>2. /\ pc'[c] = "own" /\ best'[c].victim = None /\ last' = last /\ slot' = slot
        /\ thieves' = thieves
    BY <2>1 DEF Take, Go, TypeOK
  <2>3. mode.steal \/ \A r \in Checker : c \notin thieves[r]
    BY <1>0 DEF WorkOk
  <2> QED
    BY <1>0, <2>2, <2>3, NobodyIsNone DEF WorkOk
<1>3. ASSUME Rescan(c), UNCHANGED <<thieves, slot, last>>, mode.steal PROVE WorkOk(c)'
  <2>1. pc'[c] = "scan" /\ at'[c] = 1 /\ best'[c].victim = None
    BY <1>3 DEF Rescan, Go, From, TypeOK
  <2>2. \A q \in Checker : ~(q < 1)
    BY DEF Checker
  <2> QED
    BY <1>0, <1>3, <2>1, <2>2, NobodyIsNone DEF WorkOk
<1>4. CASE OwnIsEmpty(c)
  <2>1. CASE mode.steal
    BY <1>3, <1>4, <2>1 DEF OwnIsEmpty
  <2>2. CASE ~mode.steal
    <3>1. pc'[c] = "stopped" /\ UNCHANGED <<at, best, thieves, slot, last>>
      BY <1>4, <2>2 DEF OwnIsEmpty, Go, TypeOK
    <3> QED
      BY <1>0, <2>2, <3>1 DEF WorkOk
  <2> QED
    BY <2>1, <2>2
<1>5. CASE TooLate(c)
  <2>1. mode.steal
    BY <1>0, <1>5 DEF TooLate, WorkOk
  <2> QED
    BY <1>3, <1>5, <2>1 DEF TooLate
<1>6. CASE Scan(c)
  <2>1. mode.steal /\ pc[c] = "scan" /\ UNCHANGED <<thieves, best, slot, last>>
    BY <1>0, <1>6 DEF Scan, WorkOk
  <2>2. \A q \in Checker : q < at[c] => Remaining(q) = 0
    BY <1>0, <2>1 DEF WorkOk
  <2>3. at[c] \in Checker /\ Remaining(at[c]) \in Nat
    BY RemainingIsNatural DEF TypeOK
  <2>4. CASE Remaining(at[c]) > 0
    <3>1. pc'[c] = "pick" /\ at'[c] = 1
      BY <1>6, <2>4 DEF Scan, Go, From, TypeOK
    <3>2. \A q \in Checker : ~(q < 1)
      BY DEF Checker
    <3> QED
      BY <1>0, <2>1, <3>1, <3>2 DEF WorkOk
  <2>5. CASE ~(Remaining(at[c]) > 0)
    <3>1. \A q \in Checker : q <= at[c] => Remaining(q) = 0
      <4>1. Remaining(at[c]) = 0
        BY <2>3, <2>5
      <4>2. \A q \in Checker : q <= at[c] => q < at[c] \/ q = at[c]
        BY <2>3, NobodyIsNone
      <4> QED
        BY <2>2, <4>1, <4>2
    <3>2. CASE at[c] = LastQueue
      <4>1. pc'[c] = "drain"
        BY <1>6, <2>5, <3>2 DEF Scan, Go, From, TypeOK
      <4>2. \A q \in Checker : q <= at[c]
        BY <3>2 DEF LastQueue, Checker
      <4> QED
        BY <1>0, <1>1, <2>1, <3>1, <4>1, <4>2 DEF WorkOk
    <3>3. CASE at[c] # LastQueue
      <4>1. pc'[c] = "scan" /\ at'[c] = at[c] + 1
        BY <1>6, <2>1, <2>5, <3>3 DEF Scan, Go, From, TypeOK
      <4>2. \A q \in Checker : q < at[c] + 1 => q <= at[c]
        BY <2>3, NobodyIsNone
      <4> QED
        BY <1>0, <1>1, <2>1, <3>1, <4>1, <4>2 DEF WorkOk
    <3> QED
      BY <3>2, <3>3
  <2> QED
    BY <2>4, <2>5
<1>7. CASE DrainNext(c)
  <2>1. /\ mode.steal /\ pc[c] = "drain" /\ UNCHANGED <<thieves, best, slot, last>>
        /\ pc'[c] \in {"drain", "stopped"}
    BY <1>0, <1>7 DEF DrainNext, WorkOk, Go, TypeOK
  <2>2. \A q \in Checker : Remaining(q)' = 0
    BY <1>0, <1>1, <2>1 DEF WorkOk
  <2> QED
    BY <1>0, <2>1, <2>2 DEF WorkOk
<1>8. CASE Pick(c)
  <2>1. /\ mode.steal /\ pc[c] = "pick" /\ UNCHANGED <<thieves, slot, last>>
        /\ best'[c] = Better(c) /\ at[c] \in Checker
    BY <1>0, <1>8 DEF Pick, WorkOk, TypeOK
  <2>2. Better(c).victim # c
    BY <1>0 DEF Better, WorkOk
  <2>3. ASSUME NEW q \in Checker, q <= at[c], c \in thieves[q] PROVE Better(c).victim # None
    <3>1. CASE q < at[c]
      <4>1. best[c].victim # None
        BY <1>0, <2>1, <2>3, <3>1 DEF WorkOk
      <4> QED
        BY <2>1, <4>1, NobodyIsNone DEF Better
    <3>2. CASE q = at[c]
      <4>1. q # c
        BY <1>0, <2>1, <2>3 DEF PlaceInv, UseInv, WorkOk
      <4>2. Admits(q, c)
        BY <2>3 DEF Admits
      <4> QED
        BY <3>2, <4>1, <4>2, NobodyIsNone DEF Better
    <3> QED
      BY <2>1, <2>3, <3>1, <3>2, NobodyIsNone
  <2>4. CASE at[c] # LastQueue
    <3>1. pc'[c] = "pick" /\ at'[c] = at[c] + 1
      BY <1>8, <2>1, <2>4 DEF Pick, From, TypeOK
    <3>2. \A q \in Checker : q < at[c] + 1 => q <= at[c]
      BY <2>1, NobodyIsNone
    <3> QED
      BY <1>0, <2>1, <2>2, <2>3, <3>1, <3>2 DEF WorkOk
  <2>5. CASE at[c] = LastQueue
    <3>1. /\ pc'[c] \in {"stopped", "giveUp", "keep", "admit"}
          /\ pc'[c] = "stopped" => Better(c).victim = None
      BY <1>8, <2>5 DEF Pick, Go, TypeOK
    <3>2. \A q \in Checker : q <= at[c]
      BY <2>5 DEF LastQueue, Checker
    <3> QED
      BY <1>0, <2>1, <2>2, <2>3, <3>1, <3>2 DEF WorkOk
  <2> QED
    BY <2>4, <2>5
<1>9. CASE GiveUp(c)
  <2>1. /\ mode.steal /\ pc[c] = "giveUp" /\ pc'[c] = "stopped" /\ UNCHANGED <<best, slot, last>>
        /\ thieves' = Release(slot[c], c)
    BY <1>0, <1>9 DEF GiveUp, Go, WorkOk, TypeOK
  <2>2. ASSUME NEW q \in Checker, c \in thieves'[q] PROVE FALSE
    <3>1. /\ thieves'[q] \subseteq thieves[q] /\ (q # slot[c] => thieves'[q] = thieves[q])
          /\ slot[c] # None /\ c <= Counted => c \notin thieves'[slot[c]]
      BY <1>0, <2>1, ReleasePlaces DEF PlaceInv
    <3>2. c <= Counted /\ slot[c] = q
      BY <2>1, <2>2, <3>1 DEF PlaceInv, UseInv
    <3> QED
      BY <2>2, <3>1, <3>2, NobodyIsNone
  <2> QED
    BY <1>0, <2>1, <2>2 DEF WorkOk
<1>10. CASE Keep(c)
  <2>1. /\ mode.steal /\ pc'[c] = "admit" /\ UNCHANGED <<thieves, slot>>
    BY <1>0, <1>10 DEF Keep, Go, WorkOk, TypeOK
  <2>2. best[c].victim # c /\ last[c] # c
    BY <1>0 DEF WorkOk
  <2>3. best'[c].victim # c /\ last'[c] # c
    <3>1. PICK v : /\ v = last[c] \/ v = best[c].victim
                   /\ best' = [best EXCEPT ![c].victim = v] /\ last' = [last EXCEPT ![c] = v]
      BY <1>10 DEF Keep
    <3>2. best'[c].victim = v /\ last'[c] = v
      BY <3>1 DEF TypeOK
    <3> QED
      BY <2>2, <3>1, <3>2
  <2> QED
    BY <1>0, <2>1, <2>3 DEF WorkOk
<1>11. CASE Admit(c)
  <2>1. mode.steal /\ UNCHANGED <<slot, last>>
    BY <1>0, <1>11 DEF Admit, WorkOk
  <2>2. CASE Rescan(c) /\ UNCHANGED thieves
    BY <1>3, <2>1, <2>2
  <2>3. CASE pc' = [pc EXCEPT ![c] = "steal"] \/ pc' = [pc EXCEPT ![c] = "move"]
    <3>1. pc'[c] \in {"steal", "move"}
      BY <2>3 DEF TypeOK
    <3>2. best' = best
      BY <1>11, <3>1 DEF Admit, Rescan, Go, TypeOK
    <3> QED
      BY <1>0, <2>1, <3>1, <3>2 DEF WorkOk
  <2> QED
    BY <1>11, <2>2, <2>3 DEF Admit, Go
<1>12. CASE Move(c)
  <2>1. /\ mode.steal /\ pc'[c] = "steal" /\ UNCHANGED <<best, last>> /\ slot'[c] = best[c].victim
    BY <1>0, <1>12 DEF Move, Go, WorkOk, TypeOK
  <2> QED
    BY <1>0, <2>1 DEF WorkOk
<1> QED
  BY <1>2, <1>4, <1>5, <1>6, <1>7, <1>8, <1>9, <1>10, <1>11, <1>12 DEF CheckerStep

LEMMA WorkStart == Init => WorkInv
<1> SUFFICES ASSUME Init, NEW c \in Checker PROVE WorkOk(c)
  BY DEF WorkInv
<1>1. /\ pc[c] \in {"own", "stopped"} /\ best[c].victim = None /\ last[c] = None /\ slot[c] = None
      /\ \A q \in Checker : c \notin thieves[q]
  BY DEF Init
<1> QED
  BY <1>1, NobodyIsNone DEF WorkOk

LEMMA WorkIsKnown == Spec => []WorkInv
<1>1. TypeOK /\ PassInv /\ PlaceInv /\ WorkInv /\ [Next]_vars => WorkInv'
  <2> SUFFICES ASSUME TypeOK, PassInv, PlaceInv, WorkInv, [Next]_vars PROVE WorkInv'
    OBVIOUS
  <2>1. ASSUME NEW c \in Checker, CheckerStep(c) PROVE WorkInv'
    BY <2>1, StepMovesOne, WorkStep, OthersKept
  <2>2. CASE UNCHANGED vars
    BY <2>2 DEF vars, locals, WorkInv, WorkOk, Remaining, HasFiles
  <2> QED
    BY <2>1, <2>2 DEF Next, Done
<1> QED
  BY <1>1, WorkStart, TypeCorrect, PlacesAreRight, PTL DEF Spec

\* Whatever the number of checkers, their queues and the limit: a bit that is
\* set stands for a checker that steals from the queue or is about to, and a
\* checker that stops leaves no place behind in a queue that has work.
THEOREM PlacesStayInUse == Spec => []PlacesAreInUse
<1>1. PlaceInv /\ WorkInv => PlacesAreInUse
  BY DEF PlaceInv, UseInv, WorkInv, WorkOk, PlacesAreInUse
<1> QED
  BY <1>1, WorkIsKnown, PlacesAreRight, PTL

\* However old the count was that a thief read, a queue never has more thieves
\* at work than `max_thieves` allows, and when a checker takes unasked no queue
\* has work.
THEOREM LimitHolds == Spec => []ThievesWithinLimit
<1>1. TypeOK /\ PassInv /\ PlaceInv /\ WorkInv => ThievesWithinLimit
  <2> SUFFICES ASSUME TypeOK, PassInv, PlaceInv, WorkInv, mode.max > 0, NEW q \in Checker
               PROVE  Cardinality({c \in Checker : c <= Counted /\ pc[c] = "steal" /\ best[c].victim = q})
                        <= mode.max
    BY DEF ThievesWithinLimit, WorkInv, WorkOk
  <2> DEFINE S == {c \in Checker : c <= Counted /\ pc[c] = "steal" /\ best[c].victim = q}
  <2>1. None \notin Checker
    BY DEF None, Checker
  <2>2. S \subseteq thieves[q]
    BY <2>1 DEF PlaceInv, SlotInv, HeldInv
  <2> HIDE DEF S
  <2>3. Cardinality(S) <= Cardinality(thieves[q]) /\ Cardinality(S) \in Nat
    BY <2>2, FiniteThieves, FS_Subset, FS_CardinalityType
  <2>4. Cardinality(thieves[q]) <= mode.max
    BY DEF PlaceInv, LimitInv
  <2>5. Cardinality(S) <= mode.max
    BY <2>3, <2>4, FiniteThieves, BoundAssumption DEF TypeOK
  <2> QED
    BY <2>5 DEF S
<1> QED
  BY <1>1, TypeCorrect, PlacesAreRight, WorkIsKnown, PTL
=============================================================================
