-------------------------- MODULE SplitCheckProofs --------------------------
(***************************************************************************)
(* For any number of checkers, files, statements and diagnostics: the      *)
(* pieces of a file are a partition of it, each is checked once, and the   *)
(* file reports what a check of the whole of it reports.                   *)
(***************************************************************************)
EXTENDS SplitCheck, FiniteSetTheorems, SequenceTheorems, WellFoundedInduction, TLAPS

(* Induction, up to a number, as a fact about a set.                       *)
LEMMA Least ==
    ASSUME NEW S \in SUBSET Nat, S # {}
    PROVE  \E m \in S : \A i \in S : m <= i
<1>1. PICK m \in S : \A i \in Nat : <<i, m>> \in OpToRel(<, Nat) => i \notin S
  BY NatLessThanWellFounded, WFMin
<1>2. \A i \in S : ~(i < m)
  BY <1>1 DEF OpToRel
<1> QED
  BY <1>2

LEMMA UpTo ==
    ASSUME NEW n \in Nat, NEW S, 0 \in S, \A i \in 0 .. n : i < n /\ i \in S => i + 1 \in S
    PROVE  0 .. n \subseteq S
<1> DEFINE T == (0 .. n) \ S
<1> SUFFICES ASSUME T # {} PROVE FALSE
  OBVIOUS
<1>0. T \in SUBSET Nat
  OBVIOUS
<1> HIDE DEF T
<1>1. PICK m \in T : \A i \in T : m <= i
  BY <1>0, Least
<1>2. m - 1 \in 0 .. n /\ m - 1 < n /\ (m - 1) + 1 = m
  <2>1. m \in 0 .. n /\ m # 0
    BY <1>1 DEF T
  <2> QED
    BY <2>1
<1>3. m - 1 \in S
  <2>1. ~(m <= m - 1)
    BY <1>2
  <2> QED
    BY <1>1, <1>2, <2>1 DEF T
<1> QED
  BY <1>1, <1>2, <1>3 DEF T

LEMMA FunctionIsSeq ==
    ASSUME NEW n \in Nat, NEW S, NEW f \in [1 .. n -> S]
    PROVE  f \in Seq(S) /\ Len(f) = n
<1>1. f \in Seq(S)
  BY SeqDef
<1>2. Len(f) \in Nat /\ DOMAIN f = 1 .. Len(f)
  BY <1>1, LenProperties
<1>3. 1 .. Len(f) = 1 .. n
  BY <1>2
<1> DEFINE l == Len(f)
<1>4. l \in Nat /\ 1 .. l = 1 .. n
  BY <1>2, <1>3
<1> HIDE DEF l
<1>5. l <= n /\ n <= l
  <2>1. l # 0 => l \in 1 .. l
    BY <1>4
  <2>2. n # 0 => n \in 1 .. n
    OBVIOUS
  <2>3. l # 0 => l <= n
    BY <1>4, <2>1
  <2>4. n # 0 => n <= l
    BY <1>4, <2>2
  <2> QED
    BY <1>4, <2>3, <2>4
<1>6. l = n
  BY <1>4, <1>5
<1> QED
  BY <1>1, <1>6 DEF l

(* A function that is defined by recursion exists.                         *)
Recursive(n, S, base, step) ==
    {g \in [0 .. n -> S] : g[0] = base /\ \A i \in 1 .. n : g[i] = step[i][g[i - 1]]}

LEMMA Recursion ==
    ASSUME NEW n \in Nat, NEW S, NEW base \in S, NEW step \in [1 .. n -> [S -> S]]
    PROVE  Recursive(n, S, base, step) # {}
<1> DEFINE Part(m) == Recursive(m, S, base, step)
           Good == {m \in 0 .. n : Part(m) # {}}
<1> USE DEF Recursive
<1>1. 0 \in Good
  <2>1. [i \in 0 .. 0 |-> base] \in Part(0)
    OBVIOUS
  <2> QED
    BY <2>1
<1>2. ASSUME NEW m \in 0 .. n, m < n, m \in Good PROVE m + 1 \in Good
  <2>1. PICK g \in [0 .. m -> S] : g[0] = base /\ \A i \in 1 .. m : g[i] = step[i][g[i - 1]]
    BY <1>2
  <2> DEFINE h == [i \in 0 .. m + 1 |-> IF i = m + 1 THEN step[m + 1][g[m]] ELSE g[i]]
  <2>2. m \in Nat /\ m + 1 \in 1 .. n /\ g[m] \in S
    BY <1>2, <2>1
  <2>3. step[m + 1][g[m]] \in S
    BY <2>2
  <2>4. h \in [0 .. m + 1 -> S]
    BY <2>2, <2>3, <2>1
  <2>5. h[0] = base
    BY <2>1, <2>2
  <2>6. ASSUME NEW i \in 1 .. m + 1 PROVE h[i] = step[i][h[i - 1]]
    <3>1. i - 1 \in 0 .. m /\ h[i - 1] = g[i - 1]
      BY <2>2, <2>6
    <3>2. CASE i = m + 1
      BY <2>2, <3>1, <3>2
    <3>3. CASE i # m + 1
      <4>1. i \in 1 .. m
        BY <2>2, <2>6, <3>3
      <4> QED
        BY <2>1, <2>2, <3>1, <3>3, <4>1
    <3> QED
      BY <3>2, <3>3
  <2> HIDE DEF h
  <2>7. h \in Part(m + 1)
    BY <2>4, <2>5, <2>6
  <2> QED
    BY <2>2, <2>7
<1> HIDE DEF Good
<1>3. 0 .. n \subseteq Good
  BY <1>1, <1>2, UpTo
<1>4. n \in Good
  BY <1>3
<1> QED
  BY <1>4 DEF Good

-----------------------------------------------------------------------------
(* The pieces of a file *)

\* The pieces closed so far end at different statements, in order, and before
\* the last statement.
Closed(n, c) ==
    /\ c \in Seq(Nat)
    /\ \A j \in DOMAIN c : c[j] \in 1 .. n - 1
    /\ \A j, k \in DOMAIN c : j < k => c[j] < c[k]
Seen(n, i, c) == Closed(n, c) /\ \A j \in DOMAIN c : c[j] <= i

LEMMA ClosesOne ==
    ASSUME NEW n \in Nat, NEW i \in 1 .. n, NEW c, Seen(n, i - 1, c), i < n
    PROVE  Seen(n, i, Append(c, i))
<1>1. /\ c \in Seq(Nat) /\ Len(c) \in Nat /\ DOMAIN c = 1 .. Len(c)
      /\ \A j \in DOMAIN c : c[j] \in 1 .. n - 1 /\ c[j] <= i - 1
      /\ \A j, k \in DOMAIN c : j < k => c[j] < c[k]
  BY DEF Seen, Closed
<1> DEFINE d == Append(c, i)
<1>2. /\ d \in Seq(Nat) /\ DOMAIN d = 1 .. Len(c) + 1 /\ d[Len(c) + 1] = i
      /\ \A j \in DOMAIN c : d[j] = c[j]
  BY <1>1
<1> HIDE DEF d
<1>3. \A j \in DOMAIN d : j \in DOMAIN c \/ j = Len(c) + 1
  BY <1>1, <1>2
<1>4. ASSUME NEW j \in DOMAIN d PROVE d[j] \in 1 .. n - 1 /\ d[j] <= i
  <2>1. CASE j \in DOMAIN c
    <3>1. c[j] \in 1 .. n - 1 /\ c[j] <= i - 1 /\ d[j] = c[j]
      BY <1>1, <1>2, <2>1
    <3> QED
      BY <3>1
  <2>2. CASE j = Len(c) + 1
    <3>1. d[j] = i
      BY <1>2, <2>2
    <3> QED
      BY <3>1
  <2> QED
    BY <1>3, <2>1, <2>2
<1>5. ASSUME NEW j \in DOMAIN d, NEW k \in DOMAIN d, j < k PROVE d[j] < d[k]
  <2>1. j \in DOMAIN c
    BY <1>1, <1>2, <1>5
  <2>2. CASE k \in DOMAIN c
    BY <1>1, <1>2, <1>5, <2>1, <2>2
  <2>3. CASE k = Len(c) + 1
    BY <1>1, <1>2, <2>1, <2>3
  <2> QED
    BY <1>3, <2>2, <2>3
<1> QED
  BY <1>2, <1>4, <1>5 DEF Seen, Closed, d

LEMMA CutsInOrder ==
    ASSUME NEW length, Len(length) \in Nat, NEW most \in Nat
    PROVE  Closed(Len(length), Cut(length, most)[Len(length)])
<1> DEFINE n == Len(length)
           sum == CHOOSE f : f = [i \in 0 .. n |-> IF i = 0 THEN 0 ELSE f[i - 1] + length[i]]
           Closes(i, k) == sum[i] * most >= sum[n] * k /\ LeavesOneEach(n - i, most - k) /\ k < most
           Grow(i, c) == IF Closes(i, Len(c) + 1) THEN Append(c, i) ELSE c
           S == Seq(Nat)
           cut == Cut(length, most)
<1>0. n \in Nat
  OBVIOUS
<1>1. cut = CHOOSE g : g = [i \in 0 .. n |-> IF i = 0 THEN <<>> ELSE Grow(i, g[i - 1])]
  BY DEF Cut
<1> HIDE DEF n, sum, cut
<1>2. ASSUME NEW i \in 1 .. n, NEW c \in S, Closes(i, Len(c) + 1) PROVE i < n
  <2>1. Len(c) \in Nat /\ LeavesOneEach(n - i, most - (Len(c) + 1)) /\ Len(c) + 1 < most
    BY <1>2
  <2>2. n - i >= most - (Len(c) + 1)
    BY <2>1 DEF LeavesOneEach
  <2> DEFINE l == Len(c)
  <2>3. l \in Nat /\ n - i >= most - (l + 1) /\ l + 1 < most
    BY <2>1, <2>2
  <2> HIDE DEF l
  <2> QED
    BY <1>0, <2>3
<1> HIDE DEF Closes
<1>3. \A i \in 1 .. n, c \in S : Grow(i, c) \in S
  BY <1>0
<1> HIDE DEF Grow
<1> DEFINE step == [i \in 1 .. n |-> [c \in S |-> Grow(i, c)]]
<1>4. step \in [1 .. n -> [S -> S]]
  BY <1>3
<1>4a. <<>> \in S
  OBVIOUS
<1>5. Recursive(n, S, <<>>, step) # {}
  <2> HIDE DEF step, S
  <2> QED
    BY <1>0, <1>4, <1>4a, Recursion
<1>6. \E g : g = [i \in 0 .. n |-> IF i = 0 THEN <<>> ELSE Grow(i, g[i - 1])]
  <2>1. PICK g \in [0 .. n -> S] : g[0] = <<>> /\ \A i \in 1 .. n : g[i] = step[i][g[i - 1]]
    BY <1>5 DEF Recursive
  <2>2. ASSUME NEW i \in 0 .. n PROVE g[i] = IF i = 0 THEN <<>> ELSE Grow(i, g[i - 1])
    <3>1. CASE i = 0
      BY <2>1, <3>1
    <3>2. CASE i # 0
      <4>1. i \in 1 .. n /\ i - 1 \in 0 .. n
        BY <1>0, <3>2
      <4>2. g[i - 1] \in S
        BY <2>1, <4>1
      <4> QED
        BY <2>1, <3>2, <4>1, <4>2
    <3> QED
      BY <3>1, <3>2
  <2>3. g = [i \in 0 .. n |-> IF i = 0 THEN <<>> ELSE Grow(i, g[i - 1])]
    BY <2>1, <2>2
  <2> QED
    BY <2>3
<1>7. cut = [i \in 0 .. n |-> IF i = 0 THEN <<>> ELSE Grow(i, cut[i - 1])]
  BY <1>1, <1>6
<1> DEFINE Good == {i \in 0 .. n : Seen(n, i, cut[i])}
<1>8. 0 \in Good
  <2>1. cut[0] = <<>>
    BY <1>0, <1>7
  <2>2. Seen(n, 0, <<>>)
    BY DEF Seen, Closed
  <2> QED
    BY <1>0, <2>1, <2>2
<1>9. ASSUME NEW i \in 0 .. n, i < n, i \in Good PROVE i + 1 \in Good
  <2>1. i + 1 \in 1 .. n /\ (i + 1) - 1 = i
    BY <1>0, <1>9
  <2>2. cut[i + 1] = Grow(i + 1, cut[i])
    BY <1>0, <1>7, <2>1
  <2>3. Seen(n, i, cut[i]) /\ cut[i] \in S
    BY <1>9 DEF Seen, Closed
  <2>4. CASE Closes(i + 1, Len(cut[i]) + 1)
    <3>1. i + 1 < n
      BY <1>2, <2>1, <2>3, <2>4
    <3>2. PICK k \in 1 .. n : k = i + 1 /\ k < n
      BY <2>1, <3>1
    <3>3. Seen(n, k - 1, cut[i])
      <4>1. k - 1 = i
        BY <2>1, <3>2
      <4> QED
        BY <2>3, <4>1
    <3>4. Seen(n, i + 1, Append(cut[i], i + 1))
      BY <1>0, <3>2, <3>3, ClosesOne
    <3>5. cut[i + 1] = Append(cut[i], i + 1)
      BY <2>2, <2>4 DEF Grow
    <3>6. Seen(n, i + 1, cut[i + 1])
      BY <3>4, <3>5, Zenon
    <3>7. i + 1 \in 0 .. n
      BY <1>0, <2>1
    <3> QED
      BY <3>6, <3>7
  <2>5. CASE ~Closes(i + 1, Len(cut[i]) + 1)
    <3>1. cut[i + 1] = cut[i]
      BY <2>2, <2>5 DEF Grow
    <3>2. Seen(n, i + 1, cut[i])
      <4>1. \A j \in DOMAIN cut[i] : cut[i][j] \in 1 .. n - 1 /\ cut[i][j] <= i
        BY <2>3 DEF Seen, Closed
      <4>2. \A j \in DOMAIN cut[i] : cut[i][j] <= i + 1
        BY <1>0, <4>1
      <4> QED
        BY <2>3, <4>2 DEF Seen
    <3> QED
      BY <2>1, <3>1, <3>2
  <2> QED
    BY <2>4, <2>5
<1> HIDE DEF Good
<1>10. n \in Good
  <2>1. 0 .. n \subseteq Good
    BY <1>0, <1>8, <1>9, UpTo
  <2> QED
    BY <1>0, <2>1
<1> QED
  BY <1>10 DEF Good, Seen, cut, n

Partition(p, n) ==
    /\ UNION {p[k] : k \in DOMAIN p} = 1 .. n
    /\ \A k, l \in DOMAIN p : k # l => p[k] \cap p[l] = {}
    /\ \A k \in DOMAIN p : p[k] # {}

\* Ranges that end at different statements, in order, and the last at n.
LEMMA RangesPartition ==
    ASSUME NEW n \in Nat, NEW m \in Nat \ {0}, NEW e \in [1 .. m -> 1 .. n], e[m] = n,
           \A j, k \in 1 .. m : j < k => e[j] < e[k],
           NEW p, p = [k \in 1 .. m |-> (IF k = 1 THEN 1 ELSE e[k - 1] + 1) .. e[k]]
    PROVE  Partition(p, n)
<1>1. ASSUME NEW k \in 1 .. m
      PROVE  /\ e[k] \in 1 .. n
             /\ k # 1 => k - 1 \in 1 .. m /\ e[k - 1] \in 1 .. n /\ e[k - 1] < e[k]
             /\ p[k] = (IF k = 1 THEN 1 ELSE e[k - 1] + 1) .. e[k]
  <2>1. k # 1 => k - 1 \in 1 .. m /\ k - 1 < k
    OBVIOUS
  <2> QED
    BY <2>1
<1>2. \A k \in 1 .. m : e[k] \in p[k] /\ p[k] \subseteq 1 .. n
  BY <1>1
<1>3. ASSUME NEW s \in 1 .. n PROVE \E k \in 1 .. m : s \in p[k]
  <2> DEFINE T == {k \in 1 .. m : s <= e[k]}
  <2>1. T \in SUBSET Nat /\ m \in T
    OBVIOUS
  <2>2. PICK k \in T : \A j \in T : k <= j
    <3> HIDE DEF T
    <3> QED
      BY <2>1, Least
  <2>3. k \in 1 .. m /\ s <= e[k]
    BY <2>2
  <2>4. k # 1 => ~(s <= e[k - 1])
    <3>1. k # 1 => k - 1 \in 1 .. m /\ ~(k <= k - 1)
      BY <2>3
    <3> QED
      BY <2>2, <3>1
  <2>5. s \in p[k]
    BY <1>1, <2>3, <2>4
  <2> QED
    BY <2>3, <2>5
<1>4. ASSUME NEW k \in 1 .. m, NEW l \in 1 .. m, k < l PROVE p[k] \cap p[l] = {}
  <2>1. l # 1 /\ l - 1 \in 1 .. m /\ (k = l - 1 \/ k < l - 1)
    BY <1>4
  <2>2. e[k] <= e[l - 1] /\ e[k] \in Nat /\ e[l - 1] \in Nat
    BY <1>1, <2>1
  <2>3. \A s \in p[k] : s \in Nat /\ s <= e[k]
    BY <1>1
  <2>4. \A s \in p[l] : s \in Nat /\ s > e[l - 1]
    BY <1>1, <2>1, <2>2
  <2>5. \A s \in p[k] : s \notin p[l]
    BY <2>2, <2>3, <2>4
  <2> QED
    BY <2>5
<1>5. DOMAIN p = 1 .. m
  OBVIOUS
<1>6. UNION {p[k] : k \in DOMAIN p} = 1 .. n
  <2>1. \A s : s \in UNION {p[k] : k \in DOMAIN p} <=> \E k \in 1 .. m : s \in p[k]
    BY <1>5
  <2>2. \A s : (\E k \in 1 .. m : s \in p[k]) <=> s \in 1 .. n
    BY <1>2, <1>3, Zenon
  <2> QED
    BY <2>1, <2>2, Zenon
<1>7. ASSUME NEW k \in 1 .. m, NEW l \in 1 .. m, k # l PROVE p[k] \cap p[l] = {}
  <2>1. k < l \/ l < k
    BY <1>7
  <2> QED
    BY <1>4, <2>1
<1>8. \A k \in DOMAIN p : p[k] # {}
  BY <1>2, <1>5
<1> QED
  BY <1>5, <1>6, <1>7, <1>8, Zenon DEF Partition

LEMMA PiecesOfFile ==
    ASSUME NEW length, Len(length) \in Nat, NEW count \in Nat,
           NEW p, p = StatementPieces(length, count), p # <<>>
    PROVE  Partition(p, Len(length)) /\ p \in Seq(SUBSET Nat) /\ Len(p) > 1
<1> DEFINE n == Len(length)
           most == IF count < n THEN count ELSE n
           c == Cut(length, most)[n]
           e == Append(c, n)
           q == [k \in DOMAIN e |-> (IF k = 1 THEN 1 ELSE e[k - 1] + 1) .. e[k]]
<1>1. p = IF most < 2 \/ Len(q) < 2 THEN <<>> ELSE q
  BY DEF StatementPieces
<1>2. n \in Nat /\ most \in Nat
  OBVIOUS
<1>3. Closed(n, c)
  BY <1>2, CutsInOrder
<1> HIDE DEF c
<1>4. ~(most < 2) /\ ~(Len(q) < 2) /\ p = q
  BY <1>1
<1>5. n >= 2
  BY <1>2, <1>4
<1> HIDE DEF n, most
<1> DEFINE m == Len(c) + 1
<1>6. /\ c \in Seq(Nat) /\ Len(c) \in Nat /\ DOMAIN c = 1 .. Len(c)
      /\ \A j \in DOMAIN c : c[j] \in 1 .. n - 1
      /\ \A j, k \in DOMAIN c : j < k => c[j] < c[k]
  BY <1>3 DEF Closed
<1>7. /\ e \in Seq(Nat) /\ DOMAIN e = 1 .. m /\ e[m] = n /\ m \in Nat \ {0}
      /\ \A j \in DOMAIN c : e[j] = c[j]
  BY <1>2, <1>6
<1> HIDE DEF e
<1>8. \A j \in 1 .. m : j \in DOMAIN c \/ j = m
  BY <1>6
<1>9. ASSUME NEW j \in 1 .. m PROVE e[j] \in 1 .. n
  <2>1. CASE j \in DOMAIN c
    <3>1. e[j] \in 1 .. n - 1
      BY <1>6, <1>7, <2>1
    <3> QED
      BY <1>2, <3>1
  <2>2. CASE j = m
    BY <1>2, <1>5, <1>7, <2>2
  <2> QED
    BY <1>8, <2>1, <2>2
<1>10. ASSUME NEW j \in 1 .. m, NEW k \in 1 .. m, j < k PROVE e[j] < e[k]
  <2>1. j \in DOMAIN c
    BY <1>6, <1>10
  <2>2. CASE k \in DOMAIN c
    BY <1>6, <1>7, <1>10, <2>1, <2>2
  <2>3. CASE k = m
    <3>1. e[j] \in 1 .. n - 1 /\ e[k] = n
      BY <1>6, <1>7, <2>1, <2>3
    <3> QED
      BY <1>2, <3>1
  <2> QED
    BY <1>8, <2>2, <2>3
<1>11. e \in [1 .. m -> 1 .. n]
  BY <1>7, <1>9
<1> HIDE DEF m
<1>12. p = [k \in 1 .. m |-> (IF k = 1 THEN 1 ELSE e[k - 1] + 1) .. e[k]]
  BY <1>4, <1>7
<1>13. Partition(p, n)
  BY <1>2, <1>7, <1>10, <1>11, <1>12, RangesPartition
<1>14. p \in Seq(SUBSET Nat) /\ Len(p) = m
  <2>1. \A k \in 1 .. m : p[k] \subseteq 1 .. n
    <3>1. DOMAIN p = 1 .. m
      BY <1>12
    <3>2. \A k \in DOMAIN p : p[k] \subseteq UNION {p[l] : l \in DOMAIN p}
      OBVIOUS
    <3>3. UNION {p[l] : l \in DOMAIN p} = 1 .. n
      BY <1>13 DEF Partition
    <3> QED
      BY <3>1, <3>2, <3>3, Zenon
  <2>2. p \in [1 .. m -> SUBSET Nat]
    BY <1>2, <1>12, <2>1
  <2>3. m \in Nat
    BY <1>7
  <2> QED
    BY <2>2, <2>3, FunctionIsSeq
<1>15. ~(Len(p) < 2)
  BY <1>4
<1> QED
  BY <1>7, <1>13, <1>14, <1>15 DEF n

-----------------------------------------------------------------------------
(* What a pass starts with *)

PiecesInv ==
    /\ pieces \in [File -> Seq(SUBSET Nat)]
    /\ \A f \in File : pieces[f] # <<>> => f \in Splittable /\ Partition(pieces[f], Statements[f])

LEMMA FilesAreNumbers == File = 1 .. Len(Statements) /\ Len(Statements) \in Nat
                         /\ \A f \in File : f \in Nat \ {0} /\ Statements[f] \in Nat \ {0}
BY FileAssumption DEF File

LEMMA InitPieces == Init => PiecesInv
<1> SUFFICES ASSUME Init PROVE PiecesInv
  OBVIOUS
<1>1. /\ \A f \in File : pieces[f] \in Cuts(f)
      /\ pieces = [f \in File |-> pieces[f]]
  BY DEF Init
<1>2. ASSUME NEW f \in File
      PROVE  /\ pieces[f] \in Seq(SUBSET Nat)
             /\ pieces[f] # <<>> => f \in Splittable /\ Partition(pieces[f], Statements[f])
  <2>1. CASE pieces[f] = <<>>
    BY <2>1
  <2>2. CASE pieces[f] # <<>>
    <3>1. f \in Splittable
      BY <1>1, <2>2 DEF Cuts
    <3>2. PICK length \in [1 .. Statements[f] -> 1 .. MaxLength], count \in 1 .. N :
            pieces[f] = StatementPieces(length, count)
      BY <1>1, <3>1 DEF Cuts
    <3>3. Len(length) = Statements[f] /\ Statements[f] \in Nat
      BY <3>2, FilesAreNumbers, FunctionIsSeq
    <3>4. count \in Nat
      BY CheckerAssumption
    <3> QED
      BY <2>2, <3>1, <3>2, <3>3, <3>4, PiecesOfFile
  <2> QED
    BY <2>1, <2>2
<1> QED
  BY <1>1, <1>2 DEF PiecesInv

LEMMA SameItem ==
    ASSUME NEW f, NEW g, NEW k, NEW l, Item(f, k) = Item(g, l)
    PROVE  f = g /\ k = l
<1>1. Item(f, k).file = f /\ Item(f, k).piece = k /\ Item(g, l).file = g /\ Item(g, l).piece = l
  BY DEF Item
<1> QED
  BY <1>1, Zenon

QueuedItem == {it \in [file : File, piece : Nat] : it.piece \in Queued(it.file)}
AnyItem == {it \in [file : File, piece : Nat] : it.piece = 1 \/ it.piece \in Queued(it.file)}

LEMMA PieceItemsTyped ==
    ASSUME PiecesInv
    PROVE  PieceItems \in Seq(QueuedItem)
<1> DEFINE n == Len(Statements)
           S == Seq(QueuedItem)
           Of(f) == [j \in 1 .. Cardinality(Queued(f)) |-> Item(f, j + 1)]
           upTo == CHOOSE g : g = [f \in 0 .. n |-> IF f = 0 THEN <<>> ELSE g[f - 1] \o Of(f)]
           step == [f \in 1 .. n |-> [q \in S |-> q \o Of(f)]]
<1>0. n \in Nat /\ 1 .. n = File
  BY FilesAreNumbers
<1>1. PieceItems = upTo[n]
  BY DEF PieceItems
<1>2. ASSUME NEW f \in File PROVE Of(f) \in S
  <2>1. pieces[f] \in Seq(SUBSET Nat)
    BY DEF PiecesInv
  <2> DEFINE l == Len(pieces[f])
  <2>2. l \in Nat
    BY <2>1
  <2> HIDE DEF l
  <2>3. Cardinality(2 .. l) = IF 2 > l THEN 0 ELSE l - 2 + 1
    BY <2>2, FS_Interval
  <2>4. Queued(f) = 2 .. l
    BY DEF Queued, l
  <2>5. \A j \in 1 .. Cardinality(Queued(f)) : j + 1 \in Queued(f) /\ j + 1 \in Nat
    BY <2>2, <2>3, <2>4
  <2>6. \A j \in 1 .. Cardinality(Queued(f)) : Item(f, j + 1) \in QueuedItem
    BY <2>5 DEF Item, QueuedItem
  <2>7. Cardinality(Queued(f)) \in Nat
    BY <2>2, <2>3, <2>4
  <2>8. Of(f) \in [1 .. Cardinality(Queued(f)) -> QueuedItem]
    BY <2>6
  <2> QED
    BY <2>7, <2>8, FunctionIsSeq
<1> HIDE DEF Of
<1>3. \A f \in 1 .. n, q \in S : q \o Of(f) \in S
  BY <1>0, <1>2
<1>4. step \in [1 .. n -> [S -> S]] /\ <<>> \in S
  BY <1>3
<1>5. Recursive(n, S, <<>>, step) # {}
  <2> HIDE DEF n, S, step
  <2> QED
    BY <1>0, <1>4, Recursion
<1> HIDE DEF n
<1>6. PICK g \in [0 .. n -> S] : g[0] = <<>> /\ \A f \in 1 .. n : g[f] = step[f][g[f - 1]]
  BY <1>5 DEF Recursive
<1>7. ASSUME NEW f \in 0 .. n PROVE g[f] = IF f = 0 THEN <<>> ELSE g[f - 1] \o Of(f)
  <2>1. CASE f = 0
    BY <1>6, <2>1
  <2>2. CASE f # 0
    <3>1. f \in 1 .. n /\ f - 1 \in 0 .. n
      BY <1>0, <2>2
    <3>2. g[f - 1] \in S
      BY <1>6, <3>1
    <3> QED
      BY <1>6, <2>2, <3>1, <3>2
  <2> QED
    BY <2>1, <2>2
<1>8. g = [f \in 0 .. n |-> IF f = 0 THEN <<>> ELSE g[f - 1] \o Of(f)]
  BY <1>6, <1>7
<1>9. upTo = [f \in 0 .. n |-> IF f = 0 THEN <<>> ELSE upTo[f - 1] \o Of(f)]
  BY <1>8
<1> HIDE DEF upTo
<1> DEFINE Good == {f \in 0 .. n : upTo[f] \in S}
<1>10. 0 \in Good
  <2>1. upTo[0] = <<>>
    BY <1>0, <1>9
  <2> QED
    BY <1>0, <1>4, <2>1
<1>11. ASSUME NEW f \in 0 .. n, f < n, f \in Good PROVE f + 1 \in Good
  <2>1. f + 1 \in 1 .. n /\ f + 1 \in 0 .. n /\ (f + 1) - 1 = f
    BY <1>0, <1>11
  <2>2. upTo[f + 1] = upTo[f] \o Of(f + 1)
    <3>1. PICK k \in 0 .. n : k = f + 1 /\ k # 0 /\ k - 1 = f
      BY <1>0, <2>1
    <3>2. upTo[k] = upTo[k - 1] \o Of(k)
      BY <1>9, <3>1
    <3> QED
      BY <3>1, <3>2
  <2>3. upTo[f + 1] \in S
    <3>1. upTo[f] \in S
      BY <1>11
    <3>2. upTo[f] \o Of(f + 1) \in S
      BY <1>3, <2>1, <3>1
    <3> QED
      BY <2>2, <3>2, Zenon
  <2> QED
    BY <2>1, <2>3
<1> HIDE DEF Good
<1>12. n \in Good
  <2>1. 0 .. n \subseteq Good
    BY <1>0, <1>10, <1>11, UpTo
  <2> QED
    BY <1>0, <2>1
<1> QED
  BY <1>1, <1>12 DEF Good

\* The item at rank r, among the indices of a queue, is there.
LEMMA RankIsTaken ==
    ASSUME NEW m \in Nat, NEW at \in SUBSET (1 .. m), NEW r \in 1 .. Cardinality(at)
    PROVE  \E i \in at : Cardinality({j \in at : j <= i}) = r
<1> DEFINE Below(i) == {j \in at : j <= i}
           T == {i \in 0 .. m : r <= Cardinality(Below(i))}
<1>1. IsFiniteSet(1 .. m)
  BY FS_Interval
<1>2. \A i \in 0 .. m : IsFiniteSet(Below(i)) /\ Cardinality(Below(i)) \in Nat
  BY <1>1, FS_Subset, FS_CardinalityType
<1>3. Below(m) = at /\ Below(0) = {}
  <2>1. \A j \in at : j <= m /\ ~(j <= 0)
    OBVIOUS
  <2> QED
    BY <2>1
<1>4. Cardinality(Below(0)) = 0 /\ Cardinality(at) \in Nat /\ r \in Nat /\ r > 0 /\ r <= Cardinality(at)
  BY <1>2, <1>3, FS_EmptySet
<1>5. \A i \in 1 .. m : i - 1 \in 0 .. m /\ Below(i) = IF i \in at THEN Below(i - 1) \cup {i} ELSE Below(i - 1)
  <2> SUFFICES ASSUME NEW i \in 1 .. m
               PROVE  Below(i) = IF i \in at THEN Below(i - 1) \cup {i} ELSE Below(i - 1)
    OBVIOUS
  <2>1. \A j \in at : j <= i <=> j <= i - 1 \/ j = i
    OBVIOUS
  <2>2. CASE i \in at
    <3>1. i <= i
      OBVIOUS
    <3>2. Below(i) = Below(i - 1) \cup {i}
      BY <2>1, <2>2, <3>1
    <3> QED
      BY <2>2, <3>2
  <2>3. CASE i \notin at
    <3>1. \A j \in at : j <= i <=> j <= i - 1
      BY <2>1, <2>3
    <3>2. Below(i) = Below(i - 1)
      BY <3>1
    <3> QED
      BY <2>3, <3>2
  <2> QED
    BY <2>2, <2>3
<1>6. \A i \in 1 .. m : i \notin Below(i - 1)
  OBVIOUS
<1> HIDE DEF Below
<1>7. T \in SUBSET Nat /\ m \in T
  BY <1>3, <1>4
<1>8. PICK i \in T : \A j \in T : i <= j
  <2> HIDE DEF T
  <2> QED
    BY <1>7, Least
<1>9. i \in 1 .. m /\ i - 1 \in 0 .. m
  BY <1>4, <1>8
<1>10. ~(r <= Cardinality(Below(i - 1)))
  BY <1>8, <1>9
<1>11. i \in at
  BY <1>5, <1>8, <1>9, <1>10
<1>12. Cardinality(Below(i)) = Cardinality(Below(i - 1)) + 1
  <2>1. Below(i) = Below(i - 1) \cup {i} /\ i \notin Below(i - 1)
    BY <1>5, <1>6, <1>9, <1>11
  <2> QED
    BY <1>2, <1>9, <2>1, FS_AddElement
<1> DEFINE a == Cardinality(Below(i - 1))
           b == Cardinality(Below(i))
<1>13. a \in Nat /\ b = a + 1 /\ ~(r <= a) /\ r <= b
  BY <1>2, <1>8, <1>9, <1>10, <1>12
<1> HIDE DEF a, b
<1>14. b = r
  BY <1>4, <1>13
<1> QED
  BY <1>11, <1>14 DEF b, Below

\* No file is in the queues twice, and the pieces there are pieces of a file.
QueueInv ==
    /\ queue \in [Checker -> Seq(AnyItem)]
    /\ \A c, b \in Checker : \A i \in DOMAIN queue[c], j \in DOMAIN queue[b] :
         queue[c][i].piece = 1 /\ queue[c][i] = queue[b][j] => c = b /\ i = j

LEMMA InitQueue == Init => QueueInv
<1> SUFFICES ASSUME Init PROVE QueueInv
  OBVIOUS
<1>1. PICK target \in [DOMAIN PieceItems -> Checker], heavy \in BOOLEAN : PlanSplits(target, heavy)
  BY DEF Init
<1> DEFINE at(c) == {i \in DOMAIN PieceItems : target[i] = c}
           own(c) == [i \in DOMAIN Owned[c] |-> Item(Owned[c][i], 1)]
           placed(c) == [r \in 1 .. Cardinality(at(c)) |->
                           PieceItems[CHOOSE i \in at(c) : Cardinality({j \in at(c) : j <= i}) = r]]
<1>2. queue = [c \in Checker |-> IF heavy THEN placed(c) \o own(c) ELSE own(c) \o placed(c)]
  BY <1>1 DEF PlanSplits
<1>3. PieceItems \in Seq(QueuedItem)
  BY InitPieces, PieceItemsTyped
<1>4. QueuedItem \subseteq AnyItem /\ \A it \in QueuedItem : it.piece # 1
  BY DEF QueuedItem, AnyItem, Queued
<1>5. ASSUME NEW c \in Checker
      PROVE  /\ placed(c) \in Seq(QueuedItem)
             /\ own(c) \in Seq(AnyItem)
             /\ DOMAIN own(c) = DOMAIN Owned[c]
  <2>1. own(c) \in Seq(AnyItem) /\ DOMAIN own(c) = DOMAIN Owned[c]
    <3>1. Owned[c] \in Seq(File)
      BY FileAssumption
    <3>2. Len(Owned[c]) \in Nat /\ DOMAIN Owned[c] = 1 .. Len(Owned[c])
      BY <3>1
    <3>3. \A i \in DOMAIN Owned[c] : Item(Owned[c][i], 1) \in AnyItem
      BY <3>1 DEF Item, AnyItem
    <3>4. own(c) \in [1 .. Len(Owned[c]) -> AnyItem]
      BY <3>2, <3>3
    <3> QED
      BY <3>2, <3>4, FunctionIsSeq
  <2>2. Len(PieceItems) \in Nat /\ DOMAIN PieceItems = 1 .. Len(PieceItems)
    BY <1>3
  <2>3. at(c) \in SUBSET (1 .. Len(PieceItems))
    BY <2>2
  <2>4. Cardinality(at(c)) \in Nat
    <3>1. IsFiniteSet(1 .. Len(PieceItems))
      BY <2>2, FS_Interval
    <3>2. IsFiniteSet(at(c))
      BY <2>3, <3>1, FS_Subset
    <3> QED
      BY <3>2, FS_CardinalityType
  <2>5. ASSUME NEW r \in 1 .. Cardinality(at(c)) PROVE placed(c)[r] \in QueuedItem
    <3>1. \E i \in at(c) : Cardinality({j \in at(c) : j <= i}) = r
      <4> HIDE DEF at
      <4> QED
        BY <2>2, <2>3, RankIsTaken
    <3>2. (CHOOSE i \in at(c) : Cardinality({j \in at(c) : j <= i}) = r) \in at(c)
      <4> HIDE DEF at
      <4> QED
        BY <3>1
    <3> QED
      BY <1>3, <2>2, <2>3, <3>2
  <2>6. placed(c) \in [1 .. Cardinality(at(c)) -> QueuedItem]
    BY <2>5
  <2>7. placed(c) \in Seq(QueuedItem)
    <3> HIDE DEF at, placed
    <3> QED
      BY <2>4, <2>6, FunctionIsSeq
  <2> QED
    BY <2>1, <2>7
<1>6. \A c \in Checker : \A i \in DOMAIN Owned[c] : own(c)[i] = Item(Owned[c][i], 1)
  OBVIOUS
<1> HIDE DEF at, own, placed
<1> DEFINE off(c) == IF heavy THEN Len(placed(c)) ELSE 0
<1>7. ASSUME NEW c \in Checker
      PROVE  /\ queue[c] \in Seq(AnyItem) /\ off(c) \in Nat
             /\ \A i \in DOMAIN queue[c] : queue[c][i].piece = 1 =>
                  i - off(c) \in DOMAIN Owned[c] /\ queue[c][i] = Item(Owned[c][i - off(c)], 1)
  <2> DEFINE p == placed(c)
             o == own(c)
  <2>1. /\ p \in Seq(AnyItem) /\ Len(p) \in Nat /\ DOMAIN p = 1 .. Len(p)
        /\ \A i \in DOMAIN p : p[i].piece # 1
    <3>1. p \in Seq(QueuedItem)
      BY <1>5
    <3>2. p \in Seq(AnyItem)
      BY <1>4, <3>1, SeqMonotonic
    <3> QED
      BY <1>4, <3>1, <3>2
  <2>2. /\ o \in Seq(AnyItem) /\ Len(o) \in Nat /\ DOMAIN o = 1 .. Len(o)
        /\ DOMAIN o = DOMAIN Owned[c]
        /\ \A i \in DOMAIN o : o[i] = Item(Owned[c][i], 1)
    BY <1>5, <1>6
  <2>3. queue[c] = IF heavy THEN p \o o ELSE o \o p
    BY <1>2
  <2> HIDE DEF p, o
  <2>4. CASE heavy
    <3>1. off(c) = Len(p) /\ queue[c] = p \o o
      BY <2>3, <2>4 DEF p
    <3>2. /\ queue[c] \in Seq(AnyItem) /\ DOMAIN queue[c] = 1 .. Len(p) + Len(o)
          /\ \A i \in 1 .. Len(p) + Len(o) : queue[c][i] = IF i <= Len(p) THEN p[i] ELSE o[i - Len(p)]
      BY <2>1, <2>2, <3>1, ConcatProperties
    <3>3. ASSUME NEW i \in DOMAIN queue[c], queue[c][i].piece = 1
          PROVE  i - Len(p) \in DOMAIN o /\ queue[c][i] = o[i - Len(p)]
      <4>1. ~(i <= Len(p))
        BY <2>1, <3>2, <3>3
      <4> QED
        BY <2>1, <2>2, <3>2, <4>1
    <3> QED
      BY <2>1, <2>2, <3>1, <3>2, <3>3
  <2>5. CASE ~heavy
    <3>1. off(c) = 0 /\ queue[c] = o \o p
      BY <2>3, <2>5
    <3>2. /\ queue[c] \in Seq(AnyItem) /\ DOMAIN queue[c] = 1 .. Len(o) + Len(p)
          /\ \A i \in 1 .. Len(o) + Len(p) : queue[c][i] = IF i <= Len(o) THEN o[i] ELSE p[i - Len(o)]
      BY <2>1, <2>2, <3>1, ConcatProperties
    <3>3. ASSUME NEW i \in DOMAIN queue[c], queue[c][i].piece = 1
          PROVE  i - 0 \in DOMAIN o /\ queue[c][i] = o[i - 0]
      <4>1. i <= Len(o)
        <5>1. ~(i <= Len(o)) => i - Len(o) \in DOMAIN p
          BY <2>1, <2>2, <3>2
        <5> QED
          BY <2>1, <3>2, <3>3, <5>1
      <4> QED
        BY <2>1, <2>2, <3>2, <4>1
    <3> QED
      BY <2>1, <2>2, <3>1, <3>2, <3>3
  <2> QED
    BY <2>4, <2>5
<1> HIDE DEF off
<1>8. ASSUME NEW c \in Checker, NEW b \in Checker, NEW i \in DOMAIN queue[c], NEW j \in DOMAIN queue[b],
             queue[c][i].piece = 1, queue[c][i] = queue[b][j]
      PROVE  c = b /\ i = j
  <2>1. /\ i - off(c) \in DOMAIN Owned[c] /\ queue[c][i] = Item(Owned[c][i - off(c)], 1)
        /\ j - off(b) \in DOMAIN Owned[b] /\ queue[b][j] = Item(Owned[b][j - off(b)], 1)
    BY <1>7, <1>8
  <2>2. Owned[c][i - off(c)] = Owned[b][j - off(b)]
    <3>1. Item(Owned[c][i - off(c)], 1) = Item(Owned[b][j - off(b)], 1)
      BY <1>8, <2>1, Zenon
    <3>2. \A f, g : Item(f, 1) = Item(g, 1) => f = g
      BY SameItem
    <3> QED
      BY <3>1, <3>2, Zenon
  <2>3. c = b /\ i - off(c) = j - off(b)
    BY <2>1, <2>2, OwnedAssumption
  <2>4. i \in Nat /\ j \in Nat /\ off(c) \in Nat
    BY <1>7
  <2> QED
    BY <2>3, <2>4
<1>9. queue \in [Checker -> Seq(AnyItem)]
  <2>1. DOMAIN queue = Checker /\ queue = [c \in Checker |-> queue[c]]
    BY <1>2
  <2> QED
    BY <1>7, <2>1
<1> QED
  BY <1>8, <1>9 DEF QueueInv

-----------------------------------------------------------------------------
LEMMA PlanIsFixed == [Next]_vars => UNCHANGED <<shadow, pieces>>
BY DEF Next, CheckerStep, TakeOwn, Steal, Start, Stop, RunQueuedPiece, FinishQueuedPiece,
       RunOwner, FinishOwnPiece, Sleep, WakeUp, Merge, Callback, ShadowCompare, Panic, Done, vars

(* The pieces of a file cover it, overlap nowhere and are not empty,       *)
(* however many statements it has and however long they are                *)
(* (`statement_pieces`).                                                   *)
THEOREM PiecesCover == Spec => []PiecesPartition
<1>1. Init => PiecesInv
  BY InitPieces
<1>2. PiecesInv /\ [Next]_vars => PiecesInv'
  BY PlanIsFixed DEF PiecesInv
<1>3. PiecesInv => PiecesPartition
  BY DEF PiecesInv, PiecesPartition, Partition
<1> QED
  BY <1>1, <1>2, <1>3, PTL DEF Spec

-----------------------------------------------------------------------------
(* Each piece is checked once *)

PieceState == {"notStarted", "running", "done"}
Result == [piece : Nat, byOther : BOOLEAN, diagnostics : SUBSET Diag]
Label == {"next", "queued", "piece", "claim", "ownPiece", "wait", "asleep", "callback",
          "compare", "stopped", "differs", "panicked"}

TypeInv ==
    /\ DOMAIN states = File
    /\ \A f \in File : states[f] \in [Queued(f) -> PieceState]
    /\ results \in [File -> Seq(Result)]
    /\ ownerFound \in [File -> SUBSET Diag]
    /\ found \in [Checker -> SUBSET Diag]
    /\ inPieces \in [Checker -> File \cup {None}]
    /\ reported \in [File -> [by : Checker \cup {None}, diagnostics : SUBSET Diag]]
    /\ pc \in [Checker -> Label]
    /\ item \in [Checker -> [file : Nat, piece : Nat]]

\* A checker that has claimed a piece and not finished it.
Checking(c) == pc[c] \in {"piece", "ownPiece"}
\* The owner of a file, until it reports the file.
Owns(c) == pc[c] \in {"claim", "ownPiece", "wait", "asleep", "callback"}
Owning(c, f) == Owns(c) /\ item[c].file = f

\* The item of a checker that is busy is what its step takes it for.
ItemOk(c) ==
    /\ pc[c] \in {"queued", "piece", "compare"} \/ Owns(c) => item[c].file \in File
    /\ pc[c] = "queued" \/ Checking(c) => item[c].piece \in Queued(item[c].file)
    /\ pc[c] \in {"claim", "ownPiece", "wait", "asleep"} => pieces[item[c].file] # <<>>

ItemInv == \A c \in Checker : ItemOk(c)

HasResult(f, k) == \E i \in DOMAIN results[f] : results[f][i].piece = k

ClaimInv ==
    /\ \A c \in Checker : Checking(c) => states[item[c].file][item[c].piece] = "running"
    /\ \A c, b \in Checker : Checking(c) /\ Checking(b) /\ item[c] = item[b] => c = b
    /\ \A f \in File : \A k \in Queued(f) : HasResult(f, k) <=> states[f][k] = "done"
    /\ \A f \in File : \A i \in DOMAIN results[f] : results[f][i].piece \in Queued(f)
    /\ \A f \in File : \A i, j \in DOMAIN results[f] : results[f][i].piece = results[f][j].piece => i = j
    /\ \A c \in Checker : pc[c] = "callback" => AllDone(item[c].file)
    /\ \A f \in File : reported[f].by # None => AllDone(f)

Inv == PiecesInv /\ QueueInv /\ TypeInv /\ ItemInv /\ ClaimInv

LEMMA GoFacts ==
    ASSUME TypeInv, NEW c \in Checker, NEW l \in Label, Go(c, l)
    PROVE  /\ pc' \in [Checker -> Label]
           /\ pc'[c] = l /\ \A b \in Checker : b # c => pc'[b] = pc[b]
BY DEF Go, TypeInv

\* An item leaves queue q, where it was the one at r; those after it move up by s.
Takes(q, r, s) ==
    /\ queue' \in [Checker -> Seq(AnyItem)]
    /\ \A b \in Checker : b # q => queue'[b] = queue[b]
    /\ \A i \in DOMAIN queue'[q] :
         i + s \in DOMAIN queue[q] /\ i + s # r /\ queue'[q][i] = queue[q][i + s]

LEMMA TakeFacts ==
    ASSUME QueueInv, NEW c \in Checker, TakeOwn(c) \/ Steal(c)
    PROVE  \E q \in Checker : \E r \in DOMAIN queue[q], s \in {0, 1} :
             pc[c] = "next" /\ Takes(q, r, s) /\ Start(c, queue[q][r])
<1>0. queue \in [Checker -> Seq(AnyItem)]
  BY DEF QueueInv
<1>1. CASE TakeOwn(c)
  <2>1. /\ pc[c] = "next" /\ queue[c] # <<>> /\ queue[c] \in Seq(AnyItem)
        /\ queue' = [queue EXCEPT ![c] = Tail(queue[c])]
        /\ Start(c, Head(queue[c]))
    BY <1>0, <1>1 DEF TakeOwn
  <2>2. /\ Len(queue[c]) \in Nat \ {0} /\ DOMAIN queue[c] = 1 .. Len(queue[c])
        /\ Head(queue[c]) = queue[c][1]
        /\ Tail(queue[c]) \in Seq(AnyItem) /\ Len(Tail(queue[c])) = Len(queue[c]) - 1
        /\ \A i \in 1 .. Len(queue[c]) - 1 : Tail(queue[c])[i] = queue[c][i + 1]
    BY <2>1, HeadTailProperties, EmptySeq, LenProperties
  <2>3. DOMAIN Tail(queue[c]) = 1 .. Len(queue[c]) - 1
    BY <2>2, LenProperties
  <2>4. queue'[c] = Tail(queue[c]) /\ \A b \in Checker : b # c => queue'[b] = queue[b]
    BY <1>0, <2>1
  <2>5. queue' \in [Checker -> Seq(AnyItem)]
    BY <1>0, <2>1, <2>2
  <2> DEFINE l == Len(queue[c])
  <2>6. \A i \in 1 .. l - 1 : i + 1 \in 1 .. l /\ i + 1 # 1
    <3>1. l \in Nat
      BY <2>2
    <3> HIDE DEF l
    <3> QED
      BY <3>1
  <2>7. Takes(c, 1, 1)
    BY <2>2, <2>3, <2>4, <2>5, <2>6 DEF Takes
  <2>8. 1 \in DOMAIN queue[c]
    BY <2>2
  <2> QED
    BY <2>1, <2>2, <2>7, <2>8
<1>2. CASE Steal(c)
  <2>1. PICK q \in Checker :
          /\ queue[q] # <<>>
          /\ queue' = [queue EXCEPT ![q] = SubSeq(@, 1, Len(@) - 1)]
          /\ Start(c, queue[q][Len(queue[q])])
    BY <1>2 DEF Steal
  <2> DEFINE l == Len(queue[q])
             t == SubSeq(queue[q], 1, l - 1)
  <2>2. pc[c] = "next"
    BY <1>2 DEF Steal
  <2>3. queue[q] \in Seq(AnyItem)
    BY <1>0
  <2>4. l \in Nat \ {0} /\ DOMAIN queue[q] = 1 .. l
    BY <2>1, <2>3, EmptySeq, LenProperties
  <2>5. /\ t \in Seq(AnyItem) /\ DOMAIN t = 1 .. l - 1
        /\ \A i \in 1 .. l - 1 : t[i] = queue[q][i]
    BY <2>3, <2>4
  <2>6. queue' = [queue EXCEPT ![q] = t]
    BY <2>1
  <2> HIDE DEF l, t
  <2>7. /\ queue'[q] = t /\ \A b \in Checker : b # q => queue'[b] = queue[b]
        /\ queue' \in [Checker -> Seq(AnyItem)]
    BY <1>0, <2>5, <2>6
  <2>8. \A i \in 1 .. l - 1 : i + 0 = i /\ i \in 1 .. l /\ i # l
    BY <2>4
  <2>9. Takes(q, l, 0)
    BY <2>4, <2>5, <2>7, <2>8 DEF Takes
  <2>10. l \in DOMAIN queue[q]
    BY <2>4
  <2> QED
    BY <2>1, <2>2, <2>9, <2>10 DEF l
<1> QED
  BY <1>1, <1>2

\* The queues keep their items apart, and none of them is the one that was taken.
LEMMA TakeKeepsQueues ==
    ASSUME QueueInv, NEW q \in Checker, NEW r \in DOMAIN queue[q], NEW s \in {0, 1}, Takes(q, r, s),
           UNCHANGED pieces
    PROVE  /\ QueueInv'
           /\ \A b \in Checker : \A i \in DOMAIN queue'[b] : \E j \in DOMAIN queue[b] :
                queue'[b][i] = queue[b][j]
           /\ queue[q][r].piece = 1 =>
                \A b \in Checker : \A i \in DOMAIN queue'[b] : queue'[b][i] # queue[q][r]
<1> DEFINE shift(b) == IF b = q THEN s ELSE 0
<1>0. \A b \in Checker : queue[b] \in Seq(AnyItem) /\ queue'[b] \in Seq(AnyItem)
  BY DEF QueueInv, Takes
<1>1. ASSUME NEW b \in Checker, NEW i \in DOMAIN queue'[b]
      PROVE  /\ i \in Nat /\ i + shift(b) \in DOMAIN queue[b]
             /\ queue'[b][i] = queue[b][i + shift(b)]
             /\ b = q => i + shift(b) # r
  <2>1. i \in Nat
    BY <1>0
  <2>2. CASE b = q
    BY <2>1, <2>2 DEF Takes
  <2>3. CASE b # q
    <3>1. queue'[b] = queue[b] /\ i + 0 = i
      BY <2>1, <2>3 DEF Takes
    <3> QED
      BY <2>1, <2>3, <3>1
  <2> QED
    BY <2>2, <2>3
<1>2. \A b \in Checker : shift(b) \in Nat
  OBVIOUS
<1> HIDE DEF shift
<1>3. ASSUME NEW c \in Checker, NEW b \in Checker, NEW i \in DOMAIN queue'[c], NEW j \in DOMAIN queue'[b],
             queue'[c][i].piece = 1, queue'[c][i] = queue'[b][j]
      PROVE  c = b /\ i = j
  <2>1. c = b /\ i + shift(c) = j + shift(b)
    BY <1>1, <1>3 DEF QueueInv
  <2> QED
    BY <1>1, <1>2, <2>1
<1>4. queue' \in [Checker -> Seq(AnyItem')]
  <2>1. AnyItem' = AnyItem
    BY DEF AnyItem, Queued
  <2> QED
    BY <2>1 DEF Takes
<1>5. ASSUME queue[q][r].piece = 1, NEW b \in Checker, NEW i \in DOMAIN queue'[b]
      PROVE  queue'[b][i] # queue[q][r]
  BY <1>1, <1>5 DEF QueueInv
<1>6. QueueInv'
  BY <1>3, <1>4 DEF QueueInv
<1>7. \A b \in Checker : \A i \in DOMAIN queue'[b] : \E j \in DOMAIN queue[b] : queue'[b][i] = queue[b][j]
  BY <1>1
<1> QED
  BY <1>5, <1>6, <1>7

\* What the claims need of a step that claims and finishes nothing.
LEMMA QuietClaims ==
    ASSUME Inv, UNCHANGED <<pieces, states, results>>,
           \A c \in Checker : Checking(c)' => Checking(c) /\ item'[c] = item[c],
           \A c \in Checker : pc'[c] = "callback" =>
              (pc[c] = "callback" /\ item'[c] = item[c]) \/ AllDone(item'[c].file),
           \A f \in File : reported'[f].by # None => reported[f].by # None \/ AllDone(f)
    PROVE  ClaimInv'
<1>1. \A f : (AllDone(f)' <=> AllDone(f)) /\ Queued(f)' = Queued(f)
  BY DEF AllDone, Queued
<1>2. \A f, k : HasResult(f, k)' <=> HasResult(f, k)
  BY DEF HasResult
<1>3. \A c \in Checker : Checking(c)' => states'[item'[c].file][item'[c].piece] = "running"
  BY DEF Inv, ClaimInv
<1>4. \A c, b \in Checker : Checking(c)' /\ Checking(b)' /\ item'[c] = item'[b] => c = b
  BY DEF Inv, ClaimInv
<1>5. \A c \in Checker : (pc[c] = "callback" => AllDone(item[c].file))'
  BY <1>1 DEF Inv, ClaimInv, AllDone, Queued
<1>6. \A f \in File : reported'[f].by # None => AllDone(f)'
  BY <1>1 DEF Inv, ClaimInv
<1>7. \A f \in File : \A k \in Queued(f)' : HasResult(f, k)' <=> states'[f][k] = "done"
  BY <1>1, <1>2 DEF Inv, ClaimInv
<1>8. /\ \A f \in File : \A i \in DOMAIN results'[f] : results'[f][i].piece \in Queued(f)'
      /\ \A f \in File : \A i, j \in DOMAIN results'[f] :
           results'[f][i].piece = results'[f][j].piece => i = j
  BY <1>1 DEF Inv, ClaimInv
<1> QED
  BY <1>3, <1>4, <1>5, <1>6, <1>7, <1>8 DEF ClaimInv

\* A step that only moves one checker on.
MovesOn(c, l) ==
    /\ l \in {"stopped", "asleep", "wait", "next", "differs", "panicked"}
    /\ l \in {"asleep", "wait"} => pc[c] \in {"claim", "asleep", "wait"}
    /\ pc[c] # "panicked"
    /\ Owns(c) => l \in {"asleep", "wait", "panicked"}
    /\ pc[c] = "callback" => l = "panicked"
    /\ Go(c, l)
    /\ UNCHANGED <<shadow, pieces, queue, states, results, ownerFound, found, inPieces, reported, item>>

LEMMA MovesOnInv ==
    ASSUME Inv, NEW c \in Checker, NEW l, MovesOn(c, l)
    PROVE  Inv'
<1>1. /\ pc' \in [Checker -> Label]
      /\ pc'[c] = l /\ \A b \in Checker : b # c => pc'[b] = pc[b]
  BY GoFacts DEF MovesOn, Inv, Label
<1>2. UNCHANGED <<shadow, pieces, queue, states, results, ownerFound, found, inPieces, reported, item>>
  BY DEF MovesOn
<1>3. PiecesInv' /\ QueueInv'
  BY <1>2 DEF Inv, PiecesInv, QueueInv, AnyItem, Queued
<1>4. TypeInv'
  BY <1>1, <1>2 DEF Inv, TypeInv, Queued
<1>5. \A b \in Checker : /\ Checking(b)' => Checking(b)
                         /\ Owns(b)' => Owns(b)
                         /\ pc'[b] = "callback" => pc[b] = "callback"
                         /\ pc'[b] \in {"queued", "piece", "compare"} => pc[b] = pc'[b]
                         /\ pc'[b] \in {"claim", "ownPiece", "wait", "asleep"} =>
                              pc[b] \in {"claim", "ownPiece", "wait", "asleep"}
  BY <1>1 DEF MovesOn, Checking, Owns
<1>6. ItemInv'
  BY <1>2, <1>5 DEF Inv, ItemInv, ItemOk, Queued
<1>7. ClaimInv'
  BY <1>2, <1>5, QuietClaims DEF Checking
<1> QED
  BY <1>3, <1>4, <1>6, <1>7 DEF Inv

LEMMA WhoMovesOn ==
    ASSUME NEW c \in Checker, Stop(c) \/ Sleep(c) \/ WakeUp(c) \/ ShadowCompare(c) \/ Panic(c)
    PROVE  \E l : MovesOn(c, l)
<1>1. CASE Stop(c)
  BY <1>1 DEF Stop, MovesOn, Owns
<1>2. CASE Sleep(c)
  BY <1>2 DEF Sleep, MovesOn, Owns
<1>3. CASE WakeUp(c)
  BY <1>3 DEF WakeUp, MovesOn, Owns
<1>4. CASE ShadowCompare(c)
  BY <1>4 DEF ShadowCompare, MovesOn, Owns
<1>5. CASE Panic(c)
  BY <1>5 DEF Panic, MovesOn, Owns
<1> QED
  BY <1>1, <1>2, <1>3, <1>4, <1>5

\* What a checker makes of the item it takes.
LEMMA StartFacts ==
    ASSUME TypeInv, PiecesInv, NEW c \in Checker, NEW it \in AnyItem, Start(c, it)
    PROVE  /\ UNCHANGED <<shadow, pieces, states, results, ownerFound, inPieces, reported>>
           /\ pc' \in [Checker -> Label] /\ \A b \in Checker : b # c => pc'[b] = pc[b]
           /\ item' \in [Checker -> [file : Nat, piece : Nat]]
           /\ \A b \in Checker : b # c => item'[b] = item[b] /\ found'[b] = found[b]
           /\ found' \in [Checker -> SUBSET Diag]
           /\ it.file \in File /\ item'[c].file = it.file
           /\ \/ /\ it.piece = 1 /\ pieces[it.file] # <<>> /\ pc'[c] = "claim"
                 /\ found'[c] = found[c] \cup PieceReports(c, it.file, 1)
              \/ /\ it.piece = 1 /\ pieces[it.file] = <<>> /\ pc'[c] = "callback"
                 /\ found'[c] = found[c]
              \/ /\ it.piece \in Queued(it.file) /\ it.piece # 1 /\ pc'[c] = "queued"
                 /\ item'[c] = it /\ found'[c] = found[c]
<1>0. it \in [file : File, piece : Nat] /\ (it.piece = 1 \/ it.piece \in Queued(it.file))
  BY DEF AnyItem
<1>1. it.file \in File /\ it.file \in Nat /\ it \in [file : Nat, piece : Nat]
  BY <1>0, FilesAreNumbers
<1>2. UNCHANGED <<shadow, pieces, states, results, ownerFound, inPieces, reported>>
  BY DEF Start
<1>3. CASE it.piece = 1 /\ pieces[it.file] # <<>>
  <2>1. /\ found' = [found EXCEPT ![c] = @ \cup PieceReports(c, it.file, 1)]
        /\ item' = [item EXCEPT ![c] = Item(it.file, 2)]
        /\ Go(c, "claim")
    BY <1>3 DEF Start, Finds
  <2>2. Item(it.file, 2) \in [file : Nat, piece : Nat] /\ Item(it.file, 2).file = it.file
    BY <1>1 DEF Item
  <2>3. PieceReports(c, it.file, 1) \subseteq Diag
    BY DEF PieceReports, Reports
  <2>4. found' \in [Checker -> SUBSET Diag] /\ found'[c] = found[c] \cup PieceReports(c, it.file, 1)
        /\ \A b \in Checker : b # c => found'[b] = found[b]
    BY <2>1, <2>3 DEF TypeInv
  <2>5. item' \in [Checker -> [file : Nat, piece : Nat]] /\ item'[c].file = it.file
        /\ \A b \in Checker : b # c => item'[b] = item[b]
    BY <2>1, <2>2 DEF TypeInv
  <2>6. /\ pc' \in [Checker -> Label]
        /\ pc'[c] = "claim" /\ \A b \in Checker : b # c => pc'[b] = pc[b]
    BY <2>1, GoFacts DEF Label
  <2> QED
    BY <1>1, <1>2, <1>3, <2>4, <2>5, <2>6
<1>4. CASE ~(it.piece = 1 /\ pieces[it.file] # <<>>)
  <2>1. /\ item' = [item EXCEPT ![c] = it] /\ found' = found
        /\ Go(c, IF it.piece = 1 THEN "callback" ELSE "queued")
    BY <1>4 DEF Start
  <2>2. item' \in [Checker -> [file : Nat, piece : Nat]] /\ item'[c] = it
        /\ \A b \in Checker : b # c => item'[b] = item[b]
    BY <1>1, <2>1 DEF TypeInv
  <2>3. found' \in [Checker -> SUBSET Diag]
    BY <2>1 DEF TypeInv
  <2>4. CASE it.piece = 1
    <3>1. Go(c, "callback") /\ "callback" \in Label
      BY <2>1, <2>4 DEF Label
    <3>2. /\ pc' \in [Checker -> Label]
          /\ pc'[c] = "callback" /\ \A b \in Checker : b # c => pc'[b] = pc[b]
      BY <3>1, GoFacts
    <3> QED
      BY <1>1, <1>2, <1>4, <2>1, <2>2, <2>3, <2>4, <3>2
  <2>5. CASE it.piece # 1
    <3>1. Go(c, "queued") /\ "queued" \in Label
      BY <2>1, <2>5 DEF Label
    <3>2. /\ pc' \in [Checker -> Label]
          /\ pc'[c] = "queued" /\ \A b \in Checker : b # c => pc'[b] = pc[b]
      BY <3>1, GoFacts
    <3> QED
      BY <1>0, <1>1, <1>2, <2>1, <2>2, <2>3, <2>5, <3>2
  <2> QED
    BY <2>4, <2>5
<1> QED
  BY <1>3, <1>4

LEMMA TakeInv ==
    ASSUME Inv, NEW c \in Checker, NEW q \in Checker, NEW r \in DOMAIN queue[q], NEW s \in {0, 1},
           pc[c] = "next", Takes(q, r, s), Start(c, queue[q][r])
    PROVE  Inv'
<1>1. PICK it \in AnyItem : it = queue[q][r] /\ Start(c, it)
  BY DEF Inv, QueueInv
<1>2. /\ UNCHANGED <<shadow, pieces, states, results, ownerFound, inPieces, reported>>
      /\ pc' \in [Checker -> Label] /\ \A b \in Checker : b # c => pc'[b] = pc[b]
      /\ item' \in [Checker -> [file : Nat, piece : Nat]]
      /\ \A b \in Checker : b # c => item'[b] = item[b]
      /\ found' \in [Checker -> SUBSET Diag]
      /\ it.file \in File /\ item'[c].file = it.file
  BY <1>1, StartFacts DEF Inv
<1>3. \/ pieces[it.file] # <<>> /\ pc'[c] = "claim"
      \/ pieces[it.file] = <<>> /\ pc'[c] = "callback"
      \/ it.piece \in Queued(it.file) /\ pc'[c] = "queued" /\ item'[c] = it
  BY <1>1, StartFacts DEF Inv
<1>4. PiecesInv' /\ QueueInv'
  BY <1>2, TakeKeepsQueues DEF Inv, PiecesInv
<1>5. TypeInv'
  BY <1>2 DEF Inv, TypeInv, Queued
<1>6. ItemInv'
  <2> SUFFICES ASSUME NEW b \in Checker PROVE ItemOk(b)'
    BY DEF ItemInv
  <2>1. CASE b = c
    <3>1. item'[c].file \in File /\ pieces' = pieces
      BY <1>2
    <3>2. \/ pieces'[item'[c].file] # <<>> /\ pc'[c] = "claim"
          \/ pc'[c] = "callback"
          \/ item'[c].piece \in 2 .. Len(pieces'[item'[c].file]) /\ pc'[c] = "queued"
      BY <1>2, <1>3 DEF Queued
    <3> QED
      BY <2>1, <3>1, <3>2 DEF ItemOk, Owns, Checking, Queued
  <2>2. CASE b # c
    <3>1. pc'[b] = pc[b] /\ item'[b] = item[b] /\ pieces' = pieces
      BY <1>2, <2>2
    <3>2. ItemOk(b)
      BY DEF Inv, ItemInv
    <3> QED
      BY <3>1, <3>2 DEF ItemOk, Owns, Checking, Queued
  <2> QED
    BY <2>1, <2>2
<1>7. ClaimInv'
  <2>1. \A b \in Checker : Checking(b)' => Checking(b) /\ item'[b] = item[b]
    BY <1>2, <1>3 DEF Checking
  <2>2. pieces[it.file] = <<>> => AllDone(it.file)
    BY DEF AllDone, Queued
  <2>3. \A b \in Checker : pc'[b] = "callback" =>
              (pc[b] = "callback" /\ item'[b] = item[b]) \/ AllDone(item'[b].file)
    BY <1>2, <1>3, <2>2
  <2> QED
    BY <1>2, <2>1, <2>3, QuietClaims
<1> QED
  BY <1>4, <1>5, <1>6, <1>7 DEF Inv

\* A claim of the piece that checker c has come to; it goes on at l.
Claims(c, l) ==
    /\ \/ pc[c] = "queued" /\ l = "piece"
       \/ pc[c] = "claim" /\ l = "ownPiece" /\ item[c].piece \in Queued(item[c].file)
    /\ Claim(item[c].file, item[c].piece)
    /\ Go(c, l)
    /\ UNCHANGED <<shadow, pieces, queue, results, ownerFound, found, inPieces, reported, item>>

LEMMA ClaimsInv ==
    ASSUME Inv, NEW c \in Checker, NEW l, Claims(c, l)
    PROVE  Inv'
<1> DEFINE f == item[c].file
           k == item[c].piece
<1>1. UNCHANGED <<shadow, pieces, queue, results, ownerFound, found, inPieces, reported, item>>
  BY DEF Claims
<1>2. /\ pc' \in [Checker -> Label]
      /\ pc'[c] = l /\ \A b \in Checker : b # c => pc'[b] = pc[b]
  BY GoFacts DEF Claims, Inv, Label
<1>3. f \in File /\ k \in Queued(f)
  BY DEF Claims, Inv, ItemInv, ItemOk, Owns
<1>4. /\ states[f][k] = "notStarted" /\ states' = [states EXCEPT ![f][k] = "running"]
      /\ DOMAIN states = File /\ \A g \in File : states[g] \in [Queued(g) -> PieceState]
  BY DEF Claims, Claim, Inv, TypeInv
<1>5. /\ DOMAIN states' = File /\ \A g \in File : states'[g] \in [Queued(g) -> PieceState]
      /\ states'[f][k] = "running"
      /\ \A g \in File : \A j \in Queued(g) : g # f \/ j # k => states'[g][j] = states[g][j]
  BY <1>3, <1>4 DEF PieceState
<1>6. l \in {"piece", "ownPiece"} /\ (l = "ownPiece" => pc[c] = "claim") /\ ~Checking(c)
  BY DEF Claims, Checking
<1>7. \A b \in Checker : Checking(b)' => b = c \/ Checking(b)
  BY <1>2 DEF Checking
<1>8. \A g : Queued(g)' = Queued(g)
  BY <1>1 DEF Queued
<1>9. PiecesInv' /\ QueueInv'
  BY <1>1 DEF Inv, PiecesInv, QueueInv, AnyItem, Queued
<1>10. TypeInv'
  BY <1>1, <1>2, <1>5, <1>8 DEF Inv, TypeInv
<1>11. ItemInv'
  <2> SUFFICES ASSUME NEW b \in Checker PROVE ItemOk(b)'
    BY DEF ItemInv
  <2>1. ItemOk(b) /\ pieces' = pieces /\ item' = item
    BY <1>1 DEF Inv, ItemInv
  <2>2. CASE b = c
    <3>1. l = "ownPiece" => pieces[f] # <<>>
      BY <1>6, <2>1, <2>2 DEF ItemOk
    <3> QED
      BY <1>2, <1>3, <1>6, <2>1, <2>2, <3>1 DEF ItemOk, Owns, Checking, Queued
  <2>3. CASE b # c
    BY <1>2, <2>1, <2>3 DEF ItemOk, Owns, Checking, Queued
  <2> QED
    BY <2>2, <2>3
<1>12. \A b \in Checker : Checking(b) => /\ states[item[b].file][item[b].piece] = "running"
                                        /\ item[b].file \in File /\ item[b].piece \in Queued(item[b].file)
  BY DEF Inv, ClaimInv, ItemInv, ItemOk, Checking, Owns
<1>13. \A b \in Checker : Checking(b) => item[b].file # f \/ item[b].piece # k
  BY <1>4, <1>12
<1> HIDE DEF f, k
<1>14. \A b \in Checker : Checking(b)' => states'[item'[b].file][item'[b].piece] = "running"
  <2> SUFFICES ASSUME NEW b \in Checker, Checking(b)'
               PROVE  states'[item[b].file][item[b].piece] = "running"
    BY <1>1
  <2>1. CASE b = c
    BY <1>5, <2>1 DEF f, k
  <2>2. CASE b # c
    BY <1>5, <1>7, <1>12, <1>13, <2>2
  <2> QED
    BY <2>1, <2>2
<1>15. \A a, b \in Checker : Checking(a)' /\ Checking(b)' /\ item'[a] = item'[b] => a = b
  <2>1. \A b \in Checker : Checking(b) => item[b] # item[c]
    BY <1>13 DEF f, k
  <2> QED
    BY <1>1, <1>7, <2>1 DEF Inv, ClaimInv
<1>16. \A g \in File : \A j \in Queued(g) : states'[g][j] = "done" <=> states[g][j] = "done"
  BY <1>3, <1>4, <1>5
<1>17. \A g \in File : AllDone(g)' <=> AllDone(g)
  BY <1>8, <1>16 DEF AllDone
<1>18. \A g \in File : \A j \in Queued(g)' : HasResult(g, j)' <=> states'[g][j] = "done"
  BY <1>1, <1>8, <1>16 DEF Inv, ClaimInv, HasResult
<1>19. \A b \in Checker : (pc[b] = "callback" => AllDone(item[b].file))'
  <2> SUFFICES ASSUME NEW b \in Checker, pc'[b] = "callback" PROVE AllDone(item[b].file)'
    OBVIOUS
  <2>1. pc[b] = "callback" /\ item'[b] = item[b]
    BY <1>1, <1>2, <1>6
  <2>2. item[b].file \in File /\ AllDone(item[b].file)
    BY <2>1 DEF Inv, ItemInv, ItemOk, Owns, ClaimInv
  <2>3. PICK g \in File : g = item[b].file /\ AllDone(g)
    BY <2>2
  <2>4. AllDone(g)' /\ g = item'[b].file
    BY <1>17, <2>1, <2>3
  <2> QED
    BY <2>4 DEF AllDone
<1>20. \A g \in File : reported'[g].by # None => AllDone(g)'
  BY <1>1, <1>17 DEF Inv, ClaimInv
<1>21. /\ \A g \in File : \A i \in DOMAIN results'[g] : results'[g][i].piece \in Queued(g)'
       /\ \A g \in File : \A i, j \in DOMAIN results'[g] :
            results'[g][i].piece = results'[g][j].piece => i = j
  BY <1>1, <1>8 DEF Inv, ClaimInv
<1>22. ClaimInv'
  BY <1>14, <1>15, <1>18, <1>19, <1>20, <1>21 DEF ClaimInv
<1> QED
  BY <1>9, <1>10, <1>11, <1>22 DEF Inv

\* The end of the piece checker c was checking, with result r; it goes on at l.
Finishes(c, l, r) ==
    /\ \/ pc[c] = "piece" /\ l = "next" /\ item' = item
       \/ pc[c] = "ownPiece" /\ l = "claim" /\ item' = [item EXCEPT ![c].piece = @ + 1]
    /\ r \in Result /\ r.piece = item[c].piece
    /\ results' = [results EXCEPT ![item[c].file] = Append(@, r)]
    /\ states' = [states EXCEPT ![item[c].file][item[c].piece] = "done"]
    /\ pc' = Awakened(c, item[c].file, l)
    /\ Finds(c, PieceReports(c, item[c].file, item[c].piece))
    /\ UNCHANGED <<shadow, pieces, queue, ownerFound, inPieces, reported>>

LEMMA FindsType ==
    ASSUME TypeInv, NEW c \in Checker, NEW ds \in SUBSET Diag, Finds(c, ds)
    PROVE  /\ found' \in [Checker -> SUBSET Diag] /\ found'[c] = found[c] \cup ds
           /\ \A b \in Checker : b # c => found'[b] = found[b]
BY DEF Finds, TypeInv

LEMMA AppendResult ==
    ASSUME NEW rs \in Seq(Result), NEW r \in Result
    PROVE  /\ Append(rs, r) \in Seq(Result)
           /\ DOMAIN Append(rs, r) = DOMAIN rs \cup {Len(rs) + 1}
           /\ Len(rs) + 1 \notin DOMAIN rs
           /\ Append(rs, r)[Len(rs) + 1] = r
           /\ \A i \in DOMAIN rs : Append(rs, r)[i] = rs[i]
<1>1. Len(rs) \in Nat /\ DOMAIN rs = 1 .. Len(rs)
  OBVIOUS
<1>2. /\ Append(rs, r) \in Seq(Result) /\ Len(Append(rs, r)) = Len(rs) + 1
      /\ \A i \in 1 .. Len(rs) : Append(rs, r)[i] = rs[i]
      /\ Append(rs, r)[Len(rs) + 1] = r
  BY AppendProperties
<1>3. DOMAIN Append(rs, r) = 1 .. Len(rs) + 1
  BY <1>2, LenProperties
<1> QED
  BY <1>1, <1>2, <1>3

LEMMA FinishFacts ==
    ASSUME Inv, NEW c \in Checker, NEW l, NEW r, Finishes(c, l, r)
    PROVE  LET f == item[c].file
               k == item[c].piece
           IN /\ f \in File /\ k \in Queued(f)
              /\ pc' \in [Checker -> Label] /\ pc'[c] = l
              /\ \A b \in Checker : b # c => pc'[b] = pc[b] \/ (pc[b] = "asleep" /\ pc'[b] = "wait")
              /\ item' \in [Checker -> [file : Nat, piece : Nat]] /\ item'[c].file = f
              /\ \A b \in Checker : b # c => item'[b] = item[b]
              /\ results' \in [File -> Seq(Result)] /\ results'[f] = Append(results[f], r)
              /\ \A g \in File : g # f => results'[g] = results[g]
              /\ DOMAIN states' = File /\ \A g \in File : states'[g] \in [Queued(g) -> PieceState]
              /\ states'[f][k] = "done"
              /\ \A g \in File : \A j \in Queued(g) : g # f \/ j # k => states'[g][j] = states[g][j]
<1> DEFINE f == item[c].file
           k == item[c].piece
<1>1. f \in File /\ k \in Queued(f)
  BY DEF Finishes, Inv, ItemInv, ItemOk, Owns, Checking
<1>2. l \in {"next", "claim"} /\ pc' = Awakened(c, f, l) /\ pc \in [Checker -> Label]
  BY DEF Finishes, Inv, TypeInv
<1>3. /\ pc' \in [Checker -> Label] /\ pc'[c] = l
      /\ \A b \in Checker : b # c => pc'[b] = pc[b] \/ (pc[b] = "asleep" /\ pc'[b] = "wait")
  BY <1>2 DEF Awakened, Label
<1>4. item \in [Checker -> [file : Nat, piece : Nat]] /\ item[c] \in [file : Nat, piece : Nat]
  BY DEF Inv, TypeInv
<1>5. /\ item' \in [Checker -> [file : Nat, piece : Nat]] /\ item'[c].file = f
      /\ \A b \in Checker : b # c => item'[b] = item[b]
  <2>1. CASE item' = item
    BY <1>4, <2>1
  <2>2. CASE item' = [item EXCEPT ![c].piece = @ + 1]
    BY <1>4, <2>2
  <2> QED
    BY <2>1, <2>2 DEF Finishes
<1>6. /\ results' \in [File -> Seq(Result)] /\ results'[f] = Append(results[f], r)
      /\ \A g \in File : g # f => results'[g] = results[g]
  <2>1. /\ results \in [File -> Seq(Result)] /\ r \in Result
        /\ results' = [results EXCEPT ![f] = Append(results[f], r)]
    BY DEF Finishes, Inv, TypeInv
  <2>2. results[f] \in Seq(Result)
    BY <1>1, <2>1
  <2>3. Append(results[f], r) \in Seq(Result)
    BY <2>1, <2>2, AppendResult
  <2> HIDE DEF f
  <2> QED
    BY <1>1, <2>1, <2>3
<1>7. /\ states' = [states EXCEPT ![f][k] = "done"]
      /\ DOMAIN states = File /\ \A g \in File : states[g] \in [Queued(g) -> PieceState]
  BY DEF Finishes, Inv, TypeInv
<1>8. /\ DOMAIN states' = File /\ \A g \in File : states'[g] \in [Queued(g) -> PieceState]
      /\ states'[f][k] = "done"
      /\ \A g \in File : \A j \in Queued(g) : g # f \/ j # k => states'[g][j] = states[g][j]
  <2> HIDE DEF f, k
  <2> QED
    BY <1>1, <1>7 DEF PieceState
<1> HIDE DEF f, k
<1> QED
  BY <1>1, <1>3, <1>5, <1>6, <1>8, Zenon DEF f, k

LEMMA FinishesInv ==
    ASSUME Inv, NEW c \in Checker, NEW l, NEW r, Finishes(c, l, r)
    PROVE  Inv'
<1> DEFINE f == item[c].file
           k == item[c].piece
<1>1. UNCHANGED <<shadow, pieces, queue, ownerFound, inPieces, reported>>
  BY DEF Finishes
<1>2. /\ (pc[c] = "piece" /\ l = "next") \/ (pc[c] = "ownPiece" /\ l = "claim")
      /\ r \in Result /\ r.piece = k
  BY DEF Finishes
<1>3. /\ f \in File /\ k \in Queued(f)
      /\ pc' \in [Checker -> Label] /\ pc'[c] = l
      /\ \A b \in Checker : b # c => pc'[b] = pc[b] \/ (pc[b] = "asleep" /\ pc'[b] = "wait")
  BY FinishFacts
<1>4. /\ item' \in [Checker -> [file : Nat, piece : Nat]] /\ item'[c].file = f
      /\ \A b \in Checker : b # c => item'[b] = item[b]
  BY FinishFacts
<1>5. /\ results' \in [File -> Seq(Result)] /\ results'[f] = Append(results[f], r)
      /\ \A g \in File : g # f => results'[g] = results[g]
  BY FinishFacts
<1>6. /\ DOMAIN states' = File /\ \A g \in File : states'[g] \in [Queued(g) -> PieceState]
      /\ states'[f][k] = "done"
      /\ \A g \in File : \A j \in Queued(g) : g # f \/ j # k => states'[g][j] = states[g][j]
  BY FinishFacts
<1>7. Checking(c) /\ \A b \in Checker : Checking(b)' => b # c /\ Checking(b) /\ item'[b] = item[b]
  BY <1>2, <1>3, <1>4 DEF Checking
<1>8. \A g : Queued(g)' = Queued(g)
  BY <1>1 DEF Queued
<1>9. PiecesInv' /\ QueueInv'
  BY <1>1 DEF Inv, PiecesInv, QueueInv, AnyItem, Queued
<1>10. TypeInv'
  <2>1. PieceReports(c, f, k) \subseteq Diag
    BY DEF PieceReports, Reports
  <2>2. found' \in [Checker -> SUBSET Diag]
    BY <2>1, FindsType DEF Finishes, Inv
  <2> HIDE DEF f, k
  <2> QED
    BY <1>1, <1>3, <1>4, <1>5, <1>6, <1>8, <2>2 DEF Inv, TypeInv
<1>11. ItemInv'
  <2> SUFFICES ASSUME NEW b \in Checker PROVE ItemOk(b)'
    BY DEF ItemInv
  <2>1. ItemOk(b) /\ pieces' = pieces
    BY <1>1 DEF Inv, ItemInv
  <2>2. CASE b = c
    <3>1. pc[c] = "ownPiece" => pieces[f] # <<>>
      BY <2>1, <2>2 DEF ItemOk
    <3>2. pc'[c] = "next" \/ (pc'[c] = "claim" /\ pieces'[item'[c].file] # <<>> /\ item'[c].file \in File)
      BY <1>2, <1>3, <1>4, <2>1, <3>1
    <3> QED
      BY <2>2, <3>2 DEF ItemOk, Owns, Checking
  <2>3. CASE b # c
    <3>1. item'[b] = item[b] /\ (pc'[b] = pc[b] \/ (pc[b] = "asleep" /\ pc'[b] = "wait"))
      BY <1>3, <1>4, <2>3
    <3> QED
      BY <2>1, <3>1 DEF ItemOk, Owns, Checking, Queued
  <2> QED
    BY <2>2, <2>3
<1>12. \A b \in Checker : Checking(b) => /\ states[item[b].file][item[b].piece] = "running"
                                        /\ item[b].file \in File /\ item[b].piece \in Queued(item[b].file)
                                        /\ item[b] \in [file : Nat, piece : Nat]
  BY DEF Inv, ClaimInv, ItemInv, ItemOk, Checking, Owns, TypeInv
<1>13. \A b \in Checker : Checking(b) /\ b # c => item[b].file # f \/ item[b].piece # k
  <2> SUFFICES ASSUME NEW b \in Checker, Checking(b), b # c, item[b].file = f, item[b].piece = k
               PROVE  FALSE
    OBVIOUS
  <2>1. item[b] \in [file : Nat, piece : Nat] /\ item[c] \in [file : Nat, piece : Nat]
    BY <1>7, <1>12
  <2>2. item[b] = item[c]
    BY <2>1
  <2> QED
    BY <1>7, <2>2 DEF Inv, ClaimInv
<1>14. states[f][k] = "running" /\ results[f] \in Seq(Result)
  BY <1>3, <1>7, <1>12 DEF Inv, TypeInv
<1> HIDE DEF f, k
<1>15. \A b \in Checker : Checking(b)' => states'[item'[b].file][item'[b].piece] = "running"
  BY <1>6, <1>7, <1>12, <1>13
<1>16. \A a, b \in Checker : Checking(a)' /\ Checking(b)' /\ item'[a] = item'[b] => a = b
  BY <1>7 DEF Inv, ClaimInv
<1>17. \A g \in File : \A j \in Queued(g) : states[g][j] = "done" => states'[g][j] = "done"
  BY <1>3, <1>6
<1>18. \A g \in File : AllDone(g) => AllDone(g)'
  BY <1>8, <1>17 DEF AllDone
<1> DEFINE n == Len(results[f]) + 1
<1>19. /\ DOMAIN results'[f] = DOMAIN results[f] \cup {n} /\ n \notin DOMAIN results[f]
       /\ results'[f][n] = r
       /\ \A i \in DOMAIN results[f] : results'[f][i] = results[f][i]
  BY <1>2, <1>5, <1>14, AppendResult
<1> HIDE DEF n
<1>20. ~HasResult(f, k)
  BY <1>3, <1>14 DEF Inv, ClaimInv
<1>21. \A g \in File : \A j \in Queued(g)' : HasResult(g, j)' <=> states'[g][j] = "done"
  <2> SUFFICES ASSUME NEW g \in File, NEW j \in Queued(g)
               PROVE  HasResult(g, j)' <=> states'[g][j] = "done"
    BY <1>8
  <2>1. HasResult(g, j) <=> states[g][j] = "done"
    BY DEF Inv, ClaimInv
  <2>2. CASE g # f
    BY <1>5, <1>6, <2>1, <2>2 DEF HasResult
  <2>3. CASE g = f /\ j # k
    BY <1>2, <1>6, <1>19, <2>1, <2>3 DEF HasResult
  <2>4. CASE g = f /\ j = k
    BY <1>2, <1>6, <1>19, <2>4 DEF HasResult
  <2> QED
    BY <2>2, <2>3, <2>4
<1>22. \A g \in File : \A i \in DOMAIN results'[g] : results'[g][i].piece \in Queued(g)'
  <2> SUFFICES ASSUME NEW g \in File, NEW i \in DOMAIN results'[g]
               PROVE  results'[g][i].piece \in Queued(g)
    BY <1>8
  <2>1. CASE g # f
    BY <1>5, <2>1 DEF Inv, ClaimInv
  <2>2. CASE g = f
    BY <1>2, <1>3, <1>19, <2>2 DEF Inv, ClaimInv
  <2> QED
    BY <2>1, <2>2
<1>23. \A g \in File : \A i, j \in DOMAIN results'[g] :
         results'[g][i].piece = results'[g][j].piece => i = j
  <2> SUFFICES ASSUME NEW g \in File, NEW i \in DOMAIN results'[g], NEW j \in DOMAIN results'[g],
                      results'[g][i].piece = results'[g][j].piece
               PROVE  i = j
    OBVIOUS
  <2>1. \A x, y \in DOMAIN results[g] : results[g][x].piece = results[g][y].piece => x = y
    BY DEF Inv, ClaimInv
  <2>2. CASE g # f
    BY <1>5, <2>1, <2>2
  <2>3. CASE g = f
    <3>1. \A x \in DOMAIN results[f] : results[f][x].piece # k
      BY <1>20 DEF HasResult
    <3> QED
      BY <1>2, <1>19, <2>1, <2>3, <3>1
  <2> QED
    BY <2>2, <2>3
<1>24. \A b \in Checker : (pc[b] = "callback" => AllDone(item[b].file))'
  <2> SUFFICES ASSUME NEW b \in Checker, pc'[b] = "callback" PROVE AllDone(item[b].file)'
    OBVIOUS
  <2>1. pc[b] = "callback" /\ item'[b] = item[b]
    BY <1>2, <1>3, <1>4
  <2>2. item[b].file \in File /\ AllDone(item[b].file)
    BY <2>1 DEF Inv, ItemInv, ItemOk, Owns, ClaimInv
  <2>3. PICK g \in File : g = item[b].file /\ AllDone(g)
    BY <2>2
  <2>4. AllDone(g)' /\ g = item'[b].file
    BY <1>18, <2>1, <2>3
  <2> QED
    BY <2>4 DEF AllDone
<1>25. \A g \in File : reported'[g].by # None => AllDone(g)'
  BY <1>1, <1>18 DEF Inv, ClaimInv
<1>26. ClaimInv'
  BY <1>15, <1>16, <1>21, <1>22, <1>23, <1>24, <1>25 DEF ClaimInv
<1> QED
  BY <1>9, <1>10, <1>11, <1>26 DEF Inv

LEMMA ReportsFacts ==
    ASSUME TypeInv, NEW c \in Checker, NEW f \in File
    PROVE  /\ \A k : PieceReports(c, f, k) \subseteq Diag /\ Added(c, f, k) \subseteq Diag
           /\ \A ss : Reports(f, ss) \subseteq Diag
           /\ \A is \in SUBSET DOMAIN results[f] : Found(f, is) \subseteq Diag
<1>1. /\ \A ss : Reports(f, ss) \subseteq Diag
      /\ \A k : PieceReports(c, f, k) \subseteq Diag
  BY DEF PieceReports, Reports
<1>2. \A k : Added(c, f, k) \subseteq Diag
  BY <1>1 DEF Added, InFile
<1>3. results[f] \in Seq(Result)
  BY DEF TypeInv
<1>4. \A i \in DOMAIN results[f] : results[f][i] \in Result
  BY <1>3
<1>5. \A i \in DOMAIN results[f] : results[f][i].diagnostics \subseteq Diag
  BY <1>4 DEF Result
<1>6. \A is \in SUBSET DOMAIN results[f] : Found(f, is) \subseteq Diag
  BY <1>5 DEF Found
<1> QED
  BY <1>1, <1>2, <1>6

LEMMA MergeInv ==
    ASSUME Inv, NEW c \in Checker, Merge(c)
    PROVE  Inv'
<1> DEFINE f == item[c].file
<1>1. /\ pc[c] = "wait" /\ AllDone(f) /\ Go(c, "callback")
      /\ inPieces' = [inPieces EXCEPT ![c] = f]
      /\ UNCHANGED <<shadow, pieces, queue, states, results, reported, item>>
  BY DEF Merge
<1>2. f \in File
  BY <1>1 DEF Inv, ItemInv, ItemOk, Owns
<1>3. /\ pc' \in [Checker -> Label]
      /\ pc'[c] = "callback" /\ \A b \in Checker : b # c => pc'[b] = pc[b]
  BY <1>1, GoFacts DEF Inv, Label
<1>4. found' \in [Checker -> SUBSET Diag] /\ ownerFound' \in [File -> SUBSET Diag]
  <2> DEFINE others == {results[f][i].piece : i \in ByOther(f)}
             ds == IF shadow THEN UNION {PieceReports(c, f, k) : k \in others}
                             ELSE Found(f, DOMAIN results[f])
             own == UNION {Added(c, f, k) : k \in others}
  <2>1. ds \subseteq Diag /\ own \subseteq Diag
    <3>1. /\ \A k : PieceReports(c, f, k) \subseteq Diag /\ Added(c, f, k) \subseteq Diag
          /\ Found(f, DOMAIN results[f]) \subseteq Diag
      BY <1>2, ReportsFacts DEF Inv
    <3> HIDE DEF f, others
    <3> QED
      BY <3>1
  <2>2. Finds(c, ds) /\ (ownerFound' = [ownerFound EXCEPT ![f] = own] \/ ownerFound' = ownerFound)
    <3>1. CASE shadow
      BY <3>1 DEF Merge
    <3>2. CASE ~shadow
      BY <3>2 DEF Merge
    <3> QED
      BY <3>1, <3>2
  <2> HIDE DEF ds, own, f
  <2>3. found' \in [Checker -> SUBSET Diag]
    BY <2>1, <2>2, FindsType DEF Inv
  <2>4. ownerFound' \in [File -> SUBSET Diag]
    BY <2>1, <2>2 DEF Inv, TypeInv
  <2> QED
    BY <2>3, <2>4
<1>5. PiecesInv' /\ QueueInv'
  BY <1>1 DEF Inv, PiecesInv, QueueInv, AnyItem, Queued
<1>6. TypeInv'
  <2>1. inPieces' \in [Checker -> File \cup {None}]
    BY <1>1, <1>2 DEF Inv, TypeInv
  <2> QED
    BY <1>1, <1>3, <1>4, <2>1 DEF Inv, TypeInv, Queued
<1>7. ItemInv'
  <2> SUFFICES ASSUME NEW b \in Checker PROVE ItemOk(b)'
    BY DEF ItemInv
  <2>1. ItemOk(b)
    BY DEF Inv, ItemInv
  <2>2. CASE b = c
    BY <1>1, <1>2, <1>3, <2>2 DEF ItemOk, Owns, Checking
  <2>3. CASE b # c
    BY <1>1, <1>3, <2>1, <2>3 DEF ItemOk, Owns, Checking, Queued
  <2> QED
    BY <2>2, <2>3
<1>8. ClaimInv'
  <2>1. \A b \in Checker : Checking(b)' => Checking(b) /\ item'[b] = item[b]
    BY <1>1, <1>3 DEF Checking
  <2>2. \A b \in Checker : pc'[b] = "callback" =>
              (pc[b] = "callback" /\ item'[b] = item[b]) \/ AllDone(item'[b].file)
    BY <1>1, <1>3
  <2> QED
    BY <1>1, <2>1, <2>2, QuietClaims
<1> QED
  BY <1>5, <1>6, <1>7, <1>8 DEF Inv

LEMMA CallbackInv ==
    ASSUME Inv, NEW c \in Checker, Callback(c)
    PROVE  Inv'
<1> DEFINE f == item[c].file
           ss == {FileLevel} \cup (IF inPieces[c] = f THEN {} ELSE 1 .. Statements[f])
           all == found[c] \cup Reports(f, ss)
           l == IF shadow /\ pieces[f] # <<>> THEN "compare" ELSE "next"
<1>1. /\ pc[c] = "callback"
      /\ found' = [found EXCEPT ![c] = all]
      /\ reported' = [reported EXCEPT ![f] = [by |-> c, diagnostics |-> InFile(f, all)]]
      /\ Go(c, l)
      /\ inPieces' = [inPieces EXCEPT ![c] = None]
      /\ UNCHANGED <<shadow, pieces, queue, states, results, ownerFound, item>>
  BY DEF Callback
<1>2. f \in File /\ AllDone(f)
  BY <1>1 DEF Inv, ItemInv, ItemOk, Owns, ClaimInv
<1>3. /\ pc' \in [Checker -> Label]
      /\ pc'[c] \in {"compare", "next"} /\ \A b \in Checker : b # c => pc'[b] = pc[b]
  <2>1. l \in {"compare", "next"}
    OBVIOUS
  <2> HIDE DEF l
  <2> QED
    BY <1>1, <2>1, GoFacts DEF Inv, Label
<1>4. all \subseteq Diag /\ InFile(f, all) \subseteq Diag
  <2>1. Reports(f, ss) \subseteq Diag
    BY <1>2, ReportsFacts DEF Inv
  <2>2. found[c] \subseteq Diag
    BY DEF Inv, TypeInv
  <2> QED
    BY <2>1, <2>2 DEF InFile
<1> HIDE DEF all, l, ss
<1>5. PiecesInv' /\ QueueInv'
  BY <1>1 DEF Inv, PiecesInv, QueueInv, AnyItem, Queued
<1>6. TypeInv'
  <2>1. found' \in [Checker -> SUBSET Diag]
    BY <1>1, <1>4 DEF Inv, TypeInv
  <2>2. reported' \in [File -> [by : Checker \cup {None}, diagnostics : SUBSET Diag]]
    BY <1>1, <1>2, <1>4 DEF Inv, TypeInv
  <2>3. inPieces' \in [Checker -> File \cup {None}]
    BY <1>1 DEF Inv, TypeInv
  <2> QED
    BY <1>1, <1>3, <2>1, <2>2, <2>3 DEF Inv, TypeInv, Queued
<1>7. ItemInv'
  <2> SUFFICES ASSUME NEW b \in Checker PROVE ItemOk(b)'
    BY DEF ItemInv
  <2>1. ItemOk(b)
    BY DEF Inv, ItemInv
  <2>2. CASE b = c
    BY <1>1, <1>2, <1>3, <2>2 DEF ItemOk, Owns, Checking
  <2>3. CASE b # c
    BY <1>1, <1>3, <2>1, <2>3 DEF ItemOk, Owns, Checking, Queued
  <2> QED
    BY <2>2, <2>3
<1>8. ClaimInv'
  <2>1. \A b \in Checker : Checking(b)' => Checking(b) /\ item'[b] = item[b]
    BY <1>1, <1>3 DEF Checking
  <2>2. \A b \in Checker : pc'[b] = "callback" =>
              (pc[b] = "callback" /\ item'[b] = item[b]) \/ AllDone(item'[b].file)
    BY <1>1, <1>3
  <2>3. \A g \in File : reported'[g].by # None => reported[g].by # None \/ AllDone(g)
    BY <1>1, <1>2 DEF Inv, TypeInv
  <2> QED
    BY <1>1, <2>1, <2>2, <2>3, QuietClaims
<1> QED
  BY <1>5, <1>6, <1>7, <1>8 DEF Inv

\* The owner leaves a piece to the checker that has claimed it.
Skips(c) ==
    /\ pc[c] = "claim"
    /\ item' = [item EXCEPT ![c].piece = @ + 1]
    /\ UNCHANGED <<shadow, pieces, queue, states, results, ownerFound, found, inPieces, reported, pc>>

LEMMA SkipsInv ==
    ASSUME Inv, NEW c \in Checker, Skips(c)
    PROVE  Inv'
<1>1. /\ pc[c] = "claim" /\ item' = [item EXCEPT ![c].piece = @ + 1]
      /\ UNCHANGED <<shadow, pieces, queue, states, results, ownerFound, found, inPieces, reported, pc>>
  BY DEF Skips
<1>2. item \in [Checker -> [file : Nat, piece : Nat]] /\ item[c] \in [file : Nat, piece : Nat]
  BY DEF Inv, TypeInv
<1>3. /\ item' \in [Checker -> [file : Nat, piece : Nat]] /\ item'[c].file = item[c].file
      /\ \A b \in Checker : b # c => item'[b] = item[b]
  BY <1>1, <1>2
<1>4. PiecesInv' /\ QueueInv'
  BY <1>1 DEF Inv, PiecesInv, QueueInv, AnyItem, Queued
<1>5. TypeInv'
  BY <1>1, <1>3 DEF Inv, TypeInv, Queued
<1>6. ItemInv'
  <2> SUFFICES ASSUME NEW b \in Checker PROVE ItemOk(b)'
    BY DEF ItemInv
  <2>1. ItemOk(b)
    BY DEF Inv, ItemInv
  <2>2. CASE b = c
    BY <1>1, <1>3, <2>1, <2>2 DEF ItemOk, Owns, Checking
  <2>3. CASE b # c
    BY <1>1, <1>3, <2>1, <2>3 DEF ItemOk, Owns, Checking, Queued
  <2> QED
    BY <2>2, <2>3
<1>7. ClaimInv'
  <2>1. \A b \in Checker : Checking(b)' => Checking(b) /\ item'[b] = item[b]
    BY <1>1, <1>3 DEF Checking
  <2>2. \A b \in Checker : pc'[b] = "callback" =>
              (pc[b] = "callback" /\ item'[b] = item[b]) \/ AllDone(item'[b].file)
    BY <1>1, <1>3
  <2> QED
    BY <1>1, <2>1, <2>2, QuietClaims
<1> QED
  BY <1>4, <1>5, <1>6, <1>7 DEF Inv

LEMMA WhoFinishes ==
    ASSUME Inv, NEW c \in Checker, FinishQueuedPiece(c) \/ FinishOwnPiece(c)
    PROVE  \E l, r : /\ Finishes(c, l, r)
                     /\ IF pc[c] = "piece"
                          THEN r.byOther /\ r.diagnostics = Added(c, item[c].file, item[c].piece)
                          ELSE ~r.byOther /\ r.diagnostics = {}
<1> DEFINE f == item[c].file
           k == item[c].piece
<1>1. f \in File /\ k \in Nat
  BY DEF FinishQueuedPiece, FinishOwnPiece, Inv, ItemInv, ItemOk, Owns, Checking, TypeInv
<1>2. CASE FinishQueuedPiece(c)
  <2> DEFINE r == [piece |-> k, byOther |-> TRUE, diagnostics |-> Added(c, f, k)]
  <2>1. r \in Result
    BY <1>1, ReportsFacts DEF Result, Inv
  <2>2. Finishes(c, "next", r)
    BY <1>2, <2>1 DEF FinishQueuedPiece, Finish, Finishes
  <2>3. pc[c] = "piece" /\ r.byOther /\ r.diagnostics = Added(c, f, k)
    BY <1>2 DEF FinishQueuedPiece
  <2> QED
    BY <2>2, <2>3
<1>3. CASE FinishOwnPiece(c)
  <2> DEFINE r == [piece |-> k, byOther |-> FALSE, diagnostics |-> {}]
  <2>1. r \in Result
    BY <1>1 DEF Result
  <2>2. item' = [item EXCEPT ![c].piece = @ + 1]
    BY <1>3 DEF FinishOwnPiece
  <2>3. Finishes(c, "claim", r)
    BY <1>3, <2>1, <2>2 DEF FinishOwnPiece, Finish, Finishes
  <2>4. pc[c] # "piece" /\ ~r.byOther /\ r.diagnostics = {}
    BY <1>3 DEF FinishOwnPiece
  <2> QED
    BY <2>3, <2>4
<1> QED
  BY <1>2, <1>3

LEMMA WhoClaims ==
    ASSUME NEW c \in Checker, RunQueuedPiece(c) \/ RunOwner(c)
    PROVE  (\E l : Claims(c, l)) \/ Skips(c) \/ \E l : MovesOn(c, l) /\ l \in {"next", "wait"}
<1>1. CASE RunQueuedPiece(c)
  <2>1. CASE Claim(item[c].file, item[c].piece) /\ Go(c, "piece")
    <3>1. Claims(c, "piece")
      BY <1>1, <2>1 DEF RunQueuedPiece, Claims
    <3> QED
      BY <3>1
  <2>2. CASE Claimed(item[c].file, item[c].piece) /\ Go(c, "next")
    <3>1. MovesOn(c, "next")
      BY <1>1, <2>2 DEF RunQueuedPiece, Claimed, MovesOn, Owns
    <3> QED
      BY <3>1
  <2> QED
    BY <1>1, <2>1, <2>2 DEF RunQueuedPiece
<1>2. CASE RunOwner(c)
  <2> DEFINE f == item[c].file
             k == item[c].piece
  <2>0. pc[c] = "claim" /\ UNCHANGED <<shadow, pieces, queue, results, ownerFound, found, inPieces, reported>>
    BY <1>2 DEF RunOwner
  <2>1. CASE k \in Queued(f) /\ Claim(f, k) /\ Go(c, "ownPiece") /\ UNCHANGED item
    <3>1. Claims(c, "ownPiece")
      BY <2>0, <2>1 DEF Claims
    <3> QED
      BY <3>1
  <2>2. CASE Claimed(f, k) /\ item' = [item EXCEPT ![c].piece = k + 1] /\ UNCHANGED pc
    BY <2>0, <2>2 DEF Claimed, Skips
  <2>3. CASE Go(c, "wait") /\ UNCHANGED <<states, item>>
    <3>1. MovesOn(c, "wait")
      BY <2>0, <2>3 DEF MovesOn, Owns
    <3> QED
      BY <3>1
  <2> QED
    BY <1>2, <2>1, <2>2, <2>3 DEF RunOwner
<1> QED
  BY <1>1, <1>2

LEMMA StepInv ==
    ASSUME Inv, [Next]_vars
    PROVE  Inv'
<1>1. CASE UNCHANGED vars
  BY <1>1 DEF vars, Inv, PiecesInv, QueueInv, AnyItem, Queued, TypeInv, ItemInv, ItemOk, Owns, Checking,
              ClaimInv, HasResult, AllDone
<1>2. ASSUME NEW c \in Checker, CheckerStep(c) \/ WakeUp(c) \/ Panic(c)
      PROVE  Inv'
  <2>1. CASE TakeOwn(c) \/ Steal(c)
    BY <2>1, TakeFacts, TakeInv DEF Inv
  <2>2. CASE Stop(c) \/ Sleep(c) \/ WakeUp(c) \/ ShadowCompare(c) \/ Panic(c)
    BY <2>2, WhoMovesOn, MovesOnInv
  <2>3. CASE RunQueuedPiece(c) \/ RunOwner(c)
    BY <2>3, WhoClaims, ClaimsInv, SkipsInv, MovesOnInv
  <2>4. CASE FinishQueuedPiece(c) \/ FinishOwnPiece(c)
    BY <2>4, WhoFinishes, FinishesInv
  <2>5. CASE Merge(c) \/ Callback(c)
    BY <2>5, MergeInv, CallbackInv
  <2> QED
    BY <1>2, <2>1, <2>2, <2>3, <2>4, <2>5 DEF CheckerStep
<1> QED
  BY <1>1, <1>2 DEF Next, Done

LEMMA InitInv == Init => Inv
<1> SUFFICES ASSUME Init PROVE Inv
  OBVIOUS
<1>1. PiecesInv /\ QueueInv
  BY InitPieces, InitQueue
<1>2. /\ states = [f \in File |-> [k \in Queued(f) |-> "notStarted"]]
      /\ results = [f \in File |-> <<>>]
      /\ ownerFound = [f \in File |-> {}]
      /\ found = [c \in Checker |-> {}]
      /\ inPieces = [c \in Checker |-> None]
      /\ reported = [f \in File |-> [by |-> None, diagnostics |-> {}]]
      /\ pc = [c \in Checker |-> "next"]
      /\ item = [c \in Checker |-> Item(None, None)]
  BY DEF Init
<1>3. TypeInv
  <2>1. DOMAIN states = File /\ \A f \in File : states[f] \in [Queued(f) -> PieceState]
    BY <1>2 DEF PieceState
  <2>2. results \in [File -> Seq(Result)]
    BY <1>2
  <2>3. Item(None, None) \in [file : Nat, piece : Nat]
    BY DEF Item, None
  <2>4. item \in [Checker -> [file : Nat, piece : Nat]]
    BY <1>2, <2>3
  <2> QED
    BY <1>2, <2>1, <2>2, <2>4 DEF TypeInv, Label
<1>4. ItemInv
  BY <1>2 DEF ItemInv, ItemOk, Owns, Checking
<1>5. \A c \in Checker : ~Checking(c) /\ pc[c] # "callback"
  BY <1>2 DEF Checking
<1>6. \A f \in File : DOMAIN results[f] = {} /\ reported[f].by = None
  BY <1>2
<1>7. \A f \in File : \A k \in Queued(f) : states[f][k] # "done" /\ ~HasResult(f, k)
  BY <1>2, <1>6 DEF HasResult
<1>8. ClaimInv
  BY <1>5, <1>6, <1>7 DEF ClaimInv
<1> QED
  BY <1>1, <1>3, <1>4, <1>8 DEF Inv

LEMMA SplitInvariant == Spec => []Inv
<1>1. Inv /\ [Next]_vars => Inv'
  BY StepInv
<1> QED
  BY <1>1, InitInv, PTL DEF Spec

(* Owner and helpers race for the pieces of a file: none of them is        *)
(* checked twice, and the file is reported only when each has left its     *)
(* result (`claim`, `finish`, `wait_for_pieces`).                          *)
THEOREM PiecesOnce == Spec => []EachPieceOnce
<1>1. Inv => EachPieceOnce
  <2> SUFFICES ASSUME Inv, NEW f \in File
               PROVE  /\ \A i, j \in DOMAIN results[f] : results[f][i].piece = results[f][j].piece => i = j
                      /\ reported[f].by # None =>
                           {results[f][i].piece : i \in DOMAIN results[f]} = Queued(f)
    BY DEF EachPieceOnce
  <2>1. \A i, j \in DOMAIN results[f] : results[f][i].piece = results[f][j].piece => i = j
    BY DEF Inv, ClaimInv
  <2>2. ASSUME reported[f].by # None
        PROVE  {results[f][i].piece : i \in DOMAIN results[f]} = Queued(f)
    <3>1. \A i \in DOMAIN results[f] : results[f][i].piece \in Queued(f)
      BY DEF Inv, ClaimInv
    <3>2. \A k \in Queued(f) : \E i \in DOMAIN results[f] : results[f][i].piece = k
      BY <2>2 DEF Inv, ClaimInv, AllDone, HasResult
    <3> QED
      BY <3>1, <3>2
  <2> QED
    BY <2>1, <2>2
<1> QED
  BY <1>1, SplitInvariant, PTL

-----------------------------------------------------------------------------
(* The report of a split file *)

\* Nobody has begun with the file.
Free(f) ==
    /\ reported[f].by = None
    /\ \A b \in Checker : ~Owning(b, f)
    /\ \A i \in DOMAIN results[f] : results[f][i].byOther

\* A file has one owner at most, and no report before the owner's.
OwnerInv ==
    /\ \A c \in Checker : \A i \in DOMAIN queue[c] : queue[c][i].piece = 1 => Free(queue[c][i].file)
    /\ \A c, b \in Checker : Owns(c) /\ Owning(b, item[c].file) => b = c
    /\ \A c \in Checker : Owns(c) => reported[item[c].file].by = None

\* What the statements of a piece report in their own file.
Own(f, k) == InFile(f, Reports(f, pieces[f][k]))
\* What the others have handed back.
Handed(f) == Found(f, ByOther(f))

\* What only the check of its own file reports.
Home == {d \in Diag : ~FoundElsewhere(d)}

\* Each result of another checker brings what its piece alone reports, unless
\* an earlier one did.
HandedInv(f) ==
    /\ Handed(f) \subseteq InFile(f, Diag) /\ ownerFound[f] \cap Home \subseteq Handed(f)
    /\ \A i \in DOMAIN results[f] : ~results[f][i].byOther => results[f][i].diagnostics = {}
    /\ \A i \in DOMAIN results[f] :
         results[f][i].byOther => Own(f, results[f][i].piece) \cap Home \subseteq Handed(f)

\* What a checker that does not own the file found in it was handed back.
HelperInv(f, c) ==
    pieces[f] # <<>> /\ reported[f].by = None /\ pc[c] # "panicked" /\ ~Owning(c, f) =>
        InFile(f, found[c]) \cap Home \subseteq Handed(f)

\* The owner has found what its own pieces report and, once it has merged, what
\* the others' report: all of it in shadow mode, and else what is at home.
OwnerHas(c) ==
    /\ Owns(c) /\ pieces[item[c].file] # <<>> =>
         /\ Own(item[c].file, 1) \subseteq found[c]
         /\ \A i \in DOMAIN results[item[c].file] :
              ~results[item[c].file][i].byOther \/ (pc[c] = "callback" /\ shadow) =>
                Own(item[c].file, results[item[c].file][i].piece) \subseteq found[c]
         /\ pc[c] = "callback" => \A i \in DOMAIN results[item[c].file] :
              Own(item[c].file, results[item[c].file][i].piece) \cap Home \subseteq found[c]
    /\ pc[c] = "callback" => (inPieces[c] = item[c].file <=> pieces[item[c].file] # <<>>)
    /\ pc[c] \notin {"callback", "panicked"} => inPieces[c] = None

\* Only files that are reported are compared, and in shadow mode.
Compared(c) ==
    /\ pc[c] \in {"compare", "differs"} =>
         shadow /\ item[c].file \in File /\ reported[item[c].file].by # None
    /\ pc[c] = "differs" =>
         \E d \in ownerFound[item[c].file] \ Handed(item[c].file) : FoundElsewhere(d)

FoundInv ==
    /\ \A f \in File : HandedInv(f)
    /\ \A f \in File, c \in Checker : HelperInv(f, c)
    /\ \A c \in Checker : OwnerHas(c) /\ Compared(c)
    /\ SplitMissesOnlyMerged

LEMMA QueuedFile ==
    ASSUME QueueInv, NEW c \in Checker, NEW i \in DOMAIN queue[c]
    PROVE  queue[c][i].file \in File
<1>1. queue[c] \in Seq(AnyItem)
  BY DEF QueueInv
<1>2. queue[c][i] \in AnyItem
  BY <1>1
<1> QED
  BY <1>2 DEF AnyItem

\* What the owners need of a step that neither takes nor reports a file.
LEMMA QuietOwners ==
    ASSUME Inv, OwnerInv, UNCHANGED <<queue, reported>>,
           \A c \in Checker : Owns(c)' => Owns(c) /\ item'[c].file = item[c].file,
           \A f \in File : \A i \in DOMAIN results'[f] :
              ~results'[f][i].byOther => \/ i \in DOMAIN results[f] /\ ~results[f][i].byOther
                                         \/ \E b \in Checker : Owning(b, f)
    PROVE  OwnerInv'
<1>1. ASSUME NEW f \in File, Free(f) PROVE Free(f)'
  <2>1. reported'[f].by = None
    BY <1>1 DEF Free
  <2>2. \A b \in Checker : ~Owning(b, f)'
    BY <1>1 DEF Free, Owning
  <2>3. \A i \in DOMAIN results'[f] : results'[f][i].byOther
    BY <1>1 DEF Free
  <2> QED
    BY <2>1, <2>2, <2>3 DEF Free
<1>2. ASSUME NEW c \in Checker, NEW i \in DOMAIN queue[c], queue[c][i].piece = 1
      PROVE  Free(queue[c][i].file)'
  <2>1. PICK f \in File : f = queue[c][i].file
    BY QueuedFile DEF Inv
  <2>2. Free(f)'
    BY <1>1, <1>2, <2>1 DEF OwnerInv
  <2>3. f = queue'[c][i].file
    BY <2>1
  <2> QED
    BY <2>2, <2>3 DEF Free, Owning
<1>3. \A c, b \in Checker : (Owns(c) /\ Owning(b, item[c].file) => b = c)'
  BY DEF OwnerInv, Owning
<1>4. \A c \in Checker : (Owns(c) => reported[item[c].file].by = None)'
  BY DEF OwnerInv
<1>5. \A c \in Checker : \A i \in DOMAIN queue'[c] : (queue[c][i].piece = 1 => Free(queue[c][i].file))'
  BY <1>2
<1> QED
  BY <1>3, <1>4, <1>5 DEF OwnerInv

LEMMA TakeOwners ==
    ASSUME Inv, OwnerInv,
           NEW c \in Checker, NEW q \in Checker, NEW r \in DOMAIN queue[q], NEW s \in {0, 1},
           pc[c] = "next", Takes(q, r, s), Start(c, queue[q][r])
    PROVE  OwnerInv'
<1>1. PICK it \in AnyItem : it = queue[q][r] /\ Start(c, it)
  BY DEF Inv, QueueInv
<1>2. /\ UNCHANGED <<pieces, results, reported>>
      /\ \A b \in Checker : b # c => pc'[b] = pc[b] /\ item'[b] = item[b]
      /\ it.file \in File /\ item'[c].file = it.file
      /\ it.piece = 1 \/ pc'[c] = "queued"
  BY <1>1, StartFacts DEF Inv
<1>3. /\ QueueInv'
      /\ \A b \in Checker : \A i \in DOMAIN queue'[b] : \E j \in DOMAIN queue[b] : queue'[b][i] = queue[b][j]
      /\ it.piece = 1 => \A b \in Checker : \A i \in DOMAIN queue'[b] : queue'[b][i] # it
  BY <1>1, <1>2, TakeKeepsQueues DEF Inv
<1>4. it.piece = 1 => Free(it.file)
  BY <1>1 DEF OwnerInv
<1>5. /\ Owns(c)' => it.piece = 1
      /\ ~Owns(c)
      /\ \A b \in Checker : b # c => (Owns(b)' <=> Owns(b)) /\ item'[b] = item[b]
  BY <1>2 DEF Owns
<1>6. ASSUME NEW b \in Checker, NEW i \in DOMAIN queue'[b], queue'[b][i].piece = 1
      PROVE  Free(queue[b][i].file)'
  <2>1. PICK j \in DOMAIN queue[b] : queue'[b][i] = queue[b][j]
    BY <1>3
  <2>2. PICK jt \in AnyItem : jt = queue[b][j]
    BY DEF Inv, QueueInv
  <2>3. jt.piece = 1 /\ Free(jt.file)
    BY <1>6, <2>1, <2>2 DEF OwnerInv
  <2>4. it.piece = 1 => jt.file # it.file
    <3> SUFFICES ASSUME it.piece = 1, jt.file = it.file PROVE FALSE
      OBVIOUS
    <3>1. it \in [file : File, piece : Nat] /\ jt \in [file : File, piece : Nat]
      BY DEF AnyItem
    <3>2. jt = it
      BY <2>3, <3>1
    <3> QED
      BY <1>3, <2>1, <2>2, <3>2
  <2>5. \A a \in Checker : ~(Owns(a)' /\ item'[a].file = jt.file)
    <3> SUFFICES ASSUME NEW a \in Checker, Owns(a)', item'[a].file = jt.file PROVE FALSE
      OBVIOUS
    <3>1. CASE a = c
      BY <1>2, <1>5, <2>4, <3>1
    <3>2. CASE a # c
      BY <1>5, <2>3, <3>2 DEF Free, Owning
    <3> QED
      BY <3>1, <3>2
  <2>6. jt.file = queue'[b][i].file
    BY <2>1, <2>2
  <2>7. Free(jt.file) /\ UNCHANGED <<results, reported>>
    BY <1>2, <2>3
  <2> QED
    BY <2>5, <2>6, <2>7 DEF Free, Owning
<1>7. ASSUME NEW a \in Checker, NEW b \in Checker, (Owns(a) /\ Owning(b, item[a].file))'
      PROVE  b = a
  <2>1. Owns(a)' /\ Owns(b)' /\ item'[b].file = item'[a].file
    BY <1>7 DEF Owning
  <2>2. CASE a = c /\ b # c
    BY <1>2, <1>4, <1>5, <2>1, <2>2 DEF Free, Owning
  <2>3. CASE a # c /\ b = c
    BY <1>2, <1>4, <1>5, <2>1, <2>3 DEF Free, Owning
  <2>4. CASE a # c /\ b # c
    BY <1>5, <2>1, <2>4 DEF OwnerInv, Owning
  <2> QED
    BY <2>2, <2>3, <2>4
<1>8. \A b \in Checker : (Owns(b) => reported[item[b].file].by = None)'
  <2> SUFFICES ASSUME NEW b \in Checker, Owns(b)' PROVE reported[item'[b].file].by = None
    BY <1>2
  <2>1. CASE b = c
    BY <1>2, <1>4, <1>5, <2>1 DEF Free
  <2>2. CASE b # c
    BY <1>5, <2>2 DEF OwnerInv
  <2> QED
    BY <2>1, <2>2
<1>9. \A b \in Checker : \A i \in DOMAIN queue'[b] : (queue[b][i].piece = 1 => Free(queue[b][i].file))'
  BY <1>6
<1>10. \A a, b \in Checker : (Owns(a) /\ Owning(b, item[a].file) => b = a)'
  BY <1>7
<1> QED
  BY <1>8, <1>9, <1>10 DEF OwnerInv

LEMMA CallbackOwners ==
    ASSUME Inv, OwnerInv, NEW c \in Checker, Callback(c)
    PROVE  OwnerInv'
<1> DEFINE f == item[c].file
<1>1. /\ pc[c] = "callback"
      /\ \A g \in File : g # f => reported'[g] = reported[g]
      /\ UNCHANGED <<pieces, queue, results, item>>
  BY DEF Callback, Inv, TypeInv
<1>2. ~Owns(c)' /\ Owns(c) /\ \A b \in Checker : b # c => (Owns(b)' <=> Owns(b))
  <2>1. PICK l \in {"compare", "next"} : Go(c, l)
    BY DEF Callback
  <2>2. pc'[c] = l /\ \A b \in Checker : b # c => pc'[b] = pc[b]
    BY <2>1, GoFacts DEF Label, Inv
  <2> QED
    BY <1>1, <2>1, <2>2 DEF Owns
<1>3. \A b \in Checker : Owns(b)' => Owns(b) /\ item'[b] = item[b] /\ item[b].file # f
  BY <1>1, <1>2 DEF OwnerInv, Owning
<1>4. ASSUME NEW b \in Checker, NEW i \in DOMAIN queue[b], queue[b][i].piece = 1
      PROVE  Free(queue[b][i].file)'
  <2>1. PICK g \in File : g = queue[b][i].file
    BY QueuedFile DEF Inv
  <2>2. Free(g)
    BY <1>4, <2>1 DEF OwnerInv
  <2>3. g # f
    BY <1>2, <2>2 DEF Free, Owning
  <2>4. Free(g)'
    BY <1>1, <1>3, <2>2, <2>3 DEF Free, Owning
  <2>5. g = queue'[b][i].file
    BY <1>1, <2>1
  <2> QED
    BY <2>4, <2>5 DEF Free, Owning
<1>5. \A a, b \in Checker : (Owns(a) /\ Owning(b, item[a].file) => b = a)'
  BY <1>3 DEF OwnerInv, Owning
<1>6. \A b \in Checker : (Owns(b) => reported[item[b].file].by = None)'
  <2> SUFFICES ASSUME NEW b \in Checker, Owns(b)' PROVE reported'[item[b].file].by = None
    BY <1>1
  <2>1. item[b].file \in File
    BY <1>3 DEF Inv, ItemInv, ItemOk
  <2> QED
    BY <1>1, <1>3, <2>1 DEF OwnerInv
<1>7. \A b \in Checker : \A i \in DOMAIN queue'[b] : (queue[b][i].piece = 1 => Free(queue[b][i].file))'
  BY <1>1, <1>4
<1> QED
  BY <1>5, <1>6, <1>7 DEF OwnerInv

LEMMA StepOwners ==
    ASSUME Inv, OwnerInv, [Next]_vars
    PROVE  OwnerInv'
<1>1. CASE UNCHANGED vars
  BY <1>1 DEF vars, OwnerInv, Free, Owning, Owns
<1>2. ASSUME NEW c \in Checker, NEW l, MovesOn(c, l) PROVE OwnerInv'
  <2>1. pc'[c] = l /\ \A b \in Checker : b # c => pc'[b] = pc[b]
    BY <1>2, GoFacts DEF MovesOn, Inv, Label
  <2>2. \A b \in Checker : Owns(b)' => Owns(b) /\ item'[b].file = item[b].file
    BY <1>2, <2>1 DEF MovesOn, Owns
  <2> QED
    BY <1>2, <2>2, QuietOwners DEF MovesOn
<1>3. ASSUME NEW c \in Checker, NEW l, Claims(c, l) PROVE OwnerInv'
  <2>1. pc'[c] = l /\ \A b \in Checker : b # c => pc'[b] = pc[b]
    BY <1>3, GoFacts DEF Claims, Inv, Label
  <2>2. \A b \in Checker : Owns(b)' => Owns(b) /\ item'[b].file = item[b].file
    BY <1>3, <2>1 DEF Claims, Owns
  <2> QED
    BY <1>3, <2>2, QuietOwners DEF Claims
<1>4. ASSUME NEW c \in Checker, Skips(c) PROVE OwnerInv'
  <2>1. item \in [Checker -> [file : Nat, piece : Nat]]
    BY DEF Inv, TypeInv
  <2>2. \A b \in Checker : Owns(b)' => Owns(b) /\ item'[b].file = item[b].file
    BY <1>4, <2>1 DEF Skips, Owns
  <2> QED
    BY <1>4, <2>2, QuietOwners DEF Skips
<1>5. ASSUME NEW c \in Checker, FinishQueuedPiece(c) \/ FinishOwnPiece(c) PROVE OwnerInv'
  <2>1. PICK l, r : Finishes(c, l, r) /\ (pc[c] = "piece" \/ ~r.byOther) /\ (pc[c] = "piece" => r.byOther)
    BY <1>5, WhoFinishes
  <2> DEFINE f == item[c].file
  <2>2. /\ (pc[c] = "piece" /\ l = "next") \/ (pc[c] = "ownPiece" /\ l = "claim")
        /\ UNCHANGED <<queue, reported>> /\ r \in Result
    BY <2>1 DEF Finishes
  <2>3. /\ f \in File /\ pc'[c] = l /\ item'[c].file = f
        /\ \A b \in Checker : b # c => pc'[b] = pc[b] \/ (pc[b] = "asleep" /\ pc'[b] = "wait")
        /\ \A b \in Checker : b # c => item'[b] = item[b]
    BY <2>1, FinishFacts
  <2>4. /\ results'[f] = Append(results[f], r)
        /\ \A g \in File : g # f => results'[g] = results[g]
    BY <2>1, FinishFacts
  <2>5. \A b \in Checker : Owns(b)' => Owns(b) /\ item'[b].file = item[b].file
    BY <2>2, <2>3 DEF Owns
  <2>6. ~r.byOther => Owning(c, f)
    BY <2>1, <2>2 DEF Owning, Owns
  <2> HIDE DEF f
  <2>7. ASSUME NEW g \in File, NEW i \in DOMAIN results'[g], ~results'[g][i].byOther
        PROVE  \/ i \in DOMAIN results[g] /\ ~results[g][i].byOther
               \/ \E b \in Checker : Owning(b, g)
    <3>1. CASE g # f
      BY <2>4, <2>7, <3>1
    <3>2. CASE g = f
      <4>1. results[f] \in Seq(Result)
        BY <2>3 DEF Inv, TypeInv
      <4>2. /\ DOMAIN results'[f] = DOMAIN results[f] \cup {Len(results[f]) + 1}
            /\ results'[f][Len(results[f]) + 1] = r
            /\ \A x \in DOMAIN results[f] : results'[f][x] = results[f][x]
        BY <2>2, <2>4, <4>1, AppendResult
      <4> QED
        BY <2>6, <2>7, <3>2, <4>2
    <3> QED
      BY <3>1, <3>2
  <2> QED
    BY <2>2, <2>5, <2>7, QuietOwners
<1>6. ASSUME NEW c \in Checker, Merge(c) PROVE OwnerInv'
  <2>1. pc'[c] = "callback" /\ \A b \in Checker : b # c => pc'[b] = pc[b]
    BY <1>6, GoFacts DEF Merge, Inv, Label
  <2>2. \A b \in Checker : Owns(b)' => Owns(b) /\ item'[b].file = item[b].file
    BY <1>6, <2>1 DEF Merge, Owns
  <2>3. UNCHANGED <<queue, reported, results>>
    BY <1>6 DEF Merge
  <2> QED
    BY <2>2, <2>3, QuietOwners
<1>7. ASSUME NEW c \in Checker, CheckerStep(c) \/ WakeUp(c) \/ Panic(c)
      PROVE  OwnerInv'
  <2>1. CASE TakeOwn(c) \/ Steal(c)
    BY <2>1, TakeFacts, TakeOwners DEF Inv
  <2>2. CASE Stop(c) \/ Sleep(c) \/ WakeUp(c) \/ ShadowCompare(c) \/ Panic(c)
    BY <1>2, <2>2, WhoMovesOn
  <2>3. CASE RunQueuedPiece(c) \/ RunOwner(c)
    BY <1>2, <1>3, <1>4, <2>3, WhoClaims
  <2>4. CASE FinishQueuedPiece(c) \/ FinishOwnPiece(c)
    BY <1>5, <2>4
  <2>5. CASE Merge(c) \/ Callback(c)
    BY <1>6, <2>5, CallbackOwners
  <2> QED
    BY <1>7, <2>1, <2>2, <2>3, <2>4, <2>5 DEF CheckerStep
<1> QED
  BY <1>1, <1>7 DEF Next, Done

\* What the check of a file reports in another one is not at home.
LEMMA AtHome ==
    ASSUME NEW f \in File, NEW g \in File, g # f
    PROVE  /\ \A ss : InFile(g, Reports(f, ss)) \cap Home = {}
           /\ \A c, k : InFile(g, PieceReports(c, f, k)) \cap Home = {}
<1>1. ASSUME NEW ss PROVE InFile(g, Reports(f, ss)) \cap Home = {}
  <2> SUFFICES ASSUME NEW d \in InFile(g, Reports(f, ss)), d \in Home PROVE FALSE
    OBVIOUS
  <2>1. d \in Diag /\ Located[d] = g /\ \E s \in ss : <<f, s>> \in Finders[d]
    BY DEF InFile, Reports
  <2>2. PICK s \in ss : <<f, s>> \in Finders[d]
    BY <2>1
  <2>3. <<f, s>>[1] = g
    BY <2>1, <2>2 DEF Home, FoundElsewhere
  <2> QED
    BY <2>3
<1>2. \A c, k : InFile(g, PieceReports(c, f, k)) \cap Home = {}
  <2> SUFFICES ASSUME NEW c, NEW k PROVE InFile(g, PieceReports(c, f, k)) \cap Home = {}
    OBVIOUS
  <2>1. CASE TypeChecked(c, f)
    BY <2>1 DEF PieceReports, InFile
  <2>2. CASE ~TypeChecked(c, f)
    BY <1>1, <2>2 DEF PieceReports
  <2> QED
    BY <2>1, <2>2
<1> QED
  BY <1>1, <1>2

\* The reports, after a step that reports nothing.
LEMMA MissesStill ==
    ASSUME SplitMissesOnlyMerged, UNCHANGED <<shadow, pieces, reported>>
    PROVE  SplitMissesOnlyMerged'
BY DEF SplitMissesOnlyMerged, MayMiss, InFile, FoundElsewhere

\* A step that leaves the reported files alone does not touch the comparison of
\* a checker that it does not bring there.
LEMMA ComparedStill ==
    ASSUME NEW b \in Checker, Compared(b), shadow' = shadow, item'[b].file = item[b].file,
           pc'[b] \in {"compare", "differs"} => pc'[b] = pc[b],
           \A g \in File : reported[g].by # None =>
              reported'[g].by # None /\ ownerFound'[g] = ownerFound[g] /\ results'[g] = results[g]
    PROVE  Compared(b)'
BY DEF Compared, Handed, Found, ByOther, FoundElsewhere

\* A checker that another one's step leaves alone.
LEMMA OwnerHasStill ==
    ASSUME NEW b \in Checker, OwnerHas(b), UNCHANGED <<shadow, pieces>>, item'[b] = item[b], found'[b] = found[b],
           inPieces'[b] = inPieces[b], pc'[b] = pc[b] \/ (pc[b] = "asleep" /\ pc'[b] = "wait"),
           Owns(b) => results'[item[b].file] = results[item[b].file]
    PROVE  OwnerHas(b)'
<1>1. Owns(b)' <=> Owns(b)
  BY DEF Owns
<1>2. \A f, k : Own(f, k)' = Own(f, k)
  BY DEF Own, InFile, Reports
<1> QED
  BY <1>1, <1>2 DEF OwnerHas, Own, InFile, Reports

\* What has been found, after a step that finds and reports nothing.
LEMMA QuietFound ==
    ASSUME FoundInv, UNCHANGED <<shadow, pieces, results, ownerFound, found, inPieces, reported>>,
           \A b \in Checker : /\ item'[b].file = item[b].file
                              /\ Owns(b)' => Owns(b)
                              /\ Owns(b) => Owns(b)' \/ pc'[b] = "panicked"
                              /\ pc[b] = "panicked" => pc'[b] = "panicked"
                              /\ pc'[b] = "callback" => pc[b] = "callback"
                              /\ pc[b] = "callback" => pc'[b] \in {"callback", "panicked"}
                              /\ pc'[b] \in {"compare", "differs"} => Compared(b)'
    PROVE  FoundInv'
<1>1. \A f, k : Own(f, k)' = Own(f, k)
  BY DEF Own, InFile, Reports
<1>2. \A f : Handed(f)' = Handed(f)
  BY DEF Handed, Found, ByOther
<1>3. ASSUME NEW f \in File PROVE HandedInv(f)'
  <2>1. HandedInv(f)
    BY DEF FoundInv
  <2> QED
    BY <1>1, <1>2, <2>1 DEF HandedInv, Own, InFile, Reports
<1>4. ASSUME NEW f \in File, NEW b \in Checker PROVE HelperInv(f, b)'
  <2>1. HelperInv(f, b)
    BY DEF FoundInv
  <2> QED
    BY <1>2, <2>1 DEF HelperInv, Owning, InFile
<1>5. ASSUME NEW b \in Checker PROVE OwnerHas(b)'
  <2>1. OwnerHas(b)
    BY DEF FoundInv
  <2> QED
    BY <1>1, <2>1 DEF OwnerHas, Own, InFile, Reports
<1>6. SplitMissesOnlyMerged' /\ \A b \in Checker : Compared(b)'
  BY MissesStill DEF FoundInv, Compared
<1> QED
  BY <1>3, <1>4, <1>5, <1>6 DEF FoundInv

LEMMA NotAChecker == \A c \in Checker : c # None
BY DEF Checker, None

LEMMA TakeFound ==
    ASSUME Inv, OwnerInv, FoundInv,
           NEW c \in Checker, NEW q \in Checker, NEW r \in DOMAIN queue[q], NEW s \in {0, 1},
           pc[c] = "next", Takes(q, r, s), Start(c, queue[q][r])
    PROVE  FoundInv'
<1>1. PICK it \in AnyItem : it = queue[q][r] /\ Start(c, it)
  BY DEF Inv, QueueInv
<1>2. /\ UNCHANGED <<shadow, pieces, states, results, ownerFound, inPieces, reported>>
      /\ \A b \in Checker : b # c => pc'[b] = pc[b]
      /\ \A b \in Checker : b # c => item'[b] = item[b] /\ found'[b] = found[b]
      /\ it.file \in File /\ item'[c].file = it.file
      /\ \/ /\ it.piece = 1 /\ pieces[it.file] # <<>> /\ pc'[c] = "claim"
            /\ found'[c] = found[c] \cup PieceReports(c, it.file, 1)
         \/ /\ it.piece = 1 /\ pieces[it.file] = <<>> /\ pc'[c] = "callback"
            /\ found'[c] = found[c]
         \/ pc'[c] = "queued" /\ found'[c] = found[c]
  BY <1>1, StartFacts DEF Inv
<1>3. it.piece = 1 => Free(it.file)
  BY <1>1 DEF OwnerInv
<1>4. \A f, k : Own(f, k)' = Own(f, k)
  BY <1>2 DEF Own, InFile, Reports
<1>5. \A f : Handed(f)' = Handed(f)
  BY <1>2 DEF Handed, Found, ByOther
<1>6. ASSUME NEW f \in File PROVE HandedInv(f)'
  <2>1. HandedInv(f)
    BY DEF FoundInv
  <2> QED
    BY <1>2, <1>4, <1>5, <2>1 DEF HandedInv, Own, InFile, Reports
<1>7. ASSUME NEW f \in File, NEW b \in Checker PROVE HelperInv(f, b)'
  <2>1. HelperInv(f, b)
    BY DEF FoundInv
  <2>2. CASE b # c
    BY <1>2, <1>5, <2>1, <2>2 DEF HelperInv, Owning, Owns, InFile
  <2>3. CASE b = c
    <3>1. ~Owning(c, f) /\ pc[c] # "panicked"
      BY DEF Owning, Owns
    <3>2. CASE found'[c] = found[c]
      BY <1>2, <1>5, <2>1, <2>3, <3>1, <3>2 DEF HelperInv, InFile
    <3>3. CASE pc'[c] = "claim" /\ found'[c] = found[c] \cup PieceReports(c, it.file, 1)
      <4>1. CASE f = it.file
        BY <1>2, <2>3, <3>3, <4>1 DEF HelperInv, Owning, Owns
      <4>2. CASE f # it.file
        <5>1. InFile(f, PieceReports(c, it.file, 1)) \cap Home = {}
          BY <1>2, <4>2, AtHome
        <5>2. InFile(f, found'[c]) = InFile(f, found[c]) \cup InFile(f, PieceReports(c, it.file, 1))
          BY <3>3 DEF InFile
        <5>3. pieces[f] # <<>> /\ reported[f].by = None => InFile(f, found'[c]) \cap Home \subseteq Handed(f)
          BY <2>1, <2>3, <3>1, <5>1, <5>2 DEF HelperInv
        <5> QED
          BY <1>2, <1>5, <2>3, <5>3 DEF HelperInv, InFile
      <4> QED
        BY <4>1, <4>2
    <3> QED
      BY <1>2, <3>2, <3>3
  <2> QED
    BY <2>2, <2>3
<1>8. ASSUME NEW b \in Checker PROVE OwnerHas(b)'
  <2>1. OwnerHas(b)
    BY DEF FoundInv
  <2>2. CASE b # c
    BY <1>2, <2>1, <2>2, OwnerHasStill
  <2>3. CASE b = c
    <3>1. inPieces'[c] = None
      BY <1>2, <2>1, <2>3 DEF OwnerHas
    <3>2. CASE it.piece = 1 /\ pieces[it.file] # <<>> /\ pc'[c] = "claim"
               /\ found'[c] = found[c] \cup PieceReports(c, it.file, 1)
      <4>1. ~TypeChecked(c, it.file) /\ \A i \in DOMAIN results[it.file] : results[it.file][i].byOther
        BY <1>3, <3>2, NotAChecker DEF Free, TypeChecked
      <4>2. Own(it.file, 1) \subseteq found'[c]
        BY <3>2, <4>1 DEF PieceReports, Own, InFile
      <4>3. (Own(item[c].file, 1))' \subseteq found'[c]
        BY <1>2, <4>2 DEF Own, InFile, Reports
      <4>4. \A i \in DOMAIN results'[item'[c].file] : results'[item'[c].file][i].byOther
        BY <1>2, <4>1
      <4> QED
        BY <2>3, <3>1, <3>2, <4>3, <4>4 DEF OwnerHas
    <3>3. CASE pieces[it.file] = <<>> /\ pc'[c] = "callback"
      <4>1. it.file # None
        BY <1>2, FilesAreNumbers DEF None
      <4>2. pieces'[item'[c].file] = <<>> /\ inPieces'[c] # item'[c].file
        BY <1>2, <3>1, <3>3, <4>1
      <4> QED
        BY <2>3, <3>1, <3>3, <4>2 DEF OwnerHas
    <3>4. CASE pc'[c] = "queued"
      BY <2>3, <3>1, <3>4 DEF OwnerHas, Owns
    <3> QED
      BY <1>2, <3>2, <3>3, <3>4
  <2> QED
    BY <2>2, <2>3
<1>9. SplitMissesOnlyMerged'
  BY <1>2, MissesStill DEF FoundInv
<1>10. ASSUME NEW b \in Checker PROVE Compared(b)'
  <2>1. CASE b # c
    BY <1>2, <2>1, ComparedStill DEF FoundInv
  <2>2. CASE b = c
    BY <1>2, <2>2 DEF Compared
  <2> QED
    BY <2>1, <2>2
<1> QED
  BY <1>6, <1>7, <1>8, <1>9, <1>10 DEF FoundInv

LEMMA FinishFound ==
    ASSUME Inv, OwnerInv, FoundInv, NEW c \in Checker, NEW l, NEW r, Finishes(c, l, r),
           IF pc[c] = "piece"
             THEN r.byOther /\ r.diagnostics = Added(c, item[c].file, item[c].piece)
             ELSE ~r.byOther /\ r.diagnostics = {}
    PROVE  FoundInv'
<1>0. PICK f \in File, k \in Nat : f = item[c].file /\ k = item[c].piece
  BY FinishFacts DEF Inv, TypeInv
<1> DEFINE n == Len(results[f]) + 1
<1>1. UNCHANGED <<shadow, pieces, ownerFound, inPieces, reported>>
  BY DEF Finishes
<1>2. /\ (pc[c] = "piece" /\ l = "next") \/ (pc[c] = "ownPiece" /\ l = "claim")
      /\ r \in Result /\ r.piece = k
  BY <1>0 DEF Finishes
<1>3. /\ f \in File /\ k \in Queued(f) /\ pc'[c] = l
      /\ \A b \in Checker : b # c => pc'[b] = pc[b] \/ (pc[b] = "asleep" /\ pc'[b] = "wait")
  BY <1>0, FinishFacts
<1>4. item'[c].file = f /\ \A b \in Checker : b # c => item'[b] = item[b]
  BY <1>0, FinishFacts
<1>5. results'[f] = Append(results[f], r) /\ \A g \in File : g # f => results'[g] = results[g]
  BY <1>0, FinishFacts
<1>6. results[f] \in Seq(Result) /\ states[f][k] = "running"
  BY <1>0, <1>2, <1>3 DEF Inv, TypeInv, ClaimInv, Checking
<1>7. /\ DOMAIN results'[f] = DOMAIN results[f] \cup {n} /\ n \notin DOMAIN results[f]
      /\ results'[f][n] = r
      /\ \A i \in DOMAIN results[f] : results'[f][i] = results[f][i]
  BY <1>2, <1>5, <1>6, AppendResult
<1>8. pieces[f] # <<>> /\ ~AllDone(f) /\ reported[f].by = None
  <2>1. pieces[f] # <<>>
    BY <1>3 DEF Queued
  <2>2. ~AllDone(f)
    BY <1>3, <1>6 DEF AllDone
  <2> QED
    BY <1>3, <2>1, <2>2 DEF Inv, ClaimInv
<1>9. PieceReports(c, f, k) = Reports(f, pieces[f][k])
  BY <1>8, NotAChecker DEF PieceReports, TypeChecked
<1>10. /\ found'[c] = found[c] \cup Reports(f, pieces[f][k])
       /\ \A b \in Checker : b # c => found'[b] = found[b]
  <2>1. Finds(c, PieceReports(c, f, k)) /\ PieceReports(c, f, k) \subseteq Diag
    BY <1>0, <1>3, ReportsFacts DEF Finishes, Inv
  <2> QED
    BY <1>9, <2>1, FindsType DEF Inv
<1>11. /\ pc[c] = "piece" => r.byOther /\ r.diagnostics = InFile(f, Reports(f, pieces[f][k]) \ found[c])
       /\ pc[c] # "piece" => ~r.byOther /\ r.diagnostics = {}
  BY <1>0, <1>9 DEF Added
<1>12. \A b \in Checker : /\ b # c => (Owns(b)' <=> Owns(b))
                          /\ pc[b] = "panicked" => pc'[b] = "panicked"
  BY <1>2, <1>3 DEF Owns
<1> HIDE DEF n
<1>13. \A g, j : Own(g, j)' = Own(g, j)
  BY <1>1 DEF Own, InFile, Reports
<1>14. \A g \in File : g # f => Handed(g)' = Handed(g)
  BY <1>5 DEF Handed, Found, ByOther
<1>15. Handed(f) \subseteq Handed(f)' /\ Handed(f)' \subseteq Handed(f) \cup r.diagnostics
       /\ (r.byOther => r.diagnostics \subseteq Handed(f)')
  BY <1>7 DEF Handed, Found, ByOther
<1>16. pc[c] = "piece" => (Own(f, k) \cup InFile(f, found[c])) \cap Home \subseteq Handed(f)'
  <2> SUFFICES ASSUME pc[c] = "piece"
               PROVE  (Own(f, k) \cup InFile(f, found[c])) \cap Home \subseteq Handed(f)'
    OBVIOUS
  <2>1. InFile(f, found[c]) \cap Home \subseteq Handed(f)
    <3>1. ~Owning(c, f) /\ HelperInv(f, c)
      BY <1>3 DEF Owning, Owns, FoundInv
    <3> QED
      BY <1>8, <3>1 DEF HelperInv
  <2>2. Own(f, k) \subseteq InFile(f, found[c]) \cup r.diagnostics
    BY <1>11 DEF Own, InFile
  <2> QED
    BY <1>11, <1>15, <2>1, <2>2
<1>17. ASSUME NEW g \in File PROVE HandedInv(g)'
  <2>1. HandedInv(g)
    BY DEF FoundInv
  <2>2. CASE g # f
    BY <1>1, <1>5, <1>13, <1>14, <2>1, <2>2 DEF HandedInv, Own, InFile, Reports
  <2>3. CASE g = f
    <3>1. r.diagnostics \subseteq InFile(f, Diag)
      BY <1>11 DEF InFile, Reports
    <3>2. Handed(f)' \subseteq InFile(f, Diag) /\ ownerFound'[f] \cap Home \subseteq Handed(f)'
      BY <1>1, <1>15, <2>1, <2>3, <3>1 DEF HandedInv
    <3>3. ASSUME NEW i \in DOMAIN results'[f]
          PROVE  ~results'[f][i].byOther => results'[f][i].diagnostics = {}
      BY <1>2, <1>7, <1>11, <2>1, <2>3 DEF HandedInv
    <3>4. ASSUME NEW i \in DOMAIN results'[f], results'[f][i].byOther
          PROVE  Own(f, results'[f][i].piece) \cap Home \subseteq Handed(f)'
      <4>1. CASE i = n
        BY <1>2, <1>7, <1>11, <1>16, <3>4, <4>1
      <4>2. CASE i # n
        BY <1>7, <1>15, <2>1, <2>3, <3>4, <4>2 DEF HandedInv
      <4> QED
        BY <4>1, <4>2
    <3>5. \A i \in DOMAIN results'[f] :
            (results[f][i].byOther => Own(f, results[f][i].piece) \cap Home \subseteq Handed(f))'
      BY <1>1, <3>4 DEF Own, InFile, Reports, Home, FoundElsewhere
    <3>6. (Handed(f) \subseteq InFile(f, Diag))'
      BY <3>2 DEF InFile
    <3> QED
      BY <2>3, <3>2, <3>3, <3>5, <3>6 DEF HandedInv, Home, FoundElsewhere
  <2> QED
    BY <2>2, <2>3
<1>18. ASSUME NEW g \in File, NEW b \in Checker PROVE HelperInv(g, b)'
  <2>1. HelperInv(g, b)
    BY DEF FoundInv
  <2>2. Handed(g) \subseteq Handed(g)'
    BY <1>14, <1>15
  <2>3. CASE b # c
    <3>1. found'[b] = found[b] /\ (Owning(b, g)' <=> Owning(b, g)) /\ (pc[b] = "panicked" => pc'[b] = "panicked")
      BY <1>4, <1>10, <1>12, <2>3 DEF Owning
    <3>2. InFile(g, found[b])' = InFile(g, found[b])
      BY <3>1 DEF InFile
    <3> QED
      BY <1>1, <2>1, <2>2, <3>1, <3>2 DEF HelperInv
  <2>4. CASE b = c /\ pc[c] = "ownPiece" /\ g = f
    BY <1>2, <1>3, <1>4, <2>4 DEF HelperInv, Owning, Owns
  <2>5. CASE b = c /\ pc[c] = "piece" /\ g = f
    <3>1. InFile(f, found'[c]) = InFile(f, found[c]) \cup Own(f, k)
      BY <1>10 DEF InFile, Own
    <3>2. InFile(f, found'[c]) \cap Home \subseteq Handed(f)'
      BY <1>16, <2>5, <3>1
    <3> QED
      BY <2>5, <3>2 DEF HelperInv, InFile
  <2>6. CASE b = c /\ g # f
    <3>1. ~Owning(c, g) /\ pc[c] # "panicked"
      BY <1>0, <1>2, <2>6 DEF Owning
    <3>2. InFile(g, Reports(f, pieces[f][k])) \cap Home = {}
      BY <1>3, <2>6, AtHome
    <3>3. InFile(g, found'[c]) = InFile(g, found[c]) \cup InFile(g, Reports(f, pieces[f][k]))
      BY <1>10 DEF InFile
    <3>4. pieces[g] # <<>> /\ reported[g].by = None => InFile(g, found'[c]) \cap Home \subseteq Handed(g)'
      BY <2>1, <2>2, <2>6, <3>1, <3>2, <3>3 DEF HelperInv
    <3> QED
      BY <1>1, <2>6, <3>4 DEF HelperInv, InFile
  <2> QED
    BY <1>2, <2>3, <2>4, <2>5, <2>6
<1>19. ASSUME NEW b \in Checker PROVE OwnerHas(b)'
  <2>1. OwnerHas(b)
    BY DEF FoundInv
  <2>2. CASE b # c /\ ~Owning(b, f)
    <3>1. Owns(b) => results'[item[b].file] = results[item[b].file]
      <4>1. Owns(b) => item[b].file \in File /\ item[b].file # f
        BY <2>2 DEF Owning, Inv, ItemInv, ItemOk
      <4> QED
        BY <1>5, <4>1
    <3>2. item'[b] = item[b] /\ found'[b] = found[b] /\ inPieces'[b] = inPieces[b]
          /\ (pc'[b] = pc[b] \/ (pc[b] = "asleep" /\ pc'[b] = "wait"))
      BY <1>1, <1>3, <1>4, <1>10, <2>2
    <3> QED
      BY <1>1, <2>1, <3>1, <3>2, OwnerHasStill
  <2>3. CASE b # c /\ Owning(b, f)
    <3>1. Owns(b) /\ item[b].file = f /\ item'[b] = item[b] /\ found'[b] = found[b] /\ Owns(b)'
      BY <1>4, <1>10, <1>12, <2>3 DEF Owning
    <3>2. pc[c] = "piece" /\ r.byOther
      <4>1. pc[c] = "ownPiece" => Owns(c)
        BY DEF Owns
      <4> QED
        BY <1>0, <1>2, <1>11, <2>3, <4>1 DEF OwnerInv
    <3>3. pc[b] # "callback"
      BY <1>8, <3>1 DEF Inv, ClaimInv
    <3>4. pc'[b] # "callback" /\ pc'[b] # "panicked" /\ pc'[b] # "compare" /\ pc[b] # "panicked"
      BY <1>3, <2>3, <3>1, <3>3 DEF Owns
    <3>5. /\ Own(f, 1) \subseteq found[b]
          /\ \A i \in DOMAIN results[f] : ~results[f][i].byOther => Own(f, results[f][i].piece) \subseteq found[b]
          /\ inPieces[b] = None
      BY <1>8, <2>1, <3>1, <3>3, <3>4 DEF OwnerHas
    <3>6. \A i \in DOMAIN results'[f] : ~results'[f][i].byOther => Own(f, results'[f][i].piece) \subseteq found[b]
      BY <1>7, <3>2, <3>5
    <3> QED
      BY <1>1, <1>13, <3>1, <3>4, <3>5, <3>6 DEF OwnerHas, Own, InFile, Reports
  <2>4. CASE b = c /\ pc[c] = "piece"
    <3>1. inPieces'[c] = None
      BY <1>1, <2>1, <2>4 DEF OwnerHas
    <3>2. pc'[c] = "next"
      BY <1>2, <1>3, <2>4
    <3> QED
      BY <2>4, <3>1, <3>2 DEF OwnerHas, Owns
  <2>5. CASE b = c /\ pc[c] = "ownPiece"
    <3>1. pc'[c] = "claim" /\ Owns(c)
      BY <1>2, <1>3, <2>5 DEF Owns
    <3>2. /\ Own(f, 1) \subseteq found[c]
          /\ \A i \in DOMAIN results[f] : ~results[f][i].byOther => Own(f, results[f][i].piece) \subseteq found[c]
          /\ inPieces[c] = None
      BY <1>0, <1>8, <2>1, <2>5, <3>1 DEF OwnerHas
    <3>3. Own(f, k) \subseteq found'[c] /\ found[c] \subseteq found'[c]
      BY <1>10 DEF Own, InFile
    <3>4. ASSUME NEW i \in DOMAIN results'[f], ~results'[f][i].byOther
          PROVE  Own(f, results'[f][i].piece) \subseteq found'[c]
      BY <1>2, <1>7, <3>2, <3>3, <3>4
    <3>5. Own(f, 1) \subseteq found'[c] /\ inPieces'[c] = None
      BY <1>1, <3>2, <3>3
    <3> QED
      BY <1>1, <1>4, <2>5, <3>1, <3>4, <3>5 DEF OwnerHas, Own, InFile, Reports
  <2> QED
    BY <1>2, <2>2, <2>3, <2>4, <2>5
<1>20. SplitMissesOnlyMerged'
  BY <1>1, MissesStill DEF FoundInv
<1>21. ASSUME NEW b \in Checker PROVE Compared(b)'
  <2>1. CASE b # c
    <3>1. \A g \in File : reported[g].by # None => results'[g] = results[g]
      BY <1>5, <1>8
    <3>2. item'[b] = item[b] /\ (pc'[b] \in {"compare", "differs"} => pc'[b] = pc[b])
      BY <1>3, <1>4, <2>1
    <3> QED
      BY <1>1, <3>1, <3>2, ComparedStill DEF FoundInv
  <2>2. CASE b = c
    BY <1>2, <1>3, <2>2 DEF Compared
  <2> QED
    BY <2>1, <2>2
<1> QED
  BY <1>17, <1>18, <1>19, <1>20, <1>21 DEF FoundInv

LEMMA MergeFound ==
    ASSUME Inv, OwnerInv, FoundInv, NEW c \in Checker, Merge(c)
    PROVE  FoundInv'
<1>1. PICK f \in File : f = item[c].file
  BY DEF Merge, Inv, ItemInv, ItemOk, Owns
<1>2. /\ pc[c] = "wait" /\ AllDone(f) /\ pieces[f] # <<>> /\ reported[f].by = None
      /\ inPieces' = [inPieces EXCEPT ![c] = f]
      /\ UNCHANGED <<shadow, pieces, queue, states, results, reported, item>>
  BY <1>1 DEF Merge, Inv, ItemInv, ItemOk, Owns, OwnerInv
<1>3. pc'[c] = "callback" /\ \A b \in Checker : b # c => pc'[b] = pc[b]
  BY GoFacts DEF Merge, Inv, Label
<1>4. inPieces'[c] = f /\ \A b \in Checker : b # c => inPieces'[b] = inPieces[b]
  BY <1>2 DEF Inv, TypeInv
<1>5. \A k : PieceReports(c, f, k) = Reports(f, pieces[f][k])
  BY <1>2, NotAChecker DEF PieceReports, TypeChecked
<1>6. \A k : Added(c, f, k) \subseteq Own(f, k)
  BY <1>5 DEF Added, Own, InFile
<1>7. HandedInv(f) /\ OwnerHas(c) /\ Owns(c)
  BY <1>2 DEF FoundInv, Owns
<1> DEFINE others == {results[f][i].piece : i \in ByOther(f)}
<1>8. \A k \in others : Own(f, k) \cap Home \subseteq Handed(f)
  BY <1>7 DEF HandedInv, ByOther
<1>9. Found(f, DOMAIN results[f]) = Handed(f)
  <2>1. \A i \in DOMAIN results[f] : i \notin ByOther(f) => results[f][i].diagnostics = {}
    BY <1>7 DEF HandedInv, ByOther
  <2>2. ByOther(f) \subseteq DOMAIN results[f]
    BY DEF ByOther
  <2> QED
    BY <2>1, <2>2 DEF Found, Handed
<1> DEFINE ds == IF shadow THEN UNION {PieceReports(c, f, k) : k \in others} ELSE Handed(f)
<1>10. /\ Finds(c, ds)
       /\ \/ ownerFound' = [ownerFound EXCEPT ![f] = UNION {Added(c, f, k) : k \in others}]
          \/ ownerFound' = ownerFound
  <2>1. CASE shadow
    BY <1>1, <2>1 DEF Merge
  <2>2. CASE ~shadow
    BY <1>1, <1>9, <2>2 DEF Merge
  <2> QED
    BY <2>1, <2>2
<1>11. \A k \in others : Own(f, k) \cap Home \subseteq ds /\ (shadow => Own(f, k) \subseteq ds)
  <2> SUFFICES ASSUME NEW k \in others
               PROVE  Own(f, k) \cap Home \subseteq ds /\ (shadow => Own(f, k) \subseteq ds)
    OBVIOUS
  <2>1. Own(f, k) \cap Home \subseteq Handed(f)
    BY <1>8
  <2>2. Own(f, k) \subseteq PieceReports(c, f, k)
    BY <1>5 DEF Own, InFile
  <2> HIDE DEF others
  <2> QED
    BY <2>1, <2>2
<1>12. ds \subseteq Diag /\ \A g \in File : g # f => InFile(g, ds) \cap Home = {}
  <2>1. CASE shadow
    <3>1. \A k : PieceReports(c, f, k) \subseteq Diag
      BY ReportsFacts DEF Inv
    <3>2. \A g \in File : g # f => \A k : InFile(g, PieceReports(c, f, k)) \cap Home = {}
      BY AtHome
    <3> HIDE DEF others
    <3> QED
      BY <2>1, <3>1, <3>2 DEF InFile
  <2>2. CASE ~shadow
    <3>1. ds = Handed(f) /\ Handed(f) \subseteq InFile(f, Diag)
      BY <1>7, <2>2 DEF HandedInv
    <3> HIDE DEF ds
    <3> QED
      BY <3>1 DEF InFile
  <2> QED
    BY <2>1, <2>2
<1>13. /\ \A g \in File : g # f => ownerFound'[g] = ownerFound[g]
       /\ ownerFound'[f] \cap Home \subseteq Handed(f)
  <2>1. (UNION {Added(c, f, k) : k \in others}) \cap Home \subseteq Handed(f)
    <3> HIDE DEF others
    <3> QED
      BY <1>6, <1>8
  <2>2. ownerFound \in [File -> SUBSET Diag] /\ ownerFound[f] \cap Home \subseteq Handed(f)
    BY <1>7 DEF Inv, TypeInv, HandedInv
  <2> HIDE DEF others
  <2> QED
    BY <1>10, <2>1, <2>2
<1> HIDE DEF ds
<1>14. found'[c] = found[c] \cup ds /\ \A b \in Checker : b # c => found'[b] = found[b]
  BY <1>10, <1>12, FindsType DEF Inv
<1>15. \A g, k : Own(g, k)' = Own(g, k)
  BY <1>2 DEF Own, InFile, Reports
<1>16. \A g : Handed(g)' = Handed(g)
  BY <1>2 DEF Handed, Found, ByOther
<1>17. ASSUME NEW g \in File PROVE HandedInv(g)'
  <2>1. HandedInv(g)
    BY DEF FoundInv
  <2>2. ownerFound'[g] \cap Home \subseteq Handed(g)'
    BY <1>13, <1>16, <2>1 DEF HandedInv
  <2> QED
    BY <1>2, <1>15, <1>16, <2>1, <2>2 DEF HandedInv, Own, InFile, Reports
<1>18. ASSUME NEW g \in File, NEW b \in Checker PROVE HelperInv(g, b)'
  <2>1. HelperInv(g, b)
    BY DEF FoundInv
  <2>2. CASE b # c
    BY <1>2, <1>3, <1>14, <1>16, <2>1, <2>2 DEF HelperInv, Owning, Owns, InFile
  <2>3. CASE b = c /\ g = f
    BY <1>1, <1>2, <1>3, <2>3 DEF HelperInv, Owning, Owns
  <2>4. CASE b = c /\ g # f
    <3>1. ~Owning(c, g) /\ pc[c] # "panicked"
      BY <1>1, <1>2, <2>4 DEF Owning
    <3>2. InFile(g, found'[c]) = InFile(g, found[c]) \cup InFile(g, ds)
      BY <1>14 DEF InFile
    <3>3. pieces[g] # <<>> /\ reported[g].by = None => InFile(g, found'[c]) \cap Home \subseteq Handed(g)
      BY <1>12, <2>1, <2>4, <3>1, <3>2 DEF HelperInv
    <3> QED
      BY <1>2, <1>16, <2>4, <3>3 DEF HelperInv, InFile
  <2> QED
    BY <2>2, <2>3, <2>4
<1>19. ASSUME NEW b \in Checker PROVE OwnerHas(b)'
  <2>1. OwnerHas(b)
    BY DEF FoundInv
  <2>2. CASE b # c
    BY <1>2, <1>3, <1>4, <1>14, <2>1, <2>2, OwnerHasStill
  <2>3. CASE b = c
    <3>1. Own(f, 1) \subseteq found'[c]
      BY <1>1, <1>2, <1>7, <1>14 DEF OwnerHas
    <3>2. ASSUME NEW i \in DOMAIN results[f]
          PROVE  /\ Own(f, results[f][i].piece) \cap Home \subseteq found'[c]
                 /\ ~results[f][i].byOther \/ shadow => Own(f, results[f][i].piece) \subseteq found'[c]
      <4>1. CASE results[f][i].byOther
        <5>1. results[f][i].piece \in others
          BY <4>1 DEF ByOther
        <5> QED
          BY <1>11, <1>14, <4>1, <5>1
      <4>2. CASE ~results[f][i].byOther
        BY <1>1, <1>2, <1>7, <1>14, <4>2 DEF OwnerHas
      <4> QED
        BY <4>1, <4>2
    <3>3. item'[c].file = f /\ UNCHANGED <<shadow, pieces, results>>
      BY <1>1, <1>2
    <3>4. /\ (Own(f, 1) \subseteq found[c])'
          /\ \A i \in DOMAIN results'[f] :
               /\ (Own(f, results[f][i].piece) \cap Home \subseteq found[c])'
               /\ (~results[f][i].byOther \/ shadow => Own(f, results[f][i].piece) \subseteq found[c])'
      BY <3>1, <3>2, <3>3 DEF Own, InFile, Reports, Home, FoundElsewhere
    <3> QED
      BY <1>2, <1>3, <1>4, <2>3, <3>3, <3>4 DEF OwnerHas, Own
  <2> QED
    BY <2>2, <2>3
<1>20. SplitMissesOnlyMerged'
  BY <1>2, MissesStill DEF FoundInv
<1>21. ASSUME NEW b \in Checker PROVE Compared(b)'
  <2>1. CASE b # c
    <3>1. \A g \in File : reported[g].by # None => ownerFound'[g] = ownerFound[g]
      BY <1>2, <1>13
    <3> QED
      BY <1>2, <1>3, <2>1, <3>1, ComparedStill DEF FoundInv
  <2>2. CASE b = c
    BY <1>3, <2>2 DEF Compared
  <2> QED
    BY <2>1, <2>2
<1> QED
  BY <1>17, <1>18, <1>19, <1>20, <1>21 DEF FoundInv

\* The callback reports the whole file but for what it may miss: each statement
\* has been checked, in a piece of its owner, in one whose diagnostics were
\* merged, or just now.
LEMMA CallbackReports ==
    ASSUME Inv, FoundInv, NEW c \in Checker, pc[c] = "callback", NEW f \in File, f = item[c].file,
           NEW d \in Diag, Located[d] = f, ~MayMiss(f, d)
    PROVE  d \in found[c] \cup
                 Reports(f, {FileLevel} \cup (IF inPieces[c] = f THEN {} ELSE 1 .. Statements[f]))
<1> DEFINE ss == {FileLevel} \cup (IF inPieces[c] = f THEN {} ELSE 1 .. Statements[f])
<1>0. OwnerHas(c) /\ Owns(c)
  BY DEF FoundInv, Owns
<1>1. PICK st \in 0 .. Statements[f] : <<f, st>> \in Finders[d]
  BY DiagAssumption
<1>2. st = FileLevel \/ st \in 1 .. Statements[f]
  BY FilesAreNumbers DEF FileLevel
<1>3. CASE st \in ss
  BY <1>1, <1>3 DEF Reports
<1>4. CASE st \notin ss
  <2>1. inPieces[c] = f /\ st \in 1 .. Statements[f]
    BY <1>2, <1>4
  <2>2. pieces[f] # <<>>
    BY <1>0, <2>1 DEF OwnerHas
  <2>3. CASE \E s \in {FileLevel} \cup pieces[f][1] : <<f, s>> \in Finders[d]
    <3>1. PICK s \in {FileLevel} \cup pieces[f][1] : <<f, s>> \in Finders[d]
      BY <2>3
    <3>2. CASE s = FileLevel
      BY <3>1, <3>2 DEF Reports
    <3>3. CASE s \in pieces[f][1]
      <4>1. d \in Own(f, 1)
        BY <3>1, <3>3 DEF Own, InFile, Reports
      <4> QED
        BY <1>0, <2>2, <4>1 DEF OwnerHas
    <3> QED
      BY <3>1, <3>2, <3>3
  <2>4. CASE ~\E s \in {FileLevel} \cup pieces[f][1] : <<f, s>> \in Finders[d]
    <3>1. shadow \/ d \in Home
      BY <2>2, <2>4 DEF MayMiss, Home
    <3>2. PICK k \in DOMAIN pieces[f] : st \in pieces[f][k]
      BY <2>1, <2>2 DEF Inv, PiecesInv, Partition
    <3>3. d \in Own(f, k)
      BY <1>1, <3>2 DEF Own, InFile, Reports
    <3>4. k \in Queued(f)
      <4>1. pieces[f] \in Seq(SUBSET Nat)
        BY DEF Inv, PiecesInv
      <4>2. Len(pieces[f]) \in Nat /\ DOMAIN pieces[f] = 1 .. Len(pieces[f])
        BY <4>1
      <4>3. k # 1
        BY <1>1, <2>4, <3>2
      <4> QED
        BY <3>2, <4>2, <4>3 DEF Queued
    <3>5. HasResult(f, k)
      BY <3>4 DEF Inv, ClaimInv, AllDone
    <3>6. PICK i \in DOMAIN results[f] : results[f][i].piece = k
      BY <3>5 DEF HasResult
    <3> QED
      BY <1>0, <2>2, <3>1, <3>3, <3>6 DEF OwnerHas
  <2> QED
    BY <2>3, <2>4
<1> QED
  BY <1>3, <1>4

LEMMA CallbackFound ==
    ASSUME Inv, OwnerInv, FoundInv, NEW c \in Checker, Callback(c)
    PROVE  FoundInv'
<1>1. PICK f \in File : f = item[c].file
  BY DEF Callback, Inv, ItemInv, ItemOk, Owns
<1> DEFINE ss == {FileLevel} \cup (IF inPieces[c] = f THEN {} ELSE 1 .. Statements[f])
           all == found[c] \cup Reports(f, ss)
<1>2. /\ pc[c] = "callback"
      /\ found' = [found EXCEPT ![c] = all]
      /\ reported' = [reported EXCEPT ![f] = [by |-> c, diagnostics |-> InFile(f, all)]]
      /\ inPieces' = [inPieces EXCEPT ![c] = None]
      /\ UNCHANGED <<shadow, pieces, queue, states, results, ownerFound, item>>
  BY <1>1 DEF Callback
<1>3. /\ InFile(f, all) \subseteq InFile(f, Diag)
      /\ \A d \in InFile(f, Diag) \ InFile(f, all) : MayMiss(f, d)
  <2>1. all \subseteq Diag
    <3>1. Reports(f, ss) \subseteq Diag
      BY ReportsFacts DEF Inv
    <3>2. found[c] \subseteq Diag
      BY DEF Inv, TypeInv
    <3> QED
      BY <3>1, <3>2
  <2>2. \A d \in Diag : Located[d] = f => d \in all \/ MayMiss(f, d)
    BY <1>1, <1>2, CallbackReports
  <2> HIDE DEF all
  <2> QED
    BY <2>1, <2>2 DEF InFile
<1>4. \A g \in File : g # f => InFile(g, all) \cap Home \subseteq InFile(g, found[c])
  <2> SUFFICES ASSUME NEW g \in File, g # f PROVE InFile(g, all) \cap Home \subseteq InFile(g, found[c])
    OBVIOUS
  <2>1. InFile(g, Reports(f, ss)) \cap Home = {}
    BY AtHome
  <2> HIDE DEF ss
  <2> QED
    BY <2>1 DEF InFile
<1> HIDE DEF all, ss
<1>5. /\ found'[c] = all /\ \A b \in Checker : b # c => found'[b] = found[b]
      /\ inPieces'[c] = None /\ \A b \in Checker : b # c => inPieces'[b] = inPieces[b]
      /\ reported'[f].by = c /\ reported'[f].diagnostics = InFile(f, all)
      /\ \A g \in File : g # f => reported'[g] = reported[g]
  BY <1>2 DEF Inv, TypeInv
<1>6. pc'[c] \in {"compare", "next"} /\ (pc'[c] = "compare" => shadow) /\ \A b \in Checker : b # c => pc'[b] = pc[b]
  <2>1. PICK l \in {"compare", "next"} : Go(c, l) /\ (l = "compare" => shadow)
    BY DEF Callback
  <2> QED
    BY <2>1, GoFacts DEF Label, Inv
<1>7. \A g, k : Own(g, k)' = Own(g, k)
  BY <1>2 DEF Own, InFile, Reports
<1>8. \A g : Handed(g)' = Handed(g)
  BY <1>2 DEF Handed, Found, ByOther
<1>9. ASSUME NEW g \in File PROVE HandedInv(g)'
  <2>1. HandedInv(g)
    BY DEF FoundInv
  <2> QED
    BY <1>2, <1>7, <1>8, <2>1 DEF HandedInv, Own, InFile, Reports
<1>10. ASSUME NEW g \in File, NEW b \in Checker PROVE HelperInv(g, b)'
  <2>1. HelperInv(g, b)
    BY DEF FoundInv
  <2>2. CASE g = f
    BY <1>5, <2>2, NotAChecker DEF HelperInv
  <2>3. CASE g # f /\ b # c
    <3>1. (Owning(b, g)' <=> Owning(b, g)) /\ pc'[b] = pc[b] /\ found'[b] = found[b] /\ reported'[g] = reported[g]
      BY <1>2, <1>5, <1>6, <2>3 DEF Owning, Owns
    <3> QED
      BY <1>2, <1>8, <2>1, <3>1 DEF HelperInv, InFile
  <2>4. CASE g # f /\ b = c
    <3>1. ~Owning(c, g) /\ pc[c] # "panicked"
      BY <1>1, <1>2, <2>4 DEF Owning
    <3>2. pieces[g] # <<>> /\ reported[g].by = None => InFile(g, found'[c]) \cap Home \subseteq Handed(g)
      BY <1>4, <1>5, <2>1, <2>4, <3>1 DEF HelperInv
    <3> QED
      BY <1>2, <1>5, <1>8, <2>4, <3>2 DEF HelperInv, InFile
  <2> QED
    BY <2>2, <2>3, <2>4
<1>11. ASSUME NEW b \in Checker PROVE OwnerHas(b)'
  <2>1. OwnerHas(b)
    BY DEF FoundInv
  <2>2. CASE b # c
    BY <1>2, <1>5, <1>6, <2>1, <2>2, OwnerHasStill
  <2>3. CASE b = c
    BY <1>5, <1>6, <2>3 DEF OwnerHas, Owns
  <2> QED
    BY <2>2, <2>3
<1>12. ASSUME NEW b \in Checker PROVE Compared(b)'
  <2>1. CASE b # c
    <3>1. \A g \in File : reported[g].by # None => reported'[g].by # None
      BY <1>5, NotAChecker
    <3> QED
      BY <1>2, <1>6, <2>1, <3>1, ComparedStill DEF FoundInv
  <2>2. CASE b = c
    BY <1>1, <1>2, <1>5, <1>6, <2>2, NotAChecker DEF Compared
  <2> QED
    BY <2>1, <2>2
<1>13. SplitMissesOnlyMerged'
  <2>1. ASSUME NEW g \in File, reported'[g].by # None
        PROVE  /\ reported'[g].diagnostics \subseteq InFile(g, Diag)
               /\ \A d \in InFile(g, Diag) \ reported'[g].diagnostics : MayMiss(g, d)
    <3>1. CASE g = f
      BY <1>3, <1>5, <3>1
    <3>2. CASE g # f
      BY <1>5, <2>1, <3>2 DEF FoundInv, SplitMissesOnlyMerged
    <3> QED
      BY <3>1, <3>2
  <2> QED
    BY <1>2, <2>1 DEF SplitMissesOnlyMerged, MayMiss, InFile, FoundElsewhere
<1> QED
  BY <1>9, <1>10, <1>11, <1>12, <1>13 DEF FoundInv

LEMMA StepFound ==
    ASSUME Inv, OwnerInv, FoundInv, [Next]_vars
    PROVE  FoundInv'
<1>1. CASE UNCHANGED vars
  <2>1. \A b \in Checker : Compared(b)'
    BY <1>1, ComparedStill DEF FoundInv, vars
  <2> QED
    BY <1>1, <2>1, QuietFound DEF vars, Owns
<1>2. ASSUME NEW c \in Checker, NEW l, MovesOn(c, l), l = "differs" => Compared(c)' PROVE FoundInv'
  <2>1. pc'[c] = l /\ \A b \in Checker : b # c => pc'[b] = pc[b]
    BY <1>2, GoFacts DEF MovesOn, Inv, Label
  <2>2. \A b \in Checker : /\ item'[b].file = item[b].file
                           /\ Owns(b)' => Owns(b)
                           /\ Owns(b) => Owns(b)' \/ pc'[b] = "panicked"
                           /\ pc[b] = "panicked" => pc'[b] = "panicked"
                           /\ pc'[b] = "callback" => pc[b] = "callback"
                           /\ pc[b] = "callback" => pc'[b] \in {"callback", "panicked"}
    BY <1>2, <2>1 DEF MovesOn, Owns
  <2>3. ASSUME NEW b \in Checker, pc'[b] \in {"compare", "differs"} PROVE Compared(b)'
    <3>1. CASE b = c
      BY <1>2, <2>1, <2>3, <3>1 DEF MovesOn
    <3>2. CASE b # c
      BY <1>2, <2>1, <3>2, ComparedStill DEF MovesOn, FoundInv
    <3> QED
      BY <3>1, <3>2
  <2> QED
    BY <1>2, <2>2, <2>3, QuietFound DEF MovesOn
<1>3. ASSUME NEW c \in Checker, NEW l, Claims(c, l) PROVE FoundInv'
  <2>1. pc'[c] = l /\ \A b \in Checker : b # c => pc'[b] = pc[b]
    BY <1>3, GoFacts DEF Claims, Inv, Label
  <2>2. \A b \in Checker : /\ item'[b].file = item[b].file
                           /\ Owns(b)' => Owns(b)
                           /\ Owns(b) => Owns(b)' \/ pc'[b] = "panicked"
                           /\ pc[b] = "panicked" => pc'[b] = "panicked"
                           /\ pc'[b] = "callback" => pc[b] = "callback"
                           /\ pc[b] = "callback" => pc'[b] \in {"callback", "panicked"}
                           /\ pc'[b] \in {"compare", "differs"} => pc'[b] = pc[b]
    BY <1>3, <2>1 DEF Claims, Owns
  <2>3. \A b \in Checker : Compared(b)'
    BY <1>3, <2>2, ComparedStill DEF Claims, FoundInv
  <2> QED
    BY <1>3, <2>2, <2>3, QuietFound DEF Claims
<1>4. ASSUME NEW c \in Checker, Skips(c) PROVE FoundInv'
  <2>1. item \in [Checker -> [file : Nat, piece : Nat]]
    BY DEF Inv, TypeInv
  <2>2. \A b \in Checker : /\ item'[b].file = item[b].file /\ pc'[b] = pc[b]
                           /\ Owns(b)' <=> Owns(b)
    BY <1>4, <2>1 DEF Skips, Owns
  <2>3. \A b \in Checker : Compared(b)'
    BY <1>4, <2>2, ComparedStill DEF Skips, FoundInv
  <2> QED
    BY <1>4, <2>2, <2>3, QuietFound DEF Skips
<1>5. ASSUME NEW c \in Checker, ShadowCompare(c) PROVE FoundInv'
  <2>1. PICK f \in File : f = item[c].file
    BY <1>5 DEF ShadowCompare, Inv, ItemInv, ItemOk
  <2>2. Compared(c) /\ HandedInv(f) /\ SplitMissesOnlyMerged /\ ownerFound[f] \subseteq Diag
    BY DEF FoundInv, Inv, TypeInv
  <2>3. shadow /\ reported[f].by # None
    BY <1>5, <2>1, <2>2 DEF ShadowCompare, Compared
  <2>4. \A d \in InFile(f, Diag) : d \in reported[f].diagnostics
    BY <2>2, <2>3 DEF SplitMissesOnlyMerged, MayMiss
  <2>5. Handed(f) \subseteq reported[f].diagnostics
    BY <2>2, <2>4 DEF HandedInv
  <2>6. /\ UNCHANGED <<shadow, results, ownerFound, reported, item>>
        /\ Go(c, IF ownerFound[f] \subseteq Handed(f) THEN "next" ELSE "differs")
    BY <1>5, <2>1, <2>5 DEF ShadowCompare, Handed
  <2>7. CASE ownerFound[f] \subseteq Handed(f)
    <3>1. MovesOn(c, "next")
      BY <1>5, <2>6, <2>7 DEF ShadowCompare, MovesOn, Owns
    <3> QED
      BY <1>2, <3>1
  <2>8. CASE ~(ownerFound[f] \subseteq Handed(f))
    <3>1. PICK d \in ownerFound[f] \ Handed(f) : TRUE
      BY <2>8
    <3>2. FoundElsewhere(d)
      BY <2>2, <3>1 DEF HandedInv, Home
    <3>3. \A g : Handed(g)' = Handed(g)
      BY <2>6 DEF Handed, Found, ByOther
    <3>4. Compared(c)'
      BY <2>1, <2>3, <2>6, <3>1, <3>2, <3>3 DEF Compared, FoundElsewhere
    <3>5. MovesOn(c, "differs")
      BY <1>5, <2>6, <2>8 DEF ShadowCompare, MovesOn, Owns
    <3> QED
      BY <1>2, <3>4, <3>5
  <2> QED
    BY <2>7, <2>8
<1>6. ASSUME NEW c \in Checker, CheckerStep(c) \/ WakeUp(c) \/ Panic(c)
      PROVE  FoundInv'
  <2>1. CASE TakeOwn(c) \/ Steal(c)
    BY <2>1, TakeFacts, TakeFound DEF Inv
  <2>2. CASE Stop(c) \/ Sleep(c) \/ WakeUp(c) \/ Panic(c)
    <3>1. PICK l \in {"stopped", "asleep", "wait", "panicked"} : MovesOn(c, l)
      BY <2>2 DEF Stop, Sleep, WakeUp, Panic, MovesOn, Owns
    <3> QED
      BY <1>2, <3>1
  <2>3. CASE RunQueuedPiece(c) \/ RunOwner(c)
    BY <1>2, <1>3, <1>4, <2>3, WhoClaims
  <2>4. CASE FinishQueuedPiece(c) \/ FinishOwnPiece(c)
    BY <2>4, WhoFinishes, FinishFound
  <2>5. CASE Merge(c) \/ Callback(c)
    BY <2>5, MergeFound, CallbackFound
  <2> QED
    BY <1>5, <1>6, <2>1, <2>2, <2>3, <2>4, <2>5 DEF CheckerStep
<1> QED
  BY <1>1, <1>6 DEF Next, Done

LEMMA InitFound == Init => OwnerInv /\ FoundInv
<1> SUFFICES ASSUME Init PROVE OwnerInv /\ FoundInv
  OBVIOUS
<1>1. /\ \A f \in File : results[f] = <<>> /\ ownerFound[f] = {} /\ reported[f].by = None
      /\ \A c \in Checker : found[c] = {} /\ inPieces[c] = None /\ pc[c] = "next"
  BY DEF Init
<1>2. \A f \in File : DOMAIN results[f] = {} /\ Handed(f) = {}
  BY <1>1 DEF Handed, Found, ByOther
<1>3. \A c \in Checker : ~Owns(c)
  BY <1>1 DEF Owns
<1>4. \A f \in File : Free(f)
  BY <1>1, <1>2, <1>3 DEF Free, Owning
<1>5. \A c \in Checker : \A i \in DOMAIN queue[c] : Free(queue[c][i].file)
  BY <1>4, InitQueue, QueuedFile
<1>6. OwnerInv
  BY <1>3, <1>5 DEF OwnerInv
<1>7. \A f \in File : HandedInv(f)
  BY <1>1, <1>2 DEF HandedInv, InFile
<1>8. \A f \in File, c \in Checker : HelperInv(f, c)
  BY <1>1 DEF HelperInv, InFile
<1>9. \A c \in Checker : OwnerHas(c) /\ Compared(c)
  BY <1>1, <1>3 DEF OwnerHas, Compared
<1> QED
  BY <1>1, <1>6, <1>7, <1>8, <1>9 DEF FoundInv, SplitMissesOnlyMerged

LEMMA FoundInvariant == Spec => [](Inv /\ OwnerInv /\ FoundInv)
<1>1. Init => Inv /\ OwnerInv /\ FoundInv
  BY InitInv, InitFound
<1>2. Inv /\ OwnerInv /\ FoundInv /\ [Next]_vars => (Inv /\ OwnerInv /\ FoundInv)'
  BY StepInv, StepOwners, StepFound
<1> QED
  BY <1>1, <1>2, PTL DEF Spec

(* Whoever checks which piece, and when, a split file reports what is      *)
(* located in it but for errors of merged declarations, which a helper met *)
(* in another file before its piece (`check_source_file_piece` hands back  *)
(* only what the piece adds).  This is the part of "why the output is the  *)
(* same" that the code keeps for every program.                            *)
THEOREM SplitReports == Spec => []SplitMissesOnlyMerged
<1>1. FoundInv => SplitMissesOnlyMerged
  BY DEF FoundInv
<1> QED
  BY <1>1, FoundInvariant, PTL

(* `shadow_compare` panics only over such an error: one that the owner     *)
(* found in another checker's piece and that checker did not hand back.    *)
THEOREM ShadowDiffers == Spec => []ShadowDiffersOnlyOnMerged
<1>1. FoundInv => ShadowDiffersOnlyOnMerged
  BY DEF FoundInv, Compared, ShadowDiffersOnlyOnMerged, Handed
<1> QED
  BY <1>1, FoundInvariant, PTL

=============================================================================
