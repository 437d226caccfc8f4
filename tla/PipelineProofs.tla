--------------------------- MODULE PipelineProofs ---------------------------
(***************************************************************************)
(* For any tree, providers, decorations, lints and rules: the decorations  *)
(* of a tree are found where they were put, and the walk shows each        *)
(* visible node once, in the order of the text, with what sits on it.      *)
(***************************************************************************)
EXTENDS Pipeline, FiniteSetTheorems, SequenceTheorems, WellFoundedInduction, TLAPS

(* Induction, up to a number, as a fact about a set.                       *)
LEMMA Least ==
    ASSUME NEW S \in SUBSET Nat, S # {}
    PROVE  \E m \in S : \A i \in S : m <= i
<1>1. PICK m \in S : \A i \in Nat : <<i, m>> \in OpToRel(<, Nat) => i \notin S
  BY NatLessThanWellFounded, WFMin
<1>2. \A i \in S : ~(i < m)
  BY <1>1 DEF OpToRel
<1> QED
  BY <1>2

LEMMA UpTo ==
    ASSUME NEW n \in Nat, NEW S, 0 \in S, \A i \in 0 .. n : i < n /\ i \in S => i + 1 \in S
    PROVE  0 .. n \subseteq S
<1> DEFINE T == (0 .. n) \ S
<1> SUFFICES ASSUME T # {} PROVE FALSE
  OBVIOUS
<1>0. T \in SUBSET Nat
  OBVIOUS
<1> HIDE DEF T
<1>1. PICK m \in T : \A i \in T : m <= i
  BY <1>0, Least
<1>2. m - 1 \in 0 .. n /\ m - 1 < n /\ (m - 1) + 1 = m
  <2>1. m \in 0 .. n /\ m # 0
    BY <1>1 DEF T
  <2> QED
    BY <2>1
<1>3. m - 1 \in S
  <2>1. ~(m <= m - 1)
    BY <1>2
  <2> QED
    BY <1>1, <1>2, <2>1 DEF T
<1> QED
  BY <1>1, <1>2, <1>3 DEF T

LEMMA FunctionIsSeq ==
    ASSUME NEW n \in Nat, NEW S, NEW f \in [1 .. n -> S]
    PROVE  f \in Seq(S) /\ Len(f) = n
<1>1. f \in Seq(S)
  BY SeqDef
<1>2. Len(f) \in Nat /\ DOMAIN f = 1 .. Len(f)
  BY <1>1, LenProperties
<1>3. 1 .. Len(f) = 1 .. n
  BY <1>2
<1> DEFINE l == Len(f)
<1>4. l \in Nat /\ 1 .. l = 1 .. n
  BY <1>2, <1>3
<1> HIDE DEF l
<1>5. l <= n /\ n <= l
  <2>1. l # 0 => l \in 1 .. l
    BY <1>4
  <2>2. n # 0 => n \in 1 .. n
    OBVIOUS
  <2>3. l # 0 => l <= n
    BY <1>4, <2>1
  <2>4. n # 0 => n <= l
    BY <1>4, <2>2
  <2> QED
    BY <1>4, <2>3, <2>4
<1>6. l = n
  BY <1>4, <1>5
<1> QED
  BY <1>1, <1>6 DEF l

(* A function that is defined by recursion exists.                         *)
Recursive(n, S, base, step) ==
    {g \in [0 .. n -> S] : g[0] = base /\ \A i \in 1 .. n : g[i] = step[i][g[i - 1]]}

LEMMA Recursion ==
    ASSUME NEW n \in Nat, NEW S, NEW base \in S, NEW step \in [1 .. n -> [S -> S]]
    PROVE  Recursive(n, S, base, step) # {}
<1> DEFINE Part(m) == Recursive(m, S, base, step)
           Good == {m \in 0 .. n : Part(m) # {}}
<1> USE DEF Recursive
<1>1. 0 \in Good
  <2>1. [i \in 0 .. 0 |-> base] \in Part(0)
    OBVIOUS
  <2> QED
    BY <2>1
<1>2. ASSUME NEW m \in 0 .. n, m < n, m \in Good PROVE m + 1 \in Good
  <2>1. PICK g \in [0 .. m -> S] : g[0] = base /\ \A i \in 1 .. m : g[i] = step[i][g[i - 1]]
    BY <1>2
  <2> DEFINE h == [i \in 0 .. m + 1 |-> IF i = m + 1 THEN step[m + 1][g[m]] ELSE g[i]]
  <2>2. m \in Nat /\ m + 1 \in 1 .. n /\ g[m] \in S
    BY <1>2, <2>1
  <2>3. step[m + 1][g[m]] \in S
    BY <2>2
  <2>4. h \in [0 .. m + 1 -> S]
    BY <2>2, <2>3, <2>1
  <2>5. h[0] = base
    BY <2>1, <2>2
  <2>6. ASSUME NEW i \in 1 .. m + 1 PROVE h[i] = step[i][h[i - 1]]
    <3>1. i - 1 \in 0 .. m /\ h[i - 1] = g[i - 1]
      BY <2>2, <2>6
    <3>2. CASE i = m + 1
      BY <2>2, <3>1, <3>2
    <3>3. CASE i # m + 1
      <4>1. i \in 1 .. m
        BY <2>2, <2>6, <3>3
      <4> QED
        BY <2>1, <2>2, <3>1, <3>3, <4>1
    <3> QED
      BY <3>2, <3>3
  <2> HIDE DEF h
  <2>7. h \in Part(m + 1)
    BY <2>4, <2>5, <2>6
  <2> QED
    BY <2>2, <2>7
<1> HIDE DEF Good
<1>3. 0 .. n \subseteq Good
  BY <1>1, <1>2, UpTo
<1>4. n \in Good
  BY <1>3
<1> QED
  BY <1>4 DEF Good

-----------------------------------------------------------------------------
(* Places in a total order.                                                *)
TotalOrder(S, R) ==
    /\ \A p \in S : <<p, p>> \in R
    /\ \A p, q \in S : <<p, q>> \in R \/ <<q, p>> \in R
    /\ \A p, q \in S : <<p, q>> \in R /\ <<q, p>> \in R => p = q
    /\ \A p, q, r \in S : <<p, q>> \in R /\ <<q, r>> \in R => <<p, r>> \in R

UpToIn(S, R, p) == {q \in S : <<q, p>> \in R}

PlaceIn(S, R, p) == Cardinality(UpToIn(S, R, p))

LEMMA PlacesInOrder ==
    ASSUME NEW S, IsFiniteSet(S), NEW R, TotalOrder(S, R)
    PROVE  /\ Cardinality(S) \in Nat
           /\ \A p \in S : PlaceIn(S, R, p) \in 1 .. Cardinality(S)
           /\ \A p, q \in S : <<p, q>> \in R /\ p # q => PlaceIn(S, R, p) < PlaceIn(S, R, q)
           /\ \A p, q \in S : PlaceIn(S, R, p) = PlaceIn(S, R, q) => p = q
           /\ \A r \in 1 .. Cardinality(S) : \E p \in S : PlaceIn(S, R, p) = r
<1> DEFINE c == Cardinality(S)
           Place(p) == PlaceIn(S, R, p)
<1>0. c \in Nat
  BY FS_CardinalityType
<1>1. \A p \in S : /\ UpToIn(S, R, p) \in SUBSET S /\ p \in UpToIn(S, R, p)
                   /\ IsFiniteSet(UpToIn(S, R, p))
                   /\ Place(p) \in Nat /\ Place(p) <= c /\ Place(p) # 0
  <2> TAKE p \in S
  <2>1. UpToIn(S, R, p) \in SUBSET S /\ p \in UpToIn(S, R, p)
    BY DEF UpToIn, TotalOrder
  <2>2. IsFiniteSet(UpToIn(S, R, p)) /\ Place(p) <= c
    BY <2>1, FS_Subset DEF PlaceIn
  <2>3. Place(p) \in Nat /\ Place(p) # 0
    BY <2>1, <2>2, FS_CardinalityType, FS_EmptySet DEF PlaceIn
  <2> QED
    BY <2>1, <2>2, <2>3
<1>2. ASSUME NEW p \in S, NEW q \in S, <<p, q>> \in R, p # q PROVE Place(p) < Place(q)
  <2>1. UpToIn(S, R, p) \in SUBSET UpToIn(S, R, q) /\ q \in UpToIn(S, R, q) /\ q \notin UpToIn(S, R, p)
    BY <1>2 DEF UpToIn, TotalOrder
  <2>2. Place(p) <= Place(q) /\ Place(p) # Place(q)
    BY <1>1, <2>1, FS_Subset DEF PlaceIn
  <2> QED
    BY <1>1, <2>2
<1> HIDE DEF Place, c
<1>3. \A p, q \in S : Place(p) = Place(q) => p = q
  <2> SUFFICES ASSUME NEW p \in S, NEW q \in S, p # q PROVE Place(p) # Place(q)
    OBVIOUS
  <2>1. <<p, q>> \in R \/ <<q, p>> \in R
    BY DEF TotalOrder
  <2> QED
    BY <1>1, <1>2, <2>1
<1> DEFINE f == [p \in S |-> Place(p)]
<1>4. f \in Injection(S, 1 .. c)
  BY <1>0, <1>1, <1>3 DEF Injection, IsInjective
<1>5. IsFiniteSet(1 .. c) /\ Cardinality(1 .. c) = c
  BY <1>0, FS_Interval
<1> HIDE DEF f
<1>6. f \in Surjection(S, 1 .. c)
  BY <1>4, <1>5, FS_Injection DEF c
<1>7. \A r \in 1 .. c : \E p \in S : Place(p) = r
  BY <1>6 DEF f, Surjection
<1>8. \A p \in S : Place(p) \in 1 .. c
  BY <1>0, <1>1
<1> QED
  BY <1>0, <1>2, <1>3, <1>7, <1>8 DEF Place, c

\* The elements of a set, each at its place.
Enumerated(S, R) ==
    [r \in 1 .. Cardinality(S) |-> CHOOSE p \in S : PlaceIn(S, R, p) = r]

LEMMA EnumeratedInOrder ==
    ASSUME NEW S, IsFiniteSet(S), NEW R, TotalOrder(S, R)
    PROVE  LET e == Enumerated(S, R)
               c == Cardinality(S)
           IN  /\ c \in Nat /\ e \in [1 .. c -> S]
               /\ \A r \in 1 .. c : PlaceIn(S, R, e[r]) = r
               /\ \A p \in S : PlaceIn(S, R, p) \in 1 .. c /\ e[PlaceIn(S, R, p)] = p
               /\ \A r, s \in 1 .. c : r < s => <<e[r], e[s]>> \in R /\ e[r] # e[s]
<1> DEFINE e == Enumerated(S, R)
           c == Cardinality(S)
           Place(p) == PlaceIn(S, R, p)
<1>1. /\ c \in Nat
      /\ \A p \in S : Place(p) \in 1 .. c
      /\ \A p, q \in S : <<p, q>> \in R /\ p # q => Place(p) < Place(q)
      /\ \A p, q \in S : Place(p) = Place(q) => p = q
      /\ \A r \in 1 .. c : \E p \in S : Place(p) = r
  BY PlacesInOrder
<1>2. e = [r \in 1 .. c |-> CHOOSE p \in S : Place(p) = r]
  BY DEF Enumerated
<1> HIDE DEF e, c, Place
<1>3. \A r \in 1 .. c : e[r] \in S /\ Place(e[r]) = r
  BY <1>1, <1>2
<1>4. e \in [1 .. c -> S]
  BY <1>2, <1>3
<1>5. \A p \in S : e[Place(p)] = p
  BY <1>1, <1>3
<1>6. ASSUME NEW r \in 1 .. c, NEW s \in 1 .. c, r < s PROVE <<e[r], e[s]>> \in R /\ e[r] # e[s]
  <2>1. e[r] # e[s]
    BY <1>1, <1>3, <1>6
  <2>2. <<e[r], e[s]>> \in R \/ <<e[s], e[r]>> \in R
    BY <1>3 DEF TotalOrder
  <2>3. <<e[s], e[r]>> \notin R
    BY <1>1, <1>3, <1>6, <2>1
  <2> QED
    BY <2>1, <2>2, <2>3
<1> QED
  BY <1>1, <1>3, <1>4, <1>5, <1>6 DEF e, c, Place

\* What is closed downward comes first.
LEMMA ClosedComesFirst ==
    ASSUME NEW S, IsFiniteSet(S), NEW R, TotalOrder(S, R), NEW L \in SUBSET S,
           \A p \in L, q \in S : <<q, p>> \in R => q \in L
    PROVE  /\ Cardinality(L) \in 0 .. Cardinality(S)
           /\ \A r \in 1 .. Cardinality(S) : Enumerated(S, R)[r] \in L <=> r <= Cardinality(L)
<1>1. IsFiniteSet(L) /\ Cardinality(L) <= Cardinality(S)
  BY FS_Subset
<1>2. Cardinality(L) \in Nat /\ Cardinality(S) \in Nat
  BY <1>1, FS_CardinalityType
<1>3. SUFFICES ASSUME NEW r \in 1 .. Cardinality(S)
               PROVE  Enumerated(S, R)[r] \in L <=> r <= Cardinality(L)
  BY <1>1, <1>2
<1>4. PICK p \in S : p = Enumerated(S, R)[r] /\ PlaceIn(S, R, p) = r
  BY EnumeratedInOrder
<1>5. /\ UpToIn(S, R, p) \in SUBSET S /\ IsFiniteSet(UpToIn(S, R, p))
  <2>1. UpToIn(S, R, p) \in SUBSET S
    BY DEF UpToIn
  <2> QED
    BY <2>1, FS_Subset
<1>6. CASE p \in L
  <2>1. UpToIn(S, R, p) \in SUBSET L
    BY <1>6 DEF UpToIn
  <2>2. PlaceIn(S, R, p) <= Cardinality(L)
    BY <1>1, <2>1, FS_Subset DEF PlaceIn
  <2> QED
    BY <1>4, <1>6, <2>2
<1>7. CASE p \notin L
  <2>1. \A q \in L : <<q, p>> \in R
    BY <1>7 DEF TotalOrder
  <2>2. L \in SUBSET UpToIn(S, R, p) /\ p \in UpToIn(S, R, p)
    BY <2>1 DEF UpToIn, TotalOrder
  <2>3. Cardinality(L) <= PlaceIn(S, R, p) /\ Cardinality(L) # PlaceIn(S, R, p)
    BY <1>5, <1>7, <2>2, FS_Subset DEF PlaceIn
  <2>4. ~(r <= Cardinality(L))
    BY <1>2, <1>4, <2>3
  <2> QED
    BY <1>4, <1>7, <2>4
<1> QED
  BY <1>6, <1>7

-----------------------------------------------------------------------------
(* A set of numbers in order.                                              *)
LessEq(S) == {e \in S \X S : e[1] <= e[2]}

LEMMA LessEqIsTotal ==
    ASSUME NEW S \in SUBSET Nat
    PROVE  TotalOrder(S, LessEq(S))
<1>1. \A p, q \in S : <<p, q>> \in LessEq(S) <=> p <= q
  BY DEF LessEq
<1> QED
  BY <1>1 DEF TotalOrder

LEMMA AscendingIsEnumerated ==
    ASSUME NEW S \in SUBSET Nat, IsFiniteSet(S)
    PROVE  Ascending(S) = Enumerated(S, LessEq(S))
<1>1. \A i \in S : {j \in S : j <= i} = UpToIn(S, LessEq(S), i)
  BY DEF UpToIn, LessEq
<1>2. [r \in 1 .. Cardinality(S) |-> CHOOSE i \in S : Cardinality({j \in S : j <= i}) = r] = Enumerated(S, LessEq(S))
  <2> DEFINE c == Cardinality(S)
             e == Enumerated(S, LessEq(S))
             Place(i) == PlaceIn(S, LessEq(S), i)
             Rank(i) == Cardinality({j \in S : j <= i})
  <2>1. \A i \in S : Rank(i) = Place(i)
    BY <1>1 DEF PlaceIn
  <2>2. e = [r \in 1 .. c |-> e[r]] /\ \A r \in 1 .. c : e[r] \in S /\ Place(e[r]) = r
    BY LessEqIsTotal, EnumeratedInOrder DEF Enumerated
  <2>3. \A p, q \in S : Place(p) = Place(q) => p = q
    BY LessEqIsTotal, PlacesInOrder
  <2> HIDE DEF e, Place, Rank, c
  <2>4. ASSUME NEW r \in 1 .. c PROVE (CHOOSE i \in S : Rank(i) = r) = e[r]
    <3>1. e[r] \in S /\ Rank(e[r]) = r
      BY <2>1, <2>2
    <3>2. PICK k : k = CHOOSE i \in S : Rank(i) = r
      OBVIOUS
    <3>3. k \in S /\ Rank(k) = r
      BY <3>1, <3>2
    <3> QED
      BY <2>1, <2>3, <3>1, <3>2, <3>3
  <2>5. [r \in 1 .. c |-> CHOOSE i \in S : Rank(i) = r] = e
    BY <2>2, <2>4
  <2> QED
    BY <2>5 DEF Rank, c, e
<1> QED
  BY <1>2 DEF Ascending

LEMMA AscendingFacts ==
    ASSUME NEW m \in Nat, NEW S \in SUBSET (1 .. m)
    PROVE  LET a == Ascending(S)
           IN  /\ a \in Seq(S) /\ Len(a) = Cardinality(S)
               /\ DOMAIN a = 1 .. Len(a) /\ Len(a) \in Nat
               /\ \A r, s \in DOMAIN a : r < s => a[r] < a[s]
               /\ \A r \in DOMAIN a : a[r] \in S
               /\ \A i \in S : \E r \in DOMAIN a : a[r] = i
<1> DEFINE a == Enumerated(S, LessEq(S))
           c == Cardinality(S)
<1>1. IsFiniteSet(S) /\ S \in SUBSET Nat
  <2>1. IsFiniteSet(1 .. m)
    BY FS_Interval
  <2>2. IsFiniteSet(S)
    BY <2>1, FS_Subset
  <2>3. S \in SUBSET Nat
    OBVIOUS
  <2> QED
    BY <2>2, <2>3
<1>2. /\ c \in Nat /\ a \in [1 .. c -> S]
      /\ \A p \in S : PlaceIn(S, LessEq(S), p) \in 1 .. c /\ a[PlaceIn(S, LessEq(S), p)] = p
      /\ \A r, s \in 1 .. c : r < s => <<a[r], a[s]>> \in LessEq(S) /\ a[r] # a[s]
  BY <1>1, LessEqIsTotal, EnumeratedInOrder
<1>3. a = Ascending(S)
  BY <1>1, AscendingIsEnumerated
<1> HIDE DEF a, c
<1>4. a \in Seq(S) /\ Len(a) = c /\ DOMAIN a = 1 .. c
  BY <1>2, FunctionIsSeq
<1>5. ASSUME NEW r \in 1 .. c, NEW s \in 1 .. c, r < s PROVE a[r] < a[s]
  <2>1. a[r] <= a[s] /\ a[r] # a[s] /\ a[r] \in Nat /\ a[s] \in Nat
    BY <1>1, <1>2, <1>5 DEF LessEq
  <2> QED
    BY <2>1
<1> QED
  BY <1>2, <1>3, <1>4, <1>5 DEF c

\* There is one way to put the elements in order.
LEMMA AscendingIsUnique ==
    ASSUME NEW S \in SUBSET Nat, NEW m \in Nat, NEW f \in [1 .. m -> S],
           \A i \in S : \E r \in 1 .. m : f[r] = i,
           \A r, s \in 1 .. m : r < s => f[r] < f[s]
    PROVE  Ascending(S) = f
<1>0. \A r \in 1 .. m : f[r] \in Nat
  OBVIOUS
<1>1. \A r, s \in 1 .. m : (r <= s <=> f[r] <= f[s]) /\ (f[r] = f[s] => r = s)
  <2> TAKE r, s \in 1 .. m
  <2>1. r < s \/ r = s \/ s < r
    OBVIOUS
  <2> QED
    BY <1>0, <2>1
<1>2. Cardinality(S) = m /\ IsFiniteSet(S)
  <2>1. f \in Bijection(1 .. m, S)
    BY <1>1 DEF Bijection, Injection, IsInjective, Surjection
  <2> QED
    BY <2>1, FS_CountingElements, FS_NatBijection DEF ExistsBijection
<1>3. ASSUME NEW r \in 1 .. m PROVE PlaceIn(S, LessEq(S), f[r]) = r
  <2> DEFINE T == UpToIn(S, LessEq(S), f[r])
             g == [k \in 1 .. r |-> f[k]]
  <2>1. T = {i \in S : i <= f[r]}
    BY <1>3 DEF UpToIn, LessEq
  <2>2. g \in [1 .. r -> T]
    BY <1>1, <2>1
  <2>3. \A i \in T : \E k \in 1 .. r : g[k] = i
    <3> TAKE i \in T
    <3>1. PICK k \in 1 .. m : f[k] = i
      BY <2>1
    <3>2. k <= r
      BY <1>1, <2>1, <3>1
    <3> QED
      BY <3>1, <3>2
  <2>4. \A k, l \in 1 .. r : g[k] = g[l] => k = l
    BY <1>1
  <2> HIDE DEF T, g
  <2>5. g \in Bijection(1 .. r, T)
    BY <2>2, <2>3, <2>4 DEF Bijection, Injection, IsInjective, Surjection
  <2>6. Cardinality(T) = r
    BY <2>5, FS_CountingElements DEF ExistsBijection
  <2> QED
    BY <2>6 DEF T, PlaceIn
<1> DEFINE a == Enumerated(S, LessEq(S))
<1>4. /\ a \in [1 .. m -> S]
      /\ \A p \in S : a[PlaceIn(S, LessEq(S), p)] = p
  <2>1. /\ a \in [1 .. Cardinality(S) -> S]
        /\ \A p \in S : a[PlaceIn(S, LessEq(S), p)] = p
    <3>1. /\ Cardinality(S) \in Nat /\ a \in [1 .. Cardinality(S) -> S]
          /\ \A p \in S : /\ PlaceIn(S, LessEq(S), p) \in 1 .. Cardinality(S)
                          /\ a[PlaceIn(S, LessEq(S), p)] = p
      BY <1>2, LessEqIsTotal, EnumeratedInOrder
    <3> QED
      BY <3>1
  <2> HIDE DEF a
  <2> QED
    BY <1>2, <2>1
<1>5. a = Ascending(S)
  BY <1>2, AscendingIsEnumerated
<1> HIDE DEF a
<1>6. \A r \in 1 .. m : a[r] = f[r]
  BY <1>3, <1>4
<1> QED
  BY <1>4, <1>5, <1>6

-----------------------------------------------------------------------------
(* The order of a lookup.                                                  *)
ByNode(es) ==
    {e \in (DOMAIN es) \X (DOMAIN es) :
        es[e[1]].node < es[e[2]].node \/ (es[e[1]].node = es[e[2]].node /\ e[1] <= e[2])}

\* The entries name their nodes by numbers.
OnNodes(es) ==
    /\ DOMAIN es = 1 .. Len(es) /\ Len(es) \in Nat
    /\ \A p \in DOMAIN es : es[p].node \in Nat

LEMMA ByNodeIsTotal ==
    ASSUME NEW es, OnNodes(es)
    PROVE  TotalOrder(DOMAIN es, ByNode(es)) /\ IsFiniteSet(DOMAIN es) /\ Cardinality(DOMAIN es) = Len(es)
<1> DEFINE S == DOMAIN es
           At(p) == es[p].node
<1>1. \A p, q \in S : <<p, q>> \in ByNode(es) <=> At(p) < At(q) \/ (At(p) = At(q) /\ p <= q)
  BY DEF ByNode
<1>2. \A p \in S : At(p) \in Nat /\ p \in Nat
  BY DEF OnNodes
<1>3. IsFiniteSet(S) /\ Cardinality(S) = Len(es)
  <2>1. PICK n \in Nat : n = Len(es) /\ S = 1 .. n
    BY DEF OnNodes
  <2>2. IsFiniteSet(1 .. n) /\ Cardinality(1 .. n) = n
    BY FS_Interval
  <2> QED
    BY <2>1, <2>2
<1> HIDE DEF S, At
<1>4. TotalOrder(S, ByNode(es))
  BY <1>1, <1>2 DEF TotalOrder
<1> QED
  BY <1>3, <1>4 DEF S

LEMMA OrderIsEnumerated ==
    ASSUME NEW es, OnNodes(es)
    PROVE  Order(es) = Enumerated(DOMAIN es, ByNode(es))
<1> DEFINE Upto(p) == {q \in DOMAIN es : \/ es[q].node < es[p].node
                                         \/ es[q].node = es[p].node /\ q <= p}
<1>1. \A p \in DOMAIN es : Upto(p) = UpToIn(DOMAIN es, ByNode(es), p)
  BY DEF UpToIn, ByNode
<1>2. Order(es) = [i \in DOMAIN es |-> CHOOSE p \in DOMAIN es : Cardinality(Upto(p)) = i]
  BY DEF Order
<1> HIDE DEF Upto
<1>3. DOMAIN es = 1 .. Cardinality(DOMAIN es)
  BY ByNodeIsTotal DEF OnNodes
<1>4. [i \in DOMAIN es |-> CHOOSE p \in DOMAIN es : Cardinality(Upto(p)) = i] = Enumerated(DOMAIN es, ByNode(es))
  <2> DEFINE S == DOMAIN es
             e == Enumerated(S, ByNode(es))
             Place(i) == PlaceIn(S, ByNode(es), i)
             Rank(i) == Cardinality(Upto(i))
  <2>1. \A i \in S : Rank(i) = Place(i)
    BY <1>1 DEF PlaceIn
  <2>2. e = [r \in S |-> e[r]] /\ \A r \in S : e[r] \in S /\ Place(e[r]) = r
    BY <1>3, ByNodeIsTotal, EnumeratedInOrder DEF Enumerated
  <2>3. \A p, q \in S : Place(p) = Place(q) => p = q
    BY ByNodeIsTotal, PlacesInOrder
  <2> HIDE DEF e, Place, Rank, S
  <2>4. ASSUME NEW r \in S PROVE (CHOOSE i \in S : Rank(i) = r) = e[r]
    <3>1. e[r] \in S /\ Rank(e[r]) = r
      BY <2>1, <2>2
    <3>2. PICK k : k = CHOOSE i \in S : Rank(i) = r
      OBVIOUS
    <3>3. k \in S /\ Rank(k) = r
      BY <3>1, <3>2
    <3> QED
      BY <2>1, <2>3, <3>1, <3>2, <3>3
  <2>5. [r \in S |-> CHOOSE i \in S : Rank(i) = r] = e
    BY <2>2, <2>4
  <2> QED
    BY <2>5 DEF Rank, S, e
<1> QED
  BY <1>2, <1>4

-----------------------------------------------------------------------------
(* The search.                                                             *)
LEMMA SearchFinds ==
    ASSUME NEW n \in Nat, NEW order, DOMAIN order = 1 .. n, Len(order) = n,
           NEW below, NEW c \in 0 .. n, \A i \in 1 .. n : order[i] \in below <=> i <= c
    PROVE  PartitionPoint(order, below) = c
<1> DEFINE W == (0 .. n) \X (0 .. n)
           Fix(s) ==
             s = [w \in W |->
                    LET lo == w[1]
                        hi == w[2]
                        mid == (lo + hi) \div 2
                    IN  IF lo >= hi THEN lo
                        ELSE IF order[mid + 1] \in below THEN s[<<mid + 1, hi>>]
                        ELSE s[<<lo, mid>>]]
           Clamp(lo, hi) == IF lo >= hi \/ c <= lo THEN lo ELSE IF c >= hi THEN hi ELSE c
           g == [w \in W |-> Clamp(w[1], w[2])]
<1>1. \A lo, hi \in 0 .. n : lo < hi =>
          LET mid == (lo + hi) \div 2 IN mid \in 0 .. n /\ mid + 1 \in 1 .. n /\ lo <= mid /\ mid < hi
  OBVIOUS
<1>2. ASSUME NEW lo \in 0 .. n, NEW hi \in 0 .. n, lo < hi, NEW mid \in 0 .. n, lo <= mid, mid < hi
      PROVE  Clamp(lo, hi) = IF order[mid + 1] \in below THEN Clamp(mid + 1, hi) ELSE Clamp(lo, mid)
  <2>1. order[mid + 1] \in below <=> mid + 1 <= c
    BY <1>2
  <2>2. CASE mid + 1 <= c
    <3>1. Clamp(lo, hi) = Clamp(mid + 1, hi)
      BY <1>2, <2>2
    <3> HIDE DEF Clamp
    <3> QED
      BY <2>1, <2>2, <3>1
  <2>3. CASE ~(mid + 1 <= c)
    <3>1. Clamp(lo, hi) = Clamp(lo, mid)
      BY <1>2, <2>3
    <3> HIDE DEF Clamp
    <3> QED
      BY <2>1, <2>3, <3>1
  <2> QED
    BY <2>2, <2>3
<1> HIDE DEF Clamp
<1>3. \A lo, hi \in 0 .. n : g[<<lo, hi>>] = Clamp(lo, hi)
  OBVIOUS
<1>4. \A lo, hi \in 0 .. n :
          g[<<lo, hi>>] = IF lo >= hi THEN lo
                      ELSE LET mid == (lo + hi) \div 2
                           IN  IF order[mid + 1] \in below THEN g[<<mid + 1, hi>>] ELSE g[<<lo, mid>>]
  <2> SUFFICES ASSUME NEW lo \in 0 .. n, NEW hi \in 0 .. n
               PROVE  g[<<lo, hi>>] = IF lo >= hi THEN lo
                      ELSE LET mid == (lo + hi) \div 2
                           IN  IF order[mid + 1] \in below THEN g[<<mid + 1, hi>>] ELSE g[<<lo, mid>>]
    OBVIOUS
  <2>1. CASE lo >= hi
    BY <2>1, <1>3 DEF Clamp
  <2>2. CASE lo < hi
    <3>1. PICK mid \in 0 .. n : mid = (lo + hi) \div 2 /\ mid + 1 \in 0 .. n /\ lo <= mid /\ mid < hi
      BY <2>2, <1>1
    <3>2. g[<<lo, hi>>] = IF order[mid + 1] \in below THEN g[<<mid + 1, hi>>] ELSE g[<<lo, mid>>]
      BY <1>2, <1>3, <2>2, <3>1
    <3> QED
      BY <2>2, <3>1, <3>2
  <2> QED
    BY <2>1, <2>2
<1>5. Fix(g)
  <2>1. g = [w \in W |-> g[w]]
    OBVIOUS
  <2> HIDE DEF g
  <2>2. ASSUME NEW w \in W
        PROVE  g[w] = LET lo == w[1]
                          hi == w[2]
                          mid == (lo + hi) \div 2
                      IN  IF lo >= hi THEN lo
                          ELSE IF order[mid + 1] \in below THEN g[<<mid + 1, hi>>]
                          ELSE g[<<lo, mid>>]
    <3>1. PICK lo \in 0 .. n, hi \in 0 .. n : w = <<lo, hi>> /\ lo = w[1] /\ hi = w[2]
      OBVIOUS
    <3> QED
      BY <1>4, <3>1
  <2> QED
    BY <2>1, <2>2
<1> HIDE DEF g
<1>6. PICK s : s = (CHOOSE t : Fix(t))
  OBVIOUS
<1>7. Fix(s)
  BY <1>5, <1>6
<1>8. PartitionPoint(order, below) = s[<<0, n>>]
  BY <1>6 DEF PartitionPoint
<1>9. \A lo, hi \in 0 .. n :
          s[<<lo, hi>>] = IF lo >= hi THEN lo
                      ELSE LET mid == (lo + hi) \div 2
                           IN  IF order[mid + 1] \in below THEN s[<<mid + 1, hi>>] ELSE s[<<lo, mid>>]
  BY <1>7
<1> HIDE DEF Fix
<1> DEFINE Good == {d \in 0 .. n : \A lo, hi \in 0 .. n : hi <= lo + d => s[<<lo, hi>>] = Clamp(lo, hi)}
<1>10. 0 \in Good
  <2>1. \A lo, hi \in 0 .. n : hi <= lo => s[<<lo, hi>>] = lo /\ Clamp(lo, hi) = lo
    BY <1>9 DEF Clamp
  <2> QED
    BY <2>1
<1>11. ASSUME NEW d \in 0 .. n, d < n, d \in Good PROVE d + 1 \in Good
  <2> SUFFICES ASSUME NEW lo \in 0 .. n, NEW hi \in 0 .. n, hi = lo + d + 1
               PROVE  s[<<lo, hi>>] = Clamp(lo, hi)
    <3>1. \A lo, hi \in 0 .. n : hi <= lo + (d + 1) => hi <= lo + d \/ hi = lo + d + 1
      OBVIOUS
    <3> QED
      BY <1>11, <3>1
  <2>1. PICK mid \in 0 .. n : mid = (lo + hi) \div 2 /\ mid + 1 \in 0 .. n /\ lo <= mid /\ mid < hi /\ lo < hi
    BY <1>1
  <2>2. s[<<lo, hi>>] = IF order[mid + 1] \in below THEN s[<<mid + 1, hi>>] ELSE s[<<lo, mid>>]
    BY <1>9, <2>1
  <2>3. hi <= (mid + 1) + d /\ mid <= lo + d
    BY <2>1
  <2>4. s[<<mid + 1, hi>>] = Clamp(mid + 1, hi) /\ s[<<lo, mid>>] = Clamp(lo, mid)
    BY <1>11, <2>1, <2>3
  <2> QED
    BY <1>2, <2>1, <2>2, <2>4
<1> HIDE DEF Good
<1>12. n \in Good
  <2>1. 0 .. n \subseteq Good
    BY <1>10, <1>11, UpTo
  <2> QED
    BY <2>1
<1>13. s[<<0, n>>] = Clamp(0, n)
  BY <1>12 DEF Good
<1> QED
  BY <1>8, <1>13 DEF Clamp

-----------------------------------------------------------------------------
(* What a lookup yields.                                                   *)
LEMMA OrderFacts ==
    ASSUME NEW es, OnNodes(es), NEW L \in SUBSET DOMAIN es,
           \A p \in L, q \in DOMAIN es : es[q].node <= es[p].node => q \in L
    PROVE  /\ Cardinality(L) \in 0 .. Len(es)
           /\ \A r \in DOMAIN es : Order(es)[r] \in L <=> r <= Cardinality(L)
           /\ PartitionPoint(Order(es), L) = Cardinality(L)
<1> DEFINE S == DOMAIN es
           R == ByNode(es)
           order == Enumerated(S, R)
<1>1. TotalOrder(S, R) /\ IsFiniteSet(S) /\ Cardinality(S) = Len(es)
  BY ByNodeIsTotal
<1>2. Order(es) = order
  BY OrderIsEnumerated
<1>3. \A p \in L, q \in S : <<q, p>> \in R => q \in L
  BY DEF ByNode, OnNodes
<1>4. S = 1 .. Len(es) /\ Len(es) \in Nat
  BY DEF OnNodes
<1>5. order \in [1 .. Len(es) -> S]
  BY <1>1, <1>4, EnumeratedInOrder
<1> HIDE DEF R
<1>6. /\ Cardinality(L) \in 0 .. Cardinality(S)
      /\ \A r \in 1 .. Cardinality(S) : order[r] \in L <=> r <= Cardinality(L)
  BY <1>1, <1>3, ClosedComesFirst
<1> HIDE DEF order
<1>7. Len(order) = Len(es) /\ DOMAIN order = 1 .. Len(es)
  BY <1>4, <1>5, FunctionIsSeq
<1>8. PartitionPoint(order, L) = Cardinality(L)
  BY <1>1, <1>4, <1>6, <1>7, SearchFinds
<1> QED
  BY <1>1, <1>2, <1>4, <1>6, <1>8

LEMMA SealedOrderIsOrder ==
    ASSUME SealIsFresh PROVE SealedOrder = Order(entries)
<1>1. CASE sealed = {}
  BY <1>1 DEF SealedOrder
<1>2. CASE sealed = {Order(entries)} /\ sealed # {}
  BY <1>2 DEF SealedOrder
<1> QED
  BY <1>1, <1>2 DEF SealIsFresh

\* The two searches cut out the entries of the node, and these are sorted by
\* their positions.
LEMMA OnIsSitting ==
    ASSUME SealIsFresh, OnNodes(entries), NEW n \in Nat
    PROVE  On(n) = Sitting(entries, n)
<1>0. PICK es : es = entries
  OBVIOUS
<1> DEFINE S == DOMAIN es
           order == Order(es)
           L == {p \in S : es[p].node < n}
           U == {p \in S : es[p].node <= n}
           T == {p \in S : es[p].node = n}
           a == Cardinality(L)
           b == Cardinality(U)
           f == [i \in 1 .. b - a |-> order[a + i]]
<1>1. OnNodes(es)
  BY <1>0
<1>2. S = 1 .. Len(es) /\ Len(es) \in Nat /\ \A p \in S : es[p].node \in Nat
  BY <1>1 DEF OnNodes
<1>3. L \in SUBSET S /\ \A p \in L, q \in S : es[q].node <= es[p].node => q \in L
  BY <1>2
<1>4. U \in SUBSET S /\ \A p \in U, q \in S : es[q].node <= es[p].node => q \in U
  BY <1>2
<1>5. L \in SUBSET U /\ T \in SUBSET Nat /\ T \in SUBSET S /\ \A p \in S : p \in T <=> p \in U /\ p \notin L
  BY <1>2
<1>6. On(n) = SubSeq([i \in DOMAIN order |-> es[order[i]]],
                       PartitionPoint(order, L) + 1, PartitionPoint(order, U))
  <2>1. SealedOrder = order
    BY <1>0, SealedOrderIsOrder
  <2> HIDE DEF order
  <2> QED
    BY <1>0, <2>1 DEF On
<1>7. Sitting(es, n) = [i \in DOMAIN Ascending(T) |-> es[Ascending(T)[i]]]
  BY DEF Sitting
<1>8. /\ order \in [S -> S]
      /\ \A p \in S : \E r \in S : order[r] = p
      /\ \A r, s \in S : r < s => <<order[r], order[s]>> \in ByNode(es) /\ order[r] # order[s]
  <2>1. order = Enumerated(S, ByNode(es)) /\ TotalOrder(S, ByNode(es)) /\ IsFiniteSet(S) /\ Cardinality(S) = Len(es)
    BY <1>1, OrderIsEnumerated, ByNodeIsTotal
  <2> HIDE DEF order, S
  <2>2. LET e == Enumerated(S, ByNode(es))
            c == Cardinality(S)
        IN  /\ c \in Nat /\ e \in [1 .. c -> S]
            /\ \A p \in S : PlaceIn(S, ByNode(es), p) \in 1 .. c /\ e[PlaceIn(S, ByNode(es), p)] = p
            /\ \A r, s \in 1 .. c : r < s => <<e[r], e[s]>> \in ByNode(es) /\ e[r] # e[s]
    BY <2>1, EnumeratedInOrder
  <2>3. PICK c : c = Cardinality(S) /\ S = 1 .. c
    BY <1>2, <2>1
  <2>4. /\ order \in [1 .. c -> S]
        /\ \A p \in S : PlaceIn(S, ByNode(es), p) \in 1 .. c /\ order[PlaceIn(S, ByNode(es), p)] = p
        /\ \A r, s \in 1 .. c : r < s => <<order[r], order[s]>> \in ByNode(es) /\ order[r] # order[s]
    BY <2>1, <2>2, <2>3
  <2>5. order \in [S -> S]
    BY <2>3, <2>4
  <2>6. \A p \in S : \E r \in S : order[r] = p
    BY <2>3, <2>4
  <2>7. \A r, s \in S : r < s => <<order[r], order[s]>> \in ByNode(es) /\ order[r] # order[s]
    BY <2>3, <2>4
  <2> QED
    BY <2>5, <2>6, <2>7
<1>9. a \in 0 .. Len(es) /\ b \in 0 .. Len(es) /\ a <= b
  <2>1. a \in 0 .. Len(es)
    BY <1>1, <1>3, OrderFacts
  <2>2. b \in 0 .. Len(es)
    BY <1>1, <1>4, OrderFacts
  <2>3. IsFiniteSet(U)
    <3>1. IsFiniteSet(S)
      BY <1>1, ByNodeIsTotal
    <3> QED
      BY <1>4, <3>1, FS_Subset
  <2>4. a <= b
    BY <1>5, <2>3, FS_Subset
  <2> QED
    BY <2>1, <2>2, <2>4
<1>10. PartitionPoint(order, L) = a /\ \A r \in S : order[r] \in L <=> r <= a
  BY <1>1, <1>3, OrderFacts
<1>11. PartitionPoint(order, U) = b /\ \A r \in S : order[r] \in U <=> r <= b
  BY <1>1, <1>4, OrderFacts
<1> HIDE DEF order, L, U, a, b
<1>12. \A i \in 1 .. b - a : a + i \in S /\ order[a + i] \in T
  <2> TAKE i \in 1 .. b - a
  <2>1. a + i \in S /\ ~(a + i <= a) /\ a + i <= b
    BY <1>2, <1>9
  <2>2. order[a + i] \in S
    BY <1>8, <2>1
  <2> QED
    BY <1>5, <1>10, <1>11, <2>1, <2>2
<1>13. \A p \in T : \E i \in 1 .. b - a : f[i] = p
  <2> TAKE p \in T
  <2>1. PICK r \in S : order[r] = p
    BY <1>5, <1>8
  <2>2. r <= b /\ ~(r <= a)
    BY <1>5, <1>10, <1>11, <2>1
  <2>3. r - a \in 1 .. b - a /\ a + (r - a) = r
    BY <1>2, <1>9, <2>2
  <2> QED
    BY <2>1, <2>3
<1>14. \A i, j \in 1 .. b - a : i < j => f[i] < f[j]
  <2> SUFFICES ASSUME NEW i \in 1 .. b - a, NEW j \in 1 .. b - a, i < j
               PROVE  order[a + i] < order[a + j]
    OBVIOUS
  <2>1. a + i < a + j
    BY <1>9
  <2>2. <<order[a + i], order[a + j]>> \in ByNode(es) /\ order[a + i] # order[a + j]
    BY <1>8, <1>12, <2>1
  <2>3. PICK p \in T, q \in T : p = order[a + i] /\ q = order[a + j]
    BY <1>12
  <2>4. p # q /\ (es[p].node < es[q].node \/ p <= q) /\ p \in Nat /\ q \in Nat
    BY <1>5, <2>2, <2>3 DEF ByNode
  <2>5. es[p].node = n /\ es[q].node = n
    OBVIOUS
  <2> QED
    BY <2>3, <2>4, <2>5
<1> HIDE DEF T
<1>15. b - a \in Nat /\ f \in [1 .. b - a -> T]
  <2>1. b - a \in Nat
    BY <1>2, <1>9
  <2>2. f \in [1 .. b - a -> T]
    BY <1>12
  <2> QED
    BY <2>1, <2>2
<1>16. Ascending(T) = f
  <2> HIDE DEF f
  <2>1. PICK m \in Nat : m = b - a
    BY <1>15
  <2>2. /\ f \in [1 .. m -> T]
        /\ \A p \in T : \E i \in 1 .. m : f[i] = p
        /\ \A i, j \in 1 .. m : i < j => f[i] < f[j]
    BY <1>13, <1>14, <1>15, <2>1
  <2> QED
    BY <1>5, <2>2, AscendingIsUnique
<1> DEFINE h == [i \in DOMAIN order |-> es[order[i]]]
           V == {es[p] : p \in S}
<1>17. Sitting(es, n) = [i \in 1 .. b - a |-> h[a + i]]
  <2>1. Sitting(es, n) = [i \in 1 .. b - a |-> es[f[i]]]
    BY <1>7, <1>15, <1>16
  <2>2. \A i \in 1 .. b - a : es[f[i]] = h[a + i]
    BY <1>8, <1>12
  <2> HIDE DEF h, f
  <2> QED
    BY <2>1, <2>2
<1>18. On(n) = [i \in 1 .. b - a |-> h[a + i]]
  <2>1. On(n) = SubSeq(h, a + 1, b)
    BY <1>6, <1>10, <1>11
  <2>2. \A i \in (a + 1) .. b : h[i] \in V
    BY <1>2, <1>8, <1>9
  <2> HIDE DEF h, V, f, S
  <2>3. a \in Nat /\ b \in Nat /\ a + 1 \in Int /\ b \in Int /\ b - (a + 1) + 1 = b - a
    BY <1>9
  <2>4. /\ SubSeq(h, a + 1, b) \in Seq(V)
        /\ Len(SubSeq(h, a + 1, b)) = b - a
        /\ \A i \in 1 .. b - a : SubSeq(h, a + 1, b)[i] = h[(a + 1) + i - 1]
    <3>1. /\ SubSeq(h, a + 1, b) \in Seq(V)
          /\ Len(SubSeq(h, a + 1, b)) = IF a + 1 <= b THEN b - (a + 1) + 1 ELSE 0
          /\ \A i \in 1 .. b - (a + 1) + 1 : SubSeq(h, a + 1, b)[i] = h[(a + 1) + i - 1]
      BY <2>2, <2>3, SubSeqProperties
    <3>2. (IF a + 1 <= b THEN b - (a + 1) + 1 ELSE 0) = b - a
      BY <1>9, <2>3
    <3> QED
      BY <2>3, <3>1, <3>2
  <2>5. \A i \in 1 .. b - a : (a + 1) + i - 1 = a + i
    BY <2>3
  <2>6. SubSeq(h, a + 1, b) = [i \in 1 .. b - a |-> SubSeq(h, a + 1, b)[i]]
    BY <2>4, LenProperties
  <2>7. \A i \in 1 .. b - a : SubSeq(h, a + 1, b)[i] = h[a + i]
    BY <2>4, <2>5
  <2> QED
    BY <2>1, <2>6, <2>7
<1> QED
  BY <1>0, <1>17, <1>18

LEMMA SealKept ==
    ASSUME SealIsFresh, [MapNext]_mapVars
    PROVE  SealIsFresh'
<1>1. CASE \E e \in Entry : Insert(e)
  BY <1>1 DEF Insert, SealIsFresh
<1>2. CASE \E n \in 0..MaxMerged : \E other \in [1..n -> Entry] : Merge(other)
  BY <1>2 DEF Merge, SealIsFresh
<1>3. CASE Lookup
  <2>1. SealedOrder = Order(entries)
    <3>1. CASE sealed = {}
      BY <3>1 DEF SealedOrder
    <3>2. CASE sealed = {Order(entries)} /\ sealed # {}
      BY <3>2 DEF SealedOrder
    <3> QED
      BY <3>1, <3>2 DEF SealIsFresh
  <2>2. entries' = entries /\ sealed' = {Order(entries)}
    BY <1>3, <2>1 DEF Lookup
  <2>3. Order(entries)' = Order(entries)
    BY <2>2 DEF Order
  <2> QED
    BY <2>2, <2>3 DEF SealIsFresh
<1>4. CASE UNCHANGED mapVars
  <2>1. entries' = entries /\ sealed' = sealed
    BY <1>4 DEF mapVars
  <2>2. Order(entries)' = Order(entries)
    BY <2>1 DEF Order
  <2> QED
    BY <2>1, <2>2 DEF SealIsFresh
<1> QED
  BY <1>1, <1>2, <1>3, <1>4 DEF MapNext

(* `lookup` never reads a stale order, whatever is inserted, merged and    *)
(* looked up, in any order and over any node ids: `insert` and `merge`     *)
(* drop the seal, and only `lookup` sets it.                               *)
THEOREM SealStaysFresh == MapSpec => []SealIsFresh
<1>1. MapInit => SealIsFresh
  BY DEF MapInit, SealIsFresh
<1> QED
  BY <1>1, SealKept, PTL DEF MapSpec

-----------------------------------------------------------------------------
(* The entries of a map stay typed.                                        *)
EntriesTyped == entries \in Seq(Entry)

LEMMA EntriesStayTyped == MapSpec => []EntriesTyped
<1>1. MapInit => EntriesTyped
  BY EmptySeq DEF MapInit, EntriesTyped
<1>2. ASSUME EntriesTyped, [MapNext]_mapVars PROVE EntriesTyped'
  <2>1. ASSUME NEW e \in Entry, Insert(e) PROVE EntriesTyped'
    BY <1>2, <2>1, AppendProperties DEF Insert, EntriesTyped
  <2>2. ASSUME NEW n \in 0 .. MaxMerged, NEW other \in [1 .. n -> Entry], Merge(other)
        PROVE  EntriesTyped'
    <3>1. other \in Seq(Entry)
      BY FunctionIsSeq
    <3> QED
      BY <1>2, <2>2, <3>1, ConcatProperties DEF Merge, EntriesTyped
  <2>3. CASE Lookup \/ UNCHANGED mapVars
    BY <1>2, <2>3 DEF Lookup, mapVars, EntriesTyped
  <2> QED
    BY <1>2, <2>1, <2>2, <2>3 DEF MapNext
<1> QED
  BY <1>1, <1>2, PTL DEF MapSpec

LEMMA TypedOnNodes ==
    ASSUME NEW es \in Seq(Entry)
    PROVE  OnNodes(es)
<1>1. Len(es) \in Nat /\ DOMAIN es = 1 .. Len(es) /\ \A p \in 1 .. Len(es) : es[p] \in Entry
  BY LenProperties
<1>2. \A e \in Entry : e.node \in Nat
  BY NodeAssumption DEF Entry
<1> QED
  BY <1>1, <1>2 DEF OnNodes

(* `on` yields exactly what sits on the node, in insertion order, for      *)
(* every sequence of insertions, merges and lookups over any node ids: the *)
(* seal is fresh, the sort by node is stable, and the two searches of the  *)
(* sorted list end at the first entry of the node and after its last.      *)
THEOREM LookupStaysExact == MapSpec => []LookupIsExact
<1>1. ASSUME SealIsFresh, EntriesTyped PROVE LookupIsExact
  <2>1. OnNodes(entries)
    BY <1>1, TypedOnNodes DEF EntriesTyped
  <2> QED
    BY <1>1, <2>1, OnIsSitting, NodeAssumption DEF LookupIsExact
<1> QED
  BY <1>1, SealStaysFresh, EntriesStayTyped, PTL

\* What sits on a node stays at the front of what sits there later.
StartsWith(b, a) ==
    \E c, d \in Nat : /\ c <= d /\ DOMAIN a = 1 .. c /\ DOMAIN b = 1 .. d
                      /\ \A i \in 1 .. c : a[i] = b[i]

LEMMA SittingGrows ==
    ASSUME NEW es, NEW more, OnNodes(es), OnNodes(more), Len(es) <= Len(more),
           \A p \in DOMAIN es : more[p] = es[p], NEW n \in Nat
    PROVE  StartsWith(Sitting(more, n), Sitting(es, n))
<1> DEFINE T == {p \in DOMAIN es : es[p].node = n}
           U == {p \in DOMAIN more : more[p].node = n}
           R == LessEq(U)
           c == Cardinality(T)
           d == Cardinality(U)
           e == Enumerated(U, R)
           f == [i \in 1 .. c |-> e[i]]
<1>1. Len(es) \in Nat /\ Len(more) \in Nat /\ DOMAIN es = 1 .. Len(es) /\ DOMAIN more = 1 .. Len(more)
  BY DEF OnNodes
<1>2. T \in SUBSET U /\ U \in SUBSET Nat /\ T \in SUBSET Nat /\ U \in SUBSET (1 .. Len(more))
  BY <1>1
<1>3. IsFiniteSet(U)
  <2>1. IsFiniteSet(1 .. Len(more))
    BY <1>1, FS_Interval
  <2> QED
    BY <1>2, <2>1, FS_Subset
<1>4. \A p \in T, q \in U : <<q, p>> \in R => q \in T
  <2> SUFFICES ASSUME NEW p \in T, NEW q \in U, q <= p PROVE q \in T
    BY DEF LessEq
  <2>1. q \in DOMAIN es
    BY <1>1
  <2> QED
    BY <2>1
<1>5. Sitting(es, n) = [i \in DOMAIN Ascending(T) |-> es[Ascending(T)[i]]]
  BY DEF Sitting
<1>6. Sitting(more, n) = [i \in DOMAIN Ascending(U) |-> more[Ascending(U)[i]]]
  BY DEF Sitting
<1>7. \A p \in T : es[p] = more[p]
  OBVIOUS
<1> HIDE DEF T, U
<1>8. TotalOrder(U, R)
  BY <1>2, LessEqIsTotal
<1>9. Ascending(U) = e
  BY <1>2, <1>3, AscendingIsEnumerated
<1> HIDE DEF R
<1>10. /\ c \in 0 .. d
       /\ \A r \in 1 .. d : e[r] \in T <=> r <= c
  BY <1>2, <1>3, <1>4, <1>8, ClosedComesFirst
<1>11. LET k == Cardinality(U)
       IN  /\ k \in Nat /\ e \in [1 .. k -> U]
           /\ \A p \in U : PlaceIn(U, R, p) \in 1 .. k /\ e[PlaceIn(U, R, p)] = p
           /\ \A r, s \in 1 .. k : r < s => <<e[r], e[s]>> \in R /\ e[r] # e[s]
  BY <1>3, <1>8, EnumeratedInOrder
<1>12. d \in Nat /\ e \in [1 .. d -> U] /\ c \in Nat /\ c <= d
  BY <1>10, <1>11
<1> HIDE DEF e, c, d
<1>13. \A r \in 1 .. c : r \in 1 .. d /\ e[r] \in T
  BY <1>10, <1>12
<1>14. f \in [1 .. c -> T]
  BY <1>13
<1>15. \A p \in T : \E r \in 1 .. c : f[r] = p
  <2> TAKE p \in T
  <2>1. PICK r \in 1 .. d : e[r] = p
    BY <1>2, <1>11 DEF d
  <2>2. r <= c
    BY <1>10, <2>1
  <2> QED
    BY <1>12, <2>1, <2>2
<1>16. \A r, s \in 1 .. c : r < s => f[r] < f[s]
  <2> SUFFICES ASSUME NEW r \in 1 .. c, NEW s \in 1 .. c, r < s PROVE e[r] < e[s]
    OBVIOUS
  <2>1. <<e[r], e[s]>> \in R /\ e[r] # e[s] /\ e[r] \in Nat /\ e[s] \in Nat
    BY <1>2, <1>11, <1>13 DEF d
  <2>2. e[r] <= e[s]
    BY <2>1 DEF R, LessEq
  <2> QED
    BY <2>1, <2>2
<1> HIDE DEF f
<1>17. Ascending(T) = f
  BY <1>2, <1>12, <1>14, <1>15, <1>16, AscendingIsUnique
<1>18. Sitting(es, n) = [i \in 1 .. c |-> es[f[i]]] /\ Sitting(more, n) = [i \in 1 .. d |-> more[e[i]]]
  BY <1>5, <1>6, <1>9, <1>12, <1>14, <1>17
<1>19. \A i \in 1 .. c : i \in 1 .. d /\ es[f[i]] = more[e[i]]
  BY <1>7, <1>13, <1>14 DEF f
<1>20. \A i \in 1 .. c : Sitting(es, n)[i] = Sitting(more, n)[i]
  BY <1>18, <1>19
<1>21. DOMAIN Sitting(es, n) = 1 .. c /\ DOMAIN Sitting(more, n) = 1 .. d
  BY <1>18
<1> QED
  BY <1>12, <1>20, <1>21 DEF StartsWith

\* The first entry of a list under a key is the same in a longer list.
FirstOf(on, k) ==
    {on[i] : i \in {j \in DOMAIN on : /\ on[j].key = k
                                      /\ \A l \in 1 .. (j - 1) : on[l].key # k}}

LEMMA FirstStays ==
    ASSUME NEW a, NEW b, NEW c \in Nat, NEW d \in Nat, c <= d, DOMAIN a = 1 .. c, DOMAIN b = 1 .. d,
           \A i \in 1 .. c : a[i] = b[i], NEW k, FirstOf(a, k) # {}
    PROVE  FirstOf(b, k) = FirstOf(a, k)
<1>1. PICK j \in 1 .. c : a[j].key = k /\ \A l \in 1 .. (j - 1) : a[l].key # k
  BY DEF FirstOf
<1>2. j \in 1 .. d /\ b[j].key = k /\ \A l \in 1 .. (j - 1) : l \in 1 .. c /\ b[l].key # k
  BY <1>1
<1>3. ASSUME NEW i \in 1 .. c, a[i].key = k, \A l \in 1 .. (i - 1) : a[l].key # k PROVE i = j
  BY <1>1, <1>3
<1>4. ASSUME NEW i \in 1 .. d, b[i].key = k, \A l \in 1 .. (i - 1) : b[l].key # k PROVE i = j
  BY <1>2, <1>4
<1>5. FirstOf(a, k) = {a[j]}
  BY <1>1, <1>3 DEF FirstOf
<1>6. FirstOf(b, k) = {b[j]}
  BY <1>2, <1>4 DEF FirstOf
<1> QED
  BY <1>5, <1>6

(* "Entries already present win", for any entries: what `get` answers on a *)
(* node under a key is not changed by an insertion, by a merge or by the   *)
(* lookup that seals the map, because the entries on a node keep their     *)
(* places at the front of what sits there.                                 *)
THEOREM PresentEntriesWin == MapSpec => FirstWins
<1> DEFINE Inv == EntriesTyped /\ LookupIsExact
           Wins == \A n \in Node, k \in Key :
                       Found(n, k) # {} =>
                           \A t \in Layout : First(n, k, t)' = First(n, k, t)
<1>1. ASSUME Inv, Inv', [MapNext]_mapVars PROVE [Wins]_mapVars
  <2>1. EntriesTyped /\ EntriesTyped' /\ LookupIsExact /\ LookupIsExact'
    BY <1>1
  <2>2. \E other \in Seq(Entry) : entries' = entries \o other
    <3>1. ASSUME NEW e \in Entry, Insert(e) PROVE \E other \in Seq(Entry) : entries' = entries \o other
      <4>1. entries' = entries \o <<e>> /\ <<e>> \in Seq(Entry)
        BY <2>1, <3>1, AppendIsConcat DEF Insert, EntriesTyped
      <4> QED
        BY <4>1
    <3>2. ASSUME NEW n \in 0 .. MaxMerged, NEW other \in [1 .. n -> Entry], Merge(other)
          PROVE  \E o \in Seq(Entry) : entries' = entries \o o
      <4>1. other \in Seq(Entry)
        BY FunctionIsSeq
      <4> QED
        BY <3>2, <4>1 DEF Merge
    <3>3. CASE Lookup \/ UNCHANGED mapVars
      <4>1. entries' = entries
        BY <3>3 DEF Lookup, mapVars
      <4>2. entries' = entries \o <<>> /\ <<>> \in Seq(Entry)
        BY <2>1, <4>1, EmptySeq, ConcatEmptySeq DEF EntriesTyped
      <4> QED
        BY <4>2
    <3> QED
      BY <1>1, <3>1, <3>2, <3>3 DEF MapNext
  <2>3. PICK other \in Seq(Entry) : entries' = entries \o other
    BY <2>2
  <2>4. PICK es, more : es = entries /\ more = entries'
    OBVIOUS
  <2>5. es \in Seq(Entry) /\ more \in Seq(Entry)
    BY <2>1, <2>4 DEF EntriesTyped
  <2>6. OnNodes(es) /\ OnNodes(more)
    BY <2>5, TypedOnNodes
  <2>7. Len(es) <= Len(more) /\ \A p \in DOMAIN es : more[p] = es[p]
    <3>1. more = es \o other
      BY <2>3, <2>4
    <3>2. Len(es) \in Nat /\ Len(other) \in Nat /\ DOMAIN es = 1 .. Len(es)
      BY <2>5, LenProperties
    <3>3. /\ Len(more) = Len(es) + Len(other)
          /\ \A i \in 1 .. Len(es) + Len(other) : more[i] = IF i <= Len(es) THEN es[i] ELSE other[i - Len(es)]
      BY <2>5, <3>1, ConcatProperties
    <3> QED
      BY <3>2, <3>3
  <2>8. ASSUME NEW n \in Node, NEW k \in Key, Found(n, k) # {} PROVE Found(n, k)' = Found(n, k)
    <3>1. On(n) = Sitting(es, n) /\ On(n)' = Sitting(more, n)
      <4>1. On(n) = Sitting(entries, n)
        BY <2>1 DEF LookupIsExact
      <4>2. On(n)' = Sitting(entries, n)'
        BY <2>1 DEF LookupIsExact
      <4>3. Sitting(entries, n)' = Sitting(more, n)
        BY <2>4 DEF Sitting
      <4> QED
        BY <2>4, <4>1, <4>2, <4>3
    <3> DEFINE a == Sitting(es, n)
               b == Sitting(more, n)
    <3>2. PICK c \in Nat, d \in Nat : /\ c <= d /\ DOMAIN a = 1 .. c /\ DOMAIN b = 1 .. d
                                      /\ \A i \in 1 .. c : a[i] = b[i]
      <4>1. n \in Nat
        BY NodeAssumption
      <4>2. StartsWith(Sitting(more, n), Sitting(es, n))
        BY <2>6, <2>7, <4>1, SittingGrows
      <4> QED
        BY <4>2 DEF StartsWith
    <3>3. Found(n, k) = FirstOf(a, k)
      BY <3>1 DEF Found, FirstOf
    <3>4. Found(n, k)' = FirstOf(b, k)
      BY <3>1 DEF Found, FirstOf
    <3> HIDE DEF a, b
    <3>5. FirstOf(a, k) # {} => FirstOf(b, k) = FirstOf(a, k)
      BY <3>2, FirstStays
    <3> QED
      BY <2>8, <3>3, <3>4, <3>5
  <2> QED
    BY <2>8 DEF First
<1>2. FirstWins <=> [][Wins]_mapVars
  BY DEF FirstWins
<1> HIDE DEF Wins
<1> QED
  BY <1>1, <1>2, EntriesStayTyped, LookupStaysExact, PTL DEF MapSpec

-----------------------------------------------------------------------------
(* What the providers say of a file.                                       *)
Decoration == {d \in Attached : d.node \in Nat}

FileInv ==
    /\ \E n \in Nat \ {0} : /\ depth \in [1 .. n -> Nat] /\ Len(depth) = n
                            /\ named \in [1 .. n -> BOOLEAN]
    /\ IsTree(depth)
    /\ lints \in Seq(Lint)

Answered == {"merge", "walk", "ok", "undeclared", "panicked"}
Shows == {"walk", "ok", "undeclared", "panicked"}

ConsultInv ==
    /\ asked \in 0 .. Providers /\ merged \in Nat
    /\ covered \in Seq(Seq(Decoration)) /\ gaps \in Seq(Nat)
    /\ Len(covered) + Len(gaps) = asked
    /\ covered = <<>> => gaps = [i \in 1 .. asked |-> i]
    /\ stage \in Answered => asked = Providers /\ covered # <<>>
    /\ stage = "uncovered" => asked = Providers /\ covered = <<>>
    /\ stage \notin Shows => shown = <<>>

LEMMA InitFile == Init => FileInv /\ ConsultInv
<1> SUFFICES ASSUME Init PROVE FileInv /\ ConsultInv
  OBVIOUS
<1>1. PICK n \in 1 .. MaxNodes :
          /\ depth \in {d \in [1 .. n -> 0 .. (n - 1)] : IsTree(d)}
          /\ named \in [1 .. n -> BOOLEAN]
  BY DEF Init
<1>2. n \in Nat \ {0} /\ depth \in [1 .. n -> Nat]
  BY <1>1, PipelineAssumption
<1>3. Len(depth) = n
  BY <1>2, FunctionIsSeq
<1>4. lints \in Seq(Lint)
  BY PipelineAssumption DEF Init
<1>5. FileInv
  BY <1>1, <1>2, <1>3, <1>4 DEF FileInv
<1>6. /\ <<>> \in Seq(Seq(Decoration)) /\ <<>> \in Seq(Nat) /\ Len(<<>>) = 0
      /\ asked = 0 /\ merged = 0 /\ covered = <<>> /\ gaps = <<>> /\ stage = "parse" /\ shown = <<>>
  BY EmptySeq DEF Init
<1>7. gaps = [i \in 1 .. 0 |-> i]
  <2>1. [i \in 1 .. 0 |-> i] \in Seq(Nat) /\ Len([i \in 1 .. 0 |-> i]) = 0
    <3>1. [i \in 1 .. 0 |-> i] \in [1 .. 0 -> Nat]
      OBVIOUS
    <3> QED
      BY <3>1, FunctionIsSeq
  <2> QED
    BY <1>6, <2>1, EmptySeq
<1> QED
  BY <1>5, <1>6, <1>7, PipelineAssumption DEF ConsultInv, Answered, Shows

LEMMA FileIsFixed == [Next]_vars => UNCHANGED file
BY DEF Next, vars, Parse, NoSyntaxTree, Covers, DoesNotCover, ProviderFails, Uncovered, MergeCovered, 
       StartWalk, CheckNode, ReportsUndeclared, Panics, Descend, EndWalk

LEMMA FileInvariant == Spec => []FileInv
<1>1. FileInv /\ [Next]_vars => FileInv'
  BY FileIsFixed DEF file, FileInv, IsTree
<1> QED
  BY <1>1, InitFile, PTL DEF Spec

LEMMA ConsultKept ==
    ASSUME FileInv, ConsultInv, [Next]_vars PROVE ConsultInv'
<1> USE DEF ConsultInv, Answered, Shows
<1>0. Providers \in Nat /\ Len(covered) \in Nat /\ Len(gaps) \in Nat
  BY PipelineAssumption, LenProperties
<1>1. CASE Parse
  BY <1>1 DEF Parse, consulted, walk
<1>2. CASE NoSyntaxTree
  BY <1>2 DEF NoSyntaxTree, Fails, consulted
<1>3. ASSUME NEW ds \in Seq(Decoration), Covers(ds) PROVE ConsultInv'
  <2>1. covered' \in Seq(Seq(Decoration)) /\ covered' # <<>> /\ Len(covered') = Len(covered) + 1
    <3>1. covered' = Append(covered, ds) /\ covered \in Seq(Seq(Decoration)) /\ ds \in Seq(Decoration)
      BY <1>3 DEF Covers
    <3> HIDE DEF ConsultInv
    <3>2. /\ covered' \in Seq(Seq(Decoration)) /\ Len(covered') = Len(covered) + 1
          /\ covered' # <<>>
      BY <3>1, AppendProperties
    <3> QED
      BY <3>2
  <2>2. stage = "consult" /\ stage' = stage /\ merged' = merged /\ gaps' = gaps /\ shown' = shown /\ asked' = asked + 1 /\ asked < Providers
    BY <1>3 DEF Covers, walk
  <2>3. asked' \in 0 .. Providers /\ Len(covered') + Len(gaps') = asked'
    <3>1. PICK x \in Nat, y \in Nat : x = Len(covered) /\ y = Len(gaps)
      BY <1>0
    <3>2. Len(covered') = x + 1 /\ Len(gaps') = y
      BY <2>1, <2>2, <3>1
    <3>3. asked = x + y /\ asked \in 0 .. Providers
      BY <3>1
    <3>4. asked + 1 \in 0 .. Providers /\ (x + 1) + y = asked + 1
      BY <1>0, <2>2, <3>3
    <3> QED
      BY <2>2, <3>2, <3>4
  <2> QED
    BY <2>1, <2>2, <2>3
<1>4. CASE DoesNotCover
  <2>1. gaps' \in Seq(Nat) /\ Len(gaps') = Len(gaps) + 1
    BY <1>0, <1>4, AppendProperties DEF DoesNotCover
  <2>2. ASSUME covered = <<>> PROVE gaps' = [i \in 1 .. asked' |-> i]
    <3> DEFINE g == [i \in 1 .. asked + 1 |-> i]
    <3>1. asked \in Nat /\ Len(gaps) = asked /\ \A i \in 1 .. asked : gaps[i] = i
      BY <1>0, <2>2, EmptySeq
    <3>2. gaps' = Append(gaps, asked + 1) /\ asked' = asked + 1
      BY <1>4 DEF DoesNotCover
    <3>3. g \in Seq(Nat) /\ Len(g) = asked + 1
      <4>1. g \in [1 .. asked + 1 -> Nat] /\ asked + 1 \in Nat
        BY <3>1
      <4> QED
        BY <4>1, FunctionIsSeq
    <3>4. \A i \in 1 .. Len(gaps') : gaps'[i] = g[i]
      BY <2>1, <3>1, <3>2, AppendProperties
    <3> QED
      BY <2>1, <3>1, <3>2, <3>3, <3>4, SeqEqual
  <2>3. /\ stage = "consult" /\ stage' = stage /\ merged' = merged /\ covered' = covered /\ shown' = shown
        /\ asked' = asked + 1 /\ asked < Providers
    BY <1>4 DEF DoesNotCover, walk
  <2>4. asked' \in 0 .. Providers /\ Len(covered') + Len(gaps') = asked'
    <3>1. PICK x \in Nat, y \in Nat : x = Len(covered) /\ y = Len(gaps)
      BY <1>0
    <3>2. Len(covered') = x /\ Len(gaps') = y + 1
      BY <2>1, <2>3, <3>1
    <3>3. asked = x + y /\ asked \in 0 .. Providers
      BY <3>1
    <3>4. asked + 1 \in 0 .. Providers /\ x + (y + 1) = asked + 1
      BY <1>0, <2>3, <3>3
    <3> QED
      BY <2>3, <3>2, <3>4
  <2> QED
    BY <2>1, <2>2, <2>3, <2>4
<1>5. CASE ProviderFails
  BY <1>5 DEF ProviderFails, Fails, consulted
<1>6. CASE Uncovered
  BY <1>6 DEF Uncovered, Fails, consulted
<1>7. CASE MergeCovered
  <2>1. covered # <<>>
    <3>1. merged < Len(covered) /\ merged \in Nat
      BY <1>7 DEF MergeCovered
    <3> QED
      BY <3>1, EmptySeq
  <2> QED
    BY <1>7, <2>1 DEF MergeCovered, consulted, walk
<1>8. CASE StartWalk
  BY <1>8 DEF StartWalk, consulted
<1>9. ASSUME NEW found, CheckNode(found) \/ ReportsUndeclared(found) PROVE ConsultInv'
  BY <1>9 DEF CheckNode, ReportsUndeclared, Checking, consulted
<1>10. CASE Panics \/ Descend \/ EndWalk
  BY <1>10 DEF Panics, Checking, Descend, EndWalk, consulted, walk
<1>11. CASE UNCHANGED vars
  BY <1>11 DEF vars, consulted, walk
<1>12. <<>> \in Seq(Decoration) /\ \A d \in Attached : d.node \in Nodes => <<d>> \in Seq(Decoration)
  <2>1. \A n \in Nodes : n \in Nat
    BY DEF FileInv, Nodes
  <2>2. \A d \in Attached : d.node \in Nodes => d \in Decoration
    BY <2>1 DEF Decoration
  <2> QED
    BY <2>2, EmptySeq
<1> QED
  BY <1>1, <1>2, <1>3, <1>4, <1>5, <1>6, <1>7, <1>8, <1>9, <1>10, <1>11, <1>12 DEF Next

LEMMA ConsultInvariant == Spec => []ConsultInv
<1> QED
  BY InitFile, ConsultKept, FileInvariant, PTL DEF Spec

(* For any number of providers: a file is given up as uncovered only after *)
(* each of them was asked and gave a gap, and a lint sees a node only when *)
(* all have answered and at least one covers the file.                     *)
THEOREM UncoveredStaysUnanimous == Spec => []UncoveredIsUnanimous
<1>1. ConsultInv => UncoveredIsUnanimous
  BY DEF ConsultInv, UncoveredIsUnanimous, Answered, Shows
<1> QED
  BY <1>1, ConsultInvariant, PTL

-----------------------------------------------------------------------------
(* What the covering providers attached, put together one after the other. *)
Flat(c) == CHOOSE f : f = [i \in 1 .. Len(c) |-> IF i = 1 THEN c[i] ELSE f[i - 1] \o c[i]]

LEMMA FlatFacts ==
    ASSUME NEW S, NEW c \in Seq(Seq(S)), c # <<>>
    PROVE  /\ FlattenSeq(c) = Flat(c)[Len(c)]
           /\ Flat(c)[1] = c[1]
           /\ \A i \in 2 .. Len(c) : Flat(c)[i] = Flat(c)[i - 1] \o c[i]
<1> DEFINE n == Len(c)
           Q == Seq(S)
           Fix(f) == f = [i \in 1 .. n |-> IF i = 1 THEN c[i] ELSE f[i - 1] \o c[i]]
           step == [i \in 1 .. n |-> [x \in Q |-> x \o c[i]]]
<1>1. n \in Nat /\ n # 0 /\ \A i \in 1 .. n : c[i] \in Q
  BY EmptySeq, LenProperties
<1>2. <<>> \in Q /\ step \in [1 .. n -> [Q -> Q]]
  <2>1. \A i \in 1 .. n : \A x \in Q : x \o c[i] \in Q
    BY <1>1, ConcatProperties
  <2> HIDE DEF Q
  <2>2. step \in [1 .. n -> [Q -> Q]]
    BY <2>1
  <2> QED
    BY <2>2, EmptySeq DEF Q
<1> HIDE DEF n, step
<1>3. PICK g \in [0 .. n -> Q] : g[0] = <<>> /\ \A i \in 1 .. n : g[i] = step[i][g[i - 1]]
  <2> HIDE DEF Q
  <2>1. Recursive(n, Q, <<>>, step) # {}
    BY <1>1, <1>2, Recursion
  <2> QED
    BY <2>1 DEF Recursive
<1>4. \A i \in 1 .. n : g[i] = g[i - 1] \o c[i]
  <2> TAKE i \in 1 .. n
  <2>1. i - 1 \in 0 .. n
    BY <1>1
  <2>2. g[i - 1] \in Q
    BY <2>1
  <2> HIDE DEF Q
  <2> QED
    BY <1>3, <2>2 DEF step
<1>5. g[1] = c[1]
  <2>1. g[1] = <<>> \o c[1]
    <3>1. 1 \in 1 .. n /\ 1 - 1 = 0
      BY <1>1
    <3>2. g[1] = g[1 - 1] \o c[1]
      BY <1>4, <3>1, Zenon
    <3> QED
      BY <1>3, <3>1, <3>2, Zenon
  <2> QED
    BY <1>1, <2>1, ConcatEmptySeq
<1>6. Fix([i \in 1 .. n |-> g[i]])
  <2> DEFINE f == [i \in 1 .. n |-> g[i]]
  <2>1. ASSUME NEW i \in 1 .. n PROVE g[i] = IF i = 1 THEN c[i] ELSE f[i - 1] \o c[i]
    <3>1. i # 1 => i - 1 \in 1 .. n
      BY <1>1
    <3> QED
      BY <1>4, <1>5, <3>1
  <2> HIDE DEF f
  <2>2. f = [i \in 1 .. n |-> g[i]]
    BY DEF f
  <2> QED
    BY <2>1, <2>2
<1>7. Fix(Flat(c))
  BY <1>6 DEF Flat, n
<1>8. FlattenSeq(c) = Flat(c)[n]
  BY <1>1 DEF FlattenSeq, Flat, n
<1>9. PICK f : f = Flat(c)
  OBVIOUS
<1>10. \A i \in 1 .. n : f[i] = IF i = 1 THEN c[i] ELSE f[i - 1] \o c[i]
  BY <1>7, <1>9
<1>11. 1 \in 1 .. n /\ \A i \in 2 .. n : i \in 1 .. n /\ i # 1
  BY <1>1
<1>12. f[1] = c[1] /\ \A i \in 2 .. n : f[i] = f[i - 1] \o c[i]
  BY <1>10, <1>11
<1> QED
  BY <1>8, <1>9, <1>12 DEF n

MergeInv ==
    /\ SealIsFresh
    /\ entries \in Seq(Decoration)
    /\ merged \in 0 .. Len(covered)
    /\ merged = 0 => entries = <<>>
    /\ merged # 0 => entries = Flat(covered)[merged]
    /\ stage \in {"parse", "consult"} => merged = 0
    /\ stage = "walk" => merged = Len(covered)

LEMMA DecorationsOnNodes ==
    ASSUME NEW es \in Seq(Decoration) PROVE OnNodes(es)
<1>1. Len(es) \in Nat /\ DOMAIN es = 1 .. Len(es) /\ \A p \in 1 .. Len(es) : es[p] \in Decoration
  BY LenProperties
<1> QED
  BY <1>1 DEF OnNodes, Decoration

LEMMA ReadKeepsSeal ==
    ASSUME SealIsFresh, MayRead \/ Lookup
    PROVE  SealIsFresh' /\ entries' = entries
<1>1. Lookup \/ UNCHANGED <<entries, sealed>>
  BY DEF MayRead
<1>2. [MapNext]_mapVars /\ entries' = entries
  BY <1>1 DEF MapNext, mapVars, Lookup
<1> QED
  BY <1>2, SealKept

LEMMA StillFresh ==
    ASSUME SealIsFresh, UNCHANGED <<entries, sealed>> PROVE SealIsFresh'
<1>1. MayRead
  BY DEF MayRead
<1> QED
  BY <1>1, ReadKeepsSeal

LEMMA MergeKept ==
    ASSUME ConsultInv, MergeInv, [Next]_vars PROVE MergeInv'
<1>0. Len(covered) \in Nat /\ covered \in Seq(Seq(Decoration))
  BY LenProperties DEF ConsultInv
<1>1. ASSUME NEW ds, Covers(ds) PROVE MergeInv'
  <2>1. SealIsFresh' /\ entries' = entries
    BY <1>1, ReadKeepsSeal DEF MergeInv, Covers
  <2>2. stage = "consult" /\ stage' = stage /\ merged' = 0 /\ merged = 0
    BY <1>1 DEF MergeInv, Covers
  <2>3. Len(covered') \in Nat
    <3>1. covered' = Append(covered, ds)
      BY <1>1 DEF Covers
    <3> QED
      BY <1>0, <3>1
  <2> QED
    BY <2>1, <2>2, <2>3 DEF MergeInv
<1>2. CASE DoesNotCover \/ ProviderFails
  <2>1. SealIsFresh' /\ entries' = entries
    BY <1>2, ReadKeepsSeal DEF MergeInv, DoesNotCover, ProviderFails
  <2>2. stage' \in {"consult", "provider_failed"} /\ merged' = merged /\ merged = 0 /\ covered' = covered
    BY <1>2 DEF MergeInv, DoesNotCover, ProviderFails, Fails, consulted
  <2> QED
    BY <2>1, <2>2 DEF MergeInv
<1>3. CASE MergeCovered
  <2>1. /\ merged < Len(covered) /\ merged' = merged + 1 /\ covered' = covered /\ stage' = "merge"
        /\ entries' = entries \o covered[merged + 1] /\ sealed' = {}
    BY <1>3 DEF MergeCovered, Merge, consulted
  <2>2. SealIsFresh'
    BY <2>1 DEF SealIsFresh
  <2>3. merged \in Nat /\ merged + 1 \in 1 .. Len(covered)
    BY <1>0, <2>1 DEF MergeInv
  <2>4. covered[merged + 1] \in Seq(Decoration)
    BY <1>0, <2>3, ElementOfSeq
  <2>5. entries' \in Seq(Decoration)
    BY <2>1, <2>4, ConcatProperties DEF MergeInv
  <2>6. entries' = Flat(covered)[merged + 1]
    <3>1. covered # <<>>
      BY <2>1, <2>3, EmptySeq
    <3>2. Flat(covered)[1] = covered[1] /\ \A i \in 2 .. Len(covered) : Flat(covered)[i] = Flat(covered)[i - 1] \o covered[i]
      BY <1>0, <3>1, FlatFacts
    <3>3. CASE merged = 0
      <4>1. entries' = <<>> \o covered[1]
        <5>1. merged + 1 = 1 /\ entries = <<>>
          BY <3>3 DEF MergeInv
        <5> QED
          BY <2>1, <5>1, Zenon
      <4>2. <<>> \o covered[1] = covered[1]
        BY <2>4, <3>3, ConcatEmptySeq
      <4> QED
        BY <3>2, <3>3, <4>1, <4>2
    <3>4. CASE merged # 0
      <4>1. merged + 1 \in 2 .. Len(covered) /\ (merged + 1) - 1 = merged
        BY <1>0, <2>3, <3>4
      <4>2. Flat(covered)[merged + 1] = Flat(covered)[merged] \o covered[merged + 1]
        BY <3>2, <4>1
      <4> QED
        BY <2>1, <3>4, <4>2 DEF MergeInv
    <3> QED
      BY <3>3, <3>4
  <2>7. merged + 1 \in 0 .. Len(covered) /\ merged + 1 # 0
    BY <1>0, <2>3
  <2> QED
    BY <2>1, <2>2, <2>5, <2>6, <2>7 DEF MergeInv
<1>4. CASE StartWalk
  <2>1. SealIsFresh' /\ entries' = entries
    BY <1>4, ReadKeepsSeal DEF MergeInv, StartWalk
  <2>2. stage' = "walk" /\ merged = Len(covered) /\ merged' = merged /\ covered' = covered
    BY <1>4 DEF StartWalk, consulted
  <2> QED
    BY <2>1, <2>2 DEF MergeInv
<1>5. ASSUME /\ UNCHANGED <<entries, sealed, merged, covered>>
             /\ stage' = stage \/ stage = "parse" \/ stage' \notin {"parse", "consult", "walk"}
             /\ stage' # "walk" \/ stage = "walk"
      PROVE  MergeInv'
  <2>1. SealIsFresh'
    BY <1>5, StillFresh DEF MergeInv
  <2> QED
    BY <1>5, <2>1 DEF MergeInv
<1>6. CASE Parse \/ NoSyntaxTree \/ Uncovered
  BY <1>5, <1>6 DEF Parse, NoSyntaxTree, Uncovered, Fails, consulted
<1>7. ASSUME NEW found, CheckNode(found) \/ ReportsUndeclared(found) PROVE MergeInv'
  BY <1>5, <1>7 DEF CheckNode, ReportsUndeclared, consulted
<1>8. CASE Panics \/ Descend \/ EndWalk
  BY <1>5, <1>8 DEF Panics, Descend, EndWalk, consulted
<1>9. CASE UNCHANGED vars
  BY <1>5, <1>9 DEF vars, consulted
<1> QED
  BY <1>1, <1>2, <1>3, <1>4, <1>6, <1>7, <1>8, <1>9 DEF Next

(* The lints see every decoration, for any tree, providers and             *)
(* decorations: what a provider sealed by reading the tree is dropped by   *)
(* the first merge, the merges put the providers' decorations one after    *)
(* the other, and the lookups of the walk find what sits on their node.    *)
THEOREM PassesSeeAll == Spec => []PassesSeeEveryDecoration
<1>1. Init => MergeInv
  <2> SUFFICES ASSUME Init PROVE MergeInv
    OBVIOUS
  <2>1. entries = <<>> /\ sealed = {} /\ merged = 0 /\ covered = <<>> /\ stage = "parse"
    BY DEF Init, MapInit
  <2>2. Len(<<>>) = 0 /\ <<>> \in Seq(Decoration)
    BY EmptySeq
  <2> QED
    BY <2>1, <2>2 DEF MergeInv, SealIsFresh
<1>2. ASSUME FileInv, ConsultInv, MergeInv PROVE PassesSeeEveryDecoration
  <2> SUFFICES ASSUME stage = "walk", NEW n \in Nodes PROVE On(n) = Sitting(FlattenSeq(covered), n)
    BY DEF PassesSeeEveryDecoration
  <2>1. n \in Nat
    BY <1>2 DEF FileInv, Nodes
  <2>2. covered # <<>> /\ covered \in Seq(Seq(Decoration))
    BY <1>2 DEF ConsultInv, Answered
  <2>3. merged = Len(covered) /\ merged # 0
    BY <1>2, <2>2, EmptySeq DEF MergeInv
  <2>4. entries = FlattenSeq(covered)
    BY <1>2, <2>2, <2>3, FlatFacts DEF MergeInv
  <2>5. On(n) = Sitting(entries, n)
    BY <1>2, <2>1, DecorationsOnNodes, OnIsSitting DEF MergeInv
  <2> QED
    BY <2>4, <2>5
<1> QED
  BY <1>1, <1>2, MergeKept, FileInvariant, ConsultInvariant, PTL DEF Spec

-----------------------------------------------------------------------------
(* The tree of a file.                                                     *)
LEMMA TreeFacts ==
    ASSUME FileInv
    PROVE  \E n \in Nat \ {0} :
               /\ Nodes = 1 .. n
               /\ \A m \in Nodes : depth[m] \in Nat
               /\ depth[1] = 0
               /\ \A m \in 2 .. n : depth[m] \in 1 .. (depth[m - 1] + 1)
<1>1. PICK n \in Nat \ {0} : depth \in [1 .. n -> Nat] /\ Len(depth) = n
  BY DEF FileInv
<1>2. depth[1] = 0 /\ \A m \in 2 .. n : depth[m] \in 1 .. (depth[m - 1] + 1)
  BY <1>1 DEF FileInv, IsTree
<1> QED
  BY <1>1, <1>2 DEF Nodes

LEMMA RootEncloses ==
    ASSUME FileInv, NEW m \in Nodes
    PROVE  1 \in Nodes /\ (m = 1 \/ Encloses(1, m)) /\ \A a \in Nodes : ~Encloses(a, 1)
<1>1. PICK n \in Nat \ {0} :
               /\ Nodes = 1 .. n
               /\ \A k \in Nodes : depth[k] \in Nat
               /\ depth[1] = 0
               /\ \A k \in 2 .. n : depth[k] \in 1 .. (depth[k - 1] + 1)
  BY TreeFacts
<1>2. \A k \in 2 .. n : depth[k] > 0
  <2> TAKE k \in 2 .. n
  <2>1. k - 1 \in Nodes
    BY <1>1
  <2>2. depth[k] \in 1 .. (depth[k - 1] + 1) /\ depth[k - 1] \in Nat
    BY <1>1, <2>1
  <2> QED
    BY <2>2
<1> QED
  BY <1>1, <1>2 DEF Encloses

LEMMA EnclosesTransitive ==
    ASSUME FileInv, NEW a \in Nodes, NEW b \in Nodes, NEW c \in Nodes, Encloses(a, b), Encloses(b, c)
    PROVE  Encloses(a, c)
<1>1. /\ Nodes \subseteq Nat
      /\ \A k \in Nodes : depth[k] \in Nat
      /\ \A k \in (a + 1) .. c : k \in Nodes
  BY TreeFacts
<1>2. depth[b] > depth[a] /\ a < b /\ b < c
  BY <1>1 DEF Encloses
<1>3. ASSUME NEW k \in (a + 1) .. c PROVE depth[k] > depth[a]
  <2>1. k \in (a + 1) .. b \/ k \in (b + 1) .. c
    BY <1>1
  <2>2. CASE k \in (b + 1) .. c
    BY <1>1, <1>2, <2>2 DEF Encloses
  <2> QED
    BY <2>1, <2>2 DEF Encloses
<1> QED
  BY <1>1, <1>2, <1>3 DEF Encloses

Child(h, c) == c \in Nodes /\ Encloses(h, c) /\ depth[c] = depth[h] + 1

\* Below a node there is one of its children, or what the child encloses.
LEMMA ChildOnTheWay ==
    ASSUME FileInv, NEW h \in Nodes, NEW v \in Nodes, Encloses(h, v)
    PROVE  \E c \in Nodes : Child(h, c) /\ (c = v \/ Encloses(c, v))
<1>1. PICK n \in Nat \ {0} :
               /\ Nodes = 1 .. n
               /\ \A k \in Nodes : depth[k] \in Nat
               /\ depth[1] = 0
               /\ \A k \in 2 .. n : depth[k] \in 1 .. (depth[k - 1] + 1)
  BY TreeFacts
<1> DEFINE C == {k \in (h + 1) .. v : depth[k] = depth[h] + 1}
           B == {v - k : k \in C}
<1>2. h \in Nat /\ v \in Nat /\ h < v /\ \A k \in (h + 1) .. v : k \in Nodes /\ k \in Nat /\ depth[k] > depth[h]
  BY <1>1 DEF Encloses
<1>3. h + 1 \in C
  <2>1. h + 1 \in 2 .. n /\ h + 1 \in (h + 1) .. v /\ (h + 1) - 1 = h
    BY <1>1, <1>2
  <2>2. depth[h + 1] \in 1 .. (depth[h] + 1) /\ depth[h + 1] > depth[h] /\ depth[h] \in Nat
    BY <1>1, <1>2, <2>1
  <2> QED
    BY <2>1, <2>2
<1>4. B \in SUBSET Nat /\ B # {}
  BY <1>2, <1>3
<1>5. PICK m \in B : \A i \in B : m <= i
  <2> HIDE DEF B
  <2> QED
    BY <1>4, Least
<1>6. PICK c \in C : m = v - c
  BY <1>5
<1>7. \A k \in C : k <= c
  <2> TAKE k \in C
  <2>1. v - c <= v - k
    BY <1>5, <1>6
  <2> QED
    BY <1>2, <2>1
<1>8. c \in Nodes /\ c \in Nat /\ h < c /\ c <= v /\ depth[c] = depth[h] + 1 /\ depth[c] \in Nat /\ depth[h] \in Nat
  BY <1>1, <1>2
<1>9. Child(h, c)
  BY <1>2, <1>8 DEF Child, Encloses
<1>10. \A k \in (c + 1) .. v : depth[k] > depth[c]
  <2> TAKE k \in (c + 1) .. v
  <2>1. k \in (h + 1) .. v /\ k \in Nodes /\ ~(k <= c)
    BY <1>2, <1>8
  <2>2. depth[k] # depth[h] + 1 /\ depth[k] > depth[h] /\ depth[k] \in Nat
    BY <1>1, <1>2, <1>7, <2>1
  <2> QED
    BY <1>8, <2>2
<1> QED
  BY <1>8, <1>9, <1>10 DEF Encloses

\* What encloses a child is its parent or encloses the parent.
LEMMA AroundAChild ==
    ASSUME FileInv, NEW h \in Nodes, NEW c \in Nodes, Child(h, c), NEW a \in Nodes, Encloses(a, c)
    PROVE  a = h \/ Encloses(a, h)
<1>1. /\ Nodes \subseteq Nat
      /\ \A k \in Nodes : depth[k] \in Nat
  BY TreeFacts
<1>2. CASE a > h
  <2>1. a \in (h + 1) .. c /\ depth[a] > depth[h] /\ depth[c] > depth[a] /\ depth[c] = depth[h] + 1
    BY <1>1, <1>2 DEF Child, Encloses
  <2> QED
    BY <1>1, <2>1
<1>3. CASE a < h
  <2>1. \A k \in (a + 1) .. h : k \in (a + 1) .. c
    BY <1>1 DEF Child, Encloses
  <2> QED
    BY <1>3, <2>1 DEF Encloses
<1> QED
  BY <1>1, <1>2, <1>3

Reached(n) == n \in Nodes /\ (n = 1 \/ Visible(n))

LEMMA NamedChildIsReached ==
    ASSUME FileInv, NEW h, Reached(h), NEW c, Child(h, c), named[c]
    PROVE  Reached(c) /\ Visible(c)
<1>0. h \in Nodes /\ c \in Nodes
  BY DEF Reached, Child
<1>1. ASSUME NEW a \in Nodes \ {1}, Encloses(a, c) PROVE named[a]
  <2>1. a = h \/ Encloses(a, h)
    BY <1>0, <1>1, AroundAChild
  <2>2. CASE a = h
    BY <1>1, <2>2 DEF Reached, Visible
  <2>3. CASE Encloses(a, h)
    <3>1. h # 1
      BY <1>0, <2>3, RootEncloses
    <3> QED
      BY <1>1, <2>3, <3>1 DEF Reached, Visible
  <2> QED
    BY <2>1, <2>2, <2>3
<1> QED
  BY <1>0, <1>1 DEF Reached, Visible

\* The children that `visit_node` goes down to.
LEMMA NamedChildrenFacts ==
    ASSUME FileInv, NEW h \in Nodes
    PROVE  LET kids == NamedChildren(h)
           IN  /\ kids \in Seq(Nodes)
               /\ \A i, j \in DOMAIN kids : i < j => kids[i] < kids[j]
               /\ \A i \in DOMAIN kids : Child(h, kids[i]) /\ named[kids[i]]
               /\ \A c \in Nodes : Child(h, c) /\ named[c] => \E i \in DOMAIN kids : kids[i] = c
<1> DEFINE S == {m \in Nodes : Encloses(h, m) /\ depth[m] = depth[h] + 1 /\ named[m]}
<1>1. PICK n \in Nat : Nodes = 1 .. n
  BY TreeFacts
<1>2. S \in SUBSET (1 .. n) /\ \A c \in Nodes : c \in S <=> Child(h, c) /\ named[c]
  BY <1>1 DEF Child
<1>3. NamedChildren(h) = Ascending(S)
  BY DEF NamedChildren
<1>4. S \in SUBSET Nodes
  OBVIOUS
<1> HIDE DEF S
<1>5. LET a == Ascending(S)
      IN  /\ a \in Seq(S)
          /\ \A r, s \in DOMAIN a : r < s => a[r] < a[s]
          /\ \A r \in DOMAIN a : a[r] \in S
          /\ \A i \in S : \E r \in DOMAIN a : a[r] = i
  BY <1>2, AscendingFacts
<1>6. PICK kids : kids = NamedChildren(h)
  OBVIOUS
<1>7. /\ kids \in Seq(S)
      /\ \A r, s \in DOMAIN kids : r < s => kids[r] < kids[s]
      /\ \A r \in DOMAIN kids : kids[r] \in S
      /\ \A i \in S : \E r \in DOMAIN kids : kids[r] = i
  BY <1>3, <1>5, <1>6
<1>8. kids \in Seq(Nodes)
  BY <1>4, <1>7, SeqMonotonic
<1>9. \A i \in DOMAIN kids : Child(h, kids[i]) /\ named[kids[i]]
  BY <1>2, <1>4, <1>7
<1>10. \A c \in Nodes : Child(h, c) /\ named[c] => \E i \in DOMAIN kids : kids[i] = c
  BY <1>2, <1>7
<1> QED
  BY <1>6, <1>7, <1>8, <1>9, <1>10

LEMMA SeeingFacts ==
    ASSUME FileInv
    PROVE  /\ Seeing \in Seq(Nat) /\ DOMAIN Seeing = 1 .. Len(Seeing) /\ Len(Seeing) \in Nat
           /\ \A i, j \in DOMAIN Seeing : i < j => Seeing[i] < Seeing[j]
           /\ \A i \in DOMAIN Seeing : Seeing[i] \in Nat /\ Seeing[i] \in DOMAIN lints
<1> DEFINE S == {i \in DOMAIN lints : lints[i].language = language}
<1>1. PICK n \in Nat : DOMAIN lints = 1 .. n
  BY LenProperties DEF FileInv
<1>2. S \in SUBSET (1 .. n) /\ S \in SUBSET DOMAIN lints
  BY <1>1
<1>3. Seeing = Ascending(S)
  BY DEF Seeing
<1>4. S \in SUBSET Nat
  BY <1>1
<1> HIDE DEF S
<1>5. LET a == Ascending(S)
      IN  /\ a \in Seq(S)
          /\ DOMAIN a = 1 .. Len(a) /\ Len(a) \in Nat
          /\ \A r, s \in DOMAIN a : r < s => a[r] < a[s]
          /\ \A r \in DOMAIN a : a[r] \in S
  BY <1>2, AscendingFacts
<1>6. PICK a : a = Seeing
  OBVIOUS
<1>7. /\ a \in Seq(S)
      /\ DOMAIN a = 1 .. Len(a) /\ Len(a) \in Nat
      /\ \A r, s \in DOMAIN a : r < s => a[r] < a[s]
      /\ \A r \in DOMAIN a : a[r] \in S
  BY <1>3, <1>5, <1>6
<1>8. a \in Seq(Nat) /\ \A i \in DOMAIN a : a[i] \in Nat /\ a[i] \in DOMAIN lints
  BY <1>2, <1>4, <1>7, SeqMonotonic
<1> QED
  BY <1>6, <1>7, <1>8

-----------------------------------------------------------------------------
(* The walk.                                                               *)

\* Nothing is skipped and nothing is shown twice.
InOrder(sh) ==
    /\ sh \in Seq(Expected)
    /\ \A i, j \in DOMAIN sh : i < j => Before(sh[i], sh[j])
    /\ sh # <<>> => \A e \in Expected : Before(e, Last(sh)) => e \in Range(sh)

\* What the nodes still to visit leave to do: they come in the order of the
\* text, none lies below another, and what is not yet visited is one of them or
\* below one.  Everything before the next node has been shown.
Walking(T, k, sh) ==
    /\ T \in Seq(Nodes) /\ k \in Nat \ {0}
    /\ \A i, j \in DOMAIN T : i < j => T[i] < T[j] /\ ~Encloses(T[i], T[j])
    /\ \A i \in DOMAIN T : Reached(T[i])
    /\ T # <<>> => \A v \in Nodes : Visible(v) /\ T[1] <= v =>
                       \E i \in DOMAIN T : v = T[i] \/ Encloses(T[i], v)
    /\ \A e \in Expected :
           e \in Range(sh) <=> \/ T = <<>>
                               \/ e[1] < T[1]
                               \/ e[1] = T[1] /\ \E l \in DOMAIN Seeing : l < k /\ e[2] = Seeing[l]

LEMMA ExpectedFacts ==
    ASSUME FileInv, NEW e, e \in Expected
    PROVE  /\ e = <<e[1], e[2]>> /\ e[1] \in Nodes /\ e[1] \in Nat /\ Visible(e[1])
           /\ e[2] \in Nat /\ \E l \in DOMAIN Seeing : e[2] = Seeing[l]
<1>1. e = <<e[1], e[2]>> /\ e[1] \in Nodes /\ Visible(e[1]) /\ e[2] \in Range(Seeing)
  BY DEF Expected
<1>2. e[1] \in Nat
  BY <1>1, TreeFacts
<1>3. PICK l \in DOMAIN Seeing : e[2] = Seeing[l]
  BY <1>1 DEF Range
<1>4. e[2] \in Nat
  BY <1>3, SeeingFacts
<1> QED
  BY <1>1, <1>2, <1>3, <1>4

LEMMA StartWalks ==
    ASSUME FileInv PROVE Walking(<<1>>, 1, <<>>)
<1>1. 1 \in Nodes /\ \A m \in Nodes : m = 1 \/ Encloses(1, m)
  <2>1. PICK n \in Nat \ {0} : Nodes = 1 .. n
    BY TreeFacts
  <2>2. 1 \in Nodes
    BY <2>1
  <2> QED
    BY <2>2, RootEncloses
<1>2. <<1>> \in Seq(Nodes) /\ <<1>> # <<>> /\ DOMAIN <<1>> = {1} /\ <<1>>[1] = 1
  BY <1>1
<1>3. Range(<<>>) = {}
  BY DEF Range
<1>4. \A e \in Expected : /\ ~(e[1] < 1)
                          /\ ~\E l \in DOMAIN Seeing : l < 1 /\ e[2] = Seeing[l]
  <2> TAKE e \in Expected
  <2>1. e[1] \in Nat /\ e[1] \in Nodes
    BY ExpectedFacts
  <2>2. e[1] # 0
    BY <2>1, TreeFacts
  <2>3. \A l \in DOMAIN Seeing : ~(l < 1)
    BY SeeingFacts
  <2> QED
    BY <2>1, <2>2, <2>3
<1>5. \A i, j \in DOMAIN <<1>> : ~(i < j)
  BY <1>2
<1>6. Reached(1)
  BY <1>1 DEF Reached
<1> QED
  BY <1>1, <1>2, <1>3, <1>4, <1>5, <1>6 DEF Walking

LEMMA EndsComplete ==
    ASSUME NEW k, NEW sh, Walking(<<>>, k, sh), InOrder(sh)
    PROVE  Range(sh) = Expected
<1>1. Range(sh) \subseteq Expected
  BY RangeOfSeq DEF InOrder
<1>2. Expected \subseteq Range(sh)
  BY DEF Walking
<1> QED
  BY <1>1, <1>2

LEMMA RangeOfAppend ==
    ASSUME NEW S, NEW s \in Seq(S), NEW p \in S
    PROVE  /\ Append(s, p) \in Seq(S) /\ Append(s, p) # <<>> /\ Last(Append(s, p)) = p
           /\ Range(Append(s, p)) = Range(s) \cup {p}
           /\ DOMAIN s = 1 .. Len(s) /\ Len(s) \in Nat /\ DOMAIN Append(s, p) = 1 .. (Len(s) + 1)
           /\ \A i \in 1 .. Len(s) : Append(s, p)[i] = s[i]
           /\ Append(s, p)[Len(s) + 1] = p
<1>1. Len(s) \in Nat /\ DOMAIN s = 1 .. Len(s)
  BY LenProperties
<1>2. PICK t : t = Append(s, p)
  OBVIOUS
<1>3. /\ t \in Seq(S) /\ t # <<>> /\ Len(t) = Len(s) + 1
      /\ \A i \in 1 .. Len(s) : t[i] = s[i]
      /\ t[Len(s) + 1] = p
  BY <1>2, AppendProperties
<1>4. DOMAIN t = 1 .. (Len(s) + 1) /\ Last(t) = p
  BY <1>3, LenProperties DEF Last
<1>5. Range(t) = Range(s) \cup {p}
  <2>1. \A i \in 1 .. (Len(s) + 1) : i \in 1 .. Len(s) \/ i = Len(s) + 1
    BY <1>1
  <2>2. \A i \in 1 .. Len(s) : i \in 1 .. (Len(s) + 1)
    BY <1>1
  <2>3. Len(s) + 1 \in 1 .. (Len(s) + 1)
    BY <1>1
  <2> QED
    BY <1>1, <1>3, <1>4, <2>1, <2>2, <2>3 DEF Range
<1> QED
  BY <1>1, <1>2, <1>3, <1>4, <1>5

\* A lint is shown the next node.
LEMMA ShowsNext ==
    ASSUME FileInv, NEW T, NEW k, NEW sh, Walking(T, k, sh), InOrder(sh),
           T # <<>>, named[T[1]], k <= Len(Seeing)
    PROVE  LET p == <<T[1], Seeing[k]>>
           IN  /\ InOrder(Append(sh, p))
               /\ Walking(T, k + 1, Append(sh, p))
               /\ \A e \in Range(sh) : Before(e, p)
<1>1. PICK p : p = <<T[1], Seeing[k]>>
  OBVIOUS
<1>2. k \in DOMAIN Seeing /\ k \in Nat \ {0} /\ k + 1 \in Nat \ {0} /\ Seeing[k] \in Nat
  BY SeeingFacts DEF Walking
<1>3. 1 \in DOMAIN T /\ T[1] \in Nodes /\ T[1] \in Nat /\ Reached(T[1])
  <2>1. 1 \in DOMAIN T
    BY EmptySeq, LenProperties DEF Walking
  <2>2. Reached(T[1])
    BY <2>1 DEF Walking
  <2> QED
    BY <2>1, <2>2, TreeFacts DEF Reached
<1>4. Visible(T[1])
  <2>1. CASE T[1] = 1
    <3>1. \A a \in Nodes : ~Encloses(a, 1)
      BY <1>3, RootEncloses
    <3> QED
      BY <2>1, <3>1 DEF Visible
  <2> QED
    BY <1>3, <2>1 DEF Reached
<1>5. p \in Expected /\ p[1] = T[1] /\ p[2] = Seeing[k]
  BY <1>1, <1>2, <1>3, <1>4 DEF Expected, Range
<1>6. sh \in Seq(Expected) /\ Range(sh) \subseteq Expected
  BY RangeOfSeq DEF InOrder
<1>7. ASSUME NEW e \in Expected
      PROVE  /\ e \in Range(sh) <=> Before(e, p)
             /\ e[1] = T[1] => (\E l \in DOMAIN Seeing : l < k + 1 /\ e[2] = Seeing[l]) <=> e = p \/ Before(e, p)
             /\ e[1] < T[1] => Before(e, p)
             /\ e = p => e[1] = T[1]
             /\ Before(e, p) => e[1] < T[1] \/ e[1] = T[1]
  <2>1. /\ e = <<e[1], e[2]>> /\ e[1] \in Nat /\ e[2] \in Nat
        /\ \E l \in DOMAIN Seeing : e[2] = Seeing[l]
    BY ExpectedFacts
  <2>2. PICK l \in DOMAIN Seeing : e[2] = Seeing[l]
    BY <2>1
  <2>3. l \in Nat /\ \A j \in DOMAIN Seeing : j \in Nat /\ Seeing[j] \in Nat /\ (j < k => Seeing[j] < Seeing[k]) /\ (k < j => Seeing[k] < Seeing[j])
    BY <1>2, SeeingFacts
  <2>4. e[2] < Seeing[k] <=> l < k
    BY <1>2, <2>2, <2>3
  <2>5. (\E j \in DOMAIN Seeing : j < k /\ e[2] = Seeing[j]) <=> l < k
    BY <1>2, <2>2, <2>3, <2>4
  <2>6. Before(e, p) <=> e[1] < T[1] \/ (e[1] = T[1] /\ l < k)
    BY <1>5, <2>4 DEF Before
  <2>7. e \in Range(sh) <=> e[1] < T[1] \/ (e[1] = T[1] /\ l < k)
    BY <2>5 DEF Walking
  <2>8. ASSUME e[1] = T[1]
        PROVE  (\E j \in DOMAIN Seeing : j < k + 1 /\ e[2] = Seeing[j]) <=> l < k \/ e = p
    <3>1. e = p <=> e[2] = Seeing[k]
      BY <1>1, <1>5, <2>1, <2>8
    <3>2. \A j \in DOMAIN Seeing : j < k + 1 <=> j < k \/ j = k
      BY <1>2, <2>3
    <3> QED
      BY <1>2, <2>5, <3>1, <3>2
  <2>9. e[1] = T[1] => (Before(e, p) <=> l < k)
    BY <1>3, <2>1, <2>6
  <2> QED
    BY <1>5, <2>6, <2>7, <2>8, <2>9
<1>8. PICK t : t = Append(sh, p)
  OBVIOUS
<1>9. /\ t \in Seq(Expected) /\ t # <<>> /\ Last(t) = p
      /\ Range(t) = Range(sh) \cup {p}
      /\ DOMAIN sh = 1 .. Len(sh) /\ Len(sh) \in Nat /\ DOMAIN t = 1 .. (Len(sh) + 1)
      /\ \A i \in 1 .. Len(sh) : t[i] = sh[i]
      /\ t[Len(sh) + 1] = p
  BY <1>5, <1>6, <1>8, RangeOfAppend
<1>10. \A e \in Range(sh) : Before(e, p)
  BY <1>6, <1>7
<1>11. InOrder(t)
  <2>1. ASSUME NEW i \in DOMAIN t, NEW j \in DOMAIN t, i < j PROVE Before(t[i], t[j])
    <3>1. i \in 1 .. Len(sh) /\ (j \in 1 .. Len(sh) \/ j = Len(sh) + 1)
      BY <1>9, <2>1
    <3>2. CASE j \in 1 .. Len(sh)
      BY <1>9, <2>1, <3>1, <3>2 DEF InOrder
    <3>3. CASE j = Len(sh) + 1
      <4>1. sh[i] \in Range(sh)
        BY <1>9, <3>1 DEF Range
      <4> QED
        BY <1>9, <1>10, <3>1, <3>3, <4>1
    <3> QED
      BY <3>1, <3>2, <3>3
  <2>2. \A e \in Expected : Before(e, Last(t)) => e \in Range(t)
    BY <1>7, <1>9
  <2> QED
    BY <1>9, <2>1, <2>2 DEF InOrder
<1>12. \A e \in Expected :
           e \in Range(t) <=> \/ T = <<>>
                              \/ e[1] < T[1]
                              \/ e[1] = T[1] /\ \E l \in DOMAIN Seeing : l < k + 1 /\ e[2] = Seeing[l]
  <2> TAKE e \in Expected
  <2>1. e \in Range(t) <=> Before(e, p) \/ e = p
    BY <1>7, <1>9
  <2> QED
    BY <1>7, <2>1
<1>13. Walking(T, k + 1, t)
  BY <1>2, <1>12 DEF Walking
<1> QED
  BY <1>1, <1>8, <1>10, <1>11, <1>13

\* The walk goes down to the children of the next node.
LEMMA GoesDown ==
    ASSUME FileInv, NEW T, NEW k, NEW sh, Walking(T, k, sh), InOrder(sh),
           T # <<>>, ~(named[T[1]] /\ k <= Len(Seeing))
    PROVE  Walking(NamedChildren(T[1]) \o Tail(T), 1, sh)
<1>1. PICK h, K, U : h = T[1] /\ K = NamedChildren(h) /\ U = K \o Tail(T)
  OBVIOUS
<1>2. Len(T) \in Nat \ {0} /\ DOMAIN T = 1 .. Len(T) /\ T \in Seq(Nodes)
  BY EmptySeq, LenProperties DEF Walking
<1>3. h \in Nodes /\ Reached(h) /\ Nodes \subseteq Nat /\ \A m \in Nodes : depth[m] \in Nat
  <2>1. 1 \in DOMAIN T
    BY <1>2
  <2>2. Reached(h)
    BY <1>1, <2>1 DEF Walking
  <2> QED
    BY <2>2, TreeFacts DEF Reached
<1>4. /\ K \in Seq(Nodes)
      /\ \A i, j \in DOMAIN K : i < j => K[i] < K[j]
      /\ \A i \in DOMAIN K : Child(h, K[i]) /\ named[K[i]]
      /\ \A c \in Nodes : Child(h, c) /\ named[c] => \E i \in DOMAIN K : K[i] = c
  <2>1. LET kids == NamedChildren(h)
        IN  /\ kids \in Seq(Nodes)
            /\ \A i, j \in DOMAIN kids : i < j => kids[i] < kids[j]
            /\ \A i \in DOMAIN kids : Child(h, kids[i]) /\ named[kids[i]]
            /\ \A c \in Nodes : Child(h, c) /\ named[c] => \E i \in DOMAIN kids : kids[i] = c
    BY <1>3, NamedChildrenFacts
  <2> QED
    BY <1>1, <2>1
<1>5. PICK a \in Nat, b \in Nat : a = Len(K) /\ b = Len(T) - 1 /\ DOMAIN K = 1 .. a
  <2>1. Len(K) \in Nat /\ DOMAIN K = 1 .. Len(K)
    BY <1>4, LenProperties
  <2>2. Len(T) - 1 \in Nat
    BY <1>2
  <2> QED
    BY <2>1, <2>2
<1>6. /\ U \in Seq(Nodes) /\ Len(U) = a + b /\ DOMAIN U = 1 .. (a + b)
      /\ \A i \in 1 .. a : U[i] = K[i]
      /\ \A i \in (a + 1) .. (a + b) : U[i] = T[i - a + 1] /\ i - a + 1 \in 2 .. Len(T)
  <2>1. Tail(T) \in Seq(Nodes) /\ Len(Tail(T)) = b /\ \A i \in 1 .. b : Tail(T)[i] = T[i + 1]
    BY <1>2, <1>5, HeadTailProperties
  <2>2. /\ U \in Seq(Nodes) /\ Len(U) = a + b
        /\ \A i \in 1 .. a + b : U[i] = IF i <= a THEN K[i] ELSE Tail(T)[i - a]
    BY <1>1, <1>4, <1>5, <2>1, ConcatProperties
  <2>3. DOMAIN U = 1 .. (a + b)
    BY <2>2, LenProperties
  <2>4. \A i \in 1 .. a : U[i] = K[i]
    BY <2>2
  <2>5. ASSUME NEW i \in (a + 1) .. (a + b) PROVE U[i] = T[i - a + 1] /\ i - a + 1 \in 2 .. Len(T)
    <3>1. i \in 1 .. a + b /\ ~(i <= a) /\ i - a \in 1 .. b /\ (i - a) + 1 \in 2 .. Len(T)
      BY <1>2, <1>5
    <3> QED
      BY <2>1, <2>2, <3>1
  <2> QED
    BY <2>2, <2>3, <2>4, <2>5
\* Every node that was to be visited after h still is.
<1>7. \A i \in 2 .. Len(T) : \E j \in DOMAIN U : U[j] = T[i]
  <2> TAKE i \in 2 .. Len(T)
  <2>1. i + a - 1 \in (a + 1) .. (a + b) /\ (i + a - 1) - a + 1 = i /\ i + a - 1 \in 1 .. (a + b)
    BY <1>2, <1>5
  <2>2. U[i + a - 1] = T[(i + a - 1) - a + 1]
    BY <1>6, <2>1
  <2> QED
    BY <1>6, <2>1, <2>2
<1>8. \A i \in DOMAIN K : \E j \in DOMAIN U : U[j] = K[i]
  BY <1>5, <1>6
<1>9. \A i \in 2 .. Len(T) : T[i] \in Nodes /\ h < T[i] /\ ~Encloses(h, T[i]) /\ Reached(T[i])
  BY <1>1, <1>2 DEF Walking
<1>10. \A i \in DOMAIN K : K[i] \in Nodes /\ h < K[i] /\ Encloses(h, K[i]) /\ depth[K[i]] = depth[h] + 1
  BY <1>4 DEF Child, Encloses
\* The children come before what follows h, and enclose none of it.
<1>11. ASSUME NEW i \in DOMAIN K, NEW j \in 2 .. Len(T)
       PROVE  K[i] < T[j] /\ ~Encloses(K[i], T[j])
  <2>1. PICK c \in Nodes, w \in Nodes : c = K[i] /\ w = T[j]
    BY <1>9, <1>10
  <2>2. Encloses(h, c) /\ h < w /\ ~Encloses(h, w) /\ h \in Nat /\ c \in Nat /\ w \in Nat
    BY <1>3, <1>9, <1>10, <2>1
  <2>3. c < w
    <3> SUFFICES ASSUME w <= c PROVE FALSE
      BY <2>2
    <3>1. \A m \in (h + 1) .. w : m \in (h + 1) .. c
      BY <2>2
    <3> QED
      BY <2>2, <3>1 DEF Encloses
  <2>4. ~Encloses(c, w)
    BY <1>3, <2>2, EnclosesTransitive
  <2> QED
    BY <2>1, <2>3, <2>4
<1>12. ASSUME NEW i \in DOMAIN U, NEW j \in DOMAIN U, i < j PROVE U[i] < U[j] /\ ~Encloses(U[i], U[j])
  <2>1. (i \in 1 .. a \/ i \in (a + 1) .. (a + b)) /\ (j \in 1 .. a \/ j \in (a + 1) .. (a + b))
    BY <1>6
  <2>2. CASE j \in 1 .. a
    <3>1. i \in 1 .. a
      BY <1>6, <1>12, <2>2
    <3>2. U[i] = K[i] /\ U[j] = K[j] /\ i \in DOMAIN K /\ j \in DOMAIN K
      BY <1>5, <1>6, <2>2, <3>1
    <3>3. K[i] < K[j] /\ depth[K[i]] = depth[K[j]] /\ depth[K[j]] \in Nat /\ K[j] \in Nat /\ K[i] \in Nat
      BY <1>3, <1>4, <1>10, <1>12, <3>2
    <3>4. ~Encloses(K[i], K[j])
      <4>1. K[j] \in (K[i] + 1) .. K[j]
        BY <3>3
      <4> QED
        BY <3>3, <4>1 DEF Encloses
    <3> QED
      BY <3>2, <3>3, <3>4
  <2>3. CASE i \in 1 .. a /\ j \in (a + 1) .. (a + b)
    BY <1>5, <1>6, <1>11, <2>3
  <2>4. CASE i \in (a + 1) .. (a + b) /\ j \in (a + 1) .. (a + b)
    <3>1. PICK x \in DOMAIN T, y \in DOMAIN T : x = i - a + 1 /\ y = j - a + 1 /\ x < y /\ U[i] = T[x] /\ U[j] = T[y]
      BY <1>2, <1>6, <1>12, <2>4
    <3> QED
      BY <3>1 DEF Walking
  <2> QED
    BY <1>12, <2>1, <2>2, <2>3, <2>4
<1>13. ASSUME NEW i \in DOMAIN U PROVE Reached(U[i]) /\ h < U[i]
  <2>1. i \in 1 .. a \/ i \in (a + 1) .. (a + b)
    BY <1>6
  <2>2. CASE i \in 1 .. a
    BY <1>3, <1>4, <1>5, <1>6, <1>10, <2>2, NamedChildIsReached
  <2>3. CASE i \in (a + 1) .. (a + b)
    BY <1>6, <1>9, <2>3
  <2> QED
    BY <2>1, <2>2, <2>3
\* A visible node after h is, or is below, one that is still to be visited.
<1>14. ASSUME NEW v \in Nodes, Visible(v), h < v
       PROVE  \E j \in DOMAIN U : v = U[j] \/ Encloses(U[j], v)
  <2>1. PICK i \in DOMAIN T : v = T[i] \/ Encloses(T[i], v)
    <3>1. h <= v
      BY <1>3, <1>14
    <3> QED
      BY <1>1, <1>14, <3>1 DEF Walking
  <2>2. CASE i = 1
    <3>1. Encloses(h, v)
      BY <1>1, <1>3, <1>14, <2>1, <2>2
    <3>2. PICK c \in Nodes : Child(h, c) /\ (c = v \/ Encloses(c, v))
      BY <1>3, <3>1, ChildOnTheWay
    <3>3. named[c]
      <4>1. c # 1
        BY <1>3, <3>2, RootEncloses DEF Child
      <4> QED
        BY <1>14, <3>2, <4>1 DEF Visible
    <3> QED
      BY <1>4, <1>8, <3>2, <3>3
  <2>3. CASE i # 1
    <3>1. i \in 2 .. Len(T)
      BY <1>2, <2>3
    <3> QED
      BY <1>7, <2>1, <3>1
  <2> QED
    BY <2>2, <2>3
\* Up to h everything has been shown, and nothing after it.
<1>15. ASSUME NEW e \in Expected
       PROVE  e[1] \in Nodes /\ Visible(e[1]) /\ (e \in Range(sh) <=> e[1] <= h)
  <2>1. e[1] \in Nodes /\ e[1] \in Nat /\ Visible(e[1]) /\ \E l \in DOMAIN Seeing : e[2] = Seeing[l]
    BY ExpectedFacts
  <2>2. PICK l \in DOMAIN Seeing : e[2] = Seeing[l]
    BY <2>1
  <2>3. e[1] = h => l < k
    <3> SUFFICES ASSUME e[1] = h PROVE l < k
      OBVIOUS
    <3>1. named[T[1]]
      BY <1>1, <2>1 DEF Visible
    <3>2. ~(k <= Len(Seeing)) /\ k \in Nat
      BY <3>1 DEF Walking
    <3>3. l \in 1 .. Len(Seeing) /\ Len(Seeing) \in Nat
      BY SeeingFacts
    <3> QED
      BY <3>2, <3>3
  <2>4. e \in Range(sh) <=> e[1] < h \/ e[1] = h
    BY <1>1, <2>2, <2>3 DEF Walking
  <2> QED
    BY <1>3, <2>1, <2>4
<1>16. ASSUME NEW e \in Expected
       PROVE  e \in Range(sh) <=> \/ U = <<>>
                                  \/ e[1] < U[1]
                                  \/ e[1] = U[1] /\ \E l \in DOMAIN Seeing : l < 1 /\ e[2] = Seeing[l]
  <2>1. \A l \in DOMAIN Seeing : ~(l < 1)
    BY SeeingFacts
  <2>2. e[1] \in Nodes /\ e[1] \in Nat /\ h \in Nat
    BY <1>3, <1>15
  <2>3. CASE U = <<>>
    <3>1. ~(h < e[1])
      <4> SUFFICES ASSUME h < e[1] PROVE FALSE
        OBVIOUS
      <4>1. PICK j \in DOMAIN U : TRUE
        BY <1>14, <1>15
      <4> QED
        BY <2>3, <4>1
    <3> QED
      BY <1>15, <2>2, <2>3, <3>1
  <2>4. CASE U # <<>>
    <3>1. 1 \in DOMAIN U /\ U[1] \in Nat
      <4>1. Len(U) # 0 /\ Len(U) \in Nat
        BY <1>6, <2>4, EmptySeq
      <4>2. 1 \in DOMAIN U
        BY <1>6, <4>1
      <4>3. U[1] \in Nodes
        BY <1>13, <4>2 DEF Reached
      <4> QED
        BY <1>3, <4>2, <4>3
    <3>2. h < U[1]
      BY <1>13, <3>1
    <3>3. h < e[1] => U[1] <= e[1]
      <4> SUFFICES ASSUME h < e[1] PROVE U[1] <= e[1]
        OBVIOUS
      <4>1. PICK j \in DOMAIN U : e[1] = U[j] \/ Encloses(U[j], e[1])
        BY <1>14, <1>15
      <4>2. U[j] \in Nat /\ U[j] <= e[1]
        <5>1. U[j] \in Nodes
          BY <1>13 DEF Reached
        <5>2. U[j] \in Nat
          BY <1>3, <5>1
        <5> QED
          BY <2>2, <4>1, <5>2 DEF Encloses
      <4>3. U[1] <= U[j]
        <5>1. j = 1 \/ 1 < j
          BY <1>6
        <5> QED
          BY <1>12, <3>1, <4>2, <5>1
      <4> QED
        BY <2>2, <3>1, <4>2, <4>3
    <3>4. e[1] <= h <=> e[1] < U[1]
      BY <2>2, <3>1, <3>2, <3>3
    <3> QED
      BY <1>15, <2>1, <2>4, <3>4
  <2> QED
    BY <2>3, <2>4
<1>17. U # <<>> => \A v \in Nodes : Visible(v) /\ U[1] <= v =>
                       \E j \in DOMAIN U : v = U[j] \/ Encloses(U[j], v)
  <2> SUFFICES ASSUME U # <<>>, NEW v \in Nodes, Visible(v), U[1] <= v PROVE h < v
    BY <1>14
  <2>1. 1 \in DOMAIN U
    BY <1>6, EmptySeq
  <2>2. U[1] \in Nodes /\ h < U[1]
    BY <1>13, <2>1 DEF Reached
  <2>3. U[1] \in Nat /\ h \in Nat /\ v \in Nat
    BY <1>3, <2>2
  <2> QED
    BY <2>2, <2>3
<1>18. Walking(U, 1, sh)
  BY <1>6, <1>12, <1>13, <1>16, <1>17 DEF Walking
<1> QED
  BY <1>1, <1>18

WalkInv ==
    /\ InOrder(shown)
    /\ stage = "walk" => Walking(todo, at, shown)
    /\ stage = "ok" => Range(shown) = Expected

\* The tree and the lints stay what they are, and with them what is expected.
LEMMA SameTree ==
    ASSUME UNCHANGED file
    PROVE  /\ Nodes' = Nodes /\ Seeing' = Seeing /\ Expected' = Expected
           /\ \A a, b : Encloses(a, b)' <=> Encloses(a, b)
           /\ \A v : Visible(v)' <=> Visible(v)
           /\ \A v : Reached(v)' <=> Reached(v)
<1>1. depth' = depth /\ named' = named /\ lints' = lints /\ language' = language
  BY DEF file
<1>2. Nodes' = Nodes
  BY <1>1 DEF Nodes
<1>3. Seeing' = Seeing
  BY <1>1 DEF Seeing
<1>4. \A a, b : Encloses(a, b)' <=> Encloses(a, b)
  BY <1>1 DEF Encloses
<1>5. \A v : Visible(v)' <=> Visible(v)
  BY <1>1, <1>2, <1>4 DEF Visible
<1>6. \A v : Reached(v)' <=> Reached(v)
  BY <1>2, <1>5 DEF Reached
<1>7. Expected' = Expected
  BY <1>2, <1>3, <1>5 DEF Expected
<1> QED
  BY <1>2, <1>3, <1>4, <1>5, <1>6, <1>7

LEMMA SameOrder ==
    ASSUME UNCHANGED file, NEW sh, sh = shown', InOrder(sh)
    PROVE  InOrder(shown)'
BY SameTree DEF InOrder

LEMMA SameWalk ==
    ASSUME UNCHANGED file, NEW T, NEW k, NEW sh, T = todo', k = at', sh = shown', Walking(T, k, sh)
    PROVE  Walking(todo, at, shown)'
BY SameTree DEF Walking

LEMMA WalkKept ==
    ASSUME FileInv, ConsultInv, WalkInv, [Next]_vars PROVE WalkInv'
<1>0. UNCHANGED file /\ Expected' = Expected
  BY FileIsFixed, SameTree
<1>1. ASSUME shown' = shown, stage' \notin {"walk", "ok"} PROVE WalkInv'
  BY <1>0, <1>1, SameOrder DEF WalkInv
<1>2. CASE Parse \/ NoSyntaxTree \/ DoesNotCover \/ ProviderFails \/ Uncovered \/ MergeCovered
  BY <1>1, <1>2 DEF Parse, NoSyntaxTree, DoesNotCover, ProviderFails, Uncovered, MergeCovered, Fails, walk
<1>3. ASSUME NEW ds, Covers(ds) PROVE WalkInv'
  BY <1>1, <1>3 DEF Covers, walk
<1>4. CASE StartWalk
  <2>1. /\ stage = "merge" /\ stage' = "walk" /\ todo' = <<1>> /\ at' = 1 /\ shown' = shown
    BY <1>4 DEF StartWalk
  <2>2. shown = <<>>
    BY <2>1 DEF ConsultInv, Shows
  <2>3. Walking(<<1>>, 1, <<>>)
    BY StartWalks
  <2>4. Walking(todo, at, shown)'
    BY <1>0, <2>1, <2>2, <2>3, SameWalk
  <2>5. InOrder(shown)'
    BY <1>0, <2>1, SameOrder DEF WalkInv
  <2> QED
    BY <2>1, <2>4, <2>5 DEF WalkInv
\* A check of the next node.
<1>5. ASSUME Checking, Show
      PROVE  /\ InOrder(shown)'
             /\ todo' = todo /\ at' = at + 1 => Walking(todo, at, shown)'
  <2>1. PICK T, k, sh, p : T = todo /\ k = at /\ sh = shown /\ p = <<T[1], Seeing[k]>>
    OBVIOUS
  <2>2. /\ Walking(T, k, sh) /\ InOrder(sh) /\ T # <<>> /\ named[T[1]] /\ k <= Len(Seeing)
        /\ shown' = Append(sh, p)
    <3>1. stage = "walk" /\ todo # <<>> /\ named[Head(todo)] /\ at <= Len(Seeing)
      BY <1>5 DEF Checking
    <3>2. Head(todo) = T[1]
      BY <2>1
    <3>3. shown' = Append(sh, p)
      BY <1>5, <2>1, <3>2 DEF Show
    <3> QED
      BY <2>1, <3>1, <3>2, <3>3 DEF WalkInv
  <2>3. InOrder(Append(sh, p)) /\ Walking(T, k + 1, Append(sh, p))
    BY <2>1, <2>2, ShowsNext
  <2>4. InOrder(shown)'
    BY <1>0, <2>2, <2>3, SameOrder
  <2>5. ASSUME todo' = todo, at' = at + 1 PROVE Walking(todo, at, shown)'
    BY <1>0, <2>1, <2>2, <2>3, <2>5, SameWalk
  <2> QED
    BY <2>4, <2>5
<1>6. ASSUME NEW found, CheckNode(found) PROVE WalkInv'
  <2>1. Checking /\ Show /\ todo' = todo /\ at' = at + 1 /\ stage' = stage /\ stage = "walk"
    BY <1>6 DEF CheckNode, Checking
  <2> QED
    BY <1>5, <2>1 DEF WalkInv
<1>7. ASSUME NEW found, ReportsUndeclared(found) PROVE WalkInv'
  <2>1. Checking /\ Show /\ stage' = "undeclared"
    BY <1>7 DEF ReportsUndeclared
  <2> QED
    BY <1>5, <2>1 DEF WalkInv
<1>8. CASE Panics
  <2>1. Checking /\ Show /\ stage' = "panicked"
    BY <1>8 DEF Panics
  <2> QED
    BY <1>5, <2>1 DEF WalkInv
<1>9. CASE Descend
  <2>1. PICK T, k, sh : T = todo /\ k = at /\ sh = shown
    OBVIOUS
  <2>2. /\ stage = "walk" /\ stage' = stage /\ shown' = sh /\ at' = 1 /\ T # <<>>
        /\ todo' = NamedChildren(Head(todo)) \o Tail(todo)
        /\ ~(named[Head(todo)] /\ at <= Len(Seeing))
    BY <1>9, <2>1 DEF Descend, Checking
  <2>3. Head(todo) = T[1]
    BY <2>1
  <2>4. /\ Walking(T, k, sh) /\ InOrder(sh) /\ ~(named[T[1]] /\ k <= Len(Seeing))
        /\ todo' = NamedChildren(T[1]) \o Tail(T)
    BY <2>1, <2>2, <2>3 DEF WalkInv
  <2>5. Walking(NamedChildren(T[1]) \o Tail(T), 1, sh)
    BY <2>2, <2>4, GoesDown
  <2>6. Walking(todo, at, shown)'
    BY <1>0, <2>2, <2>4, <2>5, SameWalk
  <2>7. InOrder(shown)'
    BY <1>0, <2>2, <2>4, SameOrder
  <2> QED
    BY <2>2, <2>6, <2>7 DEF WalkInv
<1>10. CASE EndWalk
  <2>1. stage = "walk" /\ stage' = "ok" /\ todo = <<>> /\ shown' = shown
    BY <1>10 DEF EndWalk, walk
  <2>2. PICK k, sh : k = at /\ sh = shown
    OBVIOUS
  <2>3. Walking(<<>>, k, sh) /\ InOrder(sh)
    BY <2>1, <2>2 DEF WalkInv
  <2>4. Range(sh) = Expected
    BY <2>3, EndsComplete
  <2>5. InOrder(shown)' /\ Range(shown') = Expected'
    BY <1>0, <2>1, <2>2, <2>3, <2>4, SameOrder
  <2> QED
    BY <2>1, <2>5 DEF WalkInv
<1>11. CASE UNCHANGED vars
  <2>1. stage' = stage /\ shown' = shown /\ todo' = todo /\ at' = at
    BY <1>11 DEF vars, walk
  <2>2. InOrder(shown)'
    BY <1>0, <2>1, SameOrder DEF WalkInv
  <2>3. stage = "walk" => Walking(todo, at, shown)'
    BY <1>0, <2>1, SameWalk DEF WalkInv
  <2> QED
    BY <1>0, <2>1, <2>2, <2>3 DEF WalkInv
<1> QED
  BY <1>2, <1>3, <1>4, <1>6, <1>7, <1>8, <1>9, <1>10, <1>11 DEF Next

LEMMA WalkInvariant == Spec => []WalkInv
<1>1. Init => WalkInv
  <2> SUFFICES ASSUME Init PROVE WalkInv
    OBVIOUS
  <2>1. shown = <<>> /\ stage = "parse"
    BY DEF Init
  <2>2. InOrder(<<>>)
    BY EmptySeq DEF InOrder
  <2> QED
    BY <2>1, <2>2 DEF WalkInv
<1> QED
  BY <1>1, WalkKept, FileInvariant, ConsultInvariant, PTL DEF Spec

(* `visit_node` shows every visible node of any tree to every lint of its  *)
(* language, in the order of the text and once each: the nodes still to    *)
(* visit stay in order, none below another, and whatever is visible and    *)
(* not yet visited is one of them or below one.                            *)
THEOREM WalksInTextOrder == Spec => []WalkInTextOrder
<1>1. WalkInv => WalkInTextOrder
  <2> SUFFICES ASSUME WalkInv PROVE WalkInTextOrder
    OBVIOUS
  <2>1. InOrder(shown) /\ (stage = "ok" => Range(shown) = Expected)
    BY DEF WalkInv
  <2>2. Range(shown) \subseteq Expected
    BY <2>1, RangeOfSeq DEF InOrder
  <2> QED
    BY <2>1, <2>2 DEF InOrder, WalkInTextOrder
<1> QED
  BY <1>1, WalkInvariant, PTL

-----------------------------------------------------------------------------
(* What the walk reports.                                                  *)
Diagnostic == [node : Nat, lint : Nat, rule : Rule]

PairOf(d) == <<d.node, d.lint>>

Declared(ds, sh) ==
    /\ \A i \in DOMAIN ds : /\ PairOf(ds[i]) \in Range(sh)
                            /\ lints[ds[i].lint].checked => ds[i].rule \in lints[ds[i].lint].rules
    /\ \A i, j \in DOMAIN ds : i < j => ~Before(PairOf(ds[j]), PairOf(ds[i]))

DiagnosticsInv == diagnostics \in Seq(Diagnostic) /\ Declared(diagnostics, shown)

LEMMA SameDeclared ==
    ASSUME UNCHANGED file, NEW ds, NEW sh, ds = diagnostics', sh = shown', ds \in Seq(Diagnostic), Declared(ds, sh)
    PROVE  DiagnosticsInv'
BY DEF file, DiagnosticsInv, Declared

LEMMA NothingDeclared ==
    ASSUME NEW sh PROVE <<>> \in Seq(Diagnostic) /\ Declared(<<>>, sh)
BY EmptySeq DEF Declared

LEMMA ReportIsSeq ==
    ASSUME NEW found \in Reports
    PROVE  /\ DOMAIN found = 1 .. Len(found) /\ Len(found) \in Nat
           /\ \A i \in DOMAIN found : found[i] \in Rule
<1>1. found \in Seq(Rule)
  <2>1. CASE found = <<>>
    BY <2>1
  <2>2. CASE \E r \in Rule : found = <<r>>
    BY <2>2
  <2>3. CASE \E r, s \in Rule : found = <<r, s>>
    BY <2>3
  <2> QED
    BY <2>1, <2>2, <2>3 DEF Reports
<1> QED
  BY <1>1, LenProperties

Reported(h, l, found) ==
    [i \in DOMAIN found |-> [node |-> h, lint |-> l, rule |-> found[i]]]

\* The reports of a pass about the node it is shown follow the earlier ones.
LEMMA ReportsFollow ==
    ASSUME FileInv, NEW ds \in Seq(Diagnostic), NEW sh, NEW sh2, Declared(ds, sh),
           Range(sh) \subseteq Expected, NEW h \in Nat, NEW l \in Nat,
           Range(sh2) = Range(sh) \cup {<<h, l>>}, \A e \in Range(sh) : Before(e, <<h, l>>),
           NEW found \in Reports, lints[l].checked => \A i \in DOMAIN found : found[i] \in lints[l].rules,
           NEW more, more = ds \o Reported(h, l, found)
    PROVE  more \in Seq(Diagnostic) /\ Declared(more, sh2)
<1> DEFINE p == <<h, l>>
           new == Reported(h, l, found)
<1>1. PICK a \in Nat, b \in Nat : a = Len(ds) /\ b = Len(found) /\ DOMAIN ds = 1 .. a /\ DOMAIN found = 1 .. b
  BY LenProperties, ReportIsSeq
<1>2. new \in Seq(Diagnostic) /\ Len(new) = b
  <2>1. new \in [1 .. b -> Diagnostic]
    BY <1>1, ReportIsSeq DEF Diagnostic, Reported
  <2> HIDE DEF new
  <2> QED
    BY <2>1, FunctionIsSeq
<1>3. \A i \in 1 .. b : PairOf(new[i]) = p /\ new[i].lint = l /\ new[i].rule = found[i]
  BY <1>1 DEF PairOf, Reported
<1> HIDE DEF new
<1>4. more = ds \o new
  BY DEF new
<1>5. /\ more \in Seq(Diagnostic) /\ Len(more) = a + b
      /\ \A i \in 1 .. a + b : more[i] = IF i <= a THEN ds[i] ELSE new[i - a]
  <2>1. Len(ds) = a /\ Len(new) = b
    BY <1>1, <1>2
  <2>2. /\ ds \o new \in Seq(Diagnostic) /\ Len(ds \o new) = Len(ds) + Len(new)
        /\ \A i \in 1 .. Len(ds) + Len(new) : (ds \o new)[i] = IF i <= Len(ds) THEN ds[i] ELSE new[i - Len(ds)]
    BY <1>2, ConcatProperties, Zenon
  <2> QED
    BY <1>4, <2>1, <2>2
<1>6. DOMAIN more = 1 .. a + b
  BY <1>5, LenProperties
<1>7. ASSUME NEW i \in DOMAIN more
      PROVE  \/ i \in DOMAIN ds /\ i <= a /\ more[i] = ds[i]
             \/ ~(i <= a) /\ PairOf(more[i]) = p /\ more[i].lint = l /\ \E j \in DOMAIN found : more[i].rule = found[j]
  <2>1. CASE i <= a
    BY <1>1, <1>5, <1>6, <2>1
  <2>2. CASE ~(i <= a)
    <3>1. i - a \in 1 .. b /\ more[i] = new[i - a]
      <4>1. i \in 1 .. a + b
        BY <1>6
      <4>2. i - a \in 1 .. b
        BY <2>2, <4>1
      <4>3. more[i] = new[i - a]
        BY <1>5, <2>2, <4>1
      <4> QED
        BY <4>2, <4>3
    <3> QED
      BY <1>1, <1>3, <2>2, <3>1
  <2> QED
    BY <2>1, <2>2
<1>8. ASSUME NEW i \in DOMAIN more
      PROVE  /\ PairOf(more[i]) \in Range(sh2)
             /\ lints[more[i].lint].checked => more[i].rule \in lints[more[i].lint].rules
  <2>1. CASE i \in DOMAIN ds /\ more[i] = ds[i]
    BY <2>1 DEF Declared
  <2>2. CASE PairOf(more[i]) = p /\ more[i].lint = l /\ \E j \in DOMAIN found : more[i].rule = found[j]
    BY <2>2
  <2> QED
    BY <1>7, <2>1, <2>2
<1>9. ASSUME NEW i \in DOMAIN more, NEW j \in DOMAIN more, i < j
      PROVE  ~Before(PairOf(more[j]), PairOf(more[i]))
  <2>1. CASE i \in DOMAIN ds /\ more[i] = ds[i] /\ j \in DOMAIN ds /\ more[j] = ds[j]
    BY <1>9, <2>1 DEF Declared
  <2>2. CASE i \in DOMAIN ds /\ more[i] = ds[i] /\ PairOf(more[j]) = p
    <3>1. PICK e : e = PairOf(ds[i])
      OBVIOUS
    <3>2. e \in Range(sh)
      BY <2>2, <3>1 DEF Declared
    <3>3. e[1] \in Nat /\ e[2] \in Nat /\ Before(e, p)
      BY <3>2, ExpectedFacts
    <3>4. ~Before(p, e)
      BY <3>3 DEF Before
    <3> QED
      BY <2>2, <3>1, <3>4
  <2>3. CASE PairOf(more[i]) = p /\ PairOf(more[j]) = p
    <3>1. ~Before(p, p)
      BY DEF Before
    <3> QED
      BY <2>3, <3>1
  <2>4. i \in Nat /\ j \in Nat /\ (j <= a => i <= a)
    BY <1>1, <1>6, <1>9
  <2> QED
    BY <1>7, <2>1, <2>2, <2>3, <2>4
<1>10. Declared(more, sh2)
  BY <1>8, <1>9 DEF Declared
<1> QED
  BY <1>5, <1>10

LEMMA DiagnosticsKept ==
    ASSUME FileInv, WalkInv, DiagnosticsInv, [Next]_vars PROVE DiagnosticsInv'
<1>0. UNCHANGED file
  BY FileIsFixed
<1>1. ASSUME diagnostics' = <<>> PROVE DiagnosticsInv'
  BY <1>0, <1>1, NothingDeclared, SameDeclared
<1>2. ASSUME diagnostics' = diagnostics, shown' = shown PROVE DiagnosticsInv'
  BY <1>0, <1>2, SameDeclared DEF DiagnosticsInv
<1>3. CASE Parse \/ DoesNotCover \/ MergeCovered \/ StartWalk \/ Descend \/ EndWalk
  BY <1>2, <1>3 DEF Parse, DoesNotCover, MergeCovered, StartWalk, Descend, EndWalk, walk
<1>4. CASE NoSyntaxTree \/ ProviderFails \/ Uncovered \/ Panics
  BY <1>1, <1>4 DEF NoSyntaxTree, ProviderFails, Uncovered, Fails, Panics
<1>5. ASSUME NEW ds, Covers(ds) PROVE DiagnosticsInv'
  BY <1>2, <1>5 DEF Covers, walk
<1>6. ASSUME NEW found, ReportsUndeclared(found) PROVE DiagnosticsInv'
  BY <1>1, <1>6 DEF ReportsUndeclared
<1>7. ASSUME NEW found \in Reports, CheckNode(found) PROVE DiagnosticsInv'
  <2>1. PICK T, k, sh, h, l, ds : /\ T = todo /\ k = at /\ sh = shown /\ h = T[1] /\ l = Seeing[k]
                                  /\ ds = diagnostics
    OBVIOUS
  <2>2. Head(todo) = h
    BY <2>1
  <2>3. /\ Walking(T, k, sh) /\ InOrder(sh) /\ T # <<>> /\ named[T[1]] /\ k <= Len(Seeing)
    BY <1>7, <2>1, <2>2 DEF CheckNode, Checking, WalkInv
  <2>4. shown' = Append(sh, <<h, l>>)
    BY <1>7, <2>1, <2>2 DEF CheckNode, Show
  <2>5. InOrder(Append(sh, <<h, l>>)) /\ \A e \in Range(sh) : Before(e, <<h, l>>)
    BY <2>1, <2>3, ShowsNext
  <2>6. sh \in Seq(Expected) /\ Range(sh) \subseteq Expected
    BY <2>3, RangeOfSeq DEF InOrder
  <2>7. h \in Nat /\ l \in Nat
    <3>1. k \in DOMAIN Seeing
      BY <2>3, SeeingFacts DEF Walking
    <3>2. l \in Nat
      BY <2>1, <3>1, SeeingFacts
    <3>3. 1 \in DOMAIN T
      BY <2>3, EmptySeq, LenProperties DEF Walking
    <3>4. h \in Nodes
      BY <2>1, <2>3, <3>3 DEF Walking, Reached
    <3> QED
      BY <3>2, <3>4, TreeFacts
  <2>8. Range(shown') = Range(sh) \cup {<<h, l>>}
    <3>1. <<h, l>> \in Expected
      <4>1. PICK t : t = Append(sh, <<h, l>>)
        OBVIOUS
      <4>2. t \in Seq(Expected)
        BY <2>5, <4>1 DEF InOrder
      <4>3. Len(sh) \in Nat
        BY <2>6, LenProperties
      <4>4. Len(t) = Len(sh) + 1 /\ t[Len(sh) + 1] = <<h, l>>
        BY <2>6, <4>1
      <4>5. Len(sh) + 1 \in 1 .. Len(t)
        BY <4>3, <4>4
      <4> QED
        BY <4>2, <4>4, <4>5, ElementOfSeq
    <3> QED
      BY <2>4, <2>6, <3>1, RangeOfAppend
  <2>9. lints[l].checked => \A i \in DOMAIN found : found[i] \in lints[l].rules
    BY <1>7, <2>1 DEF CheckNode, Stray
  <2>10. diagnostics' = ds \o [i \in DOMAIN found |-> [node |-> h, lint |-> l, rule |-> found[i]]]
    BY <1>7, <2>1, <2>2 DEF CheckNode
  <2>11. ds \in Seq(Diagnostic) /\ Declared(ds, sh)
    BY <2>1 DEF DiagnosticsInv
  <2>12. PICK sh2, more : sh2 = shown' /\ more = diagnostics'
    OBVIOUS
  <2>13. more \in Seq(Diagnostic) /\ Declared(more, sh2)
    <3>1. Range(sh2) = Range(sh) \cup {<<h, l>>}
      BY <2>8, <2>12
    <3>2. more = ds \o Reported(h, l, found)
      BY <2>10, <2>12 DEF Reported
    <3> QED
      BY <2>5, <2>6, <2>7, <2>9, <2>11, <3>1, <3>2, ReportsFollow
  <2> QED
    BY <1>0, <2>12, <2>13, SameDeclared
<1>8. CASE UNCHANGED vars
  BY <1>2, <1>8 DEF vars, walk
<1> QED
  BY <1>3, <1>4, <1>5, <1>6, <1>7, <1>8 DEF Next

(* For any tree, lints and rules: what `run_on_source` hands out was       *)
(* reported by a lint of the language about a node it was shown, under a   *)
(* rule its plugin declared, in the order of the walk.                     *)
THEOREM DiagnosticsStayDeclared == Spec => []DiagnosticsAreDeclared
<1>1. Init => DiagnosticsInv
  BY NothingDeclared DEF Init, DiagnosticsInv
<1>2. DiagnosticsInv => DiagnosticsAreDeclared
  BY DEF DiagnosticsInv, Declared, PairOf, DiagnosticsAreDeclared
<1> QED
  BY <1>1, <1>2, DiagnosticsKept, FileInvariant, WalkInvariant, PTL DEF Spec
=============================================================================
