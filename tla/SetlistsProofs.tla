--------------------------- MODULE SetlistsProofs ---------------------------
(***************************************************************************)
(* The functions of Setlists over lists of any length.  The provers have   *)
(* no induction over data; what is needed of it follows from the least     *)
(* number of a set of naturals: induction up to a number, with its         *)
(* predicate a set, gives the function behind FoldLeft, hence the loop of  *)
(* the detector turn by turn; counting the members below one gives the     *)
(* sorted list behind CHOOSE, hence what a comprehension keeps and what a  *)
(* stable sort does.                                                       *)
(***************************************************************************)
EXTENDS SetlistInputs, FiniteSetTheorems, SequenceTheorems, WellFoundedInduction, TLAPS

\* Every nonempty set of naturals has a least element.
LEMMA LeastNumber ==
  ASSUME NEW T \in SUBSET Nat, T # {}
  PROVE  \E n \in T : \A m \in T : n <= m
<1> DEFINE R == OpToRel(<, Nat)
<1>1. IsWellFoundedOn(R, Nat)
  BY NatLessThanWellFounded
<1>2. \A m, n \in Nat : m < n => <<m, n>> \in R
  BY DEF OpToRel
<1> HIDE DEF R
<1>3. \E n \in T : \A m \in T : <<m, n>> \notin R
  BY <1>1, WFMin, Zenon
<1>4. PICK n \in T : \A m \in T : <<m, n>> \notin R
  BY <1>3
<1>5. \A m \in T : ~(m < n)
  BY <1>2, <1>4
<1> QED
  BY <1>5

\* Induction up to a number, in the form of a set.
LEMMA InductionUpTo ==
  ASSUME NEW n \in Nat, NEW Q, 0 \in Q,
         \A k \in 0..(n - 1) : k \in Q => k + 1 \in Q
  PROVE  0..n \subseteq Q
<1>1. SUFFICES ASSUME (0..n) \ Q # {}  PROVE FALSE
  OBVIOUS
<1>2. PICK k \in (0..n) \ Q : \A m \in (0..n) \ Q : k <= m
  <2>1. (0..n) \ Q \in SUBSET Nat
    OBVIOUS
  <2> QED BY <1>1, <2>1, LeastNumber
<1>3. k - 1 \in 0..(n - 1) /\ k - 1 \in Q
  BY <1>2
<1>4. (k - 1) + 1 \in Q
  BY <1>3
<1> QED
  BY <1>2, <1>4

LEMMA SameList ==
  ASSUME NEW T, NEW s \in Seq(T), NEW t \in Seq(T), NEW n \in Nat, Len(s) = n, Len(t) = n,
         \A k \in 1..n : s[k] = t[k]
  PROVE  s = t
<1>1. s = [k \in 1..n |-> s[k]] /\ t = [k \in 1..n |-> t[k]]
  OBVIOUS
<1> QED
  BY <1>1

-----------------------------------------------------------------------------
(***************************************************************************)
(* Order: there is one, and it holds every position once.                  *)
(***************************************************************************)
Before(key, i, j) == key[i] < key[j] \/ (key[i] = key[j] /\ i < j)

\* p lists S, each member once, by Before.
Lists(p, S, key) ==
  /\ p \in [1..Cardinality(S) -> S]
  /\ \A k, l \in 1..Cardinality(S) : k < l => Before(key, p[k], p[l])
  /\ \A k, l \in 1..Cardinality(S) : k # l => p[k] # p[l]
  /\ \A x \in S : \E k \in 1..Cardinality(S) : p[k] = x

LEMMA BeforeIsOrder ==
  ASSUME NEW S \in SUBSET Int, NEW key \in [S -> Int]
  PROVE  /\ \A x \in S : ~Before(key, x, x)
         /\ \A x, y \in S : x # y => Before(key, x, y) \/ Before(key, y, x)
         /\ \A x, y, z \in S : Before(key, x, y) /\ Before(key, y, z) => Before(key, x, z)
<1>1. \A x \in S : x \in Int /\ key[x] \in Int
  OBVIOUS
<1> QED
  BY <1>1 DEF Before

\* How many come before x; each member has a number of its own.
LEMMA RankInjective ==
  ASSUME NEW S \in SUBSET Int, IsFiniteSet(S), NEW key \in [S -> Int]
  PROVE  \E r \in Bijection(S, 1..Cardinality(S)) :
            \A x, y \in S : Before(key, x, y) => r[x] < r[y]
<1> DEFINE n == Cardinality(S)
           Below(x) == {z \in S : Before(key, z, x)}
           r == [x \in S |-> Cardinality(Below(x)) + 1]
<1>0. n \in Nat
  BY FS_CardinalityType
<1>1. \A x \in S : IsFiniteSet(Below(x)) /\ Cardinality(Below(x)) \in Nat
  BY FS_Subset, FS_CardinalityType
<1>2. ASSUME NEW x \in S  PROVE r[x] \in 1..n
  <2>1. Below(x) \subseteq S \ {x}
    BY BeforeIsOrder
  <2>2. IsFiniteSet(S \ {x}) /\ Cardinality(S \ {x}) = n - 1
    BY FS_RemoveElement
  <2>3. Cardinality(Below(x)) <= n - 1
    BY <2>1, <2>2, FS_Subset
  <2> QED BY <1>0, <1>1, <2>3
<1>3. ASSUME NEW x \in S, NEW y \in S, Before(key, x, y)  PROVE r[x] < r[y]
  <2>1. Below(x) \cup {x} \subseteq Below(y)
    BY <1>3, BeforeIsOrder
  <2>2. x \notin Below(x)
    BY BeforeIsOrder
  <2>3. Cardinality(Below(x) \cup {x}) = Cardinality(Below(x)) + 1
    BY <1>1, <2>2, FS_AddElement
  <2>4. Cardinality(Below(x) \cup {x}) <= Cardinality(Below(y))
    BY <1>1, <2>1, FS_Subset
  <2> QED BY <1>1, <2>3, <2>4
<1>4. \A x, y \in S : x # y => Before(key, x, y) \/ Before(key, y, x)
  BY BeforeIsOrder
<1>5. r \in [S -> 1..n]
  BY <1>2
<1> HIDE DEF r
<1>6. \A x, y \in S : r[x] = r[y] => x = y
  <2> SUFFICES ASSUME NEW x \in S, NEW y \in S, r[x] = r[y], x # y  PROVE FALSE
    OBVIOUS
  <2>1. r[x] \in Int /\ r[y] \in Int
    BY <1>5
  <2> QED BY <1>3, <1>4, <2>1
<1>7. r \in Injection(S, 1..n)
  BY <1>5, <1>6 DEF Injection, IsInjective
<1>8. r \in Surjection(S, 1..n)
  BY <1>0, <1>7, FS_Injection, FS_Interval
<1> QED
  BY <1>3, <1>7, <1>8 DEF Bijection

LEMMA OrderIs ==
  ASSUME NEW S \in SUBSET Int, IsFiniteSet(S), NEW key \in [S -> Int]
  PROVE  Lists(Order(S, key), S, key)
<1> DEFINE n == Cardinality(S)
<1>0. n \in Nat
  BY FS_CardinalityType
<1>1. PICK r \in Bijection(S, 1..n) : \A x, y \in S : Before(key, x, y) => r[x] < r[y]
  BY RankInjective
<1>2. r \in [S -> 1..n] /\ \A k \in 1..n : \E x \in S : r[x] = k
  BY <1>1 DEF Bijection, Injection, Surjection
<1> DEFINE q == [k \in 1..n |-> CHOOSE x \in S : r[x] = k]
<1>3. q \in [1..n -> S] /\ \A k \in 1..n : r[q[k]] = k
  BY <1>2
<1> HIDE DEF q
<1>4. \A k, l \in 1..n : k # l => q[k] # q[l]
  BY <1>3
<1>5. ASSUME NEW k \in 1..n, NEW l \in 1..n, k < l  PROVE Before(key, q[k], q[l])
  <2>1. ~(r[q[l]] < r[q[k]])
    BY <1>0, <1>3, <1>5
  <2>2. q[k] \in S /\ q[l] \in S /\ q[k] # q[l]
    BY <1>0, <1>3, <1>4, <1>5
  <2> QED BY <1>1, <2>1, <2>2, BeforeIsOrder
<1>6. \A k, l \in 1..n : k < l => Before(key, q[k], q[l])
  BY <1>5
<1> DEFINE Good(p) == p \in SetToSeqs(S) /\ \A k, l \in 1..Len(p) : k < l => Before(key, p[k], p[l])
<1>7. Good(q)
  BY <1>0, <1>3, <1>4, <1>6 DEF SetToSeqs
<1>8. Order(S, key) = CHOOSE p \in SetToSeqs(S) : \A k, l \in 1..Len(p) : k < l => Before(key, p[k], p[l])
  BY Zenon DEF Order, IsSorted, Before
<1>9. Good(Order(S, key))
  <2> HIDE DEF q
  <2> QED BY <1>7, <1>8
<1> DEFINE o == Order(S, key)
<1> HIDE DEF o
<1>10. Good(o)
  BY <1>9 DEF o
<1>11. o \in [1..n -> S] /\ \A k, l \in 1..n : k # l => o[k] # o[l]
  BY <1>10 DEF SetToSeqs
<1>12. Len(o) = n
  BY <1>0, <1>11
<1>13. o \in Injection(1..n, S)
  BY <1>11 DEF Injection, IsInjective
<1>14. o \in Surjection(1..n, S)
  BY <1>0, <1>13, FS_Injection, FS_Interval
<1>15. \A x \in S : \E k \in 1..n : o[k] = x
  BY <1>14 DEF Surjection
<1> QED
  BY <1>10, <1>11, <1>12, <1>15 DEF Lists, o

\* What Arranged takes from a list, and in which order.
LEMMA ArrangedIs ==
  ASSUME NEW T, NEW s \in Seq(T), NEW S \in SUBSET (DOMAIN s), NEW key \in [S -> Int]
  PROVE  /\ IsFiniteSet(S) /\ Cardinality(S) \in Nat /\ S \subseteq Nat \ {0}
         /\ \E p : /\ Lists(p, S, key)
                   /\ Arranged(s, S, key) = [k \in 1..Cardinality(S) |-> s[p[k]]]
         /\ Arranged(s, S, key) \in Seq(T)
         /\ Len(Arranged(s, S, key)) = Cardinality(S)
<1>1. DOMAIN s = 1..Len(s) /\ Len(s) \in Nat
  OBVIOUS
<1>2. S \in SUBSET Int /\ IsFiniteSet(S) /\ Cardinality(S) \in Nat /\ S \subseteq Nat \ {0}
  <2>1. S \subseteq 1..Len(s) /\ IsFiniteSet(1..Len(s))
    BY <1>1, FS_Interval
  <2>2. IsFiniteSet(S)
    BY <2>1, FS_Subset
  <2>3. S \in SUBSET Int /\ S \subseteq Nat \ {0}
    BY <1>1, <2>1
  <2> QED BY <2>2, <2>3, FS_CardinalityType
<1>3. Lists(Order(S, key), S, key)
  BY <1>2, OrderIs
<1>4. Arranged(s, S, key) = [k \in 1..Cardinality(S) |-> s[Order(S, key)[k]]]
  <2>1. DOMAIN Order(S, key) = 1..Cardinality(S)
    BY <1>3 DEF Lists
  <2> QED BY <2>1 DEF Arranged
<1>5. \A k \in 1..Cardinality(S) : s[Order(S, key)[k]] \in T
  BY <1>1, <1>3 DEF Lists
<1>6. Arranged(s, S, key) \in Seq(T) /\ Len(Arranged(s, S, key)) = Cardinality(S)
  BY <1>2, <1>4, <1>5
<1> QED
  BY <1>2, <1>3, <1>4, <1>6

\* p lists the positions S in their order, and what is picked lies there.
Selects(p, s, S) ==
  /\ p \in [1..Cardinality(S) -> S]
  /\ \A k, l \in 1..Cardinality(S) : k < l => p[k] < p[l]
  /\ \A x \in S : \E k \in 1..Cardinality(S) : p[k] = x
  /\ Picked(s, S) = [k \in 1..Cardinality(S) |-> s[p[k]]]

LEMMA PickedIs ==
  ASSUME NEW T, NEW s \in Seq(T), NEW S \in SUBSET (DOMAIN s)
  PROVE  /\ IsFiniteSet(S) /\ Cardinality(S) \in Nat
         /\ \E p : Selects(p, s, S)
         /\ Picked(s, S) \in Seq(T)
         /\ Len(Picked(s, S)) = Cardinality(S)
<1> DEFINE key == [i \in S |-> i]
<1>0. key \in [S -> Int]
  OBVIOUS
<1>1. /\ IsFiniteSet(S) /\ Cardinality(S) \in Nat
      /\ \E p : /\ Lists(p, S, key)
                /\ Picked(s, S) = [k \in 1..Cardinality(S) |-> s[p[k]]]
      /\ Picked(s, S) \in Seq(T)
      /\ Len(Picked(s, S)) = Cardinality(S)
  <2>1. Picked(s, S) = Arranged(s, S, key)
    BY DEF Picked
  <2> HIDE DEF key
  <2> QED BY <1>0, <2>1, ArrangedIs
<1>2. PICK p : /\ Lists(p, S, key)
               /\ Picked(s, S) = [k \in 1..Cardinality(S) |-> s[p[k]]]
  BY <1>1
<1>3. \A k, l \in 1..Cardinality(S) : k < l => p[k] < p[l]
  <2>1. \A i, j \in S : Before(key, i, j) => i < j
    BY DEF Before
  <2> HIDE DEF key
  <2> QED BY <1>2, <2>1 DEF Lists
<1>4. Selects(p, s, S)
  BY <1>2, <1>3 DEF Lists, Selects
<1> QED
  BY <1>1, <1>4

-----------------------------------------------------------------------------
(***************************************************************************)
(* The loop of _longest_contiguous_block, turn by turn.                    *)
(***************************************************************************)
LEMMA MaxOf ==
  ASSUME NEW n \in Nat, NEW S \in SUBSET (1..n), S # {}
  PROVE  Max(S) \in S /\ \A y \in S : Max(S) >= y
<1> DEFINE T == {n - x : x \in S}
<1>0. \A x \in S : x \in Nat /\ n - x \in Nat
  <2>1. \A x \in 1..n : x \in Nat /\ n - x \in Nat
    OBVIOUS
  <2> QED BY <2>1
<1>1. T \in SUBSET Nat /\ T # {}
  BY <1>0
<1>2. PICK m \in T : \A k \in T : m <= k
  BY <1>1, LeastNumber
<1>3. PICK x \in S : m = n - x
  BY <1>2
<1>4. ASSUME NEW y \in S  PROVE x >= y
  <2>1. n - x <= n - y /\ x \in Nat /\ y \in Nat
    BY <1>0, <1>2, <1>3
  <2> QED BY <2>1
<1> QED
  BY <1>3, <1>4 DEF Max

LEMMA MinOf ==
  ASSUME NEW S \in SUBSET Nat, S # {}
  PROVE  Min(S) \in S /\ \A y \in S : Min(S) <= y
BY LeastNumber DEF Min

\* The function that FoldLeft takes the value of at the whole domain.
Folds(base, t, D, g) ==
  g = [S \in SUBSET D |-> IF S = {} THEN base ELSE Turn(g[S \ {Max(S)}], t[Max(S)])]

\* There is such a function, by induction over the size of the subsets.
LEMMA FoldExists ==
  ASSUME NEW base, NEW t, NEW d \in Nat
  PROVE  \E g : Folds(base, t, 1..d, g)
<1> DEFINE D == 1..d
           Small(n) == {S \in SUBSET D : Cardinality(S) <= n}
           Val(S, g) == IF S = {} THEN base ELSE Turn(g[S \ {Max(S)}], t[Max(S)])
           OK(n) == \E g : g = [S \in Small(n) |-> Val(S, g)]
           Q == {n \in Nat : OK(n)}
<1>0. IsFiniteSet(D) /\ Cardinality(D) = d
  BY FS_Interval
<1>1. \A S \in SUBSET D : IsFiniteSet(S) /\ Cardinality(S) \in Nat
                            /\ (Cardinality(S) = 0 <=> S = {})
  BY <1>0, FS_Subset, FS_CardinalityType, FS_EmptySet
<1>2. OK(0)
  <2>1. Small(0) = {{}}
    BY <1>1
  <2> DEFINE g == [S \in {{}} |-> base]
  <2>2. g = [S \in Small(0) |-> Val(S, g)]
    BY <2>1
  <2> QED BY <2>2
<1>3. ASSUME NEW n \in Nat, OK(n)  PROVE OK(n + 1)
  <2>1. PICK g : g = [S \in Small(n) |-> Val(S, g)]
    BY <1>3
  <2> DEFINE h == [S \in Small(n + 1) |-> Val(S, g)]
  <2>2. Small(n) \subseteq Small(n + 1)
    BY <1>1
  <2>3. \A S \in Small(n) : g[S] = h[S]
    <3>1. \A S \in Small(n) : g[S] = Val(S, g)
      BY <2>1, Zenon
    <3>2. \A S \in Small(n) : h[S] = Val(S, g)
      BY <2>2, Zenon
    <3> HIDE DEF Val, h
    <3> QED BY <3>1, <3>2
  <2>4. ASSUME NEW S \in Small(n + 1), S # {}
        PROVE  S \ {Max(S)} \in Small(n)
    <3>1. S \in SUBSET D /\ Cardinality(S) <= n + 1 /\ Cardinality(S) \in Nat
      BY <1>1
    <3>2. Max(S) \in S
      BY <2>4, <3>1, MaxOf
    <3>3. Cardinality(S \ {Max(S)}) = Cardinality(S) - 1
      BY <1>1, <3>1, <3>2, FS_RemoveElement
    <3>4. S \ {Max(S)} \in SUBSET D
      BY <3>1
    <3> QED BY <3>1, <3>3, <3>4
  <2>5. \A S \in Small(n + 1) : Val(S, g) = Val(S, h)
    <3> HIDE DEF h, Small
    <3> QED BY <2>3, <2>4
  <2>6. h = [S \in Small(n + 1) |-> Val(S, h)]
    <3> HIDE DEF Val
    <3> QED BY <2>5, Zenon
  <2> HIDE DEF h, Val, Small
  <2> QED BY <2>6
<1>4. d \in Q
  <2> HIDE DEF OK
  <2>1. 0 \in Q /\ \A n \in 0..(d - 1) : n \in Q => n + 1 \in Q
    BY <1>2, <1>3
  <2> HIDE DEF Q
  <2>2. 0..d \subseteq Q
    BY <2>1, InductionUpTo
  <2> QED BY <2>2
<1>5. Small(d) = SUBSET D
  BY <1>0, FS_Subset
<1> QED
  BY <1>4, <1>5 DEF Folds

LEMMA BlockTurns ==
  ASSUME NEW e \in Seq(Nat), e # <<>>
  PROVE  \E g : /\ g[0] = [best |-> <<>>, current |-> <<e[1]>>]
                /\ \A k \in 1..(Len(e) - 1) : g[k] = Turn(g[k - 1], e[k + 1])
                /\ LongestBlock(e) = Longer(g[Len(e) - 1].current, g[Len(e) - 1].best)
<1> DEFINE t == Tail(e)
           base == [best |-> <<>>, current |-> <<Head(e)>>]
           d == Len(e) - 1
           it == CHOOSE g : Folds(base, t, DOMAIN t, g)
<1>1. d \in Nat /\ DOMAIN t = 1..d /\ Head(e) = e[1] /\ \A k \in 1..d : t[k] = e[k + 1]
  OBVIOUS
<1>2. Folds(base, t, 1..d, it)
  <2> HIDE DEF t, base, d
  <2> QED BY <1>1, FoldExists
<1>3. FoldLeft(Turn, base, t) = it[1..d]
  <2>1. FoldLeft(Turn, base, t) = it[DOMAIN t]
    BY Zenon DEF FoldLeft, MapThenFoldSet, Folds
  <2> QED BY <1>1, <2>1
<1> DEFINE g == [k \in 0..d |-> it[1..k]]
<1> HIDE DEF it
<1>4. \A S \in SUBSET (1..d) : it[S] = IF S = {} THEN base ELSE Turn(it[S \ {Max(S)}], t[Max(S)])
  <2> HIDE DEF base, t, d
  <2> QED BY <1>2, Zenon DEF Folds
<1>5. g[0] = base
  <2>1. 1..0 = {} /\ {} \in SUBSET (1..d) /\ g[0] = it[1..0]
    BY <1>1
  <2> QED BY <1>4, <2>1
<1>6. ASSUME NEW k \in 1..d  PROVE g[k] = Turn(g[k - 1], e[k + 1])
  <2>1. k \in Nat /\ k \in 1..k /\ (1..k) \in SUBSET (1..d)
    BY <1>1
  <2>2. Max(1..k) = k
    <3>1. Max(1..k) \in 1..k /\ Max(1..k) >= k
      BY <2>1, MaxOf
    <3> QED BY <3>1
  <2>3. (1..k) \ {k} = 1..(k - 1)
    BY <2>1
  <2>4. it[1..k] = Turn(it[1..(k - 1)], t[k])
    BY <1>4, <2>1, <2>2, <2>3
  <2>5. g[k] = it[1..k] /\ g[k - 1] = it[1..(k - 1)]
    BY <1>1, <2>1
  <2>6. t[k] = e[k + 1]
    BY <1>1
  <2> HIDE DEF g, t
  <2> QED BY <2>4, <2>5, <2>6
<1>7. g[d] = it[1..d]
  BY <1>1
<1>8. LongestBlock(e) = Longer(g[d].current, g[d].best)
  <2> HIDE DEF g
  <2> QED BY <1>3, <1>7 DEF LongestBlock
<1> HIDE DEF g
<1> QED
  BY <1>1, <1>5, <1>6, <1>8

\* After m entries: c is the run that ends at m and cannot be longer to the
\* left, b the first longest of the runs that end before it.
CurrentRun(e, a, m, c) ==
  /\ a \in 1..m
  /\ c = SubSeq(e, a, m)
  /\ Rising(e, a, m)
  /\ a > 1 => e[a] < e[a - 1]

BestUpTo(e, m, b) ==
  \E r \in Runs(e) : /\ r[2] <= m
                     /\ b = SubSeq(e, r[1], r[2])
                     /\ \A q \in Runs(e) : q[2] <= m => Beats(r, q)

BestBefore(e, a, b) == IF a = 1 THEN b = <<>> ELSE BestUpTo(e, a - 1, b)

\* Comparisons of lengths, without the runs they are about: (i, j) and (k, l)
\* are the ends of two runs, and a third is from a to m.
LEMMA Longest ==
  ASSUME NEW i \in Nat, NEW j \in Nat, NEW k \in Nat, NEW l \in Nat,
         l - k < j - i \/ (l - k <= j - i /\ i <= k)
  PROVE  l - k < j - i \/ (l - k = j - i /\ i <= k)
OBVIOUS

LEMMA LongerYet ==
  ASSUME NEW i \in Nat, NEW j \in Nat, NEW k \in Nat, NEW l \in Nat,
         NEW a \in Nat, NEW m \in Nat,
         l - k < j - i \/ (l - k = j - i /\ i <= k),
         m - a + 1 > j - i + 1
  PROVE  l - k < m - a
OBVIOUS

LEMMA Crosses ==
  ASSUME NEW k \in Nat, NEW l \in Nat, NEW a \in Nat, 1 <= k,
         ~(a <= k), ~(a > 1 /\ l <= a - 1)
  PROVE  a > 1 /\ k <= a - 1 /\ a - 1 <= l - 1
OBVIOUS

LEMMA NotLonger ==
  ASSUME NEW i \in Nat, NEW j \in Nat, NEW k \in Nat, NEW l \in Nat,
         NEW a \in Nat, NEW m \in Nat,
         i <= j, j <= a - 1, a <= k, l - k <= m - a,
         ~(m - a + 1 > j - i + 1)
  PROVE  i <= k /\ l - k <= j - i
OBVIOUS

LEMMA BeatsIf ==
  ASSUME NEW r, NEW q, r[1] \in Nat, r[2] \in Nat, q[1] \in Nat, q[2] \in Nat,
         \/ q[2] - q[1] < r[2] - r[1]
         \/ q[2] - q[1] <= r[2] - r[1] /\ r[1] <= q[1]
  PROVE  Beats(r, q)
BY Longest, Zenon DEF Beats

LEMMA PairBeatsIf ==
  ASSUME NEW a \in Nat, NEW m \in Nat, NEW q, q[1] \in Nat, q[2] \in Nat,
         q[2] - q[1] < m - a \/ (q[2] - q[1] <= m - a /\ a <= q[1])
  PROVE  Beats(<<a, m>>, q)
<1> DEFINE r == <<a, m>>
<1>1. r[1] = a /\ r[2] = m
  OBVIOUS
<1> HIDE DEF r
<1>2. Beats(r, q)
  BY <1>1, BeatsIf, Zenon
<1> QED
  BY <1>2 DEF r

\* A run that starts before a and ends after it would have to rise into a.
LEMMA LongerIsBest ==
  ASSUME NEW e \in Seq(Nat), NEW m \in 1..Len(e), NEW a, NEW b, NEW c,
         CurrentRun(e, a, m, c), BestBefore(e, a, b)
  PROVE  BestUpTo(e, m, Longer(c, b))
<1>0. /\ Len(e) \in Nat /\ DOMAIN e = 1..Len(e) /\ m \in Nat /\ a \in Nat /\ 1 <= a /\ a <= m
      /\ m <= Len(e) /\ Len(c) = m - a + 1
  BY DEF CurrentRun
<1>1. \A q \in Runs(e) : /\ q[1] \in Nat /\ q[2] \in Nat /\ 1 <= q[1] /\ q[1] <= q[2]
                         /\ q[2] <= Len(e) /\ Rising(e, q[1], q[2])
  BY <1>0 DEF Runs
<1>2. <<a, m>> \in Runs(e)
  BY <1>0 DEF Runs, CurrentRun
<1>3. ASSUME NEW q \in Runs(e), q[2] <= m, ~(a > 1 /\ q[2] <= a - 1)
      PROVE  a <= q[1] /\ q[2] - q[1] <= m - a
  <2>1. CASE a <= q[1]
    BY <1>0, <1>1, <1>3, <2>1
  <2>2. CASE ~(a <= q[1])
    <3>1. a > 1 /\ q[1] <= a - 1 /\ a - 1 <= q[2] - 1
      <4>1. q[1] \in Nat /\ q[2] \in Nat /\ 1 <= q[1]
        BY <1>1
      <4> QED BY <1>0, <1>3, <2>2, <4>1, Crosses, Zenon
    <3>2. a - 1 \in q[1]..(q[2] - 1)
      BY <1>0, <1>1, <3>1
    <3>3. e[a - 1] <= e[(a - 1) + 1]
      BY <1>1, <3>2 DEF Rising
    <3>4. e[a] < e[a - 1] /\ (a - 1) + 1 = a
      BY <1>0, <3>1 DEF CurrentRun
    <3>5. e[a] \in Nat /\ e[a - 1] \in Nat
      BY <1>0, <3>1
    <3> QED BY <3>3, <3>4, <3>5
  <2> QED BY <2>1, <2>2
<1>4. ASSUME \A q \in Runs(e) : a > 1 /\ q[2] <= a - 1 => Beats(<<a, m>>, q)
      PROVE  BestUpTo(e, m, c)
  <2>1. ASSUME NEW q \in Runs(e), q[2] <= m  PROVE Beats(<<a, m>>, q)
    <3>1. CASE a > 1 /\ q[2] <= a - 1
      BY <1>4, <3>1
    <3>2. CASE ~(a > 1 /\ q[2] <= a - 1)
      <4>1. a <= q[1] /\ q[2] - q[1] <= m - a
        BY <1>3, <2>1, <3>2
      <4> QED BY <1>0, <1>1, <4>1, PairBeatsIf
    <3> QED BY <3>1, <3>2
  <2> DEFINE r == <<a, m>>
  <2>2. r \in Runs(e) /\ r[1] = a /\ r[2] = m
    BY <1>2
  <2>3. r[2] <= m /\ c = SubSeq(e, r[1], r[2])
    BY <1>0, <2>2 DEF CurrentRun
  <2>4. \A q \in Runs(e) : q[2] <= m => Beats(r, q)
    BY <2>1
  <2> HIDE DEF r
  <2> QED BY <2>2, <2>3, <2>4 DEF BestUpTo
<1>5. CASE a = 1
  <2>1. b = <<>> /\ Len(b) = 0
    BY <1>5 DEF BestBefore
  <2>2. Longer(c, b) = c
    BY <1>0, <2>1 DEF Longer
  <2> QED BY <1>4, <1>5, <2>2
<1>6. CASE a # 1
  <2>1. PICK r \in Runs(e) : /\ r[2] <= a - 1
                             /\ b = SubSeq(e, r[1], r[2])
                             /\ \A q \in Runs(e) : q[2] <= a - 1 => Beats(r, q)
    BY <1>6 DEF BestBefore, BestUpTo
  <2>2. Len(b) = r[2] - r[1] + 1
    BY <1>0, <1>1, <2>1
  <2>3. CASE Len(c) > Len(b)
    <3>1. ASSUME NEW q \in Runs(e), q[2] <= a - 1  PROVE Beats(<<a, m>>, q)
      <4>1. r[1] \in Nat /\ r[2] \in Nat /\ q[1] \in Nat /\ q[2] \in Nat
        BY <1>1
      <4>2. m - a + 1 > r[2] - r[1] + 1
        BY <1>0, <2>2, <2>3, Zenon
      <4>3. Beats(r, q)
        BY <2>1, <3>1
      <4>4. q[2] - q[1] < m - a
        BY <1>0, <4>1, <4>2, <4>3, LongerYet, Zenon DEF Beats
      <4> QED BY <1>0, <4>1, <4>4, PairBeatsIf
    <3>2. Longer(c, b) = c
      BY <2>3 DEF Longer
    <3> QED BY <1>4, <3>1, <3>2
  <2>4. CASE ~(Len(c) > Len(b))
    <3>1. Longer(c, b) = b
      BY <2>4 DEF Longer
    <3>2. ~(m - a + 1 > r[2] - r[1] + 1)
      BY <1>0, <2>2, <2>4, Zenon
    <3>3. ASSUME NEW q \in Runs(e), q[2] <= m  PROVE Beats(r, q)
      <4>1. CASE q[2] <= a - 1
        BY <2>1, <4>1
      <4>2. CASE ~(q[2] <= a - 1)
        <5>1. a <= q[1] /\ q[2] - q[1] <= m - a
          BY <1>3, <3>3, <4>2
        <5>2. /\ r[1] \in Nat /\ r[2] \in Nat /\ q[1] \in Nat /\ q[2] \in Nat
              /\ r[1] <= r[2] /\ r[2] <= a - 1
          BY <1>1, <2>1
        <5>a. a \in Nat /\ m \in Nat
          BY <1>0
        <5>3. r[1] <= q[1] /\ q[2] - q[1] <= r[2] - r[1]
          BY <3>2, <5>1, <5>2, <5>a, NotLonger, Zenon
        <5> QED BY <5>2, <5>3, BeatsIf, Zenon
      <4> QED BY <4>1, <4>2
    <3>4. r[2] <= m
      BY <1>0, <1>1, <2>1
    <3> QED BY <2>1, <3>1, <3>3, <3>4 DEF BestUpTo
  <2> QED BY <2>3, <2>4
<1> QED
  BY <1>5, <1>6

\* What the loop holds after the entries up to m.
Held(e, m, acc) ==
  \E a \in 1..m : \E b, c : /\ acc = [best |-> b, current |-> c]
                             /\ CurrentRun(e, a, m, c) /\ BestBefore(e, a, b)

LEMMA TurnHolds ==
  ASSUME NEW e \in Seq(Nat), NEW m \in 1..(Len(e) - 1), NEW acc, Held(e, m, acc)
  PROVE  Held(e, m + 1, Turn(acc, e[m + 1]))
<1>0. Len(e) \in Nat /\ m \in Nat /\ m + 1 \in 1..Len(e) /\ m \in 1..Len(e)
  OBVIOUS
<1>a. PICK a \in 1..m : \E b, c : /\ acc = [best |-> b, current |-> c]
                                   /\ CurrentRun(e, a, m, c) /\ BestBefore(e, a, b)
  BY DEF Held
<1>1. PICK b, c : /\ acc = [best |-> b, current |-> c]
                   /\ CurrentRun(e, a, m, c) /\ BestBefore(e, a, b)
  BY <1>a
<1>2. a \in Nat /\ c = SubSeq(e, a, m) /\ c \in Seq(Nat) /\ Len(c) = m - a + 1
  <2>1. c = SubSeq(e, a, m)
    BY <1>1 DEF CurrentRun
  <2>2. a \in Nat /\ 1 <= a /\ a <= m /\ m <= Len(e)
    BY <1>0
  <2>3. SubSeq(e, a, m) \in Seq(Nat) /\ Len(SubSeq(e, a, m)) = m - a + 1
    BY <1>0, <2>2
  <2> QED BY <2>1, <2>2, <2>3
<1>3. Last(c) = e[m]
  <2> DEFINE n == m - a + 1
  <2>1. n \in 1..n /\ a + n - 1 = m
    BY <1>0, <1>2
  <2>2. SubSeq(e, a, m)[n] = e[a + n - 1]
    BY <1>0, <1>2, <2>1
  <2> QED BY <1>2, <2>1, <2>2 DEF Last
<1>4. e[m] \in Nat /\ e[m + 1] \in Nat
  BY <1>0
<1>5. CASE e[m + 1] >= e[m]
  <2>1. Turn(acc, e[m + 1]) = [best |-> b, current |-> Append(c, e[m + 1])]
    BY <1>1, <1>3, <1>5 DEF Turn
  <2>2. Append(c, e[m + 1]) = SubSeq(e, a, m + 1)
    <3>1. /\ SubSeq(e, a, m + 1) \in Seq(Nat) /\ Len(SubSeq(e, a, m + 1)) = m - a + 2
          /\ Append(c, e[m + 1]) \in Seq(Nat) /\ Len(Append(c, e[m + 1])) = m - a + 2
      BY <1>0, <1>2, <1>4
    <3>2. ASSUME NEW k \in 1..(m - a + 2)
          PROVE  Append(c, e[m + 1])[k] = SubSeq(e, a, m + 1)[k]
      <4>1. CASE k = m - a + 2
        BY <1>0, <1>2, <4>1
      <4>2. CASE k # m - a + 2
        BY <1>0, <1>2, <4>2
      <4> QED BY <4>1, <4>2
    <3> DEFINE u == Append(c, e[m + 1])
               v == SubSeq(e, a, m + 1)
               n == m - a + 2
    <3>3. /\ n \in Nat /\ u \in Seq(Nat) /\ v \in Seq(Nat) /\ Len(u) = n /\ Len(v) = n
          /\ \A k \in 1..n : u[k] = v[k]
      BY <1>0, <1>2, <3>1, <3>2
    <3> HIDE DEF u, v, n
    <3>4. u = v
      BY <3>3, SameList
    <3> QED BY <3>4 DEF u, v
  <2>3. Rising(e, a, m + 1)
    <3>1. \A k \in a..((m + 1) - 1) : k \in a..(m - 1) \/ k = m
      BY <1>0, <1>2
    <3> QED BY <1>1, <1>5, <3>1 DEF Rising, CurrentRun
  <2>4. CurrentRun(e, a, m + 1, Append(c, e[m + 1]))
    BY <1>0, <1>1, <1>2, <2>2, <2>3 DEF CurrentRun
  <2>5. a \in 1..(m + 1)
    BY <1>0, <1>1
  <2> QED BY <1>1, <2>1, <2>4, <2>5 DEF Held
<1>6. CASE ~(e[m + 1] >= e[m])
  <2>1. Turn(acc, e[m + 1]) = [best |-> Longer(c, b), current |-> <<e[m + 1]>>]
    BY <1>1, <1>3, <1>6 DEF Turn
  <2>2. <<e[m + 1]>> = SubSeq(e, m + 1, m + 1)
    BY <1>0
  <2>3. CurrentRun(e, m + 1, m + 1, <<e[m + 1]>>)
    BY <1>0, <1>4, <1>6, <2>2 DEF CurrentRun, Rising
  <2>4. BestBefore(e, m + 1, Longer(c, b))
    BY <1>0, <1>1, LongerIsBest DEF BestBefore
  <2>5. m + 1 \in 1..(m + 1)
    BY <1>0
  <2> QED BY <2>1, <2>3, <2>4, <2>5 DEF Held
<1> QED
  BY <1>5, <1>6

\* The detector's block, for any list of times.
THEOREM BlockOfTimes ==
  ASSUME NEW e \in Seq(Nat)
  PROVE  IF e = <<>> THEN LongestBlock(e) = <<>>
         ELSE \E r \in Runs(e) : /\ LongestBlock(e) = SubSeq(e, r[1], r[2])
                                 /\ \A q \in Runs(e) : Beats(r, q)
<1>1. CASE e = <<>>
  BY <1>1 DEF LongestBlock
<1>2. CASE e # <<>>
  <2>0. Len(e) \in Nat /\ Len(e) >= 1 /\ DOMAIN e = 1..Len(e)
    BY <1>2
  <2>1. PICK g : /\ g[0] = [best |-> <<>>, current |-> <<e[1]>>]
                 /\ \A k \in 1..(Len(e) - 1) : g[k] = Turn(g[k - 1], e[k + 1])
                 /\ LongestBlock(e) = Longer(g[Len(e) - 1].current, g[Len(e) - 1].best)
    BY <1>2, BlockTurns
  <2> DEFINE n == Len(e) - 1
             Q == {k \in 0..n : Held(e, k + 1, g[k])}
  <2>2. 0 \in Q
    <3>1. <<e[1]>> = SubSeq(e, 1, 1)
      BY <2>0
    <3>2. CurrentRun(e, 1, 1, <<e[1]>>) /\ BestBefore(e, 1, <<>>)
      BY <2>0, <3>1 DEF CurrentRun, BestBefore, Rising
    <3>3. Held(e, 0 + 1, g[0])
      BY <2>1, <3>2 DEF Held
    <3> QED BY <2>0, <3>3
  <2>3. ASSUME NEW k \in 0..(n - 1), k \in Q  PROVE k + 1 \in Q
    <3>1. k + 1 \in 1..(Len(e) - 1) /\ (k + 1) - 1 = k /\ k + 1 \in 0..n
      BY <2>0
    <3>2. g[k + 1] = Turn(g[k], e[(k + 1) + 1])
      BY <2>1, <3>1
    <3>3. Held(e, k + 1, g[k])
      BY <2>3
    <3>4. Held(e, (k + 1) + 1, g[k + 1])
      BY <3>1, <3>2, <3>3, TurnHolds
    <3> QED BY <3>1, <3>4
  <2>4. n \in Q
    <3>1. n \in Nat /\ n \in 0..n
      BY <2>0
    <3> HIDE DEF Q, n
    <3>2. 0..n \subseteq Q
      BY <2>2, <2>3, <3>1, InductionUpTo
    <3> QED BY <3>1, <3>2
  <2>5. Held(e, Len(e), g[n])
    BY <2>0, <2>4
  <2>a. PICK a \in 1..Len(e) : \E b, c : /\ g[n] = [best |-> b, current |-> c]
                                          /\ CurrentRun(e, a, Len(e), c) /\ BestBefore(e, a, b)
    BY <2>5 DEF Held
  <2>6. PICK b, c : /\ g[n] = [best |-> b, current |-> c]
                    /\ CurrentRun(e, a, Len(e), c) /\ BestBefore(e, a, b)
    BY <2>a
  <2>7. LongestBlock(e) = Longer(c, b)
    BY <2>1, <2>6
  <2>8. BestUpTo(e, Len(e), LongestBlock(e))
    BY <2>0, <2>6, <2>7, LongerIsBest
  <2>9. \A q \in Runs(e) : q[2] <= Len(e)
    BY <2>0 DEF Runs
  <2> QED BY <1>2, <2>8, <2>9 DEF BestUpTo
<1> QED
  BY <1>1, <1>2
-----------------------------------------------------------------------------
(***************************************************************************)
(* What the inputs are, and that the rows and the drafts are what the last *)
(* setlist that was saved and the last derivation made of them.            *)
(***************************************************************************)
Comment == [pinned : BOOLEAN, likes : Nat, text : Seq(Line)]
Chapter == [start : Nat \cup {Absent}, end : Nat \cup {Absent}, titled : BOOLEAN]
PastedLine == [form : {"artist"}, from : Stamp, to : Stamp]
                \cup [form : {"remark", "unreadable"}]
Entry == [form : {"entry"}, start : Int, end : Int]

Readable(lines) == \A i \in DOMAIN lines : lines[i].form # "unreadable"

\* The rows that are saved for the setlist s.
Saved(saved, s) ==
  \/ s \in Seq(PastedLine) /\ Readable(s) /\ saved = ParsePaste(s).rows
  \/ s \in Seq(Entry) /\ saved = Stored(s)

Derived ==
  \E saved : Saved(saved, basis.posted) /\ drafts = DeriveDrafts(basis.chapters, saved)

TypedInputs ==
  /\ kind = "text" => input \in Seq(Line)
  /\ kind = "comments" => input \in Seq(Comment)
  /\ chapters \in Seq(Chapter) /\ basis.chapters \in Seq(Chapter)
  /\ Saved(rows, posted)
  /\ Derived

LEMMA ReadOrNot ==
  ASSUME NEW lines \in Seq(PastedLine)
  PROVE  ParsePaste(lines).ok <=> Readable(lines)
<1> DEFINE S == {i \in DOMAIN lines : lines[i].form # "remark"}
           kept == Picked(lines, S)
<1>1. PICK p : /\ p \in [1..Cardinality(S) -> S]
               /\ \A x \in S : \E k \in 1..Cardinality(S) : p[k] = x
               /\ kept = [k \in 1..Cardinality(S) |-> lines[p[k]]]
  <2>1. S \in SUBSET (DOMAIN lines)
    OBVIOUS
  <2> HIDE DEF S
  <2>2. \E p : Selects(p, lines, S)
    BY <2>1, PickedIs
  <2> QED BY <2>2 DEF Selects
<1>2. (\E i \in DOMAIN kept : kept[i].form = "unreadable") <=> ~Readable(lines)
  <2>1. ASSUME NEW k \in DOMAIN kept, kept[k].form = "unreadable"  PROVE ~Readable(lines)
    <3>1. k \in 1..Cardinality(S) /\ kept[k] = lines[p[k]] /\ p[k] \in S
      <4> HIDE DEF S, kept
      <4> QED BY <1>1
    <3>2. p[k] \in DOMAIN lines /\ lines[p[k]].form = "unreadable"
      BY <2>1, <3>1
    <3> QED BY <3>2 DEF Readable
  <2>2. ASSUME NEW i \in DOMAIN lines, lines[i].form = "unreadable"
        PROVE  \E k \in DOMAIN kept : kept[k].form = "unreadable"
    <3>1. i \in S
      BY <2>2
    <3>2. PICK k \in 1..Cardinality(S) : p[k] = i
      BY <1>1, <3>1
    <3>3. k \in DOMAIN kept /\ kept[k] = lines[i]
      <4> HIDE DEF S, kept
      <4> QED BY <1>1, <3>2
    <3> QED BY <2>2, <3>3
  <2> HIDE DEF kept, S
  <2> QED BY <2>1, <2>2 DEF Readable
<1> QED
  BY <1>2, Zenon DEF ParsePaste

LEMMA NothingListed == Saved(<<>>, <<>>) /\ DeriveDrafts(<<>>, <<>>) = <<>>
<1>1. Stored(<<>>) = <<>>
  BY DEF Stored
<1>2. Saved(<<>>, <<>>)
  BY <1>1 DEF Saved
<1> DEFINE none == <<>>
           D == DOMAIN none
           key == [i \in D |-> none[i].start]
           d == Arranged(none, D, key)
<1>3. D = {} /\ none \in Seq(Int) /\ key \in [D -> Int]
  OBVIOUS
<1>4. DeriveDrafts(<<>>, <<>>) = d
  <2>1. FromSetlist(<<>>) = d
    BY Zenon DEF FromSetlist, StableSort
  <2> QED BY <2>1 DEF DeriveDrafts
<1>5. D \in SUBSET (DOMAIN none)
  OBVIOUS
<1> HIDE DEF key, D, none
<1>6. Arranged(none, D, key) \in Seq(Int) /\ Len(Arranged(none, D, key)) = Cardinality(D)
  <2>1. none \in Seq(Int) /\ key \in [D -> Int]
    BY <1>3
  <2>2. Len(Arranged(none, D, key)) = Cardinality(D)
    BY <1>5, <2>1, ArrangedIs
  <2>3. Arranged(none, D, key) \in Seq(Int)
    BY <1>5, <2>1, ArrangedIs
  <2> QED BY <2>2, <2>3
<1>7. Cardinality(D) = 0
  BY <1>3, FS_EmptySet
<1> HIDE DEF d
<1>8. d = <<>>
  BY <1>6, <1>7 DEF d
<1> QED
  BY <1>2, <1>4, <1>8

\* What the bounded inputs are sequences of.
LEMMA BoundedIsSeq ==
  ASSUME NEW S, NEW T, S \subseteq T, NEW n, NEW s \in BoundedSeq(S, n)
  PROVE  s \in Seq(T)
<1>1. PICK m \in 0..n : s \in [1..m -> S]
  BY DEF BoundedSeq, SeqOf
<1>2. m \in Nat
  BY <1>1
<1>3. s \in [1..m -> T]
  BY <1>1
<1> QED
  BY <1>2, <1>3

LEMMA InputsTyped == Spec => []TypedInputs
<1>1. Init => TypedInputs
  <2> SUFFICES ASSUME Init PROVE TypedInputs
    OBVIOUS
  <2>1. <<>> \in Seq(Line) /\ <<>> \in Seq(Comment) /\ <<>> \in Seq(Chapter)
    OBVIOUS
  <2>2. basis.chapters = <<>> /\ basis.posted = <<>>
    BY DEF Init
  <2>3. Derived
    BY <2>2, NothingListed DEF Init, Derived
  <2> QED BY <2>1, <2>2, <2>3, NothingListed DEF Init, TypedInputs
<1>2. TypedInputs /\ [Next]_vars => TypedInputs'
  <2> SUFFICES ASSUME TypedInputs, [Next]_vars  PROVE TypedInputs'
    OBVIOUS
  <2>0. ASSUME UNCHANGED <<drafts, basis>>  PROVE Derived'
    BY <2>0 DEF TypedInputs, Derived
  <2>1. CASE Grow("text", MaxLines, Lines)
    BY <2>0, <2>1, InputsAssumption DEF Grow, recording, TypedInputs
  <2>2. CASE Grow("comments", MaxComments, Comments)
    BY <2>0, <2>2, InputsAssumption DEF Grow, Comment, recording, TypedInputs
  <2>3. CASE PostSetlistPaste
    <3>1. PICK lines \in BoundedSeq(Pasted, MaxChapters) :
            /\ rows' = PostPaste(rows, lines)
            /\ posted' = IF \A i \in DOMAIN lines : lines[i].form # "unreadable"
                         THEN lines ELSE posted
      BY <2>3 DEF PostSetlistPaste
    <3>2. lines \in Seq(PastedLine)
      BY InputsAssumption, BoundedIsSeq DEF PastedLine
    <3>3. CASE Readable(lines)
      <4>1. posted' = lines /\ rows' = ParsePaste(lines).rows
        BY <3>1, <3>2, <3>3, ReadOrNot DEF PostPaste, Readable
      <4>2. Saved(rows', posted')
        BY <3>2, <3>3, <4>1 DEF Saved
      <4> QED BY <2>0, <2>3, <4>2 DEF PostSetlistPaste, TypedInputs
    <3>4. CASE ~Readable(lines)
      <4>1. posted' = posted /\ rows' = rows
        BY <3>1, <3>2, <3>4, ReadOrNot DEF PostPaste, Readable
      <4> QED BY <2>0, <2>3, <4>1 DEF PostSetlistPaste, TypedInputs
    <3> QED BY <3>3, <3>4
  <2>4. CASE PostSetlist
    <3>1. PICK entries \in BoundedSeq(Entries, MaxChapters) :
            rows' = Stored(entries) /\ posted' = entries
      BY <2>4 DEF PostSetlist
    <3>2. entries \in Seq(Entry)
      BY InputsAssumption, BoundedIsSeq DEF Entry
    <3>3. Saved(rows', posted')
      BY <3>1, <3>2 DEF Saved
    <3> QED BY <2>0, <2>4, <3>3 DEF PostSetlist, TypedInputs
  <2>5. CASE Completes
    <3>1. PICK c \in BoundedSeq(Chapters, MaxChapters) :
            LET now == IF c = <<>> THEN chapters ELSE c IN
              /\ chapters' = now
              /\ drafts' = AutoSegment(complete, drafts, now, rows)
              /\ basis' = IF complete \/ drafts # <<>> THEN basis
                          ELSE [chapters |-> now, posted |-> posted]
      BY <2>5 DEF Completes
    <3>2. c \in Seq(Chapter) /\ chapters' \in Seq(Chapter)
      <4>1. c \in Seq(Chapter)
        BY InputsAssumption, BoundedIsSeq DEF Chapter
      <4> QED BY <3>1, <4>1 DEF TypedInputs
    <3>3. UNCHANGED <<kind, input, posted, rows>>
      BY <2>5 DEF Completes
    <3>4. CASE complete \/ drafts # <<>>
      <4>1. UNCHANGED <<drafts, basis>>
        BY <3>1, <3>4 DEF AutoSegment
      <4> QED BY <2>0, <3>2, <3>3, <4>1 DEF TypedInputs
    <3>5. CASE ~(complete \/ drafts # <<>>)
      <4>1. basis'.chapters = chapters' /\ basis'.posted = posted
        BY <3>1, <3>5
      <4>2. drafts' = DeriveDrafts(chapters', rows)
        BY <3>1, <3>5 DEF AutoSegment
      <4>3. Saved(rows, posted)
        BY DEF TypedInputs
      <4>4. Derived'
        BY <4>1, <4>2, <4>3 DEF Derived
      <4> QED BY <3>2, <3>3, <4>1, <4>4 DEF TypedInputs
    <3> QED BY <3>4, <3>5
  <2>6. CASE TakenByWorker
    BY <2>0, <2>6 DEF TakenByWorker, TypedInputs
  <2>7. CASE UNCHANGED vars
    BY <2>0, <2>7 DEF vars, recording, TypedInputs
  <2> QED BY <2>1, <2>2, <2>3, <2>4, <2>5, <2>6, <2>7 DEF Next
<1> QED
  BY <1>1, <1>2, PTL DEF Spec

-----------------------------------------------------------------------------
(***************************************************************************)
(* The detector and the review page.                                       *)
(***************************************************************************)
LEMMA SecondsIsNumber ==
  ASSUME NEW l \in Line, Seconds(l) # Absent
  PROVE  Seconds(l) \in Nat
<1>1. l.h \in Nat /\ l.m \in Nat /\ (l.s # Absent => l.s \in Nat)
  BY DEF Line
<1>2. /\ l.h * 60 + l.m \in Nat
      /\ l.s # Absent => l.h * 3600 + l.m * 60 + l.s \in Nat
  BY <1>1
<1>3. CASE l.m >= 60 \/ l.s >= 60
  <2>1. Seconds(l) = Absent
    BY <1>3 DEF Seconds
  <2> QED BY <2>1
<1>4. CASE ~(l.m >= 60 \/ l.s >= 60) /\ l.s = Absent
  <2>1. Seconds(l) = l.h * 60 + l.m
    BY <1>4 DEF Seconds
  <2> QED BY <1>2, <2>1
<1>5. CASE ~(l.m >= 60 \/ l.s >= 60) /\ l.s # Absent
  <2>1. Seconds(l) = l.h * 3600 + l.m * 60 + l.s
    BY <1>5 DEF Seconds
  <2> QED BY <1>2, <1>5, <2>1
<1> QED
  BY <1>3, <1>4, <1>5

LEMMA EntriesAreTimes ==
  ASSUME NEW text \in Seq(Line)
  PROVE  ExtractEntries(text) \in Seq(Nat)
<1> DEFINE S == {i \in DOMAIN text : /\ text[i].form \in {"plain", "marked"}
                                     /\ Seconds(text[i]) # Absent}
           read == Picked(text, S)
<1>1. PICK p : /\ p \in [1..Cardinality(S) -> S]
               /\ read = [k \in 1..Cardinality(S) |-> text[p[k]]]
               /\ Cardinality(S) \in Nat
  <2>1. S \in SUBSET (DOMAIN text)
    OBVIOUS
  <2> HIDE DEF S
  <2>2. (\E p : Selects(p, text, S)) /\ Cardinality(S) \in Nat
    BY <2>1, PickedIs
  <2> QED BY <2>2 DEF Selects
<1>2. \A k \in 1..Cardinality(S) : Seconds(read[k]) \in Nat
  <2>1. \A i \in S : text[i] \in Line /\ Seconds(text[i]) # Absent
    OBVIOUS
  <2>2. \A i \in S : Seconds(text[i]) \in Nat
    <3> HIDE DEF S
    <3> QED BY <2>1, SecondsIsNumber
  <2> HIDE DEF S, read
  <2> QED BY <1>1, <2>2
<1>3. ExtractEntries(text) = [k \in 1..Cardinality(S) |-> Seconds(read[k])]
  <2>1. ExtractEntries(text) = [k \in DOMAIN read |-> Seconds(read[k])]
    BY DEF ExtractEntries
  <2> HIDE DEF S, read
  <2> QED BY <1>1, <2>1
<1> HIDE DEF S, read
<1> QED
  BY <1>1, <1>2, <1>3

\* BlockIsLongest, for texts of any lines and any length.
THEOREM LongestBlockKept == Spec => []BlockIsLongest
<1>1. TypedInputs => BlockIsLongest
  BY EntriesAreTimes, BlockOfTimes DEF TypedInputs, BlockIsLongest
<1> QED
  BY <1>1, InputsTyped, PTL

LEMMA TimecodeIsNumber ==
  ASSUME NEW l \in Line \cup Stamp
  PROVE  TimecodeToSeconds(l) \in Nat
BY DEF Line, Stamp, TimecodeToSeconds, Absent

\* Reading the text again, as times t: what create_segment accepts.
LEMMA AcceptedWhenRising ==
  ASSUME NEW text \in Seq(Line), NEW duration \in Nat
  PROVE  LET d == ReviewDrafts(text, duration) IN
           (\A i \in DOMAIN d : Accepted(d[i]))
             <=> /\ \A i \in DOMAIN d : i > 1 => d[i - 1].start < d[i].start
                 /\ d # <<>> => Last(d).start < duration
<1> DEFINE S == {i \in DOMAIN text : text[i].form \in {"plain", "dots"}}
           read == Picked(text, S)
           n == Cardinality(S)
           d == ReviewDrafts(text, duration)
<1>1. n \in Nat /\ read \in Seq(Line) /\ Len(read) = n
  <2>1. S \in SUBSET (DOMAIN text)
    OBVIOUS
  <2> HIDE DEF S
  <2> QED BY <2>1, PickedIs
<1>2. d = [i \in DOMAIN read |->
             [start |-> TimecodeToSeconds(read[i]),
              end   |-> IF i < Len(read) THEN TimecodeToSeconds(read[i + 1]) ELSE duration]]
  BY DEF ReviewDrafts
<1> HIDE DEF S, read, n, d
<1>3. \A i \in 1..n : TimecodeToSeconds(read[i]) \in Nat
  BY <1>1, TimecodeIsNumber
<1> DEFINE t == [i \in 1..n |-> TimecodeToSeconds(read[i])]
<1>4. \A i \in 1..n : t[i] \in Nat
  BY <1>3
<1>5. DOMAIN d = 1..n /\ \A i \in 1..n : /\ d[i].start = t[i]
                                         /\ d[i].end = IF i < n THEN t[i + 1] ELSE duration
  <2>1. DOMAIN read = 1..n
    BY <1>1
  <2>2. \A i \in 1..n : i < n => i + 1 \in 1..n
    BY <1>1
  <2> QED BY <1>1, <1>2, <2>1, <2>2
<1>6. d # <<>> => n \in 1..n /\ Last(d) = d[n]
  <2>1. d \in Seq({d[i] : i \in 1..n})
    <3>1. d = [i \in 1..n |-> d[i]]
      BY <1>2, <1>5
    <3> QED BY <1>1, <3>1
  <2>2. Len(d) = n
    BY <1>1, <1>5, <2>1
  <2>3. d # <<>> => n # 0
    BY <2>1, <2>2
  <2> QED BY <1>1, <2>2, <2>3 DEF Last
<1>7. d = <<>> => n = 0
  BY <1>1, <1>5
<1> HIDE DEF t
<1>8. ASSUME \A i \in DOMAIN d : Accepted(d[i])
      PROVE  /\ \A i \in DOMAIN d : i > 1 => d[i - 1].start < d[i].start
             /\ d # <<>> => Last(d).start < duration
  <2>1. ASSUME NEW i \in DOMAIN d, i > 1  PROVE d[i - 1].start < d[i].start
    <3>1. i - 1 \in 1..n /\ i \in 1..n /\ i - 1 < n /\ (i - 1) + 1 = i
      BY <1>1, <1>5, <2>1
    <3>2. Accepted(d[i - 1])
      BY <1>5, <1>8, <3>1
    <3>3. t[i - 1] \in Nat /\ t[i] \in Nat
      BY <1>4, <3>1
    <3>4. d[i - 1].start = t[i - 1] /\ d[i - 1].end = t[i] /\ d[i].start = t[i]
      BY <1>5, <3>1
    <3> QED BY <3>2, <3>3, <3>4 DEF Accepted
  <2>2. ASSUME d # <<>>  PROVE Last(d).start < duration
    <3>1. Accepted(d[n]) /\ d[n].end = duration /\ d[n].start \in Nat
      BY <1>1, <1>4, <1>5, <1>6, <1>8, <2>2
    <3> QED BY <1>6, <2>2, <3>1 DEF Accepted
  <2> QED BY <2>1, <2>2
<1>9. ASSUME \A i \in DOMAIN d : i > 1 => d[i - 1].start < d[i].start,
             d # <<>> => Last(d).start < duration,
             NEW i \in DOMAIN d
      PROVE  Accepted(d[i])
  <2>1. i \in 1..n /\ t[i] \in Nat /\ d[i].start = t[i]
    BY <1>4, <1>5, <1>9
  <2>2. CASE i < n
    <3>1. i + 1 \in 1..n /\ i + 1 > 1 /\ (i + 1) - 1 = i
      BY <1>1, <2>1, <2>2
    <3>2. d[i].start < d[i + 1].start
      BY <1>5, <1>9, <3>1
    <3>3. d[i].end = t[i + 1] /\ d[i + 1].start = t[i + 1] /\ t[i + 1] \in Nat
      BY <1>4, <1>5, <2>1, <2>2, <3>1
    <3> QED BY <2>1, <3>2, <3>3 DEF Accepted
  <2>3. CASE ~(i < n)
    <3>1. i = n /\ d[i].end = duration
      BY <1>1, <1>5, <2>1, <2>3
    <3>2. d # <<>>
      BY <1>1, <1>7, <2>1
    <3> QED BY <1>6, <1>9, <2>1, <3>1, <3>2 DEF Accepted
  <2> QED BY <2>2, <2>3
<1> QED
  BY <1>8, <1>9 DEF d

\* SavedIffStrictlyRising, for texts of any lines and any duration.
THEOREM SavedWhenRising == Spec => []SavedIffStrictlyRising
<1>1. TypedInputs => SavedIffStrictlyRising
  BY InputsAssumption, AcceptedWhenRising DEF TypedInputs, SavedIffStrictlyRising
<1> QED
  BY <1>1, InputsTyped, PTL
-----------------------------------------------------------------------------
(***************************************************************************)
(* The drafts of a recording.                                              *)
(***************************************************************************)
LEMMA ChaptersUsed ==
  ASSUME NEW c \in Seq(Chapter)
  PROVE  FromTheChapters(FromChapters(c), c)
<1> DEFINE S == {i \in DOMAIN c :
                   /\ c[i].titled
                   /\ ChapterSpan(c[i]).end > ChapterSpan(c[i]).start}
           U == {i \in DOMAIN c :
                   /\ c[i].titled /\ c[i].end # Absent
                   /\ c[i].start < c[i].end
                   /\ c[i].end > 0}
           kept == Picked(c, S)
           n == Cardinality(S)
           d == FromChapters(c)
<1>1. S = U
  <2>1. ASSUME NEW x \in Chapter
        PROVE  ChapterSpan(x).end > ChapterSpan(x).start
                 <=> x.end # Absent /\ x.start < x.end /\ x.end > 0
    BY DEF Chapter, ChapterSpan, OrZero, Absent
  <2>2. \A i \in DOMAIN c : c[i] \in Chapter
    OBVIOUS
  <2> QED BY <2>1, <2>2
<1>2. PICK p : /\ n \in Nat
               /\ p \in [1..n -> S]
               /\ kept = [k \in 1..n |-> c[p[k]]]
  <2>1. S \in SUBSET (DOMAIN c)
    OBVIOUS
  <2> HIDE DEF S, U, d
  <2>2. (\E p : Selects(p, c, S)) /\ Cardinality(S) \in Nat
    BY <2>1, PickedIs
  <2> QED BY <2>2, Zenon DEF Selects
<1>3. d = [k \in DOMAIN kept |-> ChapterSpan(kept[k])]
  BY DEF FromChapters
<1>4. \A i \in S : ChapterSpan(c[i]).end > ChapterSpan(c[i]).start
  OBVIOUS
<1> HIDE DEF S, U, kept, n, d
<1>5. d = [k \in 1..n |-> ChapterSpan(kept[k])]
  BY <1>2, <1>3
<1>6. \A i \in DOMAIN d : d[i].end > d[i].start
  BY <1>2, <1>4, <1>5
<1>7. Len(d) = n
  BY <1>2, <1>5
<1> QED
  BY <1>1, <1>6, <1>7, Zenon DEF d, n, U, FromTheChapters

\* A row of a setlist: post_setlist takes any integers.
Row == [start : Int, end : Int]

LEMMA RowsOfPaste ==
  ASSUME NEW lines \in Seq(PastedLine), Readable(lines)
  PROVE  LET artists == {i \in DOMAIN lines : lines[i].form = "artist"} IN
           /\ IsFiniteSet(artists) /\ Cardinality(artists) \in Nat
           /\ \E p \in [1..Cardinality(artists) -> artists] :
                /\ \A k, l \in 1..Cardinality(artists) : k # l => p[k] # p[l]
                /\ \A x \in artists : \E k \in 1..Cardinality(artists) : p[k] = x
                /\ ParsePaste(lines).rows
                     = [k \in 1..Cardinality(artists) |-> Span(lines[p[k]])]
           /\ \A i \in artists : Span(lines[i]) \in Row
<1> DEFINE artists == {i \in DOMAIN lines : lines[i].form = "artist"}
           S == {i \in DOMAIN lines : lines[i].form # "remark"}
           kept == Picked(lines, S)
           n == Cardinality(artists)
<1>1. S = artists
  BY DEF PastedLine, Readable
<1>2. /\ IsFiniteSet(artists) /\ n \in Nat
      /\ \E p : /\ p \in [1..n -> artists]
                /\ \A k, l \in 1..n : k < l => p[k] < p[l]
                /\ \A x \in artists : \E k \in 1..n : p[k] = x
                /\ kept = [k \in 1..n |-> lines[p[k]]]
  <2>1. artists \in SUBSET (DOMAIN lines)
    OBVIOUS
  <2>2. kept = Picked(lines, artists)
    BY <1>1
  <2> HIDE DEF S, artists, kept
  <2>3. /\ IsFiniteSet(artists) /\ Cardinality(artists) \in Nat
        /\ \E p : Selects(p, lines, artists)
    <3> HIDE DEF n
    <3> QED BY <2>1, PickedIs
  <2> QED BY <2>2, <2>3, Zenon DEF Selects
<1>3. PICK p : /\ p \in [1..n -> artists]
               /\ \A k, l \in 1..n : k < l => p[k] < p[l]
               /\ \A x \in artists : \E k \in 1..n : p[k] = x
               /\ kept = [k \in 1..n |-> lines[p[k]]]
  BY <1>2
<1>4. \A i \in artists : Span(lines[i]) \in Row
  <2>1. \A i \in artists : lines[i].from \in Stamp /\ lines[i].to \in Stamp
    BY DEF PastedLine
  <2> HIDE DEF artists
  <2> QED BY <2>1, TimecodeIsNumber DEF Span, Row
<1>5. \A k, l \in 1..n : k # l => p[k] # p[l]
  <2>1. \A x \in artists : x \in Nat
    OBVIOUS
  <2>2. \A k \in 1..n : p[k] \in Nat
    <3> HIDE DEF artists, n
    <3> QED BY <1>3, <2>1
  <2> HIDE DEF artists, n, S, kept
  <2>3. ASSUME NEW k \in 1..n, NEW l \in 1..n, k # l  PROVE p[k] # p[l]
    <3>1. p[k] \in Nat /\ p[l] \in Nat
      BY <2>2
    <3>2. k < l \/ l < k
      BY <1>2, <2>3
    <3>3. p[k] < p[l] \/ p[l] < p[k]
      BY <1>3, <3>2
    <3> QED BY <3>1, <3>3
  <2> QED BY <2>3
<1>6. ParsePaste(lines).rows = [k \in 1..n |-> Span(lines[p[k]])]
  <2>1. ParsePaste(lines).ok
    BY ReadOrNot
  <2>2. ParsePaste(lines)
          = IF \E i \in DOMAIN kept : kept[i].form = "unreadable"
            THEN [ok |-> FALSE, rows |-> <<>>]
            ELSE [ok |-> TRUE, rows |-> [i \in DOMAIN kept |-> Span(kept[i])]]
    BY Zenon DEF ParsePaste
  <2> HIDE DEF kept, artists, n
  <2>3. ParsePaste(lines).rows = [i \in DOMAIN kept |-> Span(kept[i])]
    BY <2>1, <2>2
  <2> QED BY <1>3, <2>3
<1> HIDE DEF artists, n
<1> QED
  BY <1>2, <1>3, <1>4, <1>5, <1>6 DEF artists, n

LEMMA ArrangedRows ==
  ASSUME NEW r \in Seq(Row), NEW D \in SUBSET (DOMAIN r), NEW key \in [D -> Int]
  PROVE  \E o : /\ Lists(o, D, key)
               /\ Arranged(r, D, key) = [k \in 1..Cardinality(D) |-> r[o[k]]]
BY ArrangedIs

\* The rows are what was given at the positions S, a row for each.
RowsOf(saved, s, S) ==
  /\ IsFiniteSet(S) /\ Cardinality(S) \in Nat
  /\ \E p \in [1..Cardinality(S) -> S] :
       /\ \A k, l \in 1..Cardinality(S) : k # l => p[k] # p[l]
       /\ \A x \in S : \E k \in 1..Cardinality(S) : p[k] = x
       /\ saved = [k \in 1..Cardinality(S) |-> Given(s[p[k]])]
  /\ \A i \in S : Given(s[i]) \in Row

\* A row for every song, whichever way the setlist came.
LEMMA RowsAreGiven ==
  ASSUME NEW s, NEW saved, Saved(saved, s)
  PROVE  RowsOf(saved, s, Songs(s))
<1>1. CASE s \in Seq(PastedLine) /\ Readable(s) /\ saved = ParsePaste(s).rows
  <2> DEFINE artists == {i \in DOMAIN s : s[i].form = "artist"}
             n == Cardinality(artists)
  <2>1. Songs(s) = artists /\ \A i \in artists : Given(s[i]) = Span(s[i])
    <3>1. \A i \in DOMAIN s : s[i].form # "entry"
      BY <1>1 DEF PastedLine
    <3> QED BY <3>1 DEF Songs, Given
  <2>2. /\ IsFiniteSet(artists) /\ n \in Nat
        /\ \E p \in [1..n -> artists] :
             /\ \A k, l \in 1..n : k # l => p[k] # p[l]
             /\ \A x \in artists : \E k \in 1..n : p[k] = x
             /\ saved = [k \in 1..n |-> Span(s[p[k]])]
        /\ \A i \in artists : Span(s[i]) \in Row
    BY <1>1, RowsOfPaste
  <2> HIDE DEF artists
  <2>3. PICK p \in [1..n -> artists] :
             /\ \A k, l \in 1..n : k # l => p[k] # p[l]
             /\ \A x \in artists : \E k \in 1..n : p[k] = x
             /\ saved = [k \in 1..n |-> Span(s[p[k]])]
    BY <2>2
  <2> HIDE DEF n
  <2>4. \A k \in 1..n : Given(s[p[k]]) = Span(s[p[k]])
    BY <2>1, <2>3
  <2>5. saved = [k \in 1..n |-> Given(s[p[k]])]
    BY <2>3, <2>4
  <2>6. \A i \in artists : Given(s[i]) \in Row
    BY <2>1, <2>2
  <2>7. RowsOf(saved, s, artists)
    BY <2>2, <2>3, <2>5, <2>6 DEF n, RowsOf
  <2> QED BY <2>1, <2>7
<1>2. CASE s \in Seq(Entry) /\ saved = Stored(s)
  <2> DEFINE n == Len(s)
             p == [k \in 1..n |-> k]
  <2>1. n \in Nat /\ DOMAIN s = 1..n /\ \A i \in 1..n : s[i] \in Entry
    BY <1>2
  <2>2. Songs(s) = 1..n
    BY <2>1 DEF Songs, Entry
  <2>3. \A i \in 1..n : Given(s[i]) = [start |-> s[i].start, end |-> s[i].end]
    BY <2>1 DEF Given, Entry
  <2>4. \A i \in 1..n : Given(s[i]) \in Row
    BY <2>1, <2>3 DEF Entry, Row
  <2>5. IsFiniteSet(1..n) /\ Cardinality(1..n) = n
    BY <2>1, FS_Interval
  <2>6. saved = [k \in 1..n |-> Given(s[p[k]])]
    BY <1>2, <2>1, <2>3 DEF Stored
  <2>7. /\ p \in [1..n -> 1..n]
        /\ \A k, l \in 1..n : k # l => p[k] # p[l]
        /\ \A x \in 1..n : \E k \in 1..n : p[k] = x
    OBVIOUS
  <2> HIDE DEF n, p
  <2>8. RowsOf(saved, s, 1..n)
    <3> DEFINE D == 1..n
    <3> HIDE DEF D
    <3>1. /\ D = 1..n /\ Cardinality(D) = n /\ p \in [1..n -> D] /\ IsFiniteSet(D)
          /\ \A i \in D : Given(s[i]) \in Row
          /\ \A x \in D : \E k \in 1..n : p[k] = x
      BY <2>4, <2>5, <2>7 DEF D
    <3>2. RowsOf(saved, s, D)
      BY <2>1, <2>6, <2>7, <3>1 DEF RowsOf
    <3> QED BY <3>1, <3>2
  <2> QED BY <2>2, <2>8
<1> QED
  BY <1>1, <1>2 DEF Saved

LEMMA SetlistUsed ==
  ASSUME NEW sent, NEW rws, Saved(rws, sent)
  PROVE  FromTheSetlist(FromSetlist(rws), sent)
<1> DEFINE songs == Songs(sent)
           n == Cardinality(songs)
           d == FromSetlist(rws)
           key == [i \in DOMAIN rws |-> rws[i].start]
<1>1. /\ IsFiniteSet(songs) /\ n \in Nat
      /\ \E p \in [1..n -> songs] :
           /\ \A k, l \in 1..n : k # l => p[k] # p[l]
           /\ \A x \in songs : \E k \in 1..n : p[k] = x
           /\ rws = [k \in 1..n |-> Given(sent[p[k]])]
      /\ \A i \in songs : Given(sent[i]) \in Row
  BY RowsAreGiven, Zenon DEF RowsOf
<1>2. d = Arranged(rws, DOMAIN rws, key)
  BY Zenon DEF FromSetlist, StableSort
<1> HIDE DEF songs, n, d
<1>3. PICK p \in [1..n -> songs] :
           /\ \A k, l \in 1..n : k # l => p[k] # p[l]
           /\ \A x \in songs : \E k \in 1..n : p[k] = x
           /\ rws = [k \in 1..n |-> Given(sent[p[k]])]
  BY <1>1
<1>4. rws \in Seq(Row) /\ DOMAIN rws = 1..n
  BY <1>1, <1>3
<1>5. key \in [1..n -> Int] /\ \A k \in 1..n : key[k] = rws[k].start
  <2>1. \A k \in 1..n : rws[k] \in Row
    BY <1>1, <1>3
  <2>2. \A x \in Row : x.start \in Int
    BY DEF Row
  <2>3. \A k \in 1..n : rws[k].start \in Int
    BY <2>1, <2>2
  <2> QED BY <1>4, <2>3
<1> HIDE DEF key
<1>6. PICK o : Lists(o, 1..n, key) /\ d = [k \in 1..n |-> rws[o[k]]]
  <2>1. Cardinality(1..n) = n /\ (1..n) \in SUBSET (DOMAIN rws) /\ key \in [1..n -> Int]
    BY <1>1, <1>4, <1>5, FS_Interval
  <2> DEFINE D == 1..n
  <2>2. D \in SUBSET (DOMAIN rws) /\ key \in [D -> Int] /\ Cardinality(D) = n /\ DOMAIN rws = D
    BY <1>4, <2>1
  <2>3. \E o : /\ Lists(o, D, key)
               /\ Arranged(rws, D, key) = [k \in 1..Cardinality(D) |-> rws[o[k]]]
    <3>1. rws \in Seq(Row)
      BY <1>4
    <3> HIDE DEF D
    <3>2. D \in SUBSET (DOMAIN rws)
      BY <2>2
    <3>3. key \in [D -> Int]
      BY <2>2
    <3> QED BY <3>1, <3>2, <3>3, ArrangedRows
  <2>4. d = Arranged(rws, D, key)
    BY <1>2, <2>2
  <2>5. \E o : Lists(o, D, key) /\ d = [k \in 1..n |-> rws[o[k]]]
    <3> HIDE DEF D
    <3> QED BY <2>2, <2>3, <2>4
  <2> QED BY <2>5
<1>7. /\ o \in [1..n -> 1..n]
      /\ \A k, l \in 1..n : k < l => Before(key, o[k], o[l])
      /\ \A k, l \in 1..n : k # l => o[k] # o[l]
      /\ \A x \in 1..n : \E k \in 1..n : o[k] = x
  <2>1. Cardinality(1..n) = n
    BY <1>1, FS_Interval
  <2> QED BY <1>6, <2>1 DEF Lists
<1>8. \A i, j \in DOMAIN d : i < j => d[i].start <= d[j].start
  <2>1. SUFFICES ASSUME NEW i \in 1..n, NEW j \in 1..n, i < j  PROVE d[i].start <= d[j].start
    BY <1>6
  <2>2. key[o[i]] \in Int /\ key[o[j]] \in Int /\ key[o[i]] <= key[o[j]]
    <3>1. key[o[i]] \in Int /\ key[o[j]] \in Int
      BY <1>5, <1>7
    <3>2. Before(key, o[i], o[j])
      BY <1>7, <2>1
    <3> QED BY <3>1, <3>2 DEF Before
  <2>3. d[i].start = key[o[i]] /\ d[j].start = key[o[j]]
    BY <1>5, <1>6, <1>7
  <2> QED BY <2>2, <2>3
<1>9. Len(d) = n
  BY <1>1, <1>6
<1>10. ASSUME NEW i \in songs
       PROVE  Cardinality({k \in DOMAIN d : d[k] = Given(sent[i])})
                = Cardinality({k \in songs : Given(sent[k]) = Given(sent[i])})
  <2> DEFINE A == {k \in 1..n : d[k] = Given(sent[i])}
             B == {k \in songs : Given(sent[k]) = Given(sent[i])}
             f == [k \in A |-> p[o[k]]]
  <2>1. \A k \in 1..n : o[k] \in 1..n /\ p[o[k]] \in songs /\ d[k] = Given(sent[p[o[k]]])
    BY <1>3, <1>6, <1>7
  <2>2. f \in [A -> B]
    BY <2>1
  <2>3. \A k, l \in A : f[k] = f[l] => k = l
    BY <1>3, <1>7, <2>1
  <2>4. \A x \in B : \E k \in A : f[k] = x
    <3>1. ASSUME NEW x \in songs, Given(sent[x]) = Given(sent[i])
          PROVE  \E k \in A : f[k] = x
      <4>1. PICK m \in 1..n : p[m] = x
        BY <1>3
      <4>2. PICK k \in 1..n : o[k] = m
        BY <1>7
      <4>3. k \in A
        BY <2>1, <3>1, <4>1, <4>2
      <4> QED BY <4>1, <4>2, <4>3
    <3> QED BY <3>1
  <2>5. IsFiniteSet(A)
    <3>1. IsFiniteSet(1..n) /\ A \in SUBSET (1..n)
      BY <1>1, FS_Interval
    <3> HIDE DEF A
    <3> QED BY <3>1, FS_Subset
  <2> HIDE DEF f, A, B
  <2>6. f \in Bijection(A, B)
    BY <2>2, <2>3, <2>4 DEF Bijection, Injection, Surjection, IsInjective
  <2>7. Cardinality(A) = Cardinality(B)
    <3>1. ExistsBijection(A, B)
      BY <2>6 DEF ExistsBijection
    <3> QED BY <2>5, <3>1, FS_Bijection
  <2>8. DOMAIN d = 1..n
    BY <1>6
  <2> QED BY <2>7, <2>8 DEF A, B
<1> QED
  BY <1>8, <1>9, <1>10 DEF d, n, songs, FromTheSetlist

\* DraftsFromOneSource, for any chapters, any pastes and any lists that are
\* sent, in any order with the completions.
THEOREM OneSourceOfDrafts == Spec => []DraftsFromOneSource
<1>1. TypedInputs => DraftsFromOneSource
  <2> SUFFICES ASSUME TypedInputs PROVE DraftsFromOneSource
    OBVIOUS
  <2>1. PICK saved : Saved(saved, basis.posted) /\ drafts = DeriveDrafts(basis.chapters, saved)
    BY DEF TypedInputs, Derived
  <2>2. CASE basis.chapters # <<>>
    <3>1. drafts = FromChapters(basis.chapters) /\ basis.chapters \in Seq(Chapter)
      BY <2>1, <2>2 DEF DeriveDrafts, TypedInputs
    <3> QED BY <2>2, <3>1, ChaptersUsed DEF DraftsFromOneSource
  <2>3. CASE basis.chapters = <<>>
    <3>1. drafts = FromSetlist(saved)
      BY <2>1, <2>3 DEF DeriveDrafts
    <3> QED BY <2>1, <2>3, <3>1, SetlistUsed DEF DraftsFromOneSource
  <2> QED BY <2>2, <2>3
<1> QED
  BY <1>1, InputsTyped, PTL
-----------------------------------------------------------------------------
(***************************************************************************)
(* The order in which the comments are looked at.                          *)
(***************************************************************************)
AllComments(comments) ==
  LET pinned == {i \in DOMAIN comments : comments[i].pinned}
      unpinned == Picked(comments, DOMAIN comments \ pinned)
  IN Picked(comments, pinned) \o StableSort(unpinned, LikesKey(unpinned))

\* Nothing is ahead of itself, and of two at most one is ahead.
LEMMA AheadIsStrict ==
  ASSUME NEW c \in Seq(Comment), NEW i \in 1..Len(c), NEW j \in 1..Len(c)
  PROVE  /\ ~Ahead(c, i, i)
         /\ ~(Ahead(c, i, j) /\ Ahead(c, j, i))
<1>1. c[i].likes \in Nat /\ c[j].likes \in Nat /\ i \in Nat /\ j \in Nat
  <2>1. c[i] \in Comment /\ c[j] \in Comment
    OBVIOUS
  <2> QED BY <2>1 DEF Comment
<1> QED
  BY <1>1 DEF Ahead

\* p puts all of c in that order.
RanksAll(p, c) ==
  /\ p \in [1..Len(c) -> 1..Len(c)]
  /\ \A k, l \in 1..Len(c) : k < l => Ahead(c, p[k], p[l])
  /\ \A i \in 1..Len(c) : \E k \in 1..Len(c) : p[k] = i

\* The likes sort, as the positions in the list of the comments.
LEMMA UnpinnedInOrder ==
  ASSUME NEW c \in Seq(Comment), NEW U \in SUBSET (DOMAIN c),
         \A i \in U : ~c[i].pinned
  PROVE  LET b == Cardinality(U)
             unpinned == Picked(c, U)
         IN \E w \in [1..b -> U] :
              /\ \A k, l \in 1..b : k < l => Ahead(c, w[k], w[l])
              /\ \A i \in U : \E k \in 1..b : w[k] = i
              /\ StableSort(unpinned, LikesKey(unpinned)) = [k \in 1..b |-> c[w[k]]]
<1> DEFINE b == Cardinality(U)
           unp == Picked(c, U)
           key == LikesKey(unp)
           D == 1..b
<1>1. /\ b \in Nat /\ unp \in Seq(Comment) /\ Len(unp) = b
      /\ \E u : /\ u \in [1..b -> U]
                /\ \A k, l \in 1..b : k < l => u[k] < u[l]
                /\ \A x \in U : \E k \in 1..b : u[k] = x
                /\ unp = [k \in 1..b |-> c[u[k]]]
  BY PickedIs DEF Selects
<1>2. PICK u : /\ u \in [1..b -> U]
               /\ \A k, l \in 1..b : k < l => u[k] < u[l]
               /\ \A x \in U : \E k \in 1..b : u[k] = x
               /\ unp = [k \in 1..b |-> c[u[k]]]
  BY <1>1
<1>3. key = [i \in DOMAIN unp |-> -unp[i].likes]
  BY DEF LikesKey
<1>4. StableSort(unp, key) = Arranged(unp, DOMAIN unp, key)
  BY DEF StableSort
<1> HIDE DEF b, unp, key
<1>5. \A i \in U : c[i].likes \in Nat /\ i \in Nat
  <2>1. \A i \in U : c[i] \in Comment
    OBVIOUS
  <2>2. \A x \in Comment : x.likes \in Nat
    BY DEF Comment
  <2>3. \A i \in U : i \in Nat
    OBVIOUS
  <2> QED BY <2>1, <2>2, <2>3
<1>6. DOMAIN unp = D /\ \A k \in D : u[k] \in U /\ unp[k] = c[u[k]]
  BY <1>2
<1>7. \A k \in D : key[k] = -c[u[k]].likes /\ c[u[k]].likes \in Nat
  BY <1>3, <1>5, <1>6
<1>8. key \in [D -> Int]
  <2>1. DOMAIN key = D /\ \A k \in D : key[k] \in Int
    BY <1>3, <1>6, <1>7
  <2>2. key = [k \in D |-> key[k]]
    BY <1>3, <1>6
  <2> HIDE DEF D
  <2> QED BY <2>1, <2>2
<1>9. Cardinality(D) = b /\ D \in SUBSET (DOMAIN unp)
  BY <1>1, <1>6, FS_Interval
<1>10. PICK o : Lists(o, D, key) /\ StableSort(unp, key) = [k \in 1..b |-> unp[o[k]]]
  <2> HIDE DEF D
  <2>1. \E o : /\ Lists(o, D, key)
               /\ Arranged(unp, D, key) = [k \in 1..Cardinality(D) |-> unp[o[k]]]
    <3>1. D \in SUBSET (DOMAIN unp)
      BY <1>9
    <3>2. unp \in Seq(Comment)
      BY <1>1
    <3> QED BY <1>8, <3>1, <3>2, ArrangedIs
  <2>2. StableSort(unp, key) = Arranged(unp, D, key)
    BY <1>4, <1>6
  <2> QED BY <1>9, <2>1, <2>2
<1>11. /\ o \in [D -> D]
       /\ \A k, l \in D : k < l => Before(key, o[k], o[l])
       /\ \A x \in D : \E k \in D : o[k] = x
  <2>1. 1..Cardinality(D) = D
    BY <1>9
  <2> HIDE DEF D
  <2> QED BY <1>10, <2>1 DEF Lists
<1> DEFINE w == [k \in D |-> u[o[k]]]
<1>12. w \in [D -> U]
  BY <1>6, <1>11
<1>13. ASSUME NEW k \in D, NEW l \in D, k < l  PROVE Ahead(c, w[k], w[l])
  <2>1. Before(key, o[k], o[l]) /\ o[k] \in D /\ o[l] \in D
    BY <1>11, <1>13
  <2> DEFINE i == w[k]
             j == w[l]
  <2>2. i = u[o[k]] /\ j = u[o[l]] /\ i \in U /\ j \in U
    BY <1>6, <2>1
  <2>3. o[k] < o[l] => i < j
    BY <1>2, <2>1, <2>2
  <2>4. /\ key[o[k]] = -c[i].likes /\ key[o[l]] = -c[j].likes
        /\ c[i].likes \in Nat /\ c[j].likes \in Nat
    BY <1>7, <2>1, <2>2
  <2>5. ~c[i].pinned /\ ~c[j].pinned
    BY <2>2
  <2> HIDE DEF i, j
  <2>6. c[i].likes > c[j].likes \/ (c[i].likes = c[j].likes /\ o[k] < o[l])
    <3> DEFINE x == c[i].likes
               y == c[j].likes
    <3>1. \/ key[o[k]] < key[o[l]]
          \/ key[o[k]] = key[o[l]] /\ o[k] < o[l]
      BY <2>1, Zenon DEF Before
    <3>2. key[o[k]] = -x /\ key[o[l]] = -y /\ x \in Nat /\ y \in Nat
      BY <2>4
    <3> HIDE DEF x, y
    <3>3. -x < -y \/ (-x = -y /\ o[k] < o[l])
      BY <3>1, <3>2, Zenon
    <3>4. (-x < -y => x > y) /\ (-x = -y => x = y)
      BY <3>2
    <3> QED BY <3>3, <3>4, Zenon DEF x, y
  <2>7. Ahead(c, i, j)
    BY <2>3, <2>5, <2>6 DEF Ahead
  <2> QED BY <2>7 DEF i, j
<1>14. ASSUME NEW i \in U  PROVE \E k \in D : w[k] = i
  <2>1. PICK m \in D : u[m] = i
    BY <1>2
  <2>2. PICK k \in D : o[k] = m
    BY <1>11
  <2> QED BY <2>1, <2>2
<1>15. StableSort(unp, key) = [k \in D |-> c[w[k]]]
  <2>1. \A k \in D : unp[o[k]] = c[w[k]]
    BY <1>6, <1>11
  <2> QED BY <1>10, <2>1
<1> HIDE DEF w
<1>16. /\ w \in [1..b -> U]
       /\ \A k, l \in 1..b : k < l => Ahead(c, w[k], w[l])
       /\ \A i \in U : \E k \in 1..b : w[k] = i
       /\ StableSort(unp, key) = [k \in 1..b |-> c[w[k]]]
  BY <1>12, <1>13, <1>14, <1>15
<1> QED
  BY <1>16 DEF b, unp, key

LEMMA CommentsInOrder ==
  ASSUME NEW c \in Seq(Comment)
  PROVE  /\ AllComments(c) \in Seq(Comment) /\ Len(AllComments(c)) = Len(c)
         /\ \E p : RanksAll(p, c) /\ \A k \in 1..Len(c) : AllComments(c)[k] = c[p[k]]
<1> DEFINE n == Len(c)
           P == {i \in DOMAIN c : c[i].pinned}
           U == DOMAIN c \ P
           a == Cardinality(P)
           b == Cardinality(U)
           first == Picked(c, P)
           unp == Picked(c, U)
           rest == StableSort(unp, LikesKey(unp))
<1>0. n \in Nat /\ DOMAIN c = 1..n
  OBVIOUS
<1>1. a \in Nat /\ b \in Nat /\ a + b = n
  <2>1. IsFiniteSet(DOMAIN c) /\ Cardinality(DOMAIN c) = n
    BY <1>0, FS_Interval
  <2>2. IsFiniteSet(P) /\ IsFiniteSet(U) /\ P \cap U = {} /\ P \cup U = DOMAIN c
    BY <2>1, FS_Subset
  <2> HIDE DEF P, U
  <2>3. Cardinality(P) \in Nat /\ Cardinality(U) \in Nat
    BY <2>2, FS_CardinalityType
  <2>4. Cardinality(P \cup U) = Cardinality(P) + Cardinality(U) - Cardinality(P \cap U)
    BY <2>2, FS_Union
  <2>5. Cardinality(P \cap U) = 0
    BY <2>2, FS_EmptySet
  <2> HIDE DEF n
  <2> QED BY <2>1, <2>2, <2>3, <2>4, <2>5
<1>2. AllComments(c) = first \o rest
  BY Zenon DEF AllComments
<1>3. PICK q : /\ q \in [1..a -> P]
               /\ \A k, l \in 1..a : k < l => q[k] < q[l]
               /\ \A x \in P : \E k \in 1..a : q[k] = x
               /\ first = [k \in 1..a |-> c[q[k]]]
  <2>1. P \in SUBSET (DOMAIN c)
    OBVIOUS
  <2> HIDE DEF P
  <2>2. \E q : Selects(q, c, P)
    BY <2>1, PickedIs
  <2> QED BY <2>2, Zenon DEF Selects
<1>4. PICK w \in [1..b -> U] :
               /\ \A k, l \in 1..b : k < l => Ahead(c, w[k], w[l])
               /\ \A i \in U : \E k \in 1..b : w[k] = i
               /\ rest = [k \in 1..b |-> c[w[k]]]
  <2>1. U \in SUBSET (DOMAIN c) /\ \A i \in U : ~c[i].pinned
    OBVIOUS
  <2> HIDE DEF U
  <2> QED BY <2>1, UnpinnedInOrder
<1>5. \A i \in P : i \in 1..n /\ c[i].pinned /\ c[i] \in Comment
  OBVIOUS
<1>6. \A i \in U : i \in 1..n /\ ~c[i].pinned /\ c[i] \in Comment
  OBVIOUS
<1>7. \A i \in 1..n : i \in P \/ i \in U
  OBVIOUS
<1> HIDE DEF P, U, a, b, first, unp, rest, n
<1>8. first \in Seq(Comment) /\ Len(first) = a /\ rest \in Seq(Comment) /\ Len(rest) = b
  <2>1. \A k \in 1..a : c[q[k]] \in Comment
    BY <1>3, <1>5
  <2>2. \A k \in 1..b : c[w[k]] \in Comment
    BY <1>4, <1>6
  <2> QED BY <1>1, <1>3, <1>4, <2>1, <2>2
<1>9. AllComments(c) \in Seq(Comment) /\ Len(AllComments(c)) = n
  BY <1>1, <1>2, <1>8, ConcatProperties
<1> DEFINE p == [k \in 1..n |-> IF k <= a THEN q[k] ELSE w[k - a]]
<1>10. \A k \in 1..n : \/ k \in 1..a /\ p[k] = q[k] /\ p[k] \in P
                       \/ k > a /\ k - a \in 1..b /\ p[k] = w[k - a] /\ p[k] \in U
  <2>1. ASSUME NEW k \in 1..n, k <= a  PROVE k \in 1..a /\ p[k] = q[k] /\ p[k] \in P
    BY <1>0, <1>1, <1>3, <2>1
  <2>2. ASSUME NEW k \in 1..n, ~(k <= a)
        PROVE  k > a /\ k - a \in 1..b /\ p[k] = w[k - a] /\ p[k] \in U
    BY <1>0, <1>1, <1>4, <2>2
  <2> QED BY <2>1, <2>2
<1> HIDE DEF p
<1>11. p \in [1..n -> 1..n]
  BY <1>5, <1>6, <1>10 DEF p
<1>12. ASSUME NEW k \in 1..n, NEW l \in 1..n, k < l  PROVE Ahead(c, p[k], p[l])
  <2>1. CASE k > a /\ k - a \in 1..b /\ p[k] = w[k - a] /\ p[k] \in U
    <3>1. l - a \in 1..b /\ p[l] = w[l - a] /\ k - a < l - a
      BY <1>0, <1>1, <1>10, <1>12, <2>1
    <3> QED BY <1>4, <2>1, <3>1
  <2>2. CASE k \in 1..a /\ p[k] = q[k] /\ p[k] \in P
    <3>1. CASE l \in 1..a /\ p[l] = q[l] /\ p[l] \in P
      <4>1. p[k] < p[l]
        BY <1>3, <1>12, <2>2, <3>1
      <4> QED BY <1>5, <2>2, <4>1 DEF Ahead
    <3>2. CASE p[l] \in U
      BY <1>5, <1>6, <2>2, <3>2 DEF Ahead
    <3> QED BY <1>10, <3>1, <3>2
  <2> QED BY <1>10, <2>1, <2>2
<1>13. ASSUME NEW i \in 1..n  PROVE \E k \in 1..n : p[k] = i
  <2>1. CASE i \in P
    <3>1. PICK k \in 1..a : q[k] = i
      BY <1>3, <2>1
    <3>2. k \in 1..n /\ k <= a
      BY <1>0, <1>1
    <3> QED BY <3>1, <3>2 DEF p
  <2>2. CASE i \in U
    <3>1. PICK m \in 1..b : w[m] = i
      BY <1>4, <2>2
    <3>2. m + a \in 1..n /\ ~(m + a <= a) /\ (m + a) - a = m
      BY <1>0, <1>1
    <3> QED BY <3>1, <3>2 DEF p
  <2> QED BY <1>7, <2>1, <2>2
<1>14. ASSUME NEW k \in 1..n  PROVE AllComments(c)[k] = c[p[k]]
  <2>1. CASE k \in 1..a /\ p[k] = q[k]
    <3>1. (first \o rest)[k] = first[k]
      BY <1>1, <1>8, <2>1
    <3> QED BY <1>2, <1>3, <2>1, <3>1
  <2>2. CASE k > a /\ k - a \in 1..b /\ p[k] = w[k - a]
    <3>1. (first \o rest)[k] = rest[k - a]
      BY <1>0, <1>1, <1>8, <2>2, ConcatProperties
    <3> QED BY <1>2, <1>4, <2>2, <3>1
  <2> QED BY <1>10, <2>1, <2>2
<1>15. RanksAll(p, c)
  BY <1>11, <1>12, <1>13 DEF RanksAll, n
<1> QED
  BY <1>9, <1>14, <1>15 DEF n

\* The k-th has k - 1 ahead of it.
LEMMA RankOfPosition ==
  ASSUME NEW c \in Seq(Comment), NEW p, RanksAll(p, c), NEW k \in 1..Len(c)
  PROVE  Cardinality({j \in DOMAIN c : Ahead(c, j, p[k])}) = k - 1
<1> DEFINE n == Len(c)
           A == {j \in DOMAIN c : Ahead(c, j, p[k])}
           D == 1..(k - 1)
           f == [l \in D |-> p[l]]
<1>0. n \in Nat /\ DOMAIN c = 1..n /\ k - 1 \in Nat /\ \A l \in D : l \in 1..n /\ l < k
  OBVIOUS
<1>1. /\ p \in [1..n -> 1..n]
      /\ \A l, m \in 1..n : l < m => Ahead(c, p[l], p[m])
      /\ \A i \in 1..n : \E l \in 1..n : p[l] = i
  BY DEF RanksAll
<1>2. \A l \in D : f[l] = p[l] /\ p[l] \in A
  BY <1>0, <1>1
<1>3. f \in [D -> A]
  BY <1>2
<1>4. ASSUME NEW l \in D, NEW m \in D, f[l] = f[m]  PROVE l = m
  <2>1. l \in 1..n /\ m \in 1..n /\ p[l] = p[m] /\ p[l] \in 1..n
    BY <1>0, <1>1, <1>4
  <2>2. ~Ahead(c, p[l], p[m]) /\ ~Ahead(c, p[m], p[l])
    BY <2>1, AheadIsStrict
  <2>3. ~(l < m) /\ ~(m < l)
    BY <1>1, <2>1, <2>2
  <2> QED BY <2>1, <2>3
<1>5. ASSUME NEW j \in A  PROVE \E l \in D : f[l] = j
  <2>1. j \in 1..n /\ Ahead(c, j, p[k])
    BY <1>0
  <2>2. PICK l \in 1..n : p[l] = j
    BY <1>1, <2>1
  <2>3. p[k] \in 1..n /\ ~Ahead(c, p[k], j)
    BY <1>0, <1>1, <2>1, AheadIsStrict
  <2>4. p[k] # j
    BY <2>1, <2>3
  <2>5. ~(k < l) /\ k # l
    BY <1>1, <2>2, <2>3, <2>4
  <2>6. l \in D
    BY <1>0, <2>5
  <2> QED BY <2>2, <2>6
<1>6. IsFiniteSet(D) /\ Cardinality(D) = k - 1
  <2> DEFINE m == k - 1
  <2>1. m \in Nat
    BY <1>0
  <2> HIDE DEF m
  <2>2. IsFiniteSet(1..m) /\ Cardinality(1..m) = m
    BY <2>1, FS_Interval
  <2> QED BY <2>2 DEF m
<1> HIDE DEF f, A, D
<1>7. f \in Bijection(D, A)
  BY <1>3, <1>4, <1>5 DEF Bijection, Injection, Surjection, IsInjective
<1>8. Cardinality(A) = Cardinality(D)
  <2>1. ExistsBijection(D, A)
    BY <1>7 DEF ExistsBijection
  <2> QED BY <1>6, <2>1, FS_Bijection
<1> QED
  BY <1>6, <1>8 DEF A

LEMMA FirstWithSetlist ==
  ASSUME NEW c \in Seq(Comment)
  PROVE  LET Rank(i) == Cardinality({j \in DOMAIN c : Ahead(c, j, i)})
             usable == {i \in DOMAIN c : DetectInText(c[i].text) # <<>> /\ Rank(i) < TopComments}
             found == DetectInComments(c)
         IN IF usable = {} THEN found = <<>>
            ELSE \E i \in usable : /\ \A j \in usable : Rank(i) <= Rank(j)
                                   /\ found = DetectInText(c[i].text)
<1> DEFINE n == Len(c)
           Rank(i) == Cardinality({j \in DOMAIN c : Ahead(c, j, i)})
           Song(i) == DetectInText(c[i].text)
           usable == {i \in DOMAIN c : Song(i) # <<>> /\ Rank(i) < TopComments}
           found == DetectInComments(c)
           all == AllComments(c)
           t == IF Len(all) < TopComments THEN Len(all) ELSE TopComments
           top == Candidates(c)
           held == {k \in DOMAIN top : DetectInText(top[k].text) # <<>>}
<1>0. n \in Nat /\ DOMAIN c = 1..n /\ TopComments \in Nat
  BY TopCommentsAssumption
<1>1. all \in Seq(Comment) /\ Len(all) = n
  BY CommentsInOrder
<1>2. PICK p : RanksAll(p, c) /\ \A k \in 1..n : all[k] = c[p[k]]
  BY CommentsInOrder
<1>3. top = SubSeq(all, 1, t)
  BY Zenon DEF Candidates, AllComments
<1>4. found = IF held = {} THEN <<>> ELSE DetectInText(top[Min(held)].text)
  BY Zenon DEF DetectInComments
<1> HIDE DEF all, top, found
<1>5. t \in Nat /\ t <= n /\ t <= TopComments /\ (t = n \/ t = TopComments)
  BY <1>0, <1>1
<1> HIDE DEF t
<1>6. DOMAIN top = 1..t /\ \A k \in 1..t : top[k] = c[p[k]] /\ k \in 1..n
  <2>1. \A k \in 1..t : k \in 1..n /\ SubSeq(all, 1, t)[k] = all[k]
    BY <1>0, <1>1, <1>5
  <2>2. DOMAIN SubSeq(all, 1, t) = 1..t
    <3> HIDE DEF usable, held, n, Rank, Song
    <3>1. t \in 0..n
      BY <1>0, <1>5
    <3>2. Len(SubSeq(all, 1, t)) = t /\ SubSeq(all, 1, t) \in Seq(Comment)
      BY <1>0, <1>1, <3>1
    <3> QED BY <3>2
  <2> QED BY <1>2, <1>3, <2>1, <2>2
<1>7. \A k \in 1..n : p[k] \in DOMAIN c /\ Rank(p[k]) = k - 1
  <2>1. \A k \in 1..n : p[k] \in DOMAIN c
    BY <1>0, <1>2 DEF RanksAll
  <2> QED BY <1>2, <2>1, RankOfPosition
<1>8. \A i \in DOMAIN c : \E k \in 1..n : p[k] = i
  BY <1>0, <1>2 DEF RanksAll
<1> HIDE DEF n, Rank
<1>9. \A k \in 1..t : k \in held <=> p[k] \in usable
  <2>1. ASSUME NEW k \in 1..t  PROVE k \in held <=> p[k] \in usable
    <3>1. k \in DOMAIN top /\ DetectInText(top[k].text) = Song(p[k])
      BY <1>6
    <3>2. k \in 1..n /\ p[k] \in DOMAIN c /\ Rank(p[k]) < TopComments
      BY <1>0, <1>5, <1>6, <1>7
    <3> QED BY <3>1, <3>2
  <2> QED BY <2>1
<1>10. ASSUME NEW i \in usable  PROVE \E k \in held : p[k] = i
  <2>1. i \in DOMAIN c /\ Rank(i) < TopComments
    OBVIOUS
  <2>2. PICK k \in 1..n : p[k] = i
    BY <1>8, <2>1
  <2>3. k \in 1..t
    BY <1>0, <1>5, <1>7, <2>1, <2>2
  <2> QED BY <1>9, <2>2, <2>3
<1>11. held \in SUBSET (1..t)
  BY <1>6
<1> HIDE DEF held, usable
<1>12. CASE held = {}
  <2>1. usable = {}
    BY <1>10, <1>12
  <2> QED BY <1>4, <1>12, <2>1 DEF usable, found, Rank
<1>13. CASE held # {}
  <2>1. held \in SUBSET Nat
    BY <1>11
  <2>2. Min(held) \in held /\ \A k \in held : Min(held) <= k
    BY <1>13, <2>1, MinOf
  <2> DEFINE m == Min(held)
  <2> HIDE DEF m
  <2>3. m \in held /\ m \in 1..t /\ m \in 1..n /\ \A k \in held : m <= k
    BY <1>6, <1>11, <2>2 DEF m
  <2>4. p[m] \in usable /\ Rank(p[m]) = m - 1
    BY <1>7, <1>9, <2>3
  <2>5. found = Song(p[m])
    BY <1>4, <1>6, <1>13, <2>3 DEF m
  <2>6. ASSUME NEW j \in usable  PROVE Rank(p[m]) <= Rank(j)
    <3>1. PICK k \in held : p[k] = j
      BY <1>10
    <3>2. k \in 1..n /\ m <= k /\ Rank(j) = k - 1
      BY <1>6, <1>7, <1>11, <2>3, <3>1
    <3> QED BY <2>3, <2>4, <3>2
  <2>7. usable # {}
    BY <2>4
  <2> QED BY <2>4, <2>5, <2>6, <2>7 DEF usable, found, Rank
<1> QED
  BY <1>12, <1>13

\* BestComment, for any comments, any number of them and any bound on the
\* candidates.
THEOREM BestCommentWins == Spec => []BestComment
<1>1. TypedInputs => BestComment
  BY FirstWithSetlist DEF TypedInputs, BestComment
<1> QED
  BY <1>1, InputsTyped, PTL
=============================================================================
