-------------------------- MODULE RetentionProofs --------------------------
(***************************************************************************)
(* Theorems about Retention, for any streams, fragments, sizes, ages and   *)
(* thresholds.                                                             *)
(*                                                                         *)
(* The free space is a sum over the fragments, so the types rest on what a *)
(* sum does when one summand changes.  That is an induction over a finite  *)
(* set; it is written with a set in place of a predicate (SubsetInduction),*)
(* which follows from WFMin of WellFoundedInduction.                       *)
(*                                                                         *)
(* OldestFirst is not inductive: it compares what was deleted with what is *)
(* still in the list, and says nothing of the order of the list itself.    *)
(* The invariant adds that the list of the free-space pass falls in age    *)
(* (Falling), so that the head, which is deleted next, is no younger than  *)
(* what comes after it.  The ages are those of the listing: a fragment     *)
(* written to after it keeps its place.                                    *)
(*                                                                         *)
(* CountedIsGone is inductive with the types: it compares two sums, that   *)
(* of the space taken, which the pass reads once, and that of the sizes    *)
(* the directories show, which falls by what each unlink counts.           *)
(***************************************************************************)
EXTENDS Retention, FiniteSetTheorems, WellFoundedInduction, TLAPS

\* Every nonempty set of naturals has a least element.
LEMMA LeastNumber ==
  ASSUME NEW T \in SUBSET Nat, T # {}
  PROVE  \E n \in T : \A m \in T : n <= m
<1> DEFINE R == OpToRel(<, Nat)
<1>1. IsWellFoundedOn(R, Nat)
  BY NatLessThanWellFounded
<1>2. \A m, n \in Nat : m < n => <<m, n>> \in R
  BY DEF OpToRel
<1> HIDE DEF R
<1>3. \E n \in T : \A m \in T : <<m, n>> \notin R
  BY <1>1, WFMin, Zenon
<1>4. PICK n \in T : \A m \in T : <<m, n>> \notin R
  BY <1>3
<1>5. \A m \in T : ~(m < n)
  BY <1>2, <1>4
<1> QED
  BY <1>5

\* Induction over a finite set: what holds for the empty set, and for a set
\* when it holds for the set without any one element, holds for all subsets.
LEMMA SubsetInduction ==
  ASSUME NEW D, IsFiniteSet(D), NEW Q \in SUBSET (SUBSET D),
         \A s \in SUBSET D : (\A x \in s : s \ {x} \in Q) => s \in Q
  PROVE  Q = SUBSET D
<1> DEFINE Bad == (SUBSET D) \ Q
           T == {Cardinality(s) : s \in Bad}
<1>1. \A s \in SUBSET D : IsFiniteSet(s) /\ Cardinality(s) \in Nat
  BY FS_Subset, FS_CardinalityType
<1>2. SUFFICES ASSUME Bad # {}  PROVE FALSE
  OBVIOUS
<1>3. T \in SUBSET Nat /\ T # {}
  BY <1>1, <1>2
<1>4. PICK n \in T : \A m \in T : n <= m
  BY <1>3, LeastNumber
<1>5. PICK s \in Bad : Cardinality(s) = n
  BY <1>4
<1>6. PICK x \in s : s \ {x} \in Bad
  BY <1>5
<1>7. Cardinality(s \ {x}) = n - 1
  BY <1>1, <1>5, <1>6, FS_RemoveElement
<1>8. n <= n - 1
  BY <1>4, <1>6, <1>7
<1> QED
  BY <1>3, <1>4, <1>8

\* Induction over the naturals, in the form of a set.
LEMMA NumberInduction ==
  ASSUME NEW Q \in SUBSET Nat, 0 \in Q, \A n \in Q : n + 1 \in Q
  PROVE  Q = Nat
<1>1. SUFFICES ASSUME Nat \ Q # {}  PROVE FALSE
  OBVIOUS
<1>2. PICK n \in Nat \ Q : \A m \in Nat \ Q : n <= m
  BY <1>1, LeastNumber
<1>3. n - 1 \in Nat /\ n - 1 \in Q
  BY <1>2
<1>4. (n - 1) + 1 \in Q
  BY <1>3
<1> QED
  BY <1>2, <1>4

\* The function that SumFunction takes the value of at the whole domain: it
\* gives the sum of w over every subset of D, an element picked at a time.
Pick(s) == CHOOSE x \in s : TRUE
Sums(w, D, g) ==
  g = [s \in SUBSET D |-> IF s = {} THEN 0
                          ELSE w[Pick(s)] + g[s \ {Pick(s)}]]

\* There is such a function, by induction over the size of the subsets.
LEMMA SumsExist ==
  ASSUME NEW D, IsFiniteSet(D), NEW w
  PROVE  \E g : Sums(w, D, g)
<1> DEFINE Small(n) == {s \in SUBSET D : Cardinality(s) <= n}
           Val(s, g) == IF s = {} THEN 0 ELSE w[Pick(s)] + g[s \ {Pick(s)}]
           OK(n) == \E g : g = [s \in Small(n) |-> Val(s, g)]
           Q == {n \in Nat : OK(n)}
<1>1. \A s \in SUBSET D : IsFiniteSet(s) /\ Cardinality(s) \in Nat
                            /\ (Cardinality(s) = 0 <=> s = {})
  BY FS_Subset, FS_CardinalityType, FS_EmptySet
<1>2. OK(0)
  <2>1. Small(0) = {{}}
    BY <1>1
  <2> DEFINE g == [s \in {{}} |-> 0]
  <2>2. g = [s \in Small(0) |-> Val(s, g)]
    BY <2>1
  <2> QED BY <2>2
<1>3. ASSUME NEW n \in Nat, OK(n)  PROVE OK(n + 1)
  <2>1. PICK g : g = [s \in Small(n) |-> Val(s, g)]
    BY <1>3
  <2> DEFINE h == [s \in Small(n + 1) |-> Val(s, g)]
  <2>2. Small(n) \subseteq Small(n + 1)
    BY <1>1
  <2>3. \A s \in Small(n) : g[s] = h[s]
    <3>1. \A s \in Small(n) : g[s] = Val(s, g)
      BY <2>1, Zenon
    <3>2. \A s \in Small(n) : h[s] = Val(s, g)
      BY <2>2, Zenon
    <3> HIDE DEF Val, h
    <3> QED BY <3>1, <3>2
  <2>4. ASSUME NEW s \in Small(n + 1), s # {}
        PROVE  s \ {Pick(s)} \in Small(n)
    <3>1. Pick(s) \in s
      BY <2>4 DEF Pick
    <3>2. Cardinality(s \ {Pick(s)}) = Cardinality(s) - 1
      BY <1>1, <3>1, FS_RemoveElement
    <3> QED BY <1>1, <3>2
  <2>5. \A s \in Small(n + 1) : Val(s, g) = Val(s, h)
    <3> HIDE DEF h, Small
    <3> QED BY <2>3, <2>4
  <2>6. h = [s \in Small(n + 1) |-> Val(s, h)]
    <3> HIDE DEF Val
    <3> QED BY <2>5, Zenon
  <2> HIDE DEF h, Val, Small
  <2> QED BY <2>6
<1>4. Q = Nat
  <2> HIDE DEF OK
  <2>1. Q \in SUBSET Nat /\ 0 \in Q /\ \A n \in Q : n + 1 \in Q
    BY <1>2, <1>3
  <2> QED BY <2>1, NumberInduction
<1>5. Cardinality(D) \in Nat /\ Small(Cardinality(D)) = SUBSET D
  BY <1>1, FS_CardinalityType, FS_Subset
<1>6. OK(Cardinality(D))
  <2> HIDE DEF OK
  <2> QED BY <1>4, <1>5
<1> QED
  BY <1>5, <1>6 DEF Sums

LEMMA SumIsSums ==
  ASSUME NEW w, IsFiniteSet(DOMAIN w)
  PROVE  \E g : Sums(w, DOMAIN w, g) /\ SumFunction(w) = g[DOMAIN w]
<1> DEFINE it == CHOOSE g : Sums(w, DOMAIN w, g)
<1>1. Sums(w, DOMAIN w, it)
  BY SumsExist
<1>2. SumFunction(w) = it[DOMAIN w]
  BY Zenon DEF SumFunction, SumFunctionOnSet, FoldFunctionOnSet, MapThenFoldSet, Sums, Pick
<1> QED
  BY <1>1, <1>2

\* Two sums whose summands differ at f only.
LEMMA SumsDiffer ==
  ASSUME NEW D, IsFiniteSet(D), NEW v \in [D -> Int], NEW w \in [D -> Int],
         NEW f \in D, \A x \in D \ {f} : v[x] = w[x],
         NEW g, Sums(v, D, g), NEW h, Sums(w, D, h)
  PROVE  g[D] \in Int /\ h[D] \in Int /\ g[D] = h[D] + v[f] - w[f]
<1> DEFINE Q == {s \in SUBSET D :
                   /\ g[s] \in Int /\ h[s] \in Int
                   /\ g[s] = h[s] + IF f \in s THEN v[f] - w[f] ELSE 0}
<1>1. \A s \in SUBSET D :
        /\ g[s] = IF s = {} THEN 0 ELSE v[Pick(s)] + g[s \ {Pick(s)}]
        /\ h[s] = IF s = {} THEN 0 ELSE w[Pick(s)] + h[s \ {Pick(s)}]
  BY Zenon DEF Sums
<1>2. ASSUME NEW s \in SUBSET D, \A x \in s : s \ {x} \in Q
      PROVE  s \in Q
  <2>1. CASE s = {}
    <3>1. g[s] = 0 /\ h[s] = 0 /\ f \notin s
      BY <1>1, <2>1
    <3> QED BY <3>1
  <2>2. CASE s # {}
    <3> DEFINE p == Pick(s)
               t == s \ {p}
    <3>1. p \in s /\ t \in Q
      BY <1>2, <2>2 DEF Pick
    <3>2. g[s] = v[p] + g[t] /\ h[s] = w[p] + h[t]
      BY <1>1, <2>2
    <3>3. g[t] \in Int /\ h[t] \in Int /\ v[p] \in Int /\ w[p] \in Int /\ v[f] \in Int /\ w[f] \in Int
      BY <3>1
    <3>4. g[t] = h[t] + IF f \in t THEN v[f] - w[f] ELSE 0
      BY <3>1
    <3>5. p = f \/ (v[p] = w[p] /\ (f \in t <=> f \in s))
      BY <3>1
    <3>6. p = f => f \in s /\ f \notin t
      BY <3>1
    <3> HIDE DEF p, t, Q
    <3>7. g[s] \in Int /\ h[s] \in Int /\ g[s] = h[s] + IF f \in s THEN v[f] - w[f] ELSE 0
      BY <3>2, <3>3, <3>4, <3>5, <3>6
    <3> QED BY <3>7 DEF Q
  <2> QED BY <2>1, <2>2
<1>3. Q = SUBSET D
  <2>1. Q \in SUBSET (SUBSET D)
    OBVIOUS
  <2> HIDE DEF Q
  <2> QED BY <1>2, <2>1, SubsetInduction
<1>4. D \in Q
  BY <1>3
<1> QED
  BY <1>4

\* The sum changes by what its one changed summand does.
LEMMA SumChange ==
  ASSUME NEW D, IsFiniteSet(D), NEW v \in [D -> Int], NEW w \in [D -> Int],
         NEW f \in D, \A x \in D \ {f} : v[x] = w[x]
  PROVE  /\ SumFunction(v) \in Int /\ SumFunction(w) \in Int
         /\ SumFunction(v) = SumFunction(w) + v[f] - w[f]
<1>1. DOMAIN v = D /\ DOMAIN w = D
  OBVIOUS
<1>2. PICK g : Sums(v, D, g) /\ SumFunction(v) = g[D]
  BY <1>1, SumIsSums
<1>3. PICK h : Sums(w, D, h) /\ SumFunction(w) = h[D]
  BY <1>1, SumIsSums
<1> QED
  BY <1>2, <1>3, SumsDiffer

\* A sum of naturals is one, and is zero when they all are.
LEMMA SumNatural ==
  ASSUME NEW D, IsFiniteSet(D), NEW w \in [D -> Nat]
  PROVE  /\ SumFunction(w) \in Nat
         /\ (\A x \in D : w[x] = 0) => SumFunction(w) = 0
<1>1. DOMAIN w = D
  OBVIOUS
<1>2. PICK g : Sums(w, D, g) /\ SumFunction(w) = g[D]
  BY <1>1, SumIsSums
<1> DEFINE Q == {s \in SUBSET D : g[s] \in Nat /\ ((\A x \in D : w[x] = 0) => g[s] = 0)}
<1>3. \A s \in SUBSET D : g[s] = IF s = {} THEN 0 ELSE w[Pick(s)] + g[s \ {Pick(s)}]
  BY <1>2, Zenon DEF Sums
<1>4. ASSUME NEW s \in SUBSET D, \A x \in s : s \ {x} \in Q
      PROVE  s \in Q
  <2>1. CASE s = {}
    <3>1. g[s] = 0
      BY <1>3, <2>1
    <3> QED BY <3>1
  <2>2. CASE s # {}
    <3>1. Pick(s) \in s /\ s \ {Pick(s)} \in Q
      BY <1>4, <2>2 DEF Pick
    <3>2. g[s] = w[Pick(s)] + g[s \ {Pick(s)}] /\ w[Pick(s)] \in Nat
      BY <1>3, <2>2, <3>1
    <3> QED BY <3>1, <3>2
  <2> QED BY <2>1, <2>2
<1>5. Q = SUBSET D
  <2>1. Q \in SUBSET (SUBSET D)
    OBVIOUS
  <2> HIDE DEF Q
  <2> QED BY <1>4, <2>1, SubsetInduction
<1> QED
  BY <1>2, <1>5

-----------------------------------------------------------------------------
Fragment == [at : {"unborn", "linked", "gone"}, stream : Streams,
             age : 0..MaxAge, size : 0..MaxSize, open : BOOLEAN]
Deletion == [name : Names, size : 0..MaxSize]

\* A fragment that was never opened takes no space.
BlankIsClosed == \A f \in Names : Unborn(f) => ~frag[f].open

FragmentsTyped ==
  frag \in [Names -> Fragment] /\ FreeSpace \in 0..Capacity /\ BlankIsClosed

JobTyped ==
  /\ subs \in [Streams -> Retentions \cup {NoSub}]
  /\ auto \in BOOLEAN /\ autoRead \in BOOLEAN
  /\ pc \in {"idle", "age", "list", "free"}
  /\ pairs \subseteq Streams \X Retentions
  /\ todo \in Seq(Names) /\ IsInjective(todo)
  /\ free \in 0..(Target + MaxSize)
  /\ deleted \in Seq(Deletion)
  /\ cut \subseteq Names /\ written \in Nat

OnlyWhileFree == pc # "free" => deleted = <<>>

Falling ==
  pc = "free" => \A i, j \in DOMAIN todo : i < j => seen[todo[i]] >= seen[todo[j]]

Passed ==
  pc = "free" =>
    \A i \in DOMAIN deleted, j \in DOMAIN todo : seen[deleted[i].name] >= seen[todo[j]]

IInv == FragmentsTyped /\ JobTyped /\ OnlyWhileFree /\ Falling /\ Passed /\ NoMoreThanNeeded

-----------------------------------------------------------------------------
(***************************************************************************)
(* Fragments and the space they take.                                      *)
(***************************************************************************)
LEMMA GoneTyped ==
  /\ Gone \in Fragment /\ Gone.at = "gone" /\ ~Gone.open
  /\ Blank \in Fragment /\ ~Blank.open /\ Blank.at = "unborn"
<1> DEFINE s == CHOOSE t \in Streams : TRUE
<1>1. Gone = [at |-> "gone", stream |-> s, age |-> 0, size |-> 0, open |-> FALSE]
  BY Zenon DEF Gone
<1>2. s \in Streams
  BY StreamsAssumption
<1> HIDE DEF s
<1>3. 0 \in 0..MaxAge /\ 0 \in 0..MaxSize
  BY BoundsAssumption
<1>4. Gone \in Fragment /\ Gone.at = "gone" /\ ~Gone.open
  BY <1>1, <1>2, <1>3 DEF Fragment
<1> QED
  BY <1>4 DEF Blank, Fragment

\* A written fragment keeps its type, and grows by one at most.
LEMMA WrittenTyped ==
  ASSUME NEW g \in Fragment, g.open
  PROVE  /\ Written(g) \in Fragment /\ Written(g).at = g.at /\ Written(g).open
         /\ TakenBy(Written(g)) <= TakenBy(g) + 1
<1> DEFINE n == IF g.size < MaxSize THEN g.size + 1 ELSE g.size
           h == [g EXCEPT !.age = 0]
<1>1. n \in 0..MaxSize /\ n <= g.size + 1 /\ 0 \in 0..MaxAge
  BY BoundsAssumption DEF Fragment
<1> HIDE DEF n
<1>2. h \in Fragment /\ h.at = g.at /\ h.open
  BY <1>1 DEF Fragment
<1> HIDE DEF h
<1>3. /\ [h EXCEPT !.size = n] \in Fragment
      /\ [h EXCEPT !.size = n].at = g.at
      /\ [h EXCEPT !.size = n].open
      /\ [h EXCEPT !.size = n].size = n
  BY <1>1, <1>2 DEF Fragment
<1>4. Written(g) = [h EXCEPT !.size = n]
  BY Zenon DEF Written, h, n
<1> QED
  BY <1>1, <1>3, <1>4 DEF TakenBy

\* An unlinked fragment keeps its type, and takes no more space than before.
LEMMA UnlinkedTyped ==
  ASSUME NEW g \in Fragment
  PROVE  /\ Unlinked(g) \in Fragment /\ Unlinked(g).at = "gone"
         /\ TakenBy(Unlinked(g)) <= TakenBy(g)
<1>1. CASE g.open
  <2> DEFINE h == [g EXCEPT !.at = "gone"]
  <2>1. h \in Fragment /\ h.at = "gone" /\ h.open /\ h.size = g.size
    BY <1>1 DEF Fragment
  <2> HIDE DEF h
  <2>2. 0 \in 0..MaxAge
    BY BoundsAssumption
  <2>3. /\ [h EXCEPT !.age = 0] \in Fragment
        /\ [h EXCEPT !.age = 0].at = "gone"
        /\ [h EXCEPT !.age = 0].open
        /\ [h EXCEPT !.age = 0].size = g.size
    BY <2>1, <2>2 DEF Fragment
  <2>4. Unlinked(g) = [h EXCEPT !.age = 0]
    BY <1>1, Zenon DEF Unlinked, h
  <2>5. g.size \in Nat
    BY BoundsAssumption DEF Fragment
  <2> QED
    BY <1>1, <2>3, <2>4, <2>5 DEF TakenBy
<1>2. CASE ~g.open
  <2>1. Unlinked(g) = Gone
    BY <1>2 DEF Unlinked
  <2>2. TakenBy(Gone) = 0 /\ g.size \in Nat
    BY GoneTyped, BoundsAssumption DEF TakenBy, Fragment
  <2> QED
    BY <2>1, <2>2, GoneTyped DEF TakenBy
<1> QED
  BY <1>1, <1>2

LEMMA TakenIsNatural ==
  ASSUME NEW g \in Fragment
  PROVE  TakenBy(g) \in Nat
BY BoundsAssumption DEF TakenBy, Fragment

\* What one fragment takes more is what the file system has less.
LEMMA SpaceChanges ==
  ASSUME frag \in [Names -> Fragment], NEW f \in Names, NEW g \in Fragment,
         frag' = [frag EXCEPT ![f] = g], FreeSpace \in 0..Capacity,
         TakenBy(g) <= TakenBy(frag[f]) + FreeSpace
  PROVE  frag' \in [Names -> Fragment] /\ FreeSpace' \in 0..Capacity
<1> DEFINE w == [x \in Names |-> TakenBy(frag[x])]
           v == [x \in Names |-> TakenBy(frag'[x])]
<1>1. frag' \in [Names -> Fragment] /\ frag'[f] = g /\ \A x \in Names \ {f} : frag'[x] = frag[x]
  OBVIOUS
<1>2. w \in [Names -> Nat] /\ v \in [Names -> Nat]
  BY <1>1, TakenIsNatural
<1>5. w \in [Names -> Int] /\ v \in [Names -> Int]
  <2>1. \A x \in Names : w[x] \in Int /\ v[x] \in Int
    BY <1>2
  <2> QED BY <2>1
<1>3. v[f] = TakenBy(g) /\ w[f] = TakenBy(frag[f]) /\ \A x \in Names \ {f} : v[x] = w[x]
  BY <1>1
<1>4. FreeSpace = Capacity - SumFunction(w) /\ FreeSpace' = Capacity - SumFunction(v)
  BY DEF FreeSpace
<1> HIDE DEF v, w
<1>6. SumFunction(v) = SumFunction(w) + v[f] - w[f] /\ SumFunction(w) \in Int
  <2>1. IsFiniteSet(Names) /\ \A x \in Names \ {f} : v[x] = w[x]
    BY <1>3, NamesAssumption
  <2> QED BY <1>5, <2>1, SumChange, Zenon
<1>7. SumFunction(v) \in Nat
  BY <1>2, SumNatural, NamesAssumption, Zenon
<1>8. v[f] \in Nat /\ w[f] \in Nat /\ v[f] <= w[f] + FreeSpace
  BY <1>2, <1>3
<1>9. Capacity \in Nat
  BY RatiosAssumption
<1> QED
  BY <1>1, <1>4, <1>6, <1>7, <1>8, <1>9

\* The same fragment, as far as its space goes: nothing changes.
LEMMA SpaceStays ==
  ASSUME frag \in [Names -> Fragment], FreeSpace \in 0..Capacity,
         frag' \in [Names -> Fragment],
         \A f \in Names : TakenBy(frag'[f]) = TakenBy(frag[f])
  PROVE  FreeSpace' \in 0..Capacity
<1>1. [f \in Names |-> TakenBy(frag[f])]' = [f \in Names |-> TakenBy(frag[f])]
  OBVIOUS
<1> QED
  BY <1>1 DEF FreeSpace

LEMMA InitSpace ==
  ASSUME frag = [f \in Names |-> Blank]
  PROVE  frag \in [Names -> Fragment] /\ FreeSpace \in 0..Capacity
<1> DEFINE w == [f \in Names |-> TakenBy(frag[f])]
<1>1. w \in [Names -> Nat] /\ \A x \in Names : w[x] = 0
  BY GoneTyped DEF TakenBy
<1>2. FreeSpace = Capacity - SumFunction(w)
  BY DEF FreeSpace
<1> HIDE DEF w
<1>3. SumFunction(w) = 0
  BY <1>1, SumNatural, NamesAssumption
<1> QED
  BY <1>2, <1>3, GoneTyped, RatiosAssumption

-----------------------------------------------------------------------------
(***************************************************************************)
(* The lists.                                                              *)
(***************************************************************************)

\* SetToSeq of a finite set is a sequence of its elements, each once.
LEMMA SetToSeqType ==
  ASSUME NEW S, IsFiniteSet(S)
  PROVE  SetToSeq(S) \in Seq(S) /\ IsInjective(SetToSeq(S))
<1> DEFINE n == Cardinality(S)
<1>1. n \in Nat /\ ExistsBijection(1..n, S)
  BY FS_CardinalityType
<1>2. PICK g \in [1..n -> S] : IsInjective(g)
  BY <1>1, Zenon DEF ExistsBijection, Bijection, Injection
<1>3. SetToSeq(S) \in [1..n -> S] /\ IsInjective(SetToSeq(S))
  BY <1>2, Zenon DEF SetToSeq
<1> QED
  BY <1>1, <1>3

\* So is each member of SetToSeqs.
LEMMA SetToSeqsType ==
  ASSUME NEW S, IsFiniteSet(S), NEW s \in SetToSeqs(S)
  PROVE  s \in Seq(S) /\ IsInjective(s)
<1>1. Cardinality(S) \in Nat
  BY FS_CardinalityType
<1>2. s \in [1..Cardinality(S) -> S] /\ \A i, j \in 1..Cardinality(S) : i # j => s[i] # s[j]
  BY DEF SetToSeqs
<1> QED
  BY <1>1, <1>2 DEF IsInjective

LEMMA SeqOfSubset ==
  ASSUME NEW S, NEW T, S \subseteq T, NEW s \in Seq(S)
  PROVE  s \in Seq(T)
OBVIOUS

LEMMA TailInjective ==
  ASSUME NEW S, NEW s \in Seq(S), s # <<>>, IsInjective(s)
  PROVE  /\ Head(s) \in S /\ Tail(s) \in Seq(S) /\ IsInjective(Tail(s))
         /\ 1 \in DOMAIN s /\ Head(s) = s[1]
         /\ \A j \in DOMAIN Tail(s) :
              j \in Nat /\ j + 1 \in DOMAIN s /\ Tail(s)[j] = s[j + 1] /\ 1 < j + 1
<1>1. /\ Head(s) \in S /\ Tail(s) \in Seq(S)
      /\ 1 \in DOMAIN s /\ Head(s) = s[1]
      /\ \A j \in DOMAIN Tail(s) :
           j \in Nat /\ j + 1 \in DOMAIN s /\ Tail(s)[j] = s[j + 1] /\ 1 < j + 1
  OBVIOUS
<1>2. \A i, j \in DOMAIN Tail(s) : Tail(s)[i] = Tail(s)[j] => i + 1 = j + 1
  BY <1>1 DEF IsInjective
<1> QED
  BY <1>1, <1>2 DEF IsInjective

LEMMA AppendFacts ==
  ASSUME NEW S, NEW s \in Seq(S), NEW d \in S
  PROVE  /\ Append(s, d) \in Seq(S) /\ Append(s, d) # <<>> /\ Last(Append(s, d)) = d
         /\ \A i \in DOMAIN Append(s, d) :
              \/ i \in DOMAIN s /\ Append(s, d)[i] = s[i]
              \/ Append(s, d)[i] = d
BY DEF Last

LEMMA EmptyList == <<>> \in Seq(Names) /\ IsInjective(<<>>)
BY DEF IsInjective

-----------------------------------------------------------------------------
(***************************************************************************)
(* What happens to the fragments.                                          *)
(***************************************************************************)
\* One fragment is replaced by another that was opened before.
LEMMA OneReplaced ==
  ASSUME FragmentsTyped, NEW f \in Names, NEW g \in Fragment, g.at # "unborn",
         frag' = [frag EXCEPT ![f] = g],
         TakenBy(g) <= TakenBy(frag[f]) + FreeSpace
  PROVE  FragmentsTyped'
<1>1. frag' \in [Names -> Fragment] /\ FreeSpace' \in 0..Capacity
  BY SpaceChanges DEF FragmentsTyped
<1>2. BlankIsClosed'
  BY <1>1 DEF FragmentsTyped, BlankIsClosed, Unborn
<1> QED
  BY <1>1, <1>2 DEF FragmentsTyped

LEMMA UnlinkFragments ==
  ASSUME FragmentsTyped, NEW f \in Names, Unlink(f)
  PROVE  FragmentsTyped'
<1>1. frag[f] \in Fragment /\ FreeSpace \in Nat
  BY RatiosAssumption DEF FragmentsTyped
<1>2. Unlinked(frag[f]) \in Fragment /\ Unlinked(frag[f]).at = "gone"
      /\ TakenBy(Unlinked(frag[f])) <= TakenBy(frag[f])
  BY <1>1, UnlinkedTyped
<1>3. TakenBy(Unlinked(frag[f])) \in Nat /\ TakenBy(frag[f]) \in Nat
  BY <1>1, <1>2, TakenIsNatural
<1>4. TakenBy(Unlinked(frag[f])) <= TakenBy(frag[f]) + FreeSpace
  BY <1>1, <1>2, <1>3
<1> QED
  BY <1>2, <1>4, OneReplaced, Zenon DEF Unlink

LEMMA OpenFragments ==
  ASSUME FragmentsTyped, NEW f \in Names, NEW s \in Streams, Opens(f, s)
  PROVE  FragmentsTyped'
<1> DEFINE g == [at |-> "linked", stream |-> s, age |-> 0, size |-> 1, open |-> TRUE]
<1>1. g \in Fragment /\ g.at = "linked" /\ TakenBy(g) = 1
  BY BoundsAssumption DEF Fragment, TakenBy
<1>2. FreeSpace \in Nat /\ FreeSpace > 0 /\ frag' = [frag EXCEPT ![f] = g]
  BY RatiosAssumption DEF FragmentsTyped, Opens
<1>3. frag[f] \in Fragment /\ TakenBy(frag[f]) \in Nat
  BY TakenIsNatural DEF FragmentsTyped
<1>4. TakenBy(g) <= TakenBy(frag[f]) + FreeSpace /\ g.at # "unborn"
  BY <1>1, <1>2, <1>3
<1> HIDE DEF g
<1> QED
  BY <1>1, <1>2, <1>4, OneReplaced, Zenon

LEMMA WriteFragments ==
  ASSUME FragmentsTyped, NEW f \in Names, Writes(f)
  PROVE  FragmentsTyped'
<1>1. frag[f] \in Fragment /\ FreeSpace \in Nat /\ FreeSpace > 0 /\ frag[f].open
  BY RatiosAssumption DEF FragmentsTyped, Writes
<1>2. Written(frag[f]) \in Fragment /\ Written(frag[f]).at = frag[f].at
      /\ TakenBy(Written(frag[f])) <= TakenBy(frag[f]) + 1
  BY <1>1, WrittenTyped
<1>3. TakenBy(Written(frag[f])) \in Nat /\ TakenBy(frag[f]) \in Nat
  BY <1>1, <1>2, TakenIsNatural
<1>4. frag[f].at # "unborn"
  BY <1>1 DEF FragmentsTyped, BlankIsClosed, Unborn
<1>5. TakenBy(Written(frag[f])) <= TakenBy(frag[f]) + FreeSpace
  BY <1>1, <1>2, <1>3
<1>6. Written(frag[f]).at # "unborn"
  BY <1>2, <1>4
<1> QED
  BY <1>2, <1>5, <1>6, OneReplaced, Zenon DEF Writes

LEMMA CloseFragments ==
  ASSUME FragmentsTyped, NEW f \in Names, Closes(f) \/ Vanishes(f)
  PROVE  FragmentsTyped'
<1>1. frag[f] \in Fragment /\ FreeSpace \in Nat /\ TakenBy(frag[f]) \in Nat
  BY RatiosAssumption, TakenIsNatural DEF FragmentsTyped
<1>2. CASE frag' = [frag EXCEPT ![f] = Gone]
  <2>1. TakenBy(Gone) = 0
    BY GoneTyped DEF TakenBy
  <2>2. TakenBy(Gone) <= TakenBy(frag[f]) + FreeSpace /\ Gone.at # "unborn"
    BY <1>1, <2>1, GoneTyped
  <2> QED
    BY <1>2, <2>2, GoneTyped, OneReplaced, Zenon
<1>3. CASE Linked(f) /\ frag' = [frag EXCEPT ![f] = [frag[f] EXCEPT !.open = FALSE]]
  <2> DEFINE g == [frag[f] EXCEPT !.open = FALSE]
  <2>1. g \in Fragment /\ g.at = "linked" /\ g.size = frag[f].size
    BY <1>1, <1>3 DEF Fragment, Linked
  <2>2. TakenBy(g) = TakenBy(frag[f])
    BY <1>3, <2>1 DEF TakenBy, Linked
  <2> HIDE DEF g
  <2>3. frag' = [frag EXCEPT ![f] = g]
    BY <1>3 DEF g
  <2>4. TakenBy(g) <= TakenBy(frag[f]) + FreeSpace /\ g.at # "unborn"
    BY <1>1, <2>1, <2>2
  <2> QED
    BY <2>1, <2>3, <2>4, OneReplaced, Zenon
<1> QED
  BY <1>2, <1>3 DEF Closes, Vanishes

LEMMA AgeFragments ==
  ASSUME FragmentsTyped, Ageing
  PROVE  FragmentsTyped'
<1>1. \A f \in Names : frag[f] \in Fragment
  BY DEF FragmentsTyped
<1>2. ASSUME NEW f \in Names, Linked(f), frag[f].age < MaxAge
      PROVE  /\ [frag[f] EXCEPT !.age = @ + 1] \in Fragment
             /\ [frag[f] EXCEPT !.age = @ + 1].at = frag[f].at
             /\ TakenBy([frag[f] EXCEPT !.age = @ + 1]) = TakenBy(frag[f])
  <2> DEFINE n == frag[f].age + 1
             g == [frag[f] EXCEPT !.age = n]
  <2>1. frag[f] \in Fragment /\ n \in 0..MaxAge
    BY <1>1, <1>2, BoundsAssumption DEF Fragment
  <2> HIDE DEF n
  <2>2. /\ g \in Fragment /\ g.at = frag[f].at /\ g.open = frag[f].open
        /\ g.size = frag[f].size
    BY <2>1 DEF Fragment
  <2>3. TakenBy(g) = TakenBy(frag[f])
    BY <2>2, Zenon DEF TakenBy
  <2> QED
    BY <2>2, <2>3, Zenon DEF n
<1>3. \A f \in Names : /\ frag'[f] \in Fragment /\ frag'[f].at = frag[f].at
                       /\ TakenBy(frag'[f]) = TakenBy(frag[f])
  BY <1>1, <1>2 DEF Ageing
<1>4. frag' \in [Names -> Fragment]
  BY <1>3 DEF Ageing
<1>5. FreeSpace' \in 0..Capacity
  BY <1>3, <1>4, SpaceStays DEF FragmentsTyped
<1>6. BlankIsClosed'
  BY DEF FragmentsTyped, BlankIsClosed, Unborn, Linked, Ageing
<1> QED
  BY <1>4, <1>5, <1>6 DEF FragmentsTyped

-----------------------------------------------------------------------------
(***************************************************************************)
(* The invariant.                                                          *)
(***************************************************************************)
LEMMA InitIInv == Init => IInv
<1> SUFFICES ASSUME Init PROVE IInv
  OBVIOUS
<1>1. FragmentsTyped
  BY InitSpace, GoneTyped DEF Init, FragmentsTyped, BlankIsClosed
<1>2. todo = <<>> /\ deleted = <<>> /\ free = 0 /\ pc = "idle" /\ pairs = {}
  BY DEF Init
<1>3. JobTyped
  <2>1. free \in 0..(Target + MaxSize) /\ deleted \in Seq(Deletion)
    BY <1>2, BoundsAssumption, RatiosAssumption
  <2>2. /\ auto \in BOOLEAN /\ autoRead \in BOOLEAN /\ pairs \subseteq Streams \X Retentions
        /\ cut \subseteq Names /\ written \in Nat
    BY DEF Init
  <2> QED
    BY <1>2, <2>1, <2>2, EmptyList, Zenon DEF Init, JobTyped
<1> QED
  BY <1>1, <1>2, <1>3 DEF IInv, OnlyWhileFree, Falling, Passed, NoMoreThanNeeded

\* The end of the job forgets the list.
LEMMA IdleIInv ==
  ASSUME IInv, Idle, UNCHANGED conf, FragmentsTyped'
  PROVE  IInv'
<1>1. todo' = <<>> /\ deleted' = <<>> /\ free' = 0 /\ pc' = "idle" /\ pairs' = {}
      /\ autoRead' = FALSE /\ cut' = {} /\ written' = 0
  BY DEF Idle
<1>2. JobTyped'
  <2>1. free' \in 0..(Target + MaxSize) /\ deleted' \in Seq(Deletion)
    BY <1>1, BoundsAssumption, RatiosAssumption
  <2>2. /\ pairs' \subseteq Streams \X Retentions /\ autoRead' \in BOOLEAN
        /\ cut' \subseteq Names /\ written' \in Nat
    BY <1>1
  <2>3. subs' \in [Streams -> Retentions \cup {NoSub}] /\ auto' \in BOOLEAN
    BY DEF IInv, JobTyped, conf
  <2>4. todo' \in Seq(Names) /\ IsInjective(todo')
    BY <1>1, EmptyList
  <2> QED
    BY <1>1, <2>1, <2>2, <2>3, <2>4 DEF JobTyped
<1> QED
  BY <1>1, <1>2 DEF IInv, OnlyWhileFree, Falling, Passed, NoMoreThanNeeded

\* What happens beside the job changes neither its list nor the ages it saw.
LEMMA BesideIInv ==
  ASSUME IInv, UNCHANGED job, FragmentsTyped', cut' \subseteq Names, written' \in Nat,
         subs' \in [Streams -> Retentions \cup {NoSub}], auto' \in BOOLEAN
  PROVE  IInv'
BY DEF job, IInv, JobTyped, OnlyWhileFree, Falling, Passed, NoMoreThanNeeded

LEMMA AddsNatural ==
  ASSUME written \in Nat, NEW n \in Nat, Adds(n)
  PROVE  written' \in Nat
BY DEF Adds

\* A write makes a fragment no smaller.
LEMMA WrittenGrows ==
  ASSUME NEW g \in Fragment
  PROVE  /\ g.size \in Nat /\ Written(g).size \in Nat
         /\ Written(g).size - g.size \in Nat
<1> DEFINE n == IF g.size < MaxSize THEN g.size + 1 ELSE g.size
           h == [g EXCEPT !.age = 0]
<1>1. n \in 0..MaxSize /\ n - g.size \in Nat /\ g.size \in Nat
  BY BoundsAssumption DEF Fragment
<1> HIDE DEF n
<1>2. [h EXCEPT !.size = n].size = n
  BY DEF Fragment
<1>3. Written(g) = [h EXCEPT !.size = n]
  BY Zenon DEF Written, h, n
<1> QED
  BY <1>1, <1>2, <1>3, BoundsAssumption

LEMMA FragmentsStay ==
  ASSUME FragmentsTyped, UNCHANGED frag
  PROVE  FragmentsTyped'
BY DEF FragmentsTyped, FreeSpace, BlankIsClosed, Unborn

\* The sort: the list falls in the ages that are seen at this moment.
LEMMA SortIInv ==
  ASSUME IInv, FreeSorts
  PROVE  IInv'
<1>0. FragmentsTyped'
  BY FragmentsStay DEF IInv, FreeSorts
<1>1. CASE Idle /\ UNCHANGED conf
  BY <1>0, <1>1, IdleIInv
<1>2. ASSUME pc = "list",
             \A f \in ToSet(todo) : Linked(f),
             NEW s \in SetToSeqs(ToSet(todo)), ByAge(s), todo' = s,
             seen' = [f \in Names |-> IF Linked(f) THEN frag[f].age ELSE 0],
             pc' = "free",
             UNCHANGED <<autoRead, pairs, limit, cut, free, deleted, written, frag, conf>>
      PROVE  IInv'
  <2>1. ToSet(todo) \subseteq Names
    BY DEF IInv, JobTyped, ToSet
  <2>2. s \in Seq(ToSet(todo)) /\ IsInjective(s)
    BY <2>1, NamesAssumption, FS_Subset, SetToSeqsType
  <2>3. s \in Seq(Names)
    BY <2>1, <2>2, SeqOfSubset
  <2>4. \A i \in DOMAIN s : s[i] \in ToSet(todo) /\ s[i] \in Names
    BY <2>1, <2>2
  <2>5. \A i \in DOMAIN s : seen'[s[i]] = frag[s[i]].age
    BY <1>2, <2>4
  <2>6. Falling'
    BY <1>2, <2>5 DEF Falling, ByAge
  <2>7. deleted = <<>>
    BY <1>2 DEF IInv, OnlyWhileFree
  <2>8. JobTyped'
    BY <1>2, <2>2, <2>3 DEF IInv, JobTyped, conf
  <2> QED
    BY <1>0, <1>2, <2>6, <2>7, <2>8 DEF IInv, OnlyWhileFree, Passed, NoMoreThanNeeded
<1> QED
  BY <1>1, <1>2 DEF FreeSorts, conf

\* A turn of the free-space pass: the head is no younger than the rest, and
\* while the target is not reached one deletion is still needed.
LEMMA FreeFileIInv ==
  ASSUME IInv, FreeFile
  PROVE  IInv'
<1> DEFINE f == Head(todo)
<1>0. /\ pc = "free" /\ pc' = "free" /\ seen' = seen
      /\ todo \in Seq(Names) /\ todo # <<>> /\ todo' = Tail(todo) /\ IsInjective(todo)
      /\ FragmentsTyped /\ deleted \in Seq(Deletion)
      /\ UNCHANGED <<conf, autoRead, pairs, limit, cut, written>>
  BY DEF IInv, JobTyped, FreeFile
<1>1. /\ f \in Names /\ todo' \in Seq(Names) /\ IsInjective(todo')
      /\ 1 \in DOMAIN todo /\ f = todo[1]
      /\ \A j \in DOMAIN todo' :
           j \in Nat /\ j + 1 \in DOMAIN todo /\ todo'[j] = todo[j + 1] /\ 1 < j + 1
  BY <1>0, TailInjective
<1>2. Falling'
  <2>1. \A i, j \in DOMAIN todo' : i < j => i + 1 < j + 1
    BY <1>1
  <2> QED
    BY <1>0, <1>1, <2>1 DEF Falling, IInv
<1>3. \A j \in DOMAIN todo' : seen[f] >= seen[todo'[j]]
  BY <1>0, <1>1 DEF Falling, IInv
<1>4. CASE UNCHANGED <<frag, free, deleted>>
  <2>1. Passed'
    BY <1>0, <1>1, <1>4 DEF Passed, IInv
  <2>2. JobTyped'
    BY <1>0, <1>1, <1>4 DEF JobTyped, IInv, conf
  <2>3. FragmentsTyped'
    BY <1>0, <1>4, FragmentsStay
  <2>4. NoMoreThanNeeded'
    BY <1>4 DEF NoMoreThanNeeded, IInv
  <2> QED
    BY <1>0, <1>2, <2>1, <2>2, <2>3, <2>4 DEF IInv, OnlyWhileFree
<1>5. CASE /\ Unlink(f) /\ free' = free + frag[f].size
           /\ deleted' = Append(deleted, [name |-> f, size |-> frag[f].size])
  <2> DEFINE d == [name |-> f, size |-> frag[f].size]
  <2>1. FragmentsTyped'
    BY <1>0, <1>1, <1>5, UnlinkFragments
  <2>2. d \in Deletion /\ frag[f].size \in 0..MaxSize
    BY <1>0, <1>1 DEF Deletion, Fragment, FragmentsTyped
  <2>3. /\ deleted' \in Seq(Deletion) /\ deleted' # <<>> /\ Last(deleted') = d
        /\ \A i \in DOMAIN deleted' :
             \/ i \in DOMAIN deleted /\ deleted'[i] = deleted[i]
             \/ deleted'[i].name = f
    <3>1. d.name = f /\ deleted' = Append(deleted, d)
      BY <1>5
    <3> HIDE DEF f, d
    <3> QED
      BY <1>0, <2>2, <3>1, AppendFacts
  <2>4. Passed'
    <3> SUFFICES ASSUME NEW i \in DOMAIN deleted', NEW j \in DOMAIN todo'
                 PROVE  seen[deleted'[i].name] >= seen[todo'[j]]
      BY <1>0 DEF Passed
    <3>1. CASE i \in DOMAIN deleted /\ deleted'[i] = deleted[i]
      BY <1>0, <1>1, <3>1 DEF Passed, IInv
    <3>2. CASE deleted'[i].name = f
      BY <1>3, <3>2
    <3> QED
      BY <2>3, <3>1, <3>2
  <2>5. free \in Nat /\ free < Target
    BY BoundsAssumption, RatiosAssumption DEF IInv, JobTyped, FreeFile, Enough
  <2>s. /\ free' = free + d.size /\ d.size \in Nat /\ d.size <= MaxSize
         /\ Target \in Nat /\ MaxSize \in Nat
    BY <1>5, <2>2, BoundsAssumption, RatiosAssumption
  <2> HIDE DEF d
  <2>6. free' - d.size < Target
    BY <2>5, <2>s
  <2>7. free' \in 0..(Target + MaxSize)
    BY <2>5, <2>s
  <2>8. NoMoreThanNeeded'
    BY <2>3, <2>6 DEF NoMoreThanNeeded
  <2>9. JobTyped'
    BY <1>0, <1>1, <2>3, <2>7 DEF JobTyped, IInv, conf
  <2> QED
    BY <1>0, <1>2, <2>1, <2>4, <2>8, <2>9 DEF IInv, OnlyWhileFree
<1> QED
  BY <1>4, <1>5 DEF FreeFile

\* The pass before: nothing is sorted yet and nothing deleted by it.
LEMMA AgePassIInv ==
  ASSUME IInv, PruneBegins \/ TakePair \/ AgeFile \/ FreeChecks \/ FreeEnds
  PROVE  IInv'
<1>0. FragmentsTyped /\ JobTyped /\ (pc # "free" => deleted = <<>>)
  BY DEF IInv, OnlyWhileFree
<1>1. CASE PruneBegins
  <2>1. pairs' \subseteq Streams \X Retentions
    BY <1>0, <1>1 DEF PruneBegins, JobTyped
  <2>2. JobTyped'
    BY <1>0, <1>1, <2>1 DEF PruneBegins, JobTyped, conf
  <2> QED
    BY <1>0, <1>1, <2>2, FragmentsStay
    DEF PruneBegins, IInv, OnlyWhileFree, Falling, Passed, NoMoreThanNeeded
<1>2. CASE TakePair
  <2>1. PICK p \in pairs : pairs' = pairs \ {p}
          /\ cut' \subseteq Names
          /\ \E s \in SetToSeqs({f \in Names : Linked(f) /\ frag[f].stream = p[1]}) : todo' = s
    BY <1>2 DEF TakePair
  <2> DEFINE S == {f \in Names : Linked(f) /\ frag[f].stream = p[1]}
  <2>2. IsFiniteSet(S) /\ todo' \in SetToSeqs(S)
    BY <2>1, NamesAssumption, FS_Subset
  <2>3. todo' \in Seq(Names) /\ IsInjective(todo')
    BY <2>2, SetToSeqsType, SeqOfSubset
  <2>4. JobTyped'
    BY <1>0, <1>2, <2>1, <2>3 DEF TakePair, JobTyped, conf
  <2> QED
    BY <1>0, <1>2, <2>4, FragmentsStay
    DEF TakePair, IInv, OnlyWhileFree, Falling, Passed, NoMoreThanNeeded
<1>3. CASE AgeFile
  <2> DEFINE f == Head(todo)
  <2>0. f \in Names /\ Tail(todo) \in Seq(Names) /\ IsInjective(Tail(todo))
    BY <1>0, <1>3, TailInjective DEF AgeFile, JobTyped
  <2>1. CASE Idle /\ UNCHANGED frag
    BY <1>0, <1>3, <2>1, IdleIInv, FragmentsStay DEF AgeFile
  <2>2. ASSUME Unlink(f) \/ UNCHANGED frag, pc = "age", todo' = Tail(todo),
               cut' = cut \ {f},
               UNCHANGED <<pc, autoRead, pairs, limit, seen, free, deleted, written>>
        PROVE  IInv'
    <3>1. FragmentsTyped'
      BY <1>0, <2>0, <2>2, UnlinkFragments, FragmentsStay
    <3>2. JobTyped'
      BY <1>0, <1>3, <2>0, <2>2 DEF JobTyped, AgeFile, conf
    <3> QED
      BY <1>0, <2>2, <3>1, <3>2 DEF IInv, OnlyWhileFree, Falling, Passed, NoMoreThanNeeded
  <2> QED
    BY <1>3, <2>1, <2>2 DEF AgeFile
<1>4. CASE FreeChecks
  <2>1. CASE Idle
    BY <1>0, <1>4, <2>1, IdleIInv, FragmentsStay DEF FreeChecks
  <2>2. CASE pc' = "list" /\ FreeSpace < Low /\ free' = FreeSpace
             /\ todo' = SetToSeq({f \in Names : Linked(f)})
             /\ UNCHANGED <<autoRead, pairs, limit, cut, seen, deleted, written>>
    <3> DEFINE S == {f \in Names : Linked(f)}
    <3>1. IsFiniteSet(S)
      BY NamesAssumption, FS_Subset
    <3>2. todo' \in Seq(Names) /\ IsInjective(todo')
      BY <2>2, <3>1, SetToSeqType, SeqOfSubset
    <3>3. free' \in 0..(Target + MaxSize)
      BY <1>0, <2>2, BoundsAssumption, RatiosAssumption DEF FragmentsTyped
    <3>4. JobTyped'
      BY <1>0, <1>4, <2>2, <3>2, <3>3 DEF FreeChecks, JobTyped, conf
    <3>5. pc = "age"
      BY <1>4 DEF FreeChecks
    <3> QED
      BY <1>0, <1>4, <2>2, <3>4, <3>5, FragmentsStay
      DEF FreeChecks, IInv, OnlyWhileFree, Falling, Passed, NoMoreThanNeeded
  <2> QED
    BY <1>4, <2>1, <2>2 DEF FreeChecks
<1>5. CASE FreeEnds
  BY <1>0, <1>5, IdleIInv, FragmentsStay DEF FreeEnds
<1> QED
  BY <1>1, <1>2, <1>3, <1>4, <1>5

LEMMA NextIInv == IInv /\ [Next]_vars => IInv'
<1> SUFFICES ASSUME IInv, [Next]_vars PROVE IInv'
  OBVIOUS
<1>0. /\ FragmentsTyped /\ auto \in BOOLEAN
      /\ subs \in [Streams -> Retentions \cup {NoSub}]
      /\ cut \subseteq Names /\ written \in Nat
  BY DEF IInv, JobTyped
<1>1. ASSUME NEW f \in Names, NEW s \in Streams, Opens(f, s)
      PROVE  IInv'
  BY <1>0, <1>1, OpenFragments, AddsNatural, BesideIInv DEF Opens, conf
<1>2. ASSUME NEW f \in Names, Writes(f)
      PROVE  IInv'
  <2>1. Written(frag[f]).size - frag[f].size \in Nat
    BY <1>0, WrittenGrows DEF FragmentsTyped
  <2>2. written' \in Nat
    BY <1>0, <1>2, <2>1, AddsNatural DEF Writes
  <2>3. cut' \subseteq Names
    BY <1>0, <1>2 DEF Writes
  <2> QED
    BY <1>0, <1>2, <2>2, <2>3, WriteFragments, BesideIInv DEF Writes, conf
<1>3. ASSUME NEW f \in Names, Closes(f) \/ Vanishes(f)
      PROVE  IInv'
  BY <1>0, <1>3, CloseFragments, BesideIInv DEF Closes, Vanishes, conf
<1>4. CASE Ageing
  BY <1>0, <1>4, AgeFragments, BesideIInv DEF Ageing, conf
<1>5. ASSUME NEW s \in Streams, SetRetention(s)
      PROVE  IInv'
  <2>1. subs' \in [Streams -> Retentions \cup {NoSub}]
    BY <1>0, <1>5 DEF SetRetention
  <2> QED
    BY <1>0, <1>5, <2>1, FragmentsStay, BesideIInv DEF SetRetention
<1>6. CASE SetAuto
  BY <1>0, <1>6, FragmentsStay, BesideIInv DEF SetAuto
<1>7. CASE Prune
  BY <1>7, AgePassIInv, SortIInv, FreeFileIInv DEF Prune
<1>8. CASE UNCHANGED vars
  BY <1>0, <1>8, FragmentsStay, BesideIInv DEF vars, conf
<1> QED
  BY <1>1, <1>2, <1>3, <1>4, <1>5, <1>6, <1>7, <1>8 DEF Next

-----------------------------------------------------------------------------
\* The types, and the free space between nothing and the whole file system:
\* no open, write, unlink or close loses track of the space a fragment takes.
THEOREM TypeCorrect == Spec => []TypeOK
<1>1. IInv => TypeOK
  BY DEF IInv, FragmentsTyped, JobTyped, TypeOK, Fragment
<1> QED
  BY <1>1, InitIInv, NextIInv, PTL DEF Spec

\* The free-space pass deletes no fragment it does not need: before its last
\* deletion the space it counted was still below the target
\* (prune_oldest_until_free).
THEOREM OnlyWhatIsNeeded == Spec => []NoMoreThanNeeded
<1>1. IInv => NoMoreThanNeeded
  BY DEF IInv
<1> QED
  BY <1>1, InitIInv, NextIInv, PTL DEF Spec

\* The free-space pass of BufferManager deletes the oldest fragments of all
\* streams: nothing still in its list was, when it was sorted, older than
\* anything it has deleted.
THEOREM OldestGoFirst == Spec => []OldestFirst
<1>1. IInv => OldestFirst
  <2> SUFFICES ASSUME IInv, NEW i \in DOMAIN deleted, NEW g \in ToSet(todo)
               PROVE  seen[deleted[i].name] >= seen[g]
    BY DEF OldestFirst
  <2>1. pc = "free"
    BY DEF IInv, OnlyWhileFree
  <2>2. PICK j \in DOMAIN todo : g = todo[j]
    BY DEF ToSet
  <2> QED
    BY <2>1, <2>2 DEF IInv, Passed
<1> QED
  BY <1>1, InitIInv, NextIInv, PTL DEF Spec

-----------------------------------------------------------------------------
(***************************************************************************)
(* What the free-space pass counts.                                        *)
(***************************************************************************)
Shows(g) == IF g.at = "linked" THEN g.size ELSE 0

LEMMA ShowsNatural ==
  ASSUME NEW g \in Fragment
  PROVE  Shows(g) \in Nat /\ Shows(g) <= TakenBy(g)
BY BoundsAssumption DEF Shows, TakenBy, Fragment

LEMMA VisibleIsShown ==
  Visible = SumFunction([f \in Names |-> Shows(frag[f])])
BY DEF Visible, Shows, Linked

\* Summands that are no larger give a sum that is no larger.
LEMMA SumBelow ==
  ASSUME NEW D, IsFiniteSet(D), NEW v \in [D -> Nat], NEW w \in [D -> Nat],
         \A x \in D : v[x] <= w[x]
  PROVE  SumFunction(v) <= SumFunction(w)
<1>1. DOMAIN v = D /\ DOMAIN w = D
  OBVIOUS
<1>2. PICK g : Sums(v, D, g) /\ SumFunction(v) = g[D]
  BY <1>1, SumIsSums
<1>3. PICK h : Sums(w, D, h) /\ SumFunction(w) = h[D]
  BY <1>1, SumIsSums
<1> DEFINE Q == {s \in SUBSET D : g[s] \in Nat /\ h[s] \in Nat /\ g[s] <= h[s]}
<1>4. \A s \in SUBSET D :
        /\ g[s] = IF s = {} THEN 0 ELSE v[Pick(s)] + g[s \ {Pick(s)}]
        /\ h[s] = IF s = {} THEN 0 ELSE w[Pick(s)] + h[s \ {Pick(s)}]
  BY <1>2, <1>3, Zenon DEF Sums
<1>5. ASSUME NEW s \in SUBSET D, \A x \in s : s \ {x} \in Q
      PROVE  s \in Q
  <2>1. CASE s = {}
    <3>1. g[s] = 0 /\ h[s] = 0
      BY <1>4, <2>1
    <3> QED BY <3>1
  <2>2. CASE s # {}
    <3>1. Pick(s) \in s /\ s \ {Pick(s)} \in Q
      BY <1>5, <2>2 DEF Pick
    <3>2. /\ g[s] = v[Pick(s)] + g[s \ {Pick(s)}]
          /\ h[s] = w[Pick(s)] + h[s \ {Pick(s)}]
      BY <1>4, <2>2
    <3>3. v[Pick(s)] \in Nat /\ w[Pick(s)] \in Nat /\ v[Pick(s)] <= w[Pick(s)]
      BY <3>1
    <3> QED BY <3>1, <3>2, <3>3
  <2> QED BY <2>1, <2>2
<1>6. Q = SUBSET D
  <2>1. Q \in SUBSET (SUBSET D)
    OBVIOUS
  <2> HIDE DEF Q
  <2> QED BY <1>5, <2>1, SubsetInduction
<1> QED
  BY <1>2, <1>3, <1>6

\* What the directories hold changes by what one changed fragment shows.
LEMMA VisibleChanges ==
  ASSUME frag \in [Names -> Fragment], NEW f \in Names, NEW g \in Fragment,
         frag' = [frag EXCEPT ![f] = g]
  PROVE  /\ Visible \in Int /\ Visible' \in Int
         /\ Visible' = Visible + Shows(g) - Shows(frag[f])
<1> DEFINE w == [x \in Names |-> Shows(frag[x])]
           v == [x \in Names |-> Shows(frag'[x])]
<1>1. frag' \in [Names -> Fragment] /\ frag'[f] = g /\ \A x \in Names \ {f} : frag'[x] = frag[x]
  OBVIOUS
<1>2. \A x \in Names : w[x] \in Int /\ v[x] \in Int
  <2>1. \A x \in Names : Shows(frag[x]) \in Nat /\ Shows(frag'[x]) \in Nat
    BY <1>1, ShowsNatural
  <2> QED BY <2>1
<1>3. w \in [Names -> Int] /\ v \in [Names -> Int]
  BY <1>2
<1>4. v[f] = Shows(g) /\ w[f] = Shows(frag[f]) /\ \A x \in Names \ {f} : v[x] = w[x]
  BY <1>1
<1>5. Visible = SumFunction(w) /\ Visible' = SumFunction(v)
  BY Zenon DEF Visible, Shows, Linked
<1> HIDE DEF v, w
<1>6. /\ SumFunction(v) \in Int /\ SumFunction(w) \in Int
      /\ SumFunction(v) = SumFunction(w) + v[f] - w[f]
  <2>1. IsFiniteSet(Names) /\ \A x \in Names \ {f} : v[x] = w[x]
    BY <1>4, NamesAssumption
  <2> QED BY <1>3, <2>1, SumChange, Zenon
<1> QED
  BY <1>4, <1>5, <1>6

\* At the moment the pass reads the free space, no more is free than what the
\* directories leave: a fragment in them takes its space.
LEMMA FreeLeavesVisible ==
  ASSUME frag \in [Names -> Fragment]
  PROVE  FreeSpace <= Capacity - Visible /\ Visible \in Int
<1> DEFINE v == [x \in Names |-> Shows(frag[x])]
           w == [x \in Names |-> TakenBy(frag[x])]
<1>1. \A x \in Names : v[x] \in Nat /\ w[x] \in Nat /\ v[x] <= w[x]
  BY ShowsNatural, TakenIsNatural
<1>2. v \in [Names -> Nat] /\ w \in [Names -> Nat]
  BY <1>1
<1>3. Visible = SumFunction(v) /\ FreeSpace = Capacity - SumFunction(w)
  BY VisibleIsShown DEF FreeSpace
<1> HIDE DEF v, w
<1>4. SumFunction(v) \in Nat /\ SumFunction(w) \in Nat
  BY <1>2, SumNatural, NamesAssumption, Zenon
<1>5. SumFunction(v) <= SumFunction(w)
  BY <1>1, <1>2, SumBelow, NamesAssumption, Zenon
<1>6. Capacity \in Nat
  BY RatiosAssumption
<1> QED
  BY <1>3, <1>4, <1>5, <1>6

\* A step that leaves the pass where it is, and shows no more than was written.
LEMMA HonestBeside ==
  ASSUME IInv, CountedIsGone, pc' = pc, free' = free,
         NEW n \in Nat, Adds(n) \/ (n = 0 /\ written' = written),
         Visible \in Int, Visible' \in Int, Visible' <= Visible + n
  PROVE  CountedIsGone'
<1>1. free \in Int /\ Capacity \in Int /\ written \in Nat
  BY RatiosAssumption, BoundsAssumption DEF IInv, JobTyped
<1>2. pc \in {"list", "free"} => written' = written + n /\ free <= Capacity - Visible + written
  BY <1>1 DEF Adds, CountedIsGone
<1> HIDE DEF Visible
<1>3. pc \in {"list", "free"} => free' <= Capacity - Visible' + written'
  BY <1>1, <1>2
<1> QED
  BY <1>3 DEF CountedIsGone

LEMMA VisibleStays ==
  ASSUME UNCHANGED frag
  PROVE  Visible' = Visible
BY DEF Visible, Linked

LEMMA BesideHonest ==
  ASSUME IInv, CountedIsGone,
         \/ \E f \in Names, s \in Streams : Opens(f, s)
         \/ \E f \in Names : Writes(f) \/ Closes(f) \/ Vanishes(f)
         \/ Ageing
  PROVE  CountedIsGone'
<1>0. /\ frag \in [Names -> Fragment] /\ pc' = pc /\ free' = free
      /\ \A f \in Names : Shows(frag[f]) \in Nat
  BY ShowsNatural DEF IInv, FragmentsTyped, Opens, Writes, Closes, Vanishes, Ageing, job
<1>1. ASSUME NEW f \in Names, NEW s \in Streams, Opens(f, s)
      PROVE  CountedIsGone'
  <2> DEFINE g == [at |-> "linked", stream |-> s, age |-> 0, size |-> 1, open |-> TRUE]
  <2>1. g \in Fragment /\ Shows(g) = 1
    BY BoundsAssumption DEF Fragment, Shows
  <2>2. frag' = [frag EXCEPT ![f] = g] /\ Adds(1)
    BY <1>1 DEF Opens
  <2> HIDE DEF g
  <2>3. Visible \in Int /\ Visible' \in Int /\ Visible' = Visible + Shows(g) - Shows(frag[f])
    BY <1>0, <2>1, <2>2, VisibleChanges
  <2>4. Visible' <= Visible + 1
    BY <1>0, <2>1, <2>3
  <2> QED
    BY <1>0, <2>2, <2>3, <2>4, HonestBeside
<1>2. ASSUME NEW f \in Names, Writes(f)
      PROVE  CountedIsGone'
  <2> DEFINE g == Written(frag[f])
             n == g.size - frag[f].size
  <2>1. frag[f] \in Fragment /\ g \in Fragment /\ g.at = frag[f].at
    BY <1>0, <1>2, WrittenTyped DEF Writes
  <2>2. n \in Nat /\ frag[f].size \in Nat /\ g.size \in Nat
    BY <2>1, WrittenGrows
  <2>3. frag' = [frag EXCEPT ![f] = g] /\ Adds(n)
    BY <1>2 DEF Writes
  <2>4. Shows(g) <= Shows(frag[f]) + n /\ Shows(g) \in Nat
    BY <2>1, <2>2 DEF Shows
  <2> HIDE DEF g, n
  <2>5. Visible \in Int /\ Visible' \in Int /\ Visible' = Visible + Shows(g) - Shows(frag[f])
    BY <1>0, <2>1, <2>3, VisibleChanges
  <2>6. Visible' <= Visible + n
    BY <1>0, <2>2, <2>4, <2>5
  <2> QED
    BY <1>0, <2>2, <2>3, <2>5, <2>6, HonestBeside
<1>3. ASSUME NEW f \in Names, Closes(f) \/ Vanishes(f)
      PROVE  CountedIsGone'
  <2>1. PICK g \in Fragment : frag' = [frag EXCEPT ![f] = g] /\ Shows(g) <= Shows(frag[f])
    <3>1. CASE frag' = [frag EXCEPT ![f] = Gone]
      <4>1. Shows(Gone) = 0 /\ Shows(Gone) <= Shows(frag[f])
        BY <1>0, GoneTyped DEF Shows
      <4> QED
        BY <3>1, <4>1, GoneTyped
    <3>2. CASE frag' = [frag EXCEPT ![f] = [frag[f] EXCEPT !.open = FALSE]]
      <4> DEFINE h == [frag[f] EXCEPT !.open = FALSE]
      <4>1. h \in Fragment /\ h.at = frag[f].at /\ h.size = frag[f].size
        BY <1>0 DEF Fragment
      <4>2. Shows(h) = Shows(frag[f])
        BY <4>1 DEF Shows
      <4> HIDE DEF h
      <4>3. Shows(h) <= Shows(frag[f]) /\ frag' = [frag EXCEPT ![f] = h]
        BY <1>0, <3>2, <4>2 DEF h
      <4> QED
        BY <4>1, <4>3
    <3> QED
      BY <1>3, <3>1, <3>2 DEF Closes, Vanishes
  <2>2. Visible \in Int /\ Visible' \in Int /\ Visible' = Visible + Shows(g) - Shows(frag[f])
    BY <1>0, <2>1, VisibleChanges
  <2>3. Visible' <= Visible + 0 /\ written' = written
    BY <1>0, <1>3, <2>1, <2>2, ShowsNatural DEF Closes, Vanishes
  <2> QED
    BY <1>0, <2>2, <2>3, HonestBeside
<1>4. CASE Ageing
  <2>1. \A f \in Names : Shows(frag'[f]) = Shows(frag[f])
    <3> SUFFICES ASSUME NEW f \in Names PROVE Shows(frag'[f]) = Shows(frag[f])
      OBVIOUS
    <3>1. frag[f] \in Fragment
      BY <1>0
    <3>2. frag'[f] = frag[f] \/ frag'[f] = [frag[f] EXCEPT !.age = frag[f].age + 1]
      BY <1>4 DEF Ageing
    <3> QED
      BY <3>1, <3>2 DEF Shows, Fragment
  <2>2. [f \in Names |-> Shows(frag[f])]' = [f \in Names |-> Shows(frag[f])]
    BY <2>1
  <2>3. Visible' = SumFunction([f \in Names |-> Shows(frag[f])])'
    BY Zenon DEF Visible, Shows, Linked
  <2>4. Visible' = Visible
    BY <2>2, <2>3, VisibleIsShown
  <2>5. Visible \in Int /\ Visible' <= Visible + 0 /\ written' = written
    BY <1>0, <1>4, <2>4, FreeLeavesVisible DEF Ageing
  <2> QED
    BY <1>0, <2>4, <2>5, HonestBeside
<1> QED
  BY <1>1, <1>2, <1>3, <1>4 DEF IInv

\* A turn of the pass counts what it has taken out of the directory.
LEMMA FreeFileHonest ==
  ASSUME IInv, CountedIsGone, FreeFile
  PROVE  CountedIsGone'
<1> DEFINE f == Head(todo)
<1>0. /\ frag \in [Names -> Fragment] /\ f \in Names /\ free \in Int
      /\ pc = "free" /\ written' = written /\ written \in Nat
  BY BoundsAssumption, RatiosAssumption, TailInjective DEF IInv, JobTyped, FragmentsTyped, FreeFile
<1>1. CASE UNCHANGED <<frag, free>>
  BY <1>0, <1>1, VisibleStays DEF CountedIsGone
<1>2. CASE Linked(f) /\ Unlink(f) /\ free' = free + frag[f].size
  <2> DEFINE g == Unlinked(frag[f])
  <2>1. g \in Fragment /\ g.at = "gone"
    BY <1>0, UnlinkedTyped
  <2>2. Shows(g) = 0 /\ Shows(frag[f]) = frag[f].size /\ frag[f].size \in Nat
    BY <1>0, <1>2, <2>1, BoundsAssumption DEF Shows, Linked, Fragment
  <2>3. frag' = [frag EXCEPT ![f] = g]
    BY <1>2 DEF Unlink
  <2> HIDE DEF g
  <2>4. Visible \in Int /\ Visible' \in Int /\ Visible' = Visible + Shows(g) - Shows(frag[f])
    BY <1>0, <2>1, <2>3, VisibleChanges
  <2>5. Visible' = Visible - frag[f].size
    BY <2>2, <2>4
  <2>6. free <= Capacity - Visible + written
    BY <1>0 DEF CountedIsGone
  <2>7. free' <= Capacity - Visible' + written'
    BY <1>0, <1>2, <2>2, <2>4, <2>5, <2>6, RatiosAssumption
  <2> QED
    BY <2>7 DEF CountedIsGone
<1> QED
  BY <1>1, <1>2 DEF FreeFile

LEMMA NextHonest == IInv /\ CountedIsGone /\ [Next]_vars => CountedIsGone'
<1> SUFFICES ASSUME IInv, CountedIsGone, [Next]_vars PROVE CountedIsGone'
  OBVIOUS
<1>1. CASE Idle
  BY <1>1 DEF Idle, CountedIsGone
<1>2. CASE UNCHANGED <<frag, pc, free, written>>
  BY <1>2, VisibleStays DEF CountedIsGone
<1>3. CASE PruneBegins \/ TakePair
  <2>1. pc' = "age"
    BY <1>3 DEF PruneBegins, TakePair
  <2> QED
    BY <2>1 DEF CountedIsGone
<1>4. CASE AgeFile
  <2>1. Idle \/ pc' = "age"
    BY <1>4 DEF AgeFile
  <2> QED
    BY <1>1, <2>1 DEF CountedIsGone
<1>5. CASE FreeChecks
  <2>1. CASE pc' = "list" /\ free' = FreeSpace /\ UNCHANGED <<frag, written>>
    <3>1. FreeSpace <= Capacity - Visible /\ Visible \in Int /\ written \in Nat
      BY FreeLeavesVisible DEF IInv, FragmentsTyped, JobTyped
    <3>2. FreeSpace \in Int /\ Capacity \in Int
      BY RatiosAssumption DEF IInv, FragmentsTyped
    <3>3. free' <= Capacity - Visible' + written'
      BY <2>1, <3>1, <3>2, VisibleStays
    <3> QED
      BY <3>3 DEF CountedIsGone
  <2> QED
    BY <1>1, <1>5, <2>1 DEF FreeChecks
<1>6. CASE FreeSorts
  <2>1. CASE pc = "list" /\ UNCHANGED <<frag, free, written>>
    BY <2>1, VisibleStays DEF CountedIsGone
  <2> QED
    BY <1>1, <1>6, <2>1 DEF FreeSorts
<1>7. CASE FreeFile \/ FreeEnds
  BY <1>1, <1>7, FreeFileHonest DEF FreeEnds
<1>8. CASE (\E s \in Streams : SetRetention(s)) \/ SetAuto \/ UNCHANGED vars
  BY <1>2, <1>8 DEF SetRetention, SetAuto, vars, job
<1> QED
  BY <1>3, <1>4, <1>5, <1>6, <1>7, <1>8, BesideHonest DEF Next, Prune

\* The count of the free-space pass never runs ahead of what it has taken out
\* of the directories: a fragment that another hand removed, or that cannot be
\* unlinked, adds nothing (prune_oldest_until_free).
THEOREM CountIsHonest == Spec => []CountedIsGone
<1>1. Init => CountedIsGone
  BY DEF Init, CountedIsGone
<1> QED
  BY <1>1, InitIInv, NextIInv, NextHonest, PTL DEF Spec
=============================================================================
