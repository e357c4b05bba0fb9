--------------------------- MODULE AssertionsProofs ---------------------------
(***************************************************************************)
(* Proofs about Assertions, for every task and every answer that can be    *)
(* compared: what an assertion task accepts is what it claims, and what it *)
(* rejects is not.  Most of it is about the lists the code folds over;     *)
(* these are inductions over the length, done with sets of numbers.        *)
(***************************************************************************)
EXTENDS Assertions, FiniteSetTheorems, SequenceTheorems, TLAPS

\* Every task compares what it claims, whatever the service answers.
AllComparable == \A t \in Tasks : \A a \in Answers(t) : Comparable(t, a)

-----------------------------------------------------------------------------
(* Induction, and the ends of a set of numbers.                            *)

\* A set of numbers with 0 and with the successor of each of its members.
LEMMA NatSets ==
    ASSUME NEW S \in SUBSET Nat, 0 \in S, \A n \in S : n + 1 \in S
    PROVE  S = Nat
<1> DEFINE R == {p \in Nat \X Nat : p[1] < p[2]}
<1>1. IsWellFoundedOn(R, Nat)
  BY NatLessThanWellFounded DEF OpToRel
<1> SUFFICES ASSUME Nat \ S # {} PROVE FALSE
  OBVIOUS
<1> HIDE DEF R
<1>2. PICK x \in Nat \ S : \A y \in Nat \ S : ~(<<y, x>> \in R)
  BY <1>1, WFMin
<1>3. x - 1 \in Nat /\ x - 1 \notin S
  BY <1>2
<1>4. <<x - 1, x>> \in R
  BY <1>2, <1>3 DEF R
<1> QED BY <1>2, <1>3, <1>4

\* The largest of some numbers from 1 to k.
LEMMA Largest ==
    ASSUME NEW k \in Nat, NEW X \in SUBSET (1..k), X # {}
    PROVE  Max(X) \in X /\ \A x \in X : x <= Max(X)
<1> DEFINE Has(Y) == \E m \in Y : \A x \in Y : m >= x
           S == {n \in Nat : \A Y \in SUBSET (1..n) : Y # {} => Has(Y)}
<1>1. 0 \in S
  <2>1. 1..0 = {}
    OBVIOUS
  <2> QED BY <2>1
<1>2. ASSUME NEW n \in S PROVE n + 1 \in S
  <2> SUFFICES ASSUME NEW Y \in SUBSET (1..(n + 1)), Y # {} PROVE Has(Y)
    BY <1>2
  <2>1. CASE n + 1 \in Y
    BY <1>2, <2>1
  <2>2. CASE n + 1 \notin Y
    <3>1. Y \in SUBSET (1..n)
      BY <1>2, <2>2
    <3> QED BY <1>2, <3>1
  <2> QED BY <2>1, <2>2
<1>3. S = Nat
  <2> HIDE DEF S
  <2>1. S \in SUBSET Nat
    BY DEF S
  <2> QED BY <1>1, <1>2, <2>1, NatSets
<1>4. Has(X)
  BY <1>3
<1> QED BY <1>4 DEF Max

LEMMA LargestOfAll ==
    ASSUME NEW k \in Nat
    PROVE  Max(1..(k + 1)) = k + 1 /\ (1..(k + 1)) \ {k + 1} = 1..k
<1>1. k + 1 \in Nat /\ k + 1 \in 1..(k + 1) /\ 1..(k + 1) # {}
  OBVIOUS
<1>2. Max(1..(k + 1)) \in 1..(k + 1) /\ \A x \in 1..(k + 1) : x <= Max(1..(k + 1))
  BY <1>1, Largest
<1> QED BY <1>1, <1>2

\* Without its largest number a set of numbers from 1 to k + 1 is one from 1 to k.
LEMMA WithoutLargest ==
    ASSUME NEW k \in Nat, NEW X \in SUBSET (1..(k + 1)), X # {}
    PROVE  X \ {Max(X)} \in SUBSET (1..k) /\ Max(X) \in X
<1>1. k + 1 \in Nat
  OBVIOUS
<1>2. Max(X) \in X /\ \A x \in X : x <= Max(X)
  BY <1>1, Largest
<1>3. ASSUME NEW x \in X \ {Max(X)} PROVE x \in 1..k
  <2>1. x \in 1..(k + 1) /\ Max(X) \in 1..(k + 1)
    BY <1>2
  <2>2. x <= Max(X) /\ x # Max(X)
    BY <1>2
  <2> QED BY <2>1, <2>2
<1> QED BY <1>2, <1>3

\* The least of some numbers from 1 on.
LEMMA Least ==
    ASSUME NEW k \in Nat, NEW X \in SUBSET (1..k), X # {}
    PROVE  Min(X) \in X /\ \A x \in X : Min(X) <= x
<1> DEFINE Y == {k + 1 - x : x \in X}
<1>1. Y \in SUBSET (1..k) /\ Y # {}
  <2>1. \A x \in X : k + 1 - x \in 1..k
    OBVIOUS
  <2> QED BY <2>1
<1>2. Max(Y) \in Y /\ \A y \in Y : y <= Max(Y)
  <2> HIDE DEF Y
  <2> QED BY <1>1, Largest
<1>3. PICK x \in X : Max(Y) = k + 1 - x
  BY <1>2
<1>4. ASSUME NEW y \in X PROVE x <= y
  <2>1. k + 1 - y \in Y
    OBVIOUS
  <2>2. k + 1 - y <= k + 1 - x
    BY <1>2, <1>3, <2>1
  <2> QED BY <2>2
<1>5. \E m \in X : \A y \in X : m <= y
  BY <1>4
<1> QED BY <1>5 DEF Min

-----------------------------------------------------------------------------
(* Folds: a fold over a list goes through it from the left.                *)

\* The equation by which the fold is defined, over the positions of w.
Removals(g, s, w, D) ==
    g = [X \in SUBSET D |->
           IF X = {} THEN s ELSE RemoveFirst(g[X \ {Max(X)}], w[Max(X)])]

\* It has a solution.
LEMMA RemovalSolved ==
    ASSUME NEW s, NEW w, NEW k \in Nat
    PROVE  \E g : Removals(g, s, w, 1..k)
<1> DEFINE After(g, X) == IF X = {} THEN s ELSE RemoveFirst(g[X \ {Max(X)}], w[Max(X)])
           Solves(g, n) == Removals(g, s, w, 1..n)
           S == {n \in Nat : \E g : Solves(g, n)}
<1>1. 0 \in S
  <2> DEFINE g == [X \in SUBSET (1..0) |-> s]
  <2>1. \A X \in SUBSET (1..0) : X = {}
    OBVIOUS
  <2>2. Solves(g, 0)
    BY <2>1 DEF Removals
  <2> QED BY <2>2
<1>2. ASSUME NEW n \in S PROVE n + 1 \in S
  <2>1. n \in Nat /\ \E g : Solves(g, n)
    OBVIOUS
  <2>2. PICK g : Solves(g, n)
    BY <2>1
  <2> DEFINE h == [X \in SUBSET (1..(n + 1)) |-> After(g, X)]
  <2> HIDE DEF After
  <2>3. ASSUME NEW X \in SUBSET (1..n) PROVE h[X] = g[X]
    <3>1. X \in SUBSET (1..(n + 1))
      BY <2>1
    <3>2. g[X] = After(g, X)
      BY <2>2 DEF Removals, After
    <3> QED BY <3>1, <3>2
  <2>4. ASSUME NEW X \in SUBSET (1..(n + 1)) PROVE After(h, X) = After(g, X)
    <3>1. CASE X = {}
      BY <3>1 DEF After
    <3>2. CASE X # {}
      <4>1. X \ {Max(X)} \in SUBSET (1..n)
        BY <2>1, <3>2, WithoutLargest
      <4>2. h[X \ {Max(X)}] = g[X \ {Max(X)}]
        BY <2>3, <4>1
      <4> QED BY <4>2 DEF After
    <3> QED BY <3>1, <3>2
  <2>5. Solves(h, n + 1)
    BY <2>4 DEF Removals, After
  <2>6. \E q : Solves(q, n + 1)
    <3> HIDE DEF h, Solves
    <3> QED BY <2>5
  <2> HIDE DEF Solves
  <2> QED BY <2>1, <2>6
<1>3. S = Nat
  <2> HIDE DEF S
  <2>1. S \in SUBSET Nat
    BY DEF S
  <2> QED BY <1>1, <1>2, <2>1, NatSets
<1> QED BY <1>3

\* What the removal of the elements of w leaves of s.
Rest(s, w) == FoldLeft(RemoveFirst, s, w)

\* They are removed one after the other.
LEMMA RemovalSteps ==
    ASSUME NEW s, NEW w, NEW n \in Nat, DOMAIN w = 1..n
    PROVE  \E left : /\ left[0] = s
                     /\ \A k \in 0..(n - 1) : left[k + 1] = RemoveFirst(left[k], w[k + 1])
                     /\ Rest(s, w) = left[n]
<1> DEFINE g == CHOOSE iter : iter = [X \in SUBSET DOMAIN w |->
                   IF X = {} THEN s ELSE RemoveFirst(iter[X \ {Max(X)}], w[Max(X)])]
           left == [k \in 0..n |-> g[1..k]]
<1>1. Rest(s, w) = g[DOMAIN w]
  BY DEF Rest, FoldLeft, MapThenFoldSet
<1>2. g = [X \in SUBSET (1..n) |->
             IF X = {} THEN s ELSE RemoveFirst(g[X \ {Max(X)}], w[Max(X)])]
  <2>1. PICK q : Removals(q, s, w, 1..n)
    BY RemovalSolved
  <2> QED BY <2>1 DEF Removals
<1> HIDE DEF g
<1>3. left[0] = s
  <2>1. 1..0 = {} /\ 0 \in 0..n
    OBVIOUS
  <2> QED BY <1>2, <2>1
<1>4. ASSUME NEW k \in 0..(n - 1) PROVE left[k + 1] = RemoveFirst(left[k], w[k + 1])
  <2>1. k \in Nat /\ k \in 0..n /\ k + 1 \in 0..n /\ k + 1 <= n
    OBVIOUS
  <2>3. 1..(k + 1) \in SUBSET (1..n) /\ 1..(k + 1) # {}
    <3>1. \A i \in 1..(k + 1) : i \in 1..n
      BY <2>1
    <3>2. 1 \in 1..(k + 1)
      BY <2>1
    <3> QED BY <3>1, <3>2
  <2>2. Max(1..(k + 1)) = k + 1 /\ (1..(k + 1)) \ {k + 1} = 1..k
    BY <2>1, LargestOfAll
  <2> QED BY <1>2, <2>1, <2>2, <2>3
<1>5. left[n] = g[DOMAIN w]
  OBVIOUS
<1> QED BY <1>1, <1>3, <1>4, <1>5

-----------------------------------------------------------------------------
(* Lists with the same elements, each as many times.                       *)

Places(s, x) == {i \in DOMAIN s : s[i] = x}

Count(s, x) == Cardinality(Places(s, x))

LEMMA CountFacts ==
    ASSUME NEW V, NEW s \in Seq(V), NEW x
    PROVE  /\ IsFiniteSet(Places(s, x)) /\ Count(s, x) \in Nat
           /\ Count(s, x) = 0 <=> \A i \in 1..Len(s) : s[i] # x
<1>1. IsFiniteSet(1..Len(s)) /\ DOMAIN s = 1..Len(s)
  BY FS_Interval, LenProperties
<1>2. IsFiniteSet(Places(s, x))
  BY <1>1, FS_Subset DEF Places
<1>3. Cardinality(Places(s, x)) \in Nat
  BY <1>2, FS_CardinalityType
<1>4. Cardinality(Places(s, x)) = 0 <=> Places(s, x) = {}
  BY <1>2, FS_EmptySet
<1>5. Places(s, x) = {} <=> \A i \in 1..Len(s) : s[i] # x
  BY <1>1 DEF Places
<1> QED BY <1>2, <1>3, <1>4, <1>5 DEF Count

LEMMA RemoveAtFacts ==
    ASSUME NEW V, NEW s \in Seq(V), NEW k \in 1..Len(s)
    PROVE  /\ RemoveAt(s, k) \in Seq(V) /\ Len(RemoveAt(s, k)) = Len(s) - 1
           /\ \A i \in 1..(Len(s) - 1) : RemoveAt(s, k)[i] = IF i < k THEN s[i] ELSE s[i + 1]
<1> DEFINE a == SubSeq(s, 1, k - 1)
           b == SubSeq(s, k + 1, Len(s))
<1>1. Len(s) \in Nat /\ k \in Nat /\ 1 <= k /\ k <= Len(s)
  BY LenProperties
<1>2. /\ a \in Seq(V) /\ Len(a) = k - 1
      /\ \A i \in 1..(k - 1) : a[i] = s[i]
  BY <1>1
<1>3. /\ b \in Seq(V) /\ Len(b) = Len(s) - k
      /\ \A i \in 1..(Len(s) - k) : b[i] = s[k + i]
  BY <1>1
<1> HIDE DEF a, b
<1>4. /\ a \o b \in Seq(V) /\ Len(a \o b) = Len(s) - 1
      /\ \A i \in 1..(Len(s) - 1) : (a \o b)[i] = IF i <= k - 1 THEN a[i] ELSE b[i - (k - 1)]
  <2>1. /\ a \o b \in Seq(V) /\ Len(a \o b) = Len(a) + Len(b)
        /\ \A i \in 1..(Len(a) + Len(b)) : (a \o b)[i] = IF i <= Len(a) THEN a[i] ELSE b[i - Len(a)]
    BY <1>2, <1>3, ConcatProperties
  <2>2. Len(a) + Len(b) = Len(s) - 1 /\ Len(a) = k - 1
    BY <1>1, <1>2, <1>3
  <2> HIDE DEF a, b
  <2> QED BY <2>1, <2>2
<1>5. ASSUME NEW i \in 1..(Len(s) - 1)
      PROVE  (a \o b)[i] = IF i < k THEN s[i] ELSE s[i + 1]
  <2>1. CASE i < k
    BY <1>1, <1>2, <1>4, <2>1
  <2>2. CASE ~(i < k)
    <3>1. i - (k - 1) \in 1..(Len(s) - k) /\ k + (i - (k - 1)) = i + 1
      BY <1>1, <2>2
    <3>2. (a \o b)[i] = b[i - (k - 1)]
      BY <1>1, <1>4, <2>2
    <3>3. b[i - (k - 1)] = s[k + (i - (k - 1))]
      BY <1>3, <3>1
    <3> QED BY <1>1, <2>2, <3>1, <3>2, <3>3
  <2> QED BY <2>1, <2>2
<1>6. RemoveAt(s, k) = a \o b
  BY DEF RemoveAt, a, b
<1> QED BY <1>4, <1>5, <1>6

\* Taking out one of the places of a list.
LEMMA CountAfterRemoval ==
    ASSUME NEW V, NEW s \in Seq(V), NEW k \in 1..Len(s), NEW x
    PROVE  Count(RemoveAt(s, k), x) = IF x = s[k] THEN Count(s, x) - 1 ELSE Count(s, x)
<1> DEFINE r == RemoveAt(s, k)
           P == Places(s, x) \ {k}
           Back(i) == IF i < k THEN i ELSE i + 1
           f == [i \in Places(r, x) |-> Back(i)]
<1>1. /\ Len(s) \in Nat /\ DOMAIN s = 1..Len(s)
      /\ r \in Seq(V) /\ Len(r) = Len(s) - 1 /\ DOMAIN r = 1..(Len(s) - 1)
      /\ \A i \in 1..(Len(s) - 1) : r[i] = s[Back(i)]
  BY LenProperties, RemoveAtFacts
<1> HIDE DEF r
<1>2. f \in [Places(r, x) -> P]
  BY <1>1 DEF Places
<1>3. IsInjective(f)
  BY <1>1 DEF Places, IsInjective
<1>4. ASSUME NEW j \in P PROVE \E i \in Places(r, x) : f[i] = j
  <2> DEFINE i == IF j < k THEN j ELSE j - 1
  <2>1. i \in 1..(Len(s) - 1) /\ Back(i) = j
    BY <1>1 DEF Places
  <2>2. i \in Places(r, x)
    BY <1>1, <2>1 DEF Places
  <2> QED BY <2>1, <2>2
<1>5. f \in Bijection(Places(r, x), P)
  BY <1>2, <1>3, <1>4 DEF Bijection, Injection, Surjection
<1>6. IsFiniteSet(Places(s, x)) /\ IsFiniteSet(Places(r, x))
  BY <1>1, CountFacts
<1>7. Cardinality(P) = Count(r, x)
  BY <1>5, <1>6, FS_Bijection DEF ExistsBijection, Count
<1>8. Cardinality(P) = IF k \in Places(s, x) THEN Count(s, x) - 1 ELSE Count(s, x)
  BY <1>6, FS_RemoveElement DEF Count
<1>9. k \in Places(s, x) <=> x = s[k]
  BY <1>1 DEF Places
<1> QED BY <1>7, <1>8, <1>9 DEF r

\* RemoveFirst takes out one element that is there, or nothing.
LEMMA RemoveFirstFacts ==
    ASSUME NEW V, NEW s \in Seq(V), NEW e
    PROVE  /\ RemoveFirst(s, e) \in Seq(V)
           /\ Count(s, e) = 0 => RemoveFirst(s, e) = s
           /\ Count(s, e) # 0 =>
                /\ Len(RemoveFirst(s, e)) = Len(s) - 1
                /\ \A x : Count(RemoveFirst(s, e), x) = IF x = e THEN Count(s, x) - 1
                                                         ELSE Count(s, x)
<1>1. Len(s) \in Nat
  BY LenProperties
<1>2. CASE \E i \in 1..Len(s) : s[i] = e
  <2> DEFINE I == {i \in 1..Len(s) : s[i] = e}
             k == Min(I)
  <2>1. RemoveFirst(s, e) = RemoveAt(s, k)
    BY <1>2 DEF RemoveFirst, SelectInSeq
  <2>2. I \in SUBSET (1..Len(s)) /\ I # {}
    BY <1>2
  <2>3. k \in I
    <3> HIDE DEF I
    <3> QED BY <1>1, <2>2, Least
  <2> HIDE DEF k
  <2>4. k \in 1..Len(s) /\ s[k] = e
    BY <2>3
  <2>5. RemoveAt(s, k) \in Seq(V) /\ Len(RemoveAt(s, k)) = Len(s) - 1
    BY <2>4, RemoveAtFacts
  <2>6. Count(s, e) # 0
    BY <2>4, CountFacts
  <2> QED BY <2>1, <2>4, <2>5, <2>6, CountAfterRemoval
<1>3. CASE ~ \E i \in 1..Len(s) : s[i] = e
  BY <1>3, CountFacts DEF RemoveFirst
<1> QED BY <1>2, <1>3

\* How often x is among the first k elements of w.
Among(w, k, x) == {i \in 1..k : w[i] = x}

LEMMA AmongFacts ==
    ASSUME NEW V, NEW w \in Seq(V), NEW k \in 0..Len(w), NEW x
    PROVE  /\ Cardinality(Among(w, k, x)) \in Nat /\ Cardinality(Among(w, k, x)) <= Count(w, x)
           /\ Cardinality(Among(w, 0, x)) = 0 /\ Among(w, Len(w), x) = Places(w, x)
           /\ k < Len(w) => Cardinality(Among(w, k + 1, x)) =
                IF w[k + 1] = x THEN Cardinality(Among(w, k, x)) + 1
                ELSE Cardinality(Among(w, k, x))
<1>1. Len(w) \in Nat /\ DOMAIN w = 1..Len(w) /\ k \in Nat /\ k <= Len(w)
  BY LenProperties
<1>2. Among(w, k, x) \in SUBSET Places(w, x)
  BY <1>1 DEF Among, Places
<1>3. IsFiniteSet(Places(w, x))
  BY CountFacts
<1>4. /\ IsFiniteSet(Among(w, k, x)) /\ Cardinality(Among(w, k, x)) \in Nat
      /\ Cardinality(Among(w, k, x)) <= Count(w, x)
  BY <1>2, <1>3, FS_Subset, FS_CardinalityType DEF Count
<1>5. Among(w, 0, x) = {} /\ Among(w, Len(w), x) = Places(w, x)
  BY <1>1 DEF Among, Places
<1>6. ASSUME k < Len(w)
      PROVE  Cardinality(Among(w, k + 1, x)) =
               IF w[k + 1] = x THEN Cardinality(Among(w, k, x)) + 1
               ELSE Cardinality(Among(w, k, x))
  <2>1. CASE w[k + 1] = x
    <3>1. Among(w, k + 1, x) = Among(w, k, x) \cup {k + 1} /\ k + 1 \notin Among(w, k, x)
      BY <1>1, <2>1 DEF Among
    <3> QED BY <1>4, <2>1, <3>1, FS_AddElement
  <2>2. CASE w[k + 1] # x
    <3>1. Among(w, k + 1, x) = Among(w, k, x)
      BY <1>1, <2>2 DEF Among
    <3> QED BY <2>2, <3>1
  <2> QED BY <2>1, <2>2
<1>7. Cardinality(Among(w, 0, x)) = 0
  BY <1>5, FS_EmptySet
<1> QED BY <1>4, <1>5, <1>6, <1>7

\* Bags are equal when all elements are as often in both lists.
LEMMA BagsByCount ==
    ASSUME NEW V, NEW s \in Seq(V), NEW w \in Seq(V)
    PROVE  SameBag(w, s) <=> \A x \in V : Count(w, x) = Count(s, x)
<1>1. ASSUME NEW t \in Seq(V)
      PROVE  /\ ToBag(t) = [x \in Range(t) |-> Count(t, x)]
             /\ Range(t) \in SUBSET V
             /\ \A x \in V : x \in Range(t) <=> Count(t, x) # 0
  <2>1. DOMAIN t = 1..Len(t) /\ \A i \in DOMAIN t : t[i] \in V
    BY <1>1, LenProperties
  <2>2. ToBag(t) = [x \in Range(t) |-> Count(t, x)]
    BY DEF ToBag, Count, Places
  <2>3. \A x \in V : x \in Range(t) <=> \E i \in 1..Len(t) : t[i] = x
    BY <2>1 DEF Range
  <2>4. ASSUME NEW x \in V PROVE x \in Range(t) <=> Count(t, x) # 0
    <3>1. Count(t, x) = 0 <=> \A i \in 1..Len(t) : t[i] # x
      BY <1>1, CountFacts
    <3> QED BY <2>3, <3>1
  <2>5. Range(t) \in SUBSET V
    BY <2>1 DEF Range
  <2> QED BY <2>2, <2>4, <2>5
<1>2. ASSUME SameBag(w, s), NEW x \in V PROVE Count(w, x) = Count(s, x)
  <2>1. ToBag(w) = ToBag(s)
    BY <1>2 DEF SameBag
  <2>2. Range(w) = Range(s)
    BY <1>1, <2>1
  <2>3. CASE x \in Range(w)
    <3>1. ToBag(w)[x] = Count(w, x) /\ ToBag(s)[x] = Count(s, x)
      BY <1>1, <2>2, <2>3
    <3> QED BY <2>1, <3>1
  <2>4. CASE x \notin Range(w)
    BY <1>1, <2>2, <2>4
  <2> QED BY <2>3, <2>4
<1>3. ASSUME \A x \in V : Count(w, x) = Count(s, x) PROVE SameBag(w, s)
  <2>1. Range(w) = Range(s)
    BY <1>1, <1>3
  <2>2. \A x \in Range(w) : Count(w, x) = Count(s, x)
    BY <1>1, <1>3
  <2> QED BY <1>1, <2>1, <2>2 DEF SameBag
<1> QED BY <1>2, <1>3

\* Removing the elements of w from s leaves nothing of as long a list exactly if
\* the two have the same elements, each as many times.
LEMMA RemovedIsSame ==
    ASSUME NEW V, NEW s \in Seq(V), NEW w \in Seq(V)
    PROVE  Len(w) = Len(s) /\ Rest(s, w) = <<>> <=> SameBag(w, s)
<1> DEFINE n == Len(w)
           N(k, x) == Cardinality(Among(w, k, x))
<1>1. n \in Nat /\ Len(s) \in Nat /\ DOMAIN w = 1..n /\ \A k \in 1..n : w[k] \in V
  BY LenProperties
<1>2. PICK left : /\ left[0] = s
                  /\ \A k \in 0..(n - 1) : left[k + 1] = RemoveFirst(left[k], w[k + 1])
                  /\ Rest(s, w) = left[n]
  BY <1>1, RemovalSteps
<1> DEFINE Kept(k) == \A x \in V : Count(left[k], x) + N(k, x) = Count(s, x)
           Inv(k) == /\ left[k] \in Seq(V) /\ Len(left[k]) \in Nat /\ Len(left[k]) + k >= Len(s)
                     /\ Len(left[k]) + k = Len(s) => Kept(k)
                     /\ SameBag(w, s) => Len(left[k]) + k = Len(s)
<1>3. Inv(0)
  <2>1. \A x \in V : Count(s, x) \in Nat /\ N(0, x) = 0
    BY <1>1, CountFacts, AmongFacts
  <2> QED BY <1>1, <1>2, <2>1
<1>4. ASSUME NEW k \in Nat, k < n, Inv(k) PROVE Inv(k + 1)
  <2>1. k \in 0..n /\ k \in 0..(n - 1) /\ w[k + 1] \in V
    BY <1>1, <1>4
  <2> DEFINE l == left[k]
             r == left[k + 1]
             e == w[k + 1]
  <2>2. /\ r \in Seq(V)
        /\ Count(l, e) = 0 => r = l
        /\ Count(l, e) # 0 =>
             /\ Len(r) = Len(l) - 1
             /\ \A x : Count(r, x) = IF x = e THEN Count(l, x) - 1 ELSE Count(l, x)
    <3>1. r = RemoveFirst(l, e) /\ l \in Seq(V)
      BY <1>2, <1>4, <2>1
    <3> HIDE DEF l, r, e
    <3> QED BY <3>1, RemoveFirstFacts
  <2>3. \A x \in V : /\ N(k, x) \in Nat /\ N(k + 1, x) \in Nat /\ N(k + 1, x) <= Count(w, x)
                     /\ N(k + 1, x) = IF e = x THEN N(k, x) + 1 ELSE N(k, x)
    <3>1. k + 1 \in 0..n
      BY <1>1, <1>4
    <3> QED BY <1>1, <1>4, <2>1, <3>1, AmongFacts
  <2>4. \A x \in V : Count(l, x) \in Nat /\ Count(r, x) \in Nat /\ Count(s, x) \in Nat
    BY <1>4, <2>2, CountFacts
  <2>5. Len(r) \in Nat /\ Len(l) \in Nat
    BY <1>4, <2>2, LenProperties
  <2>6. /\ Len(l) + k >= Len(s)
        /\ Len(l) + k = Len(s) => \A x \in V : Count(l, x) + N(k, x) = Count(s, x)
        /\ SameBag(w, s) => Len(l) + k = Len(s)
        /\ e \in V /\ k \in Nat
    BY <1>4, <2>1
  <2> HIDE DEF l, r, e, N, n
  <2>7. Len(r) + (k + 1) >= Len(s)
    BY <1>1, <2>2, <2>5, <2>6
  <2>8. ASSUME Len(r) + (k + 1) = Len(s), NEW x \in V
        PROVE  Count(r, x) + N(k + 1, x) = Count(s, x)
    <3>1. Count(l, e) # 0 /\ Len(l) + k = Len(s)
      <4>1. Len(l) + k >= Len(s) /\ k \in Nat /\ Len(r) + (k + 1) = Len(s)
        BY <2>6, <2>8
      <4>2. Len(r) # Len(l)
        BY <1>1, <2>5, <4>1
      <4>3. Count(l, e) # 0 /\ Len(r) = Len(l) - 1
        BY <2>2, <4>2
      <4> QED BY <1>1, <2>5, <4>1, <4>3
    <3>2. Count(l, x) + N(k, x) = Count(s, x)
      BY <2>6, <3>1
    <3>3. N(k + 1, x) = IF e = x THEN N(k, x) + 1 ELSE N(k, x)
      BY <2>3, <2>8
    <3>4. Count(r, x) = IF x = e THEN Count(l, x) - 1 ELSE Count(l, x)
      BY <2>2, <3>1
    <3>5. N(k, x) \in Nat /\ Count(l, x) \in Nat /\ Count(s, x) \in Nat
      BY <2>3, <2>4, <2>8
    <3> QED BY <3>2, <3>3, <3>4, <3>5
  <2>9. ASSUME SameBag(w, s) PROVE Len(r) + (k + 1) = Len(s)
    <3>1. Len(l) + k = Len(s)
      BY <2>6, <2>9
    <3>2. Count(l, e) + N(k, e) = Count(s, e)
      BY <2>6, <3>1
    <3>3. Count(w, e) = Count(s, e)
      BY <2>6, <2>9, BagsByCount
    <3>4. Count(l, e) # 0
      <4>1. /\ N(k, e) \in Nat /\ N(k + 1, e) <= Count(w, e) /\ N(k + 1, e) = N(k, e) + 1
            /\ Count(l, e) \in Nat /\ Count(s, e) \in Nat
        BY <2>3, <2>4, <2>6
      <4> QED BY <3>2, <3>3, <4>1
    <3>5. Len(r) = Len(l) - 1
      BY <2>2, <3>4
    <3>6. Len(l) \in Nat /\ Len(s) \in Nat /\ k \in Nat
      BY <1>1, <2>5, <2>6
    <3> QED BY ONLY <3>1, <3>5, <3>6
  <2> QED BY <2>2, <2>5, <2>7, <2>8, <2>9 DEF r
<1>5. \A k \in Nat : k <= n => Inv(k)
  <2> HIDE DEF Inv
  <2> DEFINE S == {k \in Nat : k <= n => Inv(k)}
  <2>1. 0 \in S
    BY <1>3
  <2>2. ASSUME NEW k \in S PROVE k + 1 \in S
    BY <1>1, <1>4
  <2>3. S = Nat
    <3> HIDE DEF S
    <3>1. S \in SUBSET Nat
      BY DEF S
    <3> QED BY <2>1, <2>2, <3>1, NatSets
  <2> QED BY <2>3
<1>6. Inv(n)
  BY <1>1, <1>5
<1>7. ASSUME n = Len(s), left[n] = <<>> PROVE SameBag(w, s)
  <2>1. Kept(n)
    BY <1>1, <1>6, <1>7
  <2>2. ASSUME NEW x \in V PROVE Count(w, x) = Count(s, x)
    <3>1. Count(left[n], x) = 0
      <4>1. left[n] \in Seq(V) /\ Len(left[n]) = 0
        BY <1>6, <1>7, EmptySeq
      <4>2. \A i \in 1..Len(left[n]) : left[n][i] # x
        BY <4>1
      <4> QED BY <4>1, <4>2, CountFacts
    <3>2. N(n, x) = Count(w, x) /\ Count(w, x) \in Nat /\ Count(s, x) \in Nat
      BY <1>1, AmongFacts, CountFacts DEF Count
    <3> QED BY <2>1, <3>1, <3>2
  <2> QED BY <2>2, BagsByCount
<1>8. ASSUME SameBag(w, s) PROVE n = Len(s) /\ left[n] = <<>>
  <2>1. Len(left[n]) + n = Len(s) /\ Kept(n)
    BY <1>6, <1>8
  <2>2. ASSUME NEW i \in 1..Len(left[n]) PROVE FALSE
    <3>1. left[n][i] \in V
      BY <1>6
    <3>2. Count(left[n], left[n][i]) # 0 /\ Count(left[n], left[n][i]) \in Nat
      BY <1>6, CountFacts
    <3>3. N(n, left[n][i]) = Count(w, left[n][i]) /\ Count(w, left[n][i]) \in Nat
      BY <1>1, AmongFacts, CountFacts DEF Count
    <3>4. Count(w, left[n][i]) = Count(s, left[n][i])
      BY <1>8, <3>1, BagsByCount
    <3> QED BY <2>1, <3>1, <3>2, <3>3, <3>4
  <2>3. Len(left[n]) = 0
    BY <1>6, <2>2
  <2>4. left[n] = <<>>
    BY <1>6, <2>3, EmptySeq
  <2> QED BY <1>1, <2>1, <2>3, <2>4
<1> QED BY <1>2, <1>7, <1>8

-----------------------------------------------------------------------------
(* Sums over a list and over the set of its places.                        *)

Total(s, f) == FoldLeft(LAMBDA sum, c : sum + c[f], 0, s)

Sums(g, s, f, D) ==
    g = [X \in SUBSET D |-> IF X = {} THEN 0 ELSE g[X \ {Max(X)}] + s[Max(X)][f]]

LEMMA SumSolved ==
    ASSUME NEW s, NEW f, NEW k \in Nat
    PROVE  \E g : Sums(g, s, f, 1..k)
<1> DEFINE After(g, X) == IF X = {} THEN 0 ELSE g[X \ {Max(X)}] + s[Max(X)][f]
           Solves(g, n) == Sums(g, s, f, 1..n)
           S == {n \in Nat : \E g : Solves(g, n)}
<1>1. 0 \in S
  <2> DEFINE g == [X \in SUBSET (1..0) |-> 0]
  <2>1. \A X \in SUBSET (1..0) : X = {}
    OBVIOUS
  <2>2. Solves(g, 0)
    BY <2>1 DEF Sums
  <2> QED BY <2>2
<1>2. ASSUME NEW n \in S PROVE n + 1 \in S
  <2>1. n \in Nat /\ \E g : Solves(g, n)
    OBVIOUS
  <2>2. PICK g : Solves(g, n)
    BY <2>1
  <2> DEFINE h == [X \in SUBSET (1..(n + 1)) |-> After(g, X)]
  <2> HIDE DEF After
  <2>3. ASSUME NEW X \in SUBSET (1..n) PROVE h[X] = g[X]
    <3>1. X \in SUBSET (1..(n + 1))
      BY <2>1
    <3>2. g[X] = After(g, X)
      BY <2>2 DEF Sums, After
    <3> QED BY <3>1, <3>2
  <2>4. ASSUME NEW X \in SUBSET (1..(n + 1)) PROVE After(h, X) = After(g, X)
    <3>1. CASE X = {}
      BY <3>1 DEF After
    <3>2. CASE X # {}
      <4>1. X \ {Max(X)} \in SUBSET (1..n)
        BY <2>1, <3>2, WithoutLargest
      <4>2. h[X \ {Max(X)}] = g[X \ {Max(X)}]
        BY <2>3, <4>1
      <4> QED BY <4>2 DEF After
    <3> QED BY <3>1, <3>2
  <2>5. Solves(h, n + 1)
    BY <2>4 DEF Sums, After
  <2>6. \E q : Solves(q, n + 1)
    <3> HIDE DEF h, Solves
    <3> QED BY <2>5
  <2> HIDE DEF Solves
  <2> QED BY <2>1, <2>6
<1>3. S = Nat
  <2> HIDE DEF S
  <2>1. S \in SUBSET Nat
    BY DEF S
  <2> QED BY <1>1, <1>2, <2>1, NatSets
<1> QED BY <1>3

\* The sum of a list goes through it from the left.
RunningTotal(part, s, f, n) ==
    /\ part[0] = 0
    /\ \A k \in 0..(n - 1) : part[k + 1] = part[k] + s[k + 1][f]
    /\ Total(s, f) = part[n]

LEMMA TotalSteps ==
    ASSUME NEW s, NEW f, NEW n \in Nat, DOMAIN s = 1..n
    PROVE  \E part : RunningTotal(part, s, f, n)
<1> DEFINE g == CHOOSE iter : iter = [X \in SUBSET DOMAIN s |->
                   IF X = {} THEN 0 ELSE iter[X \ {Max(X)}] + s[Max(X)][f]]
           part == [k \in 0..n |-> g[1..k]]
<1>1. Total(s, f) = g[DOMAIN s]
  BY DEF Total, FoldLeft, MapThenFoldSet
<1>2. g = [X \in SUBSET (1..n) |-> IF X = {} THEN 0 ELSE g[X \ {Max(X)}] + s[Max(X)][f]]
  <2>1. PICK q : Sums(q, s, f, 1..n)
    BY SumSolved
  <2> QED BY <2>1 DEF Sums
<1> HIDE DEF g
<1>3. part[0] = 0
  <2>1. 1..0 = {} /\ 0 \in 0..n
    OBVIOUS
  <2> QED BY <1>2, <2>1
<1>4. ASSUME NEW k \in 0..(n - 1) PROVE part[k + 1] = part[k] + s[k + 1][f]
  <2>1. k \in Nat /\ k \in 0..n /\ k + 1 \in 0..n /\ k + 1 <= n
    OBVIOUS
  <2>2. Max(1..(k + 1)) = k + 1 /\ (1..(k + 1)) \ {k + 1} = 1..k
    BY <2>1, LargestOfAll
  <2>3. 1..(k + 1) \in SUBSET (1..n) /\ 1..(k + 1) # {}
    <3>1. \A i \in 1..(k + 1) : i \in 1..n
      BY <2>1
    <3>2. 1 \in 1..(k + 1)
      BY <2>1
    <3> QED BY <3>1, <3>2
  <2> QED BY <1>2, <2>1, <2>2, <2>3
<1>5. part[n] = g[DOMAIN s]
  OBVIOUS
<1>6. RunningTotal(part, s, f, n)
  <2> HIDE DEF part
  <2> QED BY <1>1, <1>3, <1>4, <1>5 DEF RunningTotal
<1> HIDE DEF part
<1> QED BY <1>6

\* The sum in whatever order: it takes one place out, any one.
AnyOf(X) == CHOOSE x \in X : TRUE

SetSums(g, s, f, D) ==
    g = [X \in SUBSET D |-> IF X = {} THEN 0 ELSE s[AnyOf(X)][f] + g[X \ {AnyOf(X)}]]

SetTotal(s, f) == MapThenSumSet(LAMBDA i : s[i][f], DOMAIN s)

LEMMA SetSumSolved ==
    ASSUME NEW s, NEW f, NEW D, IsFiniteSet(D)
    PROVE  \E g : SetSums(g, s, f, D)
<1> DEFINE After(g, X) == IF X = {} THEN 0 ELSE s[AnyOf(X)][f] + g[X \ {AnyOf(X)}]
           Upto(g, n) == \A X \in SUBSET D : Cardinality(X) <= n => g[X] = After(g, X)
           Solved(n) == \E g : Upto(g, n) /\ g = [X \in SUBSET D |-> g[X]]
           S == {n \in Nat : Solved(n)}
<1>1. \A X \in SUBSET D : IsFiniteSet(X) /\ Cardinality(X) \in Nat
  BY FS_Subset, FS_CardinalityType
<1>2. Solved(0)
  <2> DEFINE g == [X \in SUBSET D |-> 0]
  <2>1. \A X \in SUBSET D : Cardinality(X) <= 0 => X = {}
    BY <1>1, FS_EmptySet
  <2>2. Upto(g, 0)
    BY <2>1
  <2>3. g = [X \in SUBSET D |-> g[X]]
    OBVIOUS
  <2> HIDE DEF g, Upto
  <2> QED BY <2>2, <2>3
<1>3. ASSUME NEW n \in Nat, Solved(n) PROVE Solved(n + 1)
  <2>1. PICK g : Upto(g, n) /\ g = [X \in SUBSET D |-> g[X]]
    BY <1>3
  <2> DEFINE h == [X \in SUBSET D |-> IF Cardinality(X) <= n THEN g[X] ELSE After(g, X)]
  <2> HIDE DEF After
  <2>2. ASSUME NEW X \in SUBSET D, Cardinality(X) <= n + 1 PROVE h[X] = After(g, X)
    BY <2>1, <2>2
  <2>3. ASSUME NEW X \in SUBSET D, Cardinality(X) <= n + 1 PROVE After(h, X) = After(g, X)
    <3>1. CASE X = {}
      BY <3>1 DEF After
    <3>2. CASE X # {}
      <4>1. AnyOf(X) \in X
        BY <3>2 DEF AnyOf
      <4>2. /\ X \ {AnyOf(X)} \in SUBSET D
            /\ Cardinality(X \ {AnyOf(X)}) = Cardinality(X) - 1
        BY <1>1, <4>1, FS_RemoveElement
      <4>3. h[X \ {AnyOf(X)}] = g[X \ {AnyOf(X)}]
        BY <1>1, <1>3, <2>3, <4>2
      <4> QED BY <4>3 DEF After
    <3> QED BY <3>1, <3>2
  <2>4. Upto(h, n + 1)
    BY <2>2, <2>3
  <2>5. h = [X \in SUBSET D |-> h[X]]
    OBVIOUS
  <2> HIDE DEF h, Upto
  <2> QED BY <2>4, <2>5
<1>4. S = Nat
  <2> HIDE DEF Solved
  <2>1. S \in SUBSET Nat /\ 0 \in S /\ \A n \in S : n + 1 \in S
    BY <1>2, <1>3
  <2> HIDE DEF S
  <2> QED BY <2>1, NatSets
<1>5. PICK g : Upto(g, Cardinality(D)) /\ g = [X \in SUBSET D |-> g[X]]
  <2>1. Cardinality(D) \in Nat
    BY FS_CardinalityType
  <2> QED BY <1>4, <2>1
<1>6. \A X \in SUBSET D : Cardinality(X) <= Cardinality(D)
  BY FS_Subset
<1>7. g = [X \in SUBSET D |-> After(g, X)]
  BY <1>5, <1>6
<1> QED BY <1>7 DEF SetSums

\* A set sum loses just what the place taken out has.
Summable(s, f, D) == \A i \in D : s[i][f] \in Int

AddsUp(g, s, f, D) ==
    /\ g[{}] = 0
    /\ \A X \in SUBSET D : g[X] \in Int
    /\ \A X \in SUBSET D : \A x \in X : g[X] = s[x][f] + g[X \ {x}]

LEMMA SetSumStep ==
    ASSUME NEW s, NEW f, NEW D, NEW g,
           IsFiniteSet(D), SetSums(g, s, f, D), Summable(s, f, D)
    PROVE  AddsUp(g, s, f, D)
<1> DEFINE v(i) == s[i][f]
           Whole(n) == \A X \in SUBSET D : Cardinality(X) = n => g[X] \in Int
           Adds(n) == \A X \in SUBSET D : Cardinality(X) = n =>
                        \A x \in X : g[X] = v(x) + g[X \ {x}]
           S == {n \in Nat : Whole(n)}
           T == {n \in Nat : Adds(n)}
<1>1. ASSUME NEW X \in SUBSET D
      PROVE  /\ Cardinality(X) \in Nat /\ (Cardinality(X) = 0 <=> X = {})
             /\ \A x \in X : X \ {x} \in SUBSET D /\ Cardinality(X \ {x}) = Cardinality(X) - 1
  <2>1. IsFiniteSet(X)
    BY FS_Subset
  <2>2. ASSUME NEW x \in X PROVE Cardinality(X \ {x}) = Cardinality(X) - 1
    BY <2>1, FS_RemoveElement
  <2> QED BY <2>1, <2>2, FS_EmptySet, FS_CardinalityType
<1>2. g[{}] = 0
  BY DEF SetSums
<1>3. ASSUME NEW X \in SUBSET D, X # {}
      PROVE  AnyOf(X) \in X /\ g[X] = v(AnyOf(X)) + g[X \ {AnyOf(X)}]
  BY <1>3 DEF SetSums, AnyOf
<1>4. \A X \in SUBSET D : g[X] \in Int
  <2>1. 0 \in S
    <3>1. \A X \in SUBSET D : Cardinality(X) = 0 => g[X] = 0
      BY <1>1, <1>2
    <3> QED BY <3>1
  <2>2. ASSUME NEW n \in S PROVE n + 1 \in S
    <3> SUFFICES ASSUME NEW X \in SUBSET D, Cardinality(X) = n + 1 PROVE g[X] \in Int
      OBVIOUS
    <3>1. X # {}
      BY <1>1
    <3>2. AnyOf(X) \in X /\ g[X] = v(AnyOf(X)) + g[X \ {AnyOf(X)}]
      BY <1>3, <3>1
    <3>3. g[X \ {AnyOf(X)}] \in Int
      BY <1>1, <3>2
    <3>4. v(AnyOf(X)) \in Int
      BY <3>2 DEF Summable
    <3> QED BY <3>2, <3>3, <3>4
  <2>3. S = Nat
    <3> HIDE DEF S
    <3>1. S \in SUBSET Nat
      BY DEF S
    <3> QED BY <2>1, <2>2, <3>1, NatSets
  <2> QED BY <1>1, <2>3
<1>5. \A X \in SUBSET D : \A x \in X : g[X] = v(x) + g[X \ {x}]
  <2>1. 0 \in T
    BY <1>1
  <2>2. ASSUME NEW n \in T PROVE n + 1 \in T
    <3> SUFFICES ASSUME NEW X \in SUBSET D, Cardinality(X) = n + 1, NEW x \in X
                 PROVE  g[X] = v(x) + g[X \ {x}]
      OBVIOUS
    <3> DEFINE y == AnyOf(X)
    <3>1. y \in X /\ g[X] = v(y) + g[X \ {y}]
      BY <1>3
    <3> HIDE DEF y
    <3>2. CASE x = y
      BY <3>1, <3>2
    <3>3. CASE x # y
      <4>1. /\ X \ {x} \in SUBSET D /\ Cardinality(X \ {x}) = n /\ y \in X \ {x}
            /\ X \ {y} \in SUBSET D /\ Cardinality(X \ {y}) = n /\ x \in X \ {y}
        BY <1>1, <3>1, <3>3
      <4>2. g[X \ {y}] = v(x) + g[(X \ {y}) \ {x}]
        BY <4>1
      <4>3. g[X \ {x}] = v(y) + g[(X \ {x}) \ {y}]
        BY <4>1
      <4>4. (X \ {y}) \ {x} = (X \ {x}) \ {y}
        OBVIOUS
      <4>5. g[(X \ {x}) \ {y}] \in Int
        BY <1>4
      <4>6. v(x) \in Int /\ v(y) \in Int
        BY <3>1 DEF Summable
      <4>7. \A m, k, p \in Int : m + (k + p) = k + (m + p)
        OBVIOUS
      <4>8. g[(X \ {y}) \ {x}] = g[(X \ {x}) \ {y}]
        BY <4>4
      <4>9. v(y) + (v(x) + g[(X \ {x}) \ {y}]) = v(x) + (v(y) + g[(X \ {x}) \ {y}])
        BY <4>5, <4>6, <4>7, Zenon
      <4>10. g[X] = v(y) + (v(x) + g[(X \ {x}) \ {y}])
        BY <3>1, <4>2, <4>8
      <4>11. g[X] = v(x) + (v(y) + g[(X \ {x}) \ {y}])
        BY <4>9, <4>10
      <4> QED BY <4>3, <4>11
    <3> QED BY <3>2, <3>3
  <2>3. T = Nat
    <3> HIDE DEF T
    <3>1. T \in SUBSET Nat
      BY DEF T
    <3> QED BY <2>1, <2>2, <3>1, NatSets
  <2> QED BY <1>1, <2>3
<1> QED BY <1>2, <1>4, <1>5 DEF AddsUp

\* The sum of a list is the sum of its elements in whatever order.
LEMMA SumsAgree ==
    ASSUME NEW s, NEW f, NEW n \in Nat, DOMAIN s = 1..n, Summable(s, f, 1..n)
    PROVE  Total(s, f) = SetTotal(s, f)
<1> DEFINE g == CHOOSE iter : iter = [X \in SUBSET DOMAIN s |->
                   IF X = {} THEN 0 ELSE s[AnyOf(X)][f] + iter[X \ {AnyOf(X)}]]
<1>0. IsFiniteSet(1..n)
  BY FS_Interval
<1>1. SetTotal(s, f) = g[DOMAIN s]
  BY DEF SetTotal, MapThenSumSet, MapThenFoldSet, AnyOf
<1>2. SetSums(g, s, f, 1..n)
  <2>1. PICK q : SetSums(q, s, f, 1..n)
    BY <1>0, SetSumSolved
  <2> QED BY <2>1 DEF SetSums
<1> HIDE DEF g
<1>3. /\ g[{}] = 0
      /\ \A X \in SUBSET (1..n) : g[X] \in Int
      /\ \A X \in SUBSET (1..n) : \A x \in X : g[X] = s[x][f] + g[X \ {x}]
  <2> DEFINE D == 1..n
  <2>1. IsFiniteSet(D) /\ SetSums(g, s, f, D) /\ Summable(s, f, D)
    BY <1>0, <1>2
  <2> HIDE DEF D
  <2>2. AddsUp(g, s, f, D)
    BY <2>1, SetSumStep
  <2> QED BY <2>2 DEF AddsUp, D
<1>4. PICK part : /\ part[0] = 0
                  /\ \A k \in 0..(n - 1) : part[k + 1] = part[k] + s[k + 1][f]
                  /\ Total(s, f) = part[n]
  BY TotalSteps DEF RunningTotal
<1> DEFINE S == {k \in Nat : k <= n => part[k] = g[1..k]}
<1>5. 0 \in S
  <2>1. 1..0 = {}
    OBVIOUS
  <2> QED BY <1>3, <1>4, <2>1
<1>6. ASSUME NEW k \in S PROVE k + 1 \in S
  <2> SUFFICES ASSUME k + 1 <= n PROVE part[k + 1] = g[1..(k + 1)]
    BY <1>6
  <2>1. k \in Nat /\ k \in 0..(n - 1) /\ k + 1 \in 1..n /\ k + 1 \in 1..(k + 1)
    BY <1>6
  <2>2. 1..(k + 1) \in SUBSET (1..n) /\ 1..k \in SUBSET (1..n)
    BY <2>1
  <2>3. (1..(k + 1)) \ {k + 1} = 1..k
    BY <2>1
  <2>4. g[1..(k + 1)] = s[k + 1][f] + g[1..k]
    <3>1. g[1..(k + 1)] = s[k + 1][f] + g[(1..(k + 1)) \ {k + 1}]
      BY <1>3, <2>1, <2>2
    <3> QED BY <2>3, <3>1
  <2>5. part[k + 1] = g[1..k] + s[k + 1][f]
    BY <1>4, <1>6, <2>1
  <2>6. g[1..k] \in Int /\ s[k + 1][f] \in Int
    BY <1>3, <2>1, <2>2 DEF Summable
  <2> QED BY <2>4, <2>5, <2>6
<1>7. n \in S
  <2> HIDE DEF S
  <2>1. S \in SUBSET Nat
    BY DEF S
  <2> QED BY <1>5, <1>6, <2>1, NatSets
<1> QED BY <1>1, <1>4, <1>7

-----------------------------------------------------------------------------
(* Flattening a list of lists.                                             *)

Flattened(g, s, n) ==
    g = [i \in 1..n |-> IF i = 1 THEN s[i] ELSE g[i - 1] \o s[i]]

LEMMA FlattenSolved ==
    ASSUME NEW s, NEW n \in Nat
    PROVE  \E g : Flattened(g, s, n)
<1> DEFINE S == {k \in Nat : \E g : Flattened(g, s, k)}
<1>1. 0 \in S
  <2> DEFINE g == [i \in 1..0 |-> s]
  <2>1. 1..0 = {}
    OBVIOUS
  <2>2. Flattened(g, s, 0)
    BY <2>1 DEF Flattened
  <2> HIDE DEF g
  <2> QED BY <2>2
<1>2. ASSUME NEW k \in S PROVE k + 1 \in S
  <2>1. PICK g : Flattened(g, s, k)
    BY <1>2
  <2> DEFINE After(q, i) == IF i = 1 THEN s[i] ELSE q[i - 1] \o s[i]
             h == [i \in 1..(k + 1) |-> After(g, i)]
  <2>2. ASSUME NEW i \in 1..k PROVE h[i] = g[i]
    <3>1. i \in 1..(k + 1)
      BY <1>2
    <3> QED BY <2>1, <3>1 DEF Flattened
  <2>3. ASSUME NEW i \in 1..(k + 1) PROVE After(h, i) = After(g, i)
    <3>1. i # 1 => i - 1 \in 1..k
      BY <1>2
    <3>2. i # 1 => h[i - 1] = g[i - 1]
      BY <2>2, <3>1
    <3> HIDE DEF h
    <3> QED BY <3>2
  <2>4. Flattened(h, s, k + 1)
    BY <2>3 DEF Flattened
  <2> HIDE DEF h
  <2> QED BY <1>2, <2>4
<1>3. S = Nat
  <2> HIDE DEF S
  <2>1. S \in SUBSET Nat
    BY DEF S
  <2> QED BY <1>1, <1>2, <2>1, NatSets
<1> QED BY <1>3

\* A list of lists flattens to a list.
LEMMA FlattenType ==
    ASSUME NEW V, NEW s \in Seq(Seq(V))
    PROVE  FlattenSeq(s) \in Seq(V)
<1>1. Len(s) \in Nat /\ DOMAIN s = 1..Len(s) /\ \A i \in 1..Len(s) : s[i] \in Seq(V)
  BY LenProperties
<1>2. CASE Len(s) = 0
  <2>1. s = <<>>
    BY <1>2
  <2>2. FlattenSeq(s) = <<>>
    BY <1>2, <2>1 DEF FlattenSeq
  <2> QED BY <2>2
<1>3. CASE Len(s) # 0
  <2> DEFINE n == Len(s)
             g == CHOOSE flatten : flatten = [i \in 1..n |->
                     IF i = 1 THEN s[i] ELSE flatten[i - 1] \o s[i]]
  <2>1. FlattenSeq(s) = g[n]
    BY <1>3 DEF FlattenSeq
  <2>2. g = [i \in 1..n |-> IF i = 1 THEN s[i] ELSE g[i - 1] \o s[i]]
    <3>1. PICK q : Flattened(q, s, n)
      BY <1>1, FlattenSolved
    <3> QED BY <3>1 DEF Flattened
  <2> HIDE DEF g
  <2> DEFINE S == {k \in Nat : k \in 1..n => g[k] \in Seq(V)}
  <2>3. 0 \in S
    OBVIOUS
  <2>4. ASSUME NEW k \in S PROVE k + 1 \in S
    <3> SUFFICES ASSUME k + 1 \in 1..n PROVE g[k + 1] \in Seq(V)
      BY <2>4
    <3>1. CASE k = 0
      BY <1>1, <2>2, <3>1
    <3>2. CASE k # 0
      <4>1. k \in 1..n
        BY <1>1, <2>4, <3>2
      <4>2. g[k + 1] = g[k] \o s[k + 1]
        <5>1. k + 1 # 1 /\ (k + 1) - 1 = k
          BY <2>4, <3>2
        <5> QED BY <2>2, <5>1
      <4>3. g[k] \in Seq(V) /\ s[k + 1] \in Seq(V)
        BY <1>1, <2>4, <4>1
      <4> QED BY <4>2, <4>3, ConcatProperties
    <3> QED BY <3>1, <3>2
  <2>5. n \in S
    <3> HIDE DEF S
    <3>1. S \in SUBSET Nat
      BY DEF S
    <3> QED BY <1>1, <2>3, <2>4, <3>1, NatSets
  <2> QED BY <1>1, <1>3, <2>1, <2>5
<1> QED BY <1>2, <1>3

-----------------------------------------------------------------------------
(* The list of a set, for the paths that are compared as distinct ones.     *)

LEMMA UpTo ==
    ASSUME NEW n \in Nat
    PROVE  IsFiniteSet(1..n) /\ Cardinality(1..n) = n
<1>1. /\ IsFiniteSet(1..n)
      /\ Cardinality(1..n) = IF 1 > n THEN 0 ELSE n - 1 + 1
  BY FS_Interval
<1> QED BY <1>1

\* A list without repetitions of the elements of S has each of them once.
LEMMA OnceEach ==
    ASSUME NEW S, NEW n \in Nat, NEW u \in Bijection(1..n, S), NEW x
    PROVE  Count(u, x) = IF x \in S THEN 1 ELSE 0
<1>1. /\ DOMAIN u = 1..n /\ \A i \in 1..n : u[i] \in S
      /\ \A i, j \in 1..n : u[i] = u[j] => i = j
      /\ \A y \in S : \E i \in 1..n : u[i] = y
  BY DEF Bijection, Injection, Surjection, IsInjective
<1>2. CASE x \in S
  <2>1. PICK i \in 1..n : u[i] = x
    BY <1>1, <1>2
  <2>2. Places(u, x) = {i}
    BY <1>1, <2>1 DEF Places
  <2> QED BY <1>2, <2>2, FS_Singleton DEF Count
<1>3. CASE x \notin S
  <2>1. Places(u, x) = {}
    BY <1>1, <1>3 DEF Places
  <2> QED BY <1>3, <2>1, FS_EmptySet DEF Count
<1> QED BY <1>2, <1>3

\* The list of a set has all of its elements, and each of them once.
LEMMA ListOfSet ==
    ASSUME NEW S, IsFiniteSet(S)
    PROVE  /\ Cardinality(S) \in Nat
           /\ SetToSeq(S) \in Bijection(1..Cardinality(S), S)
           /\ SetToSeq(S) \in Seq(S) /\ Len(SetToSeq(S)) = Cardinality(S)
<1> DEFINE n == Cardinality(S)
           u == SetToSeq(S)
<1>1. n \in Nat /\ ExistsBijection(1..n, S)
  BY FS_CardinalityType
<1>2. PICK b : b \in Bijection(1..n, S)
  BY <1>1 DEF ExistsBijection
<1>3. b \in [1..n -> S] /\ IsInjective(b)
  BY <1>2 DEF Bijection, Injection
<1>4. u \in [1..n -> S] /\ IsInjective(u)
  BY <1>3 DEF SetToSeq
<1>5. u \in Injection(1..n, S)
  BY <1>4 DEF Injection
<1>6. IsFiniteSet(1..n) /\ Cardinality(1..n) = n
  BY <1>1, UpTo
<1>7. u \in Surjection(1..n, S)
  BY <1>5, <1>6, FS_Injection
<1>8. u \in Seq(S) /\ Len(u) = n
  BY <1>1, <1>4, SeqDef
<1> QED BY <1>1, <1>5, <1>7, <1>8 DEF Bijection

\* As many times the same elements as the list of S: all of S and no more.
LEMMA DistinctIsSame ==
    ASSUME NEW V, NEW S \in SUBSET V, IsFiniteSet(S), NEW w \in Seq(V)
    PROVE  SameBag(w, SetToSeq(S)) <=> ToSet(w) = S /\ Cardinality(ToSet(w)) = Len(w)
<1> DEFINE u == SetToSeq(S)
           n == Len(w)
<1>1. /\ Cardinality(S) \in Nat /\ u \in Bijection(1..Cardinality(S), S)
      /\ u \in Seq(V) /\ Len(u) = Cardinality(S)
  <2>1. Seq(S) \subseteq Seq(V)
    OBVIOUS
  <2> QED BY <2>1, ListOfSet
<1>2. \A x : Count(u, x) = IF x \in S THEN 1 ELSE 0
  BY <1>1, OnceEach
<1>3. n \in Nat /\ DOMAIN w = 1..n /\ w \in [1..n -> V]
  BY LenProperties
<1>4. \A x \in V : Count(w, x) \in Nat /\ (Count(w, x) = 0 <=> x \notin ToSet(w))
  <2>1. ASSUME NEW x \in V
        PROVE  Count(w, x) \in Nat /\ (Count(w, x) = 0 <=> \A i \in 1..n : w[i] # x)
    BY CountFacts
  <2> QED BY <1>3, <2>1 DEF ToSet
<1>5. ToSet(w) \in SUBSET V
  BY <1>3 DEF ToSet
<1> HIDE DEF u
<1>6. ASSUME SameBag(w, u) PROVE ToSet(w) = S /\ Cardinality(ToSet(w)) = Len(w)
  <2>1. \A x \in V : Count(w, x) = Count(u, x)
    BY <1>1, <1>6, BagsByCount
  <2>2. ToSet(w) = S
    <3>1. ASSUME NEW x \in V PROVE x \in ToSet(w) <=> x \in S
      <4>1. Count(w, x) = IF x \in S THEN 1 ELSE 0
        BY <1>2, <2>1
      <4> QED BY <1>4, <4>1
    <3> QED BY <1>5, <3>1
  <2>3. Len(w) = Len(u)
    BY <1>1, <1>6, RemovedIsSame
  <2> QED BY <1>1, <2>2, <2>3
<1>7. ASSUME ToSet(w) = S, Cardinality(ToSet(w)) = Len(w) PROVE SameBag(w, u)
  <2>1. w \in Surjection(1..n, S)
    <3>1. \A x \in S : \E i \in 1..n : w[i] = x
      BY <1>3, <1>7 DEF ToSet
    <3>2. \A i \in 1..n : w[i] \in S
      BY <1>3, <1>7 DEF ToSet
    <3> QED BY <1>3, <3>1, <3>2 DEF Surjection
  <2>2. IsFiniteSet(1..n) /\ Cardinality(1..n) = n
    BY <1>3, UpTo
  <2>3. w \in Injection(1..n, S)
    BY <1>7, <2>1, <2>2, FS_Surjection
  <2>4. \A x : Count(w, x) = IF x \in S THEN 1 ELSE 0
    BY <1>3, <2>1, <2>3, OnceEach DEF Bijection
  <2> QED BY <1>1, <1>2, <2>4, BagsByCount
<1> QED BY <1>6, <1>7 DEF u

-----------------------------------------------------------------------------
(* The first check that is not passed.                                     *)

LEMMA FirstOfFacts ==
    ASSUME NEW V, NEW c \in Seq(V)
    PROVE  /\ FirstOf(c) = "ok" <=> \A i \in 1..Len(c) : c[i] = "ok"
           /\ FirstOf(c) # "ok" => \E i \in 1..Len(c) : c[i] = FirstOf(c)
<1> DEFINE I == {i \in 1..Len(c) : c[i] # "ok"}
<1>1. Len(c) \in Nat
  BY LenProperties
<1>2. FirstOf(c) = IF (IF I # {} THEN Min(I) ELSE 0) = 0 THEN "ok"
                   ELSE c[IF I # {} THEN Min(I) ELSE 0]
  BY DEF FirstOf, SelectInSeq
<1>3. I # {} => Min(I) \in I
  <2> HAVE I # {}
  <2>1. I \in SUBSET (1..Len(c))
    OBVIOUS
  <2> HIDE DEF I
  <2> QED BY <1>1, <2>1, Least
<1>4. CASE I = {}
  BY <1>2, <1>4
<1>5. CASE I # {}
  <2>1. Min(I) \in 1..Len(c) /\ c[Min(I)] # "ok" /\ Min(I) # 0
    BY <1>1, <1>3, <1>5
  <2>2. FirstOf(c) = c[Min(I)]
    BY <1>2, <1>5, <2>1
  <2> QED BY <2>1, <2>2
<1> QED BY <1>4, <1>5

LEMMA ListOfLength ==
    ASSUME NEW n \in Nat, NEW V, NEW c \in [1..n -> V]
    PROVE  c \in Seq(V) /\ Len(c) = n
BY SeqDef

\* The checks of the fields that are wanted, as a function of the field.
FieldChecks(want, check) ==
    FirstOf([i \in DOMAIN Fields |->
                IF Fields[i] \in DOMAIN want THEN check[Fields[i]] ELSE "ok"])

LEMMA FieldChecksFacts ==
    ASSUME NEW want, NEW check, DOMAIN want \subseteq ToSet(Fields)
    PROVE  /\ FieldChecks(want, check) = "ok" <=> \A f \in DOMAIN want : check[f] = "ok"
           /\ FieldChecks(want, check) # "ok" =>
                \E f \in DOMAIN want : check[f] = FieldChecks(want, check)
<1> DEFINE c == [i \in 1..3 |->
                   IF Fields[i] \in DOMAIN want THEN check[Fields[i]] ELSE "ok"]
           V == {c[i] : i \in 1..3}
<1>1. DOMAIN Fields = 1..3
  BY DEF Fields
<1>2. c \in Seq(V) /\ Len(c) = 3
  <2>1. c \in [1..3 -> V]
    OBVIOUS
  <2> HIDE DEF c, V
  <2> QED BY <2>1, ListOfLength
<1>3. FieldChecks(want, check) = FirstOf(c)
  BY <1>1 DEF FieldChecks
<1>4. /\ FirstOf(c) = "ok" <=> \A i \in 1..3 : c[i] = "ok"
      /\ FirstOf(c) # "ok" => \E i \in 1..3 : c[i] = FirstOf(c)
  <2> HIDE DEF c, V
  <2> QED BY <1>2, FirstOfFacts
<1>5. \A f \in DOMAIN want : \E i \in 1..3 : f = Fields[i]
  BY <1>1 DEF ToSet
<1>6. FirstOf(c) = "ok" <=> \A f \in DOMAIN want : check[f] = "ok"
  BY <1>4, <1>5
<1>7. FirstOf(c) # "ok" => \E f \in DOMAIN want : check[f] = FirstOf(c)
  <2> HAVE FirstOf(c) # "ok"
  <2>1. PICK i \in 1..3 : c[i] = FirstOf(c)
    BY <1>4
  <2> QED BY <2>1
<1> QED BY <1>3, <1>6, <1>7

-----------------------------------------------------------------------------
(* What a task of each type makes of an answer.                            *)

Outcomes == {"ok", "assertion", "error"}

LEMMA FieldChecksType ==
    ASSUME NEW want, NEW check, \A f \in ToSet(Fields) : check[f] \in Outcomes
    PROVE  FieldChecks(want, check) \in Outcomes
<1> DEFINE c == [i \in 1..3 |->
                   IF Fields[i] \in DOMAIN want THEN check[Fields[i]] ELSE "ok"]
<1>1. DOMAIN Fields = 1..3 /\ \A i \in 1..3 : Fields[i] \in ToSet(Fields)
  BY DEF Fields, ToSet
<1>2. c \in [1..3 -> Outcomes]
  BY <1>1 DEF Outcomes
<1>3. FieldChecks(want, check) = FirstOf(c)
  BY <1>1 DEF FieldChecks
<1> HIDE DEF c
<1>4. c \in Seq(Outcomes) /\ Len(c) = 3
  BY <1>2, ListOfLength
<1>5. FirstOf(c) # "ok" => \E i \in 1..3 : c[i] = FirstOf(c)
  BY <1>4, FirstOfFacts
<1> QED BY <1>2, <1>3, <1>5 DEF Outcomes

\* Whatever the answer, the check of a task has one of three outcomes.
LEMMA CheckType ==
    ASSUME NEW t, NEW a, t.type \in TaskTypes
    PROVE  Check(t, a) \in Outcomes
<1>1. \A holds : Claim(holds) \in Outcomes
  BY DEF Claim, Outcomes
<1>2. "error" \in Outcomes
  BY DEF Outcomes
<1>3. \A i \in DOMAIN Fields : Fields[i] \in ToSet(Fields)
  BY DEF ToSet
<1>4. AssertTask(t, a) \in Outcomes
  <2> DEFINE checkOf(f) ==
                CASE f \notin DOMAIN a -> "error"
                  [] f \in DOMAIN a /\ f \in DOMAIN t.allow_error /\ f = "state" -> "error"
                  [] f \in DOMAIN a /\ f \in DOMAIN t.allow_error /\ f # "state" ->
                        Claim(/\ a[f] - t.allow_error[f] <= t.want[f]
                               /\ t.want[f] <= a[f] + t.allow_error[f])
                  [] OTHER -> Claim(a[f] = t.want[f])
             check == [f \in ToSet(Fields) |-> checkOf(f)]
  <2>1. \A f : checkOf(f) \in Outcomes
    BY <1>1, <1>2
  <2>2. AssertTask(t, a) = FirstOf([i \in DOMAIN Fields |->
           IF Fields[i] \in DOMAIN t.want THEN checkOf(Fields[i]) ELSE "ok"])
    BY DEF AssertTask, PerField
  <2> HIDE DEF checkOf
  <2>3. AssertTask(t, a) = FieldChecks(t.want, check)
    BY <1>3, <2>2 DEF FieldChecks
  <2> QED BY <2>1, <2>3, FieldChecksType
<1>5. AssertAllTask(t, a) \in Outcomes
  <2> DEFINE checkOf(f) ==
                IF \/ \E i \in DOMAIN a : f \notin DOMAIN a[i]
                   \/ Len(t.want[f]) # Len(a)
                THEN "error"
                ELSE Claim(Rest([i \in DOMAIN a |-> a[i][f]], t.want[f]) = <<>>)
             check == [f \in ToSet(Fields) |-> checkOf(f)]
  <2>1. \A f : checkOf(f) \in Outcomes
    BY <1>1, <1>2
  <2>2. AssertAllTask(t, a) = FirstOf([i \in DOMAIN Fields |->
           IF Fields[i] \in DOMAIN t.want THEN checkOf(Fields[i]) ELSE "ok"])
    BY DEF AssertAllTask, PerField, Rest
  <2> HIDE DEF checkOf
  <2>3. AssertAllTask(t, a) = FieldChecks(t.want, check)
    BY <1>3, <2>2 DEF FieldChecks
  <2> QED BY <2>1, <2>3, FieldChecksType
<1>6. AssertSumTask(t, a) \in Outcomes
  <2> DEFINE checkOf(f) ==
                IF \/ \E i \in DOMAIN a : f \notin DOMAIN a[i]
                   \/ f = "state" /\ a = <<>>
                THEN "error"
                ELSE Claim(IF f = "state" THEN {a[i][f] : i \in DOMAIN a} = {t.want[f]}
                           ELSE t.want[f] = Total(a, f))
             check == [f \in ToSet(Fields) |-> checkOf(f)]
  <2>1. \A f : checkOf(f) \in Outcomes
    BY <1>1, <1>2
  <2>2. AssertSumTask(t, a) = FirstOf([i \in DOMAIN Fields |->
           IF Fields[i] \in DOMAIN t.want THEN checkOf(Fields[i]) ELSE "ok"])
    BY DEF AssertSumTask, PerField, Total
  <2> HIDE DEF checkOf
  <2>3. AssertSumTask(t, a) = FieldChecks(t.want, check)
    BY <1>3, <2>2 DEF FieldChecks
  <2> QED BY <2>1, <2>3, FieldChecksType
<1>7. /\ AssertBlockchainEventsTask(t, a) \in Outcomes
      /\ AssertMSClaimTask(t, a) \in Outcomes
      /\ AssertPFSRoutesTask(t, a) \in Outcomes
      /\ AssertPFSHistoryTask(t, a) \in Outcomes
      /\ AssertPFSIOUTask(t, a) \in Outcomes
  BY <1>1, <1>2 DEF AssertBlockchainEventsTask, AssertMSClaimTask, AssertPFSRoutesTask,
                    AssertPFSHistoryTask, AssertPFSIOUTask
<1>8. AssertChannelSettledEventTask(t, a) \in Outcomes
  BY <1>1, <1>2 DEF AssertChannelSettledEventTask
<1> QED BY <1>4, <1>5, <1>6, <1>7, <1>8 DEF Check, TaskTypes

\* The check accepts only what the task claims, and rejects as a failed
\* assertion only what it does not.
Sound(t, a) ==
    /\ Check(t, a) = "ok" => Promise(t, a)
    /\ Check(t, a) = "assertion" => ~Promise(t, a)

LEMMA AssertSound ==
    ASSUME NEW t, NEW a, t.type = "assert", Comparable(t, a)
    PROVE  Sound(t, a)
<1> DEFINE checkOf(f) ==
              CASE f \notin DOMAIN a -> "error"
                [] f \in DOMAIN a /\ f \in DOMAIN t.allow_error /\ f = "state" -> "error"
                [] f \in DOMAIN a /\ f \in DOMAIN t.allow_error /\ f # "state" ->
                      Claim(/\ a[f] - t.allow_error[f] <= t.want[f]
                             /\ t.want[f] <= a[f] + t.allow_error[f])
                [] OTHER -> Claim(a[f] = t.want[f])
           check == [f \in ToSet(Fields) |-> checkOf(f)]
           Agree(f) == /\ f \in DOMAIN a
                       /\ IF f \in DOMAIN t.allow_error
                          THEN f # "state" /\ \E d \in -t.allow_error[f]..t.allow_error[f] :
                                 t.want[f] = a[f] + d
                          ELSE a[f] = t.want[f]
<1>1. /\ DOMAIN t.want \subseteq ToSet(Fields)
      /\ \A f \in (DOMAIN t.want \cap DOMAIN t.allow_error \cap DOMAIN a) \ {"state"} :
            t.want[f] \in Int /\ t.allow_error[f] \in Int /\ a[f] \in Int
  BY DEF Comparable
<1>2. Check(t, a) = FieldChecks(t.want, check)
  <2>1. Check(t, a) = AssertTask(t, a)
    BY DEF Check
  <2>2. \A i \in DOMAIN Fields : Fields[i] \in ToSet(Fields)
    BY DEF ToSet
  <2>3. \A i \in DOMAIN Fields : check[Fields[i]] = checkOf(Fields[i])
    BY <2>2
  <2>4. AssertTask(t, a) = FirstOf([i \in DOMAIN Fields |->
           IF Fields[i] \in DOMAIN t.want THEN checkOf(Fields[i]) ELSE "ok"])
    BY DEF AssertTask, PerField
  <2> HIDE DEF checkOf, check
  <2>5. AssertTask(t, a) = FieldChecks(t.want, check)
    BY <2>3, <2>4 DEF FieldChecks
  <2> QED BY <2>1, <2>5
<1>3. ASSUME NEW f \in DOMAIN t.want
      PROVE  /\ checkOf(f) = "ok" => Agree(f)
             /\ checkOf(f) = "assertion" => ~Agree(f)
  <2>1. CASE f \notin DOMAIN a
    BY <2>1
  <2>2. CASE f \in DOMAIN a /\ f \in DOMAIN t.allow_error /\ f = "state"
    BY <2>2
  <2>3. CASE f \in DOMAIN a /\ f \in DOMAIN t.allow_error /\ f # "state"
    <3> DEFINE w == t.want[f]
               e == t.allow_error[f]
               v == a[f]
    <3>1. w \in Int /\ e \in Int /\ v \in Int
      BY <1>1, <2>3
    <3>2. checkOf(f) = Claim(v - e <= w /\ w <= v + e)
      BY <2>3
    <3>3. Agree(f) <=> \E d \in -e..e : w = v + d
      BY <2>3
    <3> HIDE DEF w, e, v, checkOf, Agree
    <3>4. (v - e <= w /\ w <= v + e) <=> \E d \in -e..e : w = v + d
      <4>1. ASSUME v - e <= w /\ w <= v + e PROVE \E d \in -e..e : w = v + d
        <5>1. w - v \in -e..e /\ w = v + (w - v)
          BY <3>1, <4>1
        <5> QED BY <5>1
      <4>2. ASSUME NEW d \in -e..e, w = v + d PROVE v - e <= w /\ w <= v + e
        BY <3>1, <4>2
      <4> QED BY <4>1, <4>2
    <3> QED BY <3>2, <3>3, <3>4 DEF Claim
  <2>4. CASE f \in DOMAIN a /\ f \notin DOMAIN t.allow_error
    BY <2>4 DEF Claim
  <2> QED BY <2>1, <2>2, <2>3, <2>4
<1>4. Promise(t, a) <=> \A f \in DOMAIN t.want : Agree(f)
  BY DEF Promise
<1>5. \A f \in DOMAIN t.want : check[f] = checkOf(f)
  BY <1>1
<1>6. /\ FieldChecks(t.want, check) = "ok" <=> \A f \in DOMAIN t.want : check[f] = "ok"
      /\ FieldChecks(t.want, check) # "ok" =>
           \E f \in DOMAIN t.want : check[f] = FieldChecks(t.want, check)
  <2> HIDE DEF check
  <2> QED BY <1>1, FieldChecksFacts
<1> HIDE DEF check, checkOf, Agree
<1> QED BY <1>2, <1>3, <1>4, <1>5, <1>6 DEF Sound

LEMMA AssertAllSound ==
    ASSUME NEW t, NEW a, t.type = "assert_all", Comparable(t, a)
    PROVE  Sound(t, a)
<1> DEFINE values(f) == [i \in DOMAIN a |-> a[i][f]]
           Odd(f) == (\E i \in DOMAIN a : f \notin DOMAIN a[i]) \/ Len(t.want[f]) # Len(a)
           checkOf(f) == IF Odd(f) THEN "error"
                         ELSE Claim(Rest(values(f), t.want[f]) = <<>>)
           check == [f \in ToSet(Fields) |-> checkOf(f)]
           Agree(f) == /\ \A i \in DOMAIN a : f \in DOMAIN a[i]
                       /\ SameBag(t.want[f], values(f))
<1>1. /\ DOMAIN t.want \subseteq ToSet(Fields)
      /\ IsSeq(a) /\ \A f \in DOMAIN t.want : IsSeq(t.want[f])
  BY DEF Comparable
<1>2. Check(t, a) = FieldChecks(t.want, check)
  <2>1. Check(t, a) = AssertAllTask(t, a)
    BY DEF Check
  <2>2. \A i \in DOMAIN Fields : Fields[i] \in ToSet(Fields)
    BY DEF ToSet
  <2>3. \A i \in DOMAIN Fields : check[Fields[i]] = checkOf(Fields[i])
    BY <2>2
  <2>4. AssertAllTask(t, a) = FirstOf([i \in DOMAIN Fields |->
           IF Fields[i] \in DOMAIN t.want THEN checkOf(Fields[i]) ELSE "ok"])
    BY DEF AssertAllTask, PerField, Rest
  <2> HIDE DEF checkOf, check
  <2>5. AssertAllTask(t, a) = FieldChecks(t.want, check)
    BY <2>3, <2>4 DEF FieldChecks
  <2> QED BY <2>1, <2>5
<1>3. ASSUME NEW f \in DOMAIN t.want
      PROVE  /\ checkOf(f) = "ok" => Agree(f)
             /\ checkOf(f) = "assertion" => ~Agree(f)
  <2>1. CASE Odd(f)
    BY <2>1
  <2>2. CASE ~Odd(f)
    <3> DEFINE s == values(f)
               w == t.want[f]
               V == ToSet(s) \cup ToSet(w)
    <3>1. Len(a) \in Nat /\ DOMAIN a = 1..Len(a)
      BY <1>1, LenProperties DEF IsSeq
    <3>2. s \in [1..Len(a) -> V]
      BY <3>1 DEF ToSet
    <3>3. s \in Seq(V) /\ Len(s) = Len(a)
      <4> HIDE DEF s, V
      <4> QED BY <3>1, <3>2, ListOfLength
    <3>4. w \in Seq(V)
      <4>1. w \in Seq(ToSet(w))
        BY <1>1 DEF IsSeq
      <4> HIDE DEF s, w
      <4> QED BY <4>1
    <3>5. checkOf(f) = Claim(Rest(s, w) = <<>>)
      BY <2>2
    <3>6. Agree(f) <=> SameBag(w, s)
      BY <2>2
    <3>7. Len(w) = Len(s)
      BY <2>2, <3>3
    <3> HIDE DEF s, w, V, checkOf, Agree
    <3>8. Rest(s, w) = <<>> <=> SameBag(w, s)
      BY <3>3, <3>4, <3>7, RemovedIsSame
    <3> QED BY <3>5, <3>6, <3>8 DEF Claim
  <2> QED BY <2>1, <2>2
<1>4. Promise(t, a) <=> \A f \in DOMAIN t.want : Agree(f)
  BY DEF Promise
<1>5. \A f \in DOMAIN t.want : check[f] = checkOf(f)
  BY <1>1
<1>6. /\ FieldChecks(t.want, check) = "ok" <=> \A f \in DOMAIN t.want : check[f] = "ok"
      /\ FieldChecks(t.want, check) # "ok" =>
           \E f \in DOMAIN t.want : check[f] = FieldChecks(t.want, check)
  <2> HIDE DEF check
  <2> QED BY <1>1, FieldChecksFacts
<1> HIDE DEF check, checkOf, Agree
<1> QED BY <1>2, <1>3, <1>4, <1>5, <1>6 DEF Sound

LEMMA AssertSumSound ==
    ASSUME NEW t, NEW a, t.type = "assert_sum", Comparable(t, a)
    PROVE  Sound(t, a)
<1> DEFINE values(f) == {a[i][f] : i \in DOMAIN a}
           Odd(f) == \/ \E i \in DOMAIN a : f \notin DOMAIN a[i]
                     \/ f = "state" /\ a = <<>>
           checkOf(f) == IF Odd(f) THEN "error"
                         ELSE Claim(IF f = "state" THEN values(f) = {t.want[f]}
                                    ELSE t.want[f] = Total(a, f))
           check == [f \in ToSet(Fields) |-> checkOf(f)]
           Agree(f) == /\ \A i \in DOMAIN a : f \in DOMAIN a[i]
                       /\ IF f = "state" THEN \A i \in DOMAIN a : a[i][f] = t.want[f]
                          ELSE SetTotal(a, f) = t.want[f]
<1>1. /\ DOMAIN t.want \subseteq ToSet(Fields) /\ IsSeq(a)
      /\ \A i \in DOMAIN a : \A f \in DOMAIN a[i] \ {"state"} : a[i][f] \in Int
  BY DEF Comparable
<1>2. Check(t, a) = FieldChecks(t.want, check)
  <2>1. Check(t, a) = AssertSumTask(t, a)
    BY DEF Check
  <2>2. \A i \in DOMAIN Fields : Fields[i] \in ToSet(Fields)
    BY DEF ToSet
  <2>3. \A i \in DOMAIN Fields : check[Fields[i]] = checkOf(Fields[i])
    BY <2>2
  <2>4. AssertSumTask(t, a) = FirstOf([i \in DOMAIN Fields |->
           IF Fields[i] \in DOMAIN t.want THEN checkOf(Fields[i]) ELSE "ok"])
    BY DEF AssertSumTask, PerField, Total
  <2> HIDE DEF checkOf, check
  <2>5. AssertSumTask(t, a) = FieldChecks(t.want, check)
    BY <2>3, <2>4 DEF FieldChecks
  <2> QED BY <2>1, <2>5
<1>3. ASSUME NEW f \in DOMAIN t.want
      PROVE  /\ checkOf(f) = "ok" => Agree(f)
             /\ checkOf(f) = "assertion" => ~Agree(f)
  <2>1. CASE Odd(f)
    BY <2>1
  <2>2. Len(a) \in Nat /\ DOMAIN a = 1..Len(a)
    BY <1>1, LenProperties DEF IsSeq
  <2>3. CASE f = "state" /\ ~Odd(f)
    <3>1. checkOf(f) = Claim(values(f) = {t.want[f]})
      BY <2>3
    <3>2. Agree(f) <=> \A i \in DOMAIN a : a[i][f] = t.want[f]
      BY <2>3
    <3>3. DOMAIN a # {}
      <4>1. a # <<>>
        BY <2>3
      <4>2. Len(a) # 0
        BY <1>1, <4>1, EmptySeq DEF IsSeq
      <4>3. 1 \in 1..Len(a)
        BY <2>2, <4>2
      <4> QED BY <2>2, <4>3
    <3>4. values(f) = {t.want[f]} <=> \A i \in DOMAIN a : a[i][f] = t.want[f]
      BY <3>3
    <3> HIDE DEF checkOf, Agree, values
    <3> QED BY <3>1, <3>2, <3>4 DEF Claim
  <2>4. CASE f # "state" /\ ~Odd(f)
    <3>1. checkOf(f) = Claim(t.want[f] = Total(a, f))
      BY <2>4
    <3>2. Agree(f) <=> SetTotal(a, f) = t.want[f]
      BY <2>4
    <3>3. Summable(a, f, 1..Len(a))
      BY <1>1, <2>2, <2>4 DEF Summable
    <3>4. Total(a, f) = SetTotal(a, f)
      BY <2>2, <3>3, SumsAgree
    <3> HIDE DEF checkOf, Agree
    <3> QED BY <3>1, <3>2, <3>4 DEF Claim
  <2> QED BY <2>1, <2>3, <2>4
<1>4. Promise(t, a) <=> \A f \in DOMAIN t.want : Agree(f)
  BY DEF Promise, SetTotal
<1>5. \A f \in DOMAIN t.want : check[f] = checkOf(f)
  BY <1>1
<1>6. /\ FieldChecks(t.want, check) = "ok" <=> \A f \in DOMAIN t.want : check[f] = "ok"
      /\ FieldChecks(t.want, check) # "ok" =>
           \E f \in DOMAIN t.want : check[f] = FieldChecks(t.want, check)
  <2> HIDE DEF check
  <2> QED BY <1>1, FieldChecksFacts
<1> HIDE DEF check, checkOf, Agree
<1> QED BY <1>2, <1>3, <1>4, <1>5, <1>6 DEF Sound

LEMMA AssertEventsSound ==
    ASSUME NEW t, NEW a, t.type = "assert_events", Comparable(t, a)
    PROVE  Sound(t, a)
<1> DEFINE args == Resolve(t.want)
<1>1. \/ Check(t, a) = "error"
      \/ Check(t, a) = Claim(Cardinality(FilterEvents(a, t.event_name, args)) = t.num_events)
  BY DEF Check, AssertBlockchainEventsTask
<1>2. \A i \in DOMAIN a : AllOrNone(args, a[i])
  BY DEF Comparable
<1>3. ASSUME NEW i \in DOMAIN a
      PROVE  (DOMAIN args = {} \/ SharesItem(args, a[i])) <=> Agrees(args, a[i])
  <2>1. SharesItem(args, a[i]) => Agrees(args, a[i])
    BY <1>2 DEF AllOrNone
  <2> HIDE DEF args
  <2> QED BY <2>1 DEF Agrees, SharesItem
<1>4. FilterEvents(a, t.event_name, args)
        = {i \in DOMAIN a : a[i].name = t.event_name /\ Agrees(args, a[i])}
  BY <1>3 DEF FilterEvents
<1>5. Promise(t, a) <=>
        t.num_events = Cardinality({i \in DOMAIN a :
                          a[i].name = t.event_name /\ Agrees(args, a[i])})
  BY DEF Promise
<1> HIDE DEF args
<1> QED BY <1>1, <1>4, <1>5 DEF Sound, Claim

LEMMA AssertSettledSound ==
    ASSUME NEW t, NEW a, t.type = "assert_channel_settled_event", Comparable(t, a)
    PROVE  Sound(t, a)
<1> DEFINE e(i) == a.events[i]
           channel == [channel_identifier |-> a.channel]
           one == SettledArgs(t.initiator, t.initiator_amount, t.partner, t.partner_amount)
           other == SettledArgs(t.partner, t.partner_amount, t.initiator, t.initiator_amount)
           found == FilterEvents(a.events, "ChannelSettled", channel)
           first == FilterSettled(a.events, found, one)
           both == IF first # {} THEN first ELSE FilterSettled(a.events, first, other)
           claimed == {i \in DOMAIN a.events : /\ e(i).name = "ChannelSettled"
                                               /\ Agrees(channel, e(i)) /\ Settles(t, e(i))}
           Right(X) == Cardinality(X) = 1 /\ \A i \in X : e(i).sender = Address[t.initiator]
<1>1. Check(t, a) = IF a.channel = None THEN "error" ELSE Claim(Right(both))
  BY DEF Check, AssertChannelSettledEventTask
<1>2. Promise(t, a) <=> Right(claimed)
  BY DEF Promise
<1>3. \A i \in found : /\ AllOrNone(one, e(i))
                       /\ SharesItem(other, e(i)) => SharesItem(one, e(i))
  BY DEF Comparable
<1>4. found = {i \in DOMAIN a.events : e(i).name = "ChannelSettled" /\ Agrees(channel, e(i))}
  <2>1. DOMAIN channel = {"channel_identifier"}
    OBVIOUS
  <2>2. \A i : SharesItem(channel, e(i)) <=> Agrees(channel, e(i))
    BY <2>1 DEF SharesItem, Agrees
  <2> HIDE DEF channel
  <2> QED BY <2>1, <2>2 DEF FilterEvents
<1>5. "participant1" \in DOMAIN one /\ "participant1" \in DOMAIN other
  BY DEF SettledArgs
<1>6. \A i : Settles(t, e(i)) <=> Agrees(one, e(i)) \/ Agrees(other, e(i))
  BY DEF Settles
<1> HIDE DEF one, other, channel, found
<1>7. ASSUME NEW i \in found PROVE SharesItem(one, e(i)) <=> Settles(t, e(i))
  <2>1. Agrees(one, e(i)) => SharesItem(one, e(i))
    BY <1>5 DEF Agrees, SharesItem
  <2>2. Agrees(other, e(i)) => SharesItem(other, e(i))
    BY <1>5 DEF Agrees, SharesItem
  <2>3. SharesItem(one, e(i)) => Agrees(one, e(i))
    BY <1>3 DEF AllOrNone
  <2>4. SharesItem(other, e(i)) => SharesItem(one, e(i))
    BY <1>3
  <2> QED BY <1>6, <2>1, <2>2, <2>3, <2>4
<1>8. first = claimed
  BY <1>4, <1>7 DEF FilterSettled
<1>9. both = claimed
  <2>1. FilterSettled(a.events, {}, other) = {}
    BY DEF FilterSettled
  <2> QED BY <1>8, <2>1
<1> HIDE DEF both, claimed, Right
<1> QED BY <1>1, <1>2, <1>9 DEF Sound, Claim

LEMMA AssertMSClaimSound ==
    ASSUME NEW t, NEW a, t.type = "assert_ms_claim", t.must_claim \in BOOLEAN
    PROVE  Sound(t, a)
<1> DEFINE claimed == \E i \in DOMAIN a.events :
                         /\ a.events[i].name = "RewardClaimed"
                         /\ a.events[i].args.reward_identifier = a.channel
<1>1. Check(t, a) = IF a.channel = None THEN "error" ELSE Claim(t.must_claim <=> claimed)
  BY DEF Check, AssertMSClaimTask
<1>2. Promise(t, a) <=> t.must_claim = claimed
  BY DEF Promise
<1>3. claimed \in BOOLEAN
  OBVIOUS
<1> HIDE DEF claimed
<1> QED BY <1>1, <1>2, <1>3 DEF Sound, Claim

LEMMA AssertPFSRoutesSound ==
    ASSUME NEW t, NEW a, t.type = "assert_pfs_routes", Comparable(t, a)
    PROVE  Sound(t, a)
<1>1. Check(t, a) = Claim(a.paths # None /\ a.paths = t.expected_paths)
  BY DEF Check, AssertPFSRoutesTask
<1>2. Promise(t, a) <=> a.paths = t.expected_paths
  BY DEF Promise
<1>3. t.expected_paths # None
  BY DEF Comparable
<1> QED BY <1>1, <1>2, <1>3 DEF Sound, Claim

LEMMA AssertPFSIOUSound ==
    ASSUME NEW t, NEW a, t.type = "assert_pfs_iou"
    PROVE  Sound(t, a)
BY DEF Sound, Check, Promise, AssertPFSIOUTask, Claim

-----------------------------------------------------------------------------
(* The history of the path finding service.                                *)

\* Comparing two lists element by element and by their lengths.
LEMMA ZipIsEqual ==
    ASSUME NEW s, NEW u, IsSeq(s), IsSeq(u)
    PROVE  Len(s) = Len(u) /\ ZipEqual(s, u) <=> u = s
<1>1. /\ s \in [1..Len(s) -> ToSet(s)] /\ DOMAIN s = 1..Len(s)
      /\ u \in [1..Len(u) -> ToSet(u)] /\ DOMAIN u = 1..Len(u)
  BY LenProperties DEF IsSeq
<1>2. ASSUME Len(s) = Len(u), ZipEqual(s, u) PROVE u = s
  <2>1. \A i \in DOMAIN s : s[i] = u[i]
    BY <1>1, <1>2 DEF ZipEqual
  <2> QED BY <1>1, <1>2, <2>1
<1>3. ASSUME u = s PROVE Len(s) = Len(u) /\ ZipEqual(s, u)
  BY <1>3 DEF ZipEqual
<1> QED BY <1>2, <1>3

\* The elements of a list of lists, and those of a list of something of each.
LEMMA ListsFacts ==
    ASSUME NEW a, IsSeq(a.responses), \A i \in DOMAIN a.responses : IsSeq(a.responses[i])
    PROVE  /\ Len(a.responses) \in Nat /\ DOMAIN a.responses = 1..Len(a.responses)
           /\ IsSeq(RoutesCounts(a)) /\ Len(RoutesCounts(a)) = Len(a.responses)
           /\ IsSeq(Paths(a)) /\ IsSeq(Fees(a))
<1> DEFINE r == a.responses
           W == UNION {ToSet(r[i]) : i \in DOMAIN r}
           copy == [i \in DOMAIN r |-> r[i]]
           q == Routes(a)
<1>1. Len(r) \in Nat /\ DOMAIN r = 1..Len(r)
  BY LenProperties DEF IsSeq
<1>2. copy \in Seq(Seq(W))
  <2>1. ASSUME NEW i \in DOMAIN r PROVE r[i] \in Seq(W)
    <3>1. r[i] \in Seq(ToSet(r[i])) /\ ToSet(r[i]) \subseteq W
      BY DEF IsSeq
    <3> QED BY <3>1
  <2>2. copy \in [1..Len(r) -> Seq(W)]
    BY <1>1, <2>1
  <2> HIDE DEF copy, W
  <2> QED BY <1>1, <2>2, ListOfLength
<1>3. q \in Seq(W)
  <2> HIDE DEF W
  <2>1. FlattenSeq(copy) \in Seq(W)
    <3> HIDE DEF copy
    <3> QED BY <1>2, FlattenType
  <2> QED BY <2>1 DEF Routes
<1>4. Len(q) \in Nat /\ DOMAIN q = 1..Len(q)
  BY <1>3, LenProperties
<1>5. ASSUME NEW n \in Nat, NEW u, u = [i \in 1..n |-> u[i]]
      PROVE  IsSeq(u) /\ Len(u) = n
  <2>1. u \in [1..n -> ToSet(u)]
    BY <1>5 DEF ToSet
  <2> QED BY <2>1, ListOfLength DEF IsSeq
<1> HIDE DEF q
<1>6. Paths(a) = [i \in 1..Len(q) |-> Paths(a)[i]] /\ Fees(a) = [i \in 1..Len(q) |-> Fees(a)[i]]
  BY <1>4 DEF Paths, Fees, q
<1>7. RoutesCounts(a) = [i \in 1..Len(r) |-> RoutesCounts(a)[i]]
  BY <1>1 DEF RoutesCounts
<1> QED BY <1>1, <1>4, <1>5, <1>6, <1>7

LEMMA CommonSet ==
    ASSUME NEW s, NEW u, IsSeq(s), IsSeq(u)
    PROVE  s \in Seq(ToSet(s) \cup ToSet(u)) /\ u \in Seq(ToSet(s) \cup ToSet(u))
BY DEF IsSeq

LEMMA AssertPFSHistorySound ==
    ASSUME NEW t, NEW a, t.type = "assert_pfs_history", Comparable(t, a)
    PROVE  Sound(t, a)
<1> DEFINE w == t.want
           n == Len(a.responses)
           Requests == "request_count" \in DOMAIN w => a.request_count = w.request_count
           Each == "routes_each" \in DOMAIN w =>
                     \A i \in DOMAIN a.responses : Len(a.responses[i]) = w.routes_each
           List == "routes_list" \in DOMAIN w => RoutesCounts(a) = w.routes_list
           FeeList == "expected_fees" \in DOMAIN w => Fees(a) = w.expected_fees
           expected == [i \in DOMAIN w.expected_routes |-> Route(w.expected_routes[i])]
           PathList == "expected_routes" \in DOMAIN w =>
                         IF t.distinct THEN /\ ToSet(expected) = ToSet(Paths(a))
                                            /\ Cardinality(ToSet(expected)) = Len(expected)
                         ELSE SameBag(expected, Paths(a))
<1>1. /\ IsSeq(a.responses) /\ \A i \in DOMAIN a.responses : IsSeq(a.responses[i])
      /\ a.request_count = n
      /\ \A key \in {"request_count", "routes_each"} \cap DOMAIN w : w[key] # 0
      /\ \A key \in {"routes_list", "expected_routes", "expected_fees"} \cap DOMAIN w :
            IsSeq(w[key]) /\ w[key] # <<>>
      /\ "routes_each" \in DOMAIN w => "request_count" \in DOMAIN w
  BY DEF Comparable
<1>2. /\ n \in Nat /\ DOMAIN a.responses = 1..n
      /\ IsSeq(RoutesCounts(a)) /\ Len(RoutesCounts(a)) = n
      /\ IsSeq(Paths(a)) /\ IsSeq(Fees(a))
  BY <1>1, ListsFacts
<1>3. Check(t, a) = Claim(RequestsOK(t, a) /\ CountsOK(t, a) /\ PathsOK(t, a) /\ FeesOK(t, a))
  BY DEF Check, AssertPFSHistoryTask
<1>4. Promise(t, a) <=> Requests /\ Each /\ List /\ FeeList /\ PathList
  BY DEF Promise
<1>5. RequestsOK(t, a) <=> Requests
  BY <1>1 DEF RequestsOK, HasNumber
<1>6. Requests => (CountsOK(t, a) <=> Each /\ List)
  <2> HAVE Requests
  <2>1. HasNumber(t, "routes_each") <=> "routes_each" \in DOMAIN w
    BY <1>1 DEF HasNumber
  <2>2. HasList(t, "routes_list") <=> "routes_list" \in DOMAIN w
    BY <1>1 DEF HasList
  <2>3. ASSUME "routes_each" \in DOMAIN w
        PROVE  /\ HasNumber(t, "request_count") /\ w.request_count = n
               /\ ZipEqual([i \in 1..n |-> w.routes_each], RoutesCounts(a)) <=>
                    \A i \in DOMAIN a.responses : Len(a.responses[i]) = w.routes_each
    <3>1. HasNumber(t, "request_count") /\ w.request_count = n
      BY <1>1, <2>3 DEF HasNumber
    <3>2. DOMAIN RoutesCounts(a) = 1..n /\ \A i \in 1..n : RoutesCounts(a)[i] = Len(a.responses[i])
      BY <1>2 DEF RoutesCounts
    <3> QED BY <1>2, <3>1, <3>2 DEF ZipEqual
  <2>4. ASSUME "routes_list" \in DOMAIN w
        PROVE  /\ Len(w.routes_list) = Len(RoutesCounts(a))
               /\ ZipEqual(w.routes_list, RoutesCounts(a))
               <=> RoutesCounts(a) = w.routes_list
    <3>1. IsSeq(w.routes_list)
      BY <1>1, <2>4
    <3> QED BY <1>2, <3>1, ZipIsEqual
  <2>5. CountsOK(t, a) <=>
          /\ "routes_each" \in DOMAIN w => ZipEqual([i \in 1..n |-> w.routes_each], RoutesCounts(a))
          /\ "routes_list" \in DOMAIN w => /\ Len(w.routes_list) = Len(RoutesCounts(a))
                                           /\ ZipEqual(w.routes_list, RoutesCounts(a))
    BY <2>1, <2>2, <2>3 DEF CountsOK
  <2> QED BY <2>3, <2>4, <2>5
<1>7. FeesOK(t, a) <=> FeeList
  <2>1. HasList(t, "expected_fees") <=> "expected_fees" \in DOMAIN w
    BY <1>1 DEF HasList
  <2>2. ASSUME "expected_fees" \in DOMAIN w
        PROVE  /\ Len(w.expected_fees) = Len(Fees(a))
               /\ ZipEqual(w.expected_fees, Fees(a))
               <=> Fees(a) = w.expected_fees
    <3>1. IsSeq(w.expected_fees)
      BY <1>1, <2>2
    <3> QED BY <1>2, <3>1, ZipIsEqual
  <2> QED BY <2>1, <2>2 DEF FeesOK
<1>8. PathsOK(t, a) <=> PathList
  <2>1. HasList(t, "expected_routes") <=> "expected_routes" \in DOMAIN w
    BY <1>1 DEF HasList
  <2> DEFINE p == Paths(a)
             actual == IF t.distinct THEN SetToSeq(ToSet(p)) ELSE p
  <2>2. PathsOK(t, a) <=>
          ("expected_routes" \in DOMAIN w => Len(expected) = Len(actual) /\ Rest(actual, expected) = <<>>)
    BY <2>1 DEF PathsOK, Rest
  <2>3. ASSUME "expected_routes" \in DOMAIN w
        PROVE  Len(expected) = Len(actual) /\ Rest(actual, expected) = <<>> <=>
                 IF t.distinct THEN /\ ToSet(expected) = ToSet(p)
                                    /\ Cardinality(ToSet(expected)) = Len(expected)
                 ELSE SameBag(expected, p)
    <3>1. IsSeq(expected)
      <4> DEFINE k == Len(w.expected_routes)
      <4>1. k \in Nat /\ DOMAIN w.expected_routes = 1..k
        BY <1>1, <2>3, LenProperties DEF IsSeq
      <4>2. expected \in [1..k -> ToSet(expected)]
        BY <4>1 DEF ToSet
      <4> HIDE DEF expected, k
      <4> QED BY <4>1, <4>2, ListOfLength DEF IsSeq
    <3> DEFINE V == ToSet(p) \cup ToSet(expected)
    <3> HIDE DEF expected, p
    <3>2. p \in Seq(V) /\ expected \in Seq(V)
      BY <1>2, <3>1, CommonSet DEF p
    <3>3. CASE t.distinct
      <4>1. IsFiniteSet(ToSet(p))
        <5>1. Len(p) \in Nat /\ p \in [1..Len(p) -> ToSet(p)] /\ DOMAIN p = 1..Len(p)
          BY <1>2, LenProperties DEF IsSeq, p
        <5>2. p \in Surjection(1..Len(p), ToSet(p))
          BY <5>1 DEF Surjection, ToSet
        <5>3. IsFiniteSet(1..Len(p))
          BY <5>1, FS_Interval
        <5> QED BY <5>2, <5>3, FS_Surjection
      <4>2. SetToSeq(ToSet(p)) \in Seq(V)
        <5>1. SetToSeq(ToSet(p)) \in Seq(ToSet(p))
          BY <4>1, ListOfSet
        <5> QED BY <5>1
      <4>3. Len(expected) = Len(actual) /\ Rest(actual, expected) = <<>>
              <=> SameBag(expected, SetToSeq(ToSet(p)))
        BY <3>2, <3>3, <4>2, RemovedIsSame
      <4>4. SameBag(expected, SetToSeq(ToSet(p)))
              <=> ToSet(expected) = ToSet(p) /\ Cardinality(ToSet(expected)) = Len(expected)
        BY <3>2, <4>1, DistinctIsSame
      <4> QED BY <3>3, <4>3, <4>4
    <3>4. CASE ~t.distinct
      BY <3>2, <3>4, RemovedIsSame
    <3> QED BY <3>3, <3>4
  <2> HIDE DEF expected, p, actual
  <2> QED BY <2>2, <2>3 DEF p
<1> HIDE DEF Requests, Each, List, FeeList, PathList
<1> QED BY <1>3, <1>4, <1>5, <1>6, <1>7, <1>8 DEF Sound, Claim

-----------------------------------------------------------------------------
(* The theorems                                                            *)

\* Each type of task is sound where it compares what it claims.
LEMMA ChecksSound ==
    ASSUME NEW t, NEW a, t.type \in TaskTypes, Comparable(t, a)
    PROVE  Sound(t, a)
<1>1. t.type = "assert_ms_claim" => t.must_claim \in BOOLEAN
  BY DEF Comparable
<1> QED BY <1>1, AssertSound, AssertAllSound, AssertSumSound, AssertEventsSound,
           AssertSettledSound, AssertMSClaimSound, AssertPFSRoutesSound,
           AssertPFSHistorySound, AssertPFSIOUSound DEF TaskTypes

\* A call of an assertion task ends in one way, as an assertion only with a failed
\* assertion of one of its polls to raise, and an error is never polled over:
\* Task.__call__, whatever the service answers.
THEOREM TypeCorrect == Spec => []TypeOK
<1>1. Init => TypeOK
  BY DEF Init, TypeOK
<1>2. ASSUME TypeOK, [Next]_vars PROVE TypeOK'
  <2>1. CASE Poll
    <3>1. PICK a \in Answers(task) :
             /\ answer' = a /\ result' = Check(task, a)
             /\ exception' = IF result' = "assertion" THEN a ELSE exception
             /\ verdict' = IF result' = "error" THEN "error"
                           ELSE IF result' = "ok" /\ ~IsFalsy(task, a) THEN "finished"
                           ELSE "running"
      BY <2>1 DEF Poll
    <3>2. task \in Tasks /\ task' = task
      BY <1>2, <2>1 DEF TypeOK, Poll
    <3>3. result' \in Outcomes
      BY <3>1, <3>2, KnownTypes, CheckType
    <3>4. exception' \in Answers(task) \cup {None}
      BY <1>2, <3>1 DEF TypeOK
    <3> QED BY <3>1, <3>2, <3>3, <3>4 DEF TypeOK, Outcomes
  <2>2. CASE RequestFails
    BY <1>2, <2>2 DEF TypeOK, RequestFails
  <2>3. CASE Timeout
    BY <1>2, <2>3 DEF TypeOK, Timeout
  <2>4. CASE Terminated \/ UNCHANGED vars
    BY <1>2, <2>4 DEF TypeOK, Terminated, vars
  <2> QED BY <1>2, <2>1, <2>2, <2>3, <2>4 DEF Next
<1> QED BY <1>1, <1>2, PTL DEF Spec

\* What the two theorems below keep: the result is the one of the last answer.
Checked ==
    /\ task \in Tasks
    /\ result \in Outcomes => answer \in Answers(task) /\ result = Check(task, answer)

LEMMA CheckedKept == Spec => []Checked
<1>1. Init => Checked
  BY DEF Init, Checked, Outcomes
<1>2. ASSUME Checked, [Next]_vars PROVE Checked'
  <2>1. CASE Poll
    BY <1>2, <2>1 DEF Checked, Poll
  <2>2. CASE RequestFails
    BY <1>2, <2>2 DEF Checked, RequestFails, Outcomes
  <2>3. CASE Timeout
    BY <1>2, <2>3 DEF Checked, Timeout
  <2>4. CASE Terminated \/ UNCHANGED vars
    BY <1>2, <2>4 DEF Checked, Terminated, vars
  <2> QED BY <1>2, <2>1, <2>2, <2>3, <2>4 DEF Next
<1> QED BY <1>1, <1>2, PTL DEF Spec

\* An answer that an assertion task accepts is one its claim is true of, for every
\* task and every answer that can be compared: no list is too short, no value is
\* used twice, no sum or bag is wrong, no event is one of something else
\* (_process_response, AssertBlockchainEventsTask, the PFS history and IOU).
THEOREM PassesTrue ==
    ASSUME AllComparable
    PROVE  Spec => []PassesAreTrue
<1>1. ASSUME Checked PROVE PassesAreTrue
  <2> SUFFICES ASSUME result = "ok" PROVE Promise(task, answer)
    BY DEF PassesAreTrue
  <2>1. task \in Tasks /\ answer \in Answers(task) /\ Check(task, answer) = "ok"
    BY <1>1 DEF Checked, Outcomes
  <2>2. Sound(task, answer)
    BY <2>1, KnownTypes, ChecksSound DEF AllComparable
  <2> QED BY <2>1, <2>2 DEF Sound
<1> QED BY <1>1, CheckedKept, PTL

\* The failed assertion that is kept is about an answer its check rejects.
Rejected ==
    /\ task \in Tasks
    /\ exception # None => /\ exception \in Answers(task)
                           /\ Check(task, exception) = "assertion"

\* The assertion that a task raises when its timer ends is about an answer its
\* claim is false of: the retry loop of Task.__call__ keeps no other, and no check
\* rejects an answer that the task's claim is true of.
THEOREM RejectionsTrue ==
    ASSUME AllComparable
    PROVE  Spec => []RejectionsAreTrue
<1>1. Init => Rejected
  BY DEF Init, Rejected
<1>2. ASSUME Rejected, [Next]_vars PROVE Rejected'
  <2>1. CASE Poll
    BY <1>2, <2>1 DEF Rejected, Poll
  <2>2. CASE RequestFails
    BY <1>2, <2>2 DEF Rejected, RequestFails
  <2>3. CASE Timeout
    BY <1>2, <2>3 DEF Rejected, Timeout
  <2>4. CASE Terminated \/ UNCHANGED vars
    BY <1>2, <2>4 DEF Rejected, Terminated, vars
  <2> QED BY <1>2, <2>1, <2>2, <2>3, <2>4 DEF Next
<1>3. ASSUME Rejected PROVE RejectionsAreTrue
  <2> SUFFICES ASSUME exception # None PROVE ~Promise(task, exception)
    BY DEF RejectionsAreTrue
  <2>1. /\ task \in Tasks /\ exception \in Answers(task)
        /\ Check(task, exception) = "assertion"
    BY <1>3 DEF Rejected
  <2>2. Sound(task, exception)
    BY <2>1, KnownTypes, ChecksSound DEF AllComparable
  <2> QED BY <2>1, <2>2 DEF Sound
<1> QED BY <1>1, <1>2, <1>3, PTL DEF Spec
=============================================================================
