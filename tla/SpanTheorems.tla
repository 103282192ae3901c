---------------------------- MODULE SpanTheorems ----------------------------
(***************************************************************************)
(* Facts about swaps and reorderings of spans, for every span size and      *)
(* every object type, and about the words a span of bytes is seen as.       *)
(***************************************************************************)
EXTENDS Words, FunctionTheorems, FiniteSetTheorems, WellFoundedInduction, TLAPS

\* A swap of two indices of a span is a span.
LEMMA SwapType ==
    ASSUME NEW n \in Nat, NEW T, NEW a \in SpanOf(n, T),
           NEW x \in 0 .. n-1, NEW y \in 0 .. n-1
    PROVE  Swapped(a, x, y) \in SpanOf(n, T)
BY DEF Swapped, SpanOf

\* What a swap leaves at each index.
LEMMA SwapAt ==
    ASSUME NEW n \in Nat, NEW T, NEW a \in SpanOf(n, T),
           NEW x \in 0 .. n-1, NEW y \in 0 .. n-1
    PROVE  /\ Swapped(a, x, y)[x] = a[y]
           /\ Swapped(a, x, y)[y] = a[x]
           /\ \A z \in 0 .. n-1 : z # x /\ z # y => Swapped(a, x, y)[z] = a[z]
BY DEF Swapped, SpanOf

\* Swapping twice changes nothing: why unshuffle can undo shuffle.
LEMMA SwapInvolution ==
    ASSUME NEW n \in Nat, NEW T, NEW a \in SpanOf(n, T),
           NEW x \in 0 .. n-1, NEW y \in 0 .. n-1
    PROVE  Swapped(Swapped(a, x, y), x, y) = a
<1>1. Swapped(a, x, y) \in SpanOf(n, T) /\ Swapped(Swapped(a, x, y), x, y) \in SpanOf(n, T)
  BY SwapType
<1>2. \A z \in 0 .. n-1 : Swapped(Swapped(a, x, y), x, y)[z] = a[z]
  BY DEF Swapped, SpanOf
<1> QED
  BY <1>1, <1>2 DEF SpanOf

\* The two stores of std::swap, the temporary holding the old a[x].
LEMMA TwoStores ==
    ASSUME NEW n \in Nat, NEW T, NEW a \in SpanOf(n, T),
           NEW x \in 0 .. n-1, NEW y \in 0 .. n-1
    PROVE  [[a EXCEPT ![x] = a[y]] EXCEPT ![y] = a[x]] = Swapped(a, x, y)
<1>1. [[a EXCEPT ![x] = a[y]] EXCEPT ![y] = a[x]] \in SpanOf(n, T)
  BY DEF SpanOf
<1>2. Swapped(a, x, y) \in SpanOf(n, T)
  BY SwapType
<1>3. \A z \in 0 .. n-1 :
        [[a EXCEPT ![x] = a[y]] EXCEPT ![y] = a[x]][z] = Swapped(a, x, y)[z]
  BY DEF Swapped, SpanOf
<1> QED
  BY <1>1, <1>2, <1>3 DEF SpanOf

-----------------------------------------------------------------------------
\* A span is a reordering of itself.
LEMMA SameObjectsReflexive ==
    ASSUME NEW n \in Nat, NEW T, NEW a \in SpanOf(n, T)
    PROVE  SameObjects(a, a)
<1> DEFINE p == [x \in 0 .. n-1 |-> x]
<1>1. p \in Bijection(0 .. n-1, 0 .. n-1)
  BY Fun_IsBij
<1>2. DOMAIN a = 0 .. n-1
  BY DEF SpanOf
<1>3. \A x \in DOMAIN a : a[x] = a[p[x]]
  BY <1>2
<1> QED
  BY <1>1, <1>2, <1>3 DEF SameObjects

\* So is what a swap makes of a reordering.
LEMMA SameObjectsSwap ==
    ASSUME NEW n \in Nat, NEW T, NEW a \in SpanOf(n, T), NEW b \in SpanOf(n, T),
           NEW x \in 0 .. n-1, NEW y \in 0 .. n-1,
           SameObjects(a, b)
    PROVE  SameObjects(a, Swapped(b, x, y))
<1> DEFINE I == 0 .. n-1
<1>1. DOMAIN a = I /\ DOMAIN b = I
  BY DEF SpanOf
<1>2. PICK p \in Bijection(I, I) : \A z \in I : b[z] = a[p[z]]
  BY <1>1 DEF SameObjects
<1> HIDE DEF I
<1>3. p \in [I -> I] /\ (\A u, v \in I : p[u] = p[v] => u = v) /\ (\A t \in I : \E s \in I : p[s] = t)
  BY Fun_BijectionProperties
<1> DEFINE q == [z \in I |-> IF z = x THEN p[y] ELSE IF z = y THEN p[x] ELSE p[z]]
<1> x \in I /\ y \in I
  BY DEF I
<1>4. q \in [I -> I]
  BY <1>3
<1>5. \A u, v \in I : q[u] = q[v] => u = v
  BY <1>3
<1>6. \A t \in I : \E s \in I : q[s] = t
  <2> TAKE t \in I
  <2>1. PICK s \in I : p[s] = t
    BY <1>3
  <2>2. CASE s = x
    <3>1. q[y] = t
      BY <2>1, <2>2
    <3> QED
      BY <3>1
  <2>3. CASE s = y
    <3>1. q[x] = t
      BY <2>1, <2>3
    <3> QED
      BY <3>1
  <2>4. CASE s # x /\ s # y
    <3>1. q[s] = t
      BY <2>1, <2>4
    <3> QED
      BY <3>1
  <2> QED
    BY <2>2, <2>3, <2>4
<1>7. q \in Bijection(I, I)
  <2> HIDE DEF q
  <2> QED
    BY <1>4, <1>5, <1>6, Fun_IsBij
<1>8. DOMAIN Swapped(b, x, y) = I
  BY <1>1 DEF Swapped
<1>9. \A z \in I : Swapped(b, x, y)[z] = a[q[z]]
  BY <1>1, <1>2 DEF Swapped
<1> QED
  BY <1>1, <1>7, <1>8, <1>9 DEF SameObjects

\* Reordering is symmetric and transitive, in the form the proofs use it: two
\* reorderings of one span are reorderings of each other.
LEMMA SameObjectsEuclidean ==
    ASSUME NEW n \in Nat, NEW T, NEW a \in SpanOf(n, T), NEW b \in SpanOf(n, T),
           NEW c \in SpanOf(n, T), SameObjects(a, b), SameObjects(a, c)
    PROVE  SameObjects(b, c)
<1> DEFINE I == 0 .. n-1
<1>1. DOMAIN a = I /\ DOMAIN b = I /\ DOMAIN c = I
  BY DEF SpanOf
<1>2. PICK p \in Bijection(I, I) : \A z \in I : b[z] = a[p[z]]
  BY <1>1 DEF SameObjects
<1>3. PICK q \in Bijection(I, I) : \A z \in I : c[z] = a[q[z]]
  BY <1>1 DEF SameObjects
<1> DEFINE r == Inverse(p, I, I)
           s == [z \in I |-> r[q[z]]]
<1> HIDE DEF I, r
<1>4. r \in Bijection(I, I)
  BY Fun_BijInverse DEF r
<1>5. p \in [I -> I] /\ \A t \in I : \E u \in I : p[u] = t
  BY Fun_BijectionProperties
<1>6. \A u \in I : r[p[u]] = u
  BY Fun_BijInverse DEF r
<1>7. \A t \in I : r[t] \in I /\ p[r[t]] = t
  BY <1>5, <1>6
<1>8. q \in [I -> I]
  BY Fun_BijectionProperties
<1>9. s \in Bijection(I, I)
  BY <1>4, Fun_BijTransitive
<1>10. \A z \in I : c[z] = b[s[z]]
  BY <1>2, <1>3, <1>7, <1>8
<1> QED
  BY <1>1, <1>9, <1>10 DEF SameObjects

\* And so in both directions along a chain.
LEMMA SameObjectsChain ==
    ASSUME NEW n \in Nat, NEW T, NEW a \in SpanOf(n, T), NEW b \in SpanOf(n, T),
           NEW c \in SpanOf(n, T), SameObjects(a, b), SameObjects(b, c)
    PROVE  SameObjects(a, c) /\ SameObjects(c, a)
<1>1. SameObjects(a, a)
  BY SameObjectsReflexive
<1>2. SameObjects(b, a)
  BY <1>1, SameObjectsEuclidean
<1> QED  BY <1>2, SameObjectsEuclidean

\* A reordering has the same set of objects, so minmax_t cannot tell the two
\* apart.
LEMMA SameObjectsRange ==
    ASSUME NEW n \in Nat, NEW T, NEW a \in SpanOf(n, T), NEW b \in SpanOf(n, T),
           SameObjects(a, b)
    PROVE  Range(a) = Range(b)
<1> DEFINE I == 0 .. n-1
<1>1. DOMAIN a = I /\ DOMAIN b = I
  BY DEF SpanOf
<1>2. PICK p \in Bijection(I, I) : \A z \in I : b[z] = a[p[z]]
  BY <1>1 DEF SameObjects
<1> HIDE DEF I
<1>3. p \in [I -> I] /\ \A t \in I : \E u \in I : p[u] = t
  BY Fun_BijectionProperties
<1>4. Range(b) \subseteq Range(a)
  BY <1>1, <1>2, <1>3 DEF Range
<1>5. Range(a) \subseteq Range(b)
  <2> SUFFICES ASSUME NEW t \in I PROVE a[t] \in Range(b)
    BY <1>1 DEF Range
  <2>1. PICK u \in I : p[u] = t
    BY <1>3
  <2> QED
    BY <1>1, <1>2, <2>1 DEF Range
<1> QED
  BY <1>4, <1>5

\* Reorderings hold every object as often: the occurrences in one are mapped
\* one to one onto the occurrences in the other.
LEMMA SameObjectsCounts ==
    ASSUME NEW n \in Nat, NEW T, NEW a \in SpanOf(n, T), NEW b \in SpanOf(n, T),
           SameObjects(a, b)
    PROVE  SameCounts(a, b)
<1> DEFINE I == 0 .. n-1
<1>1. DOMAIN a = I /\ DOMAIN b = I
  BY DEF SpanOf
<1>2. PICK p \in Bijection(I, I) : \A z \in I : b[z] = a[p[z]]
  BY <1>1 DEF SameObjects
<1>3. IsFiniteSet(I)
  BY FS_Interval
<1> HIDE DEF I
<1>4. p \in [I -> I] /\ (\A u, v \in I : p[u] = p[v] => u = v) /\ \A t \in I : \E u \in I : p[u] = t
  BY Fun_BijectionProperties
<1>5. ASSUME NEW x PROVE Count(a, x) = Count(b, x)
  <2> DEFINE A == { k \in I : a[k] = x }
             B == { k \in I : b[k] = x }
             q == [k \in B |-> p[k]]
  <2>1. q \in [B -> A]
    BY <1>2, <1>4
  <2>2. \A u, v \in B : q[u] = q[v] => u = v
    BY <1>4
  <2>3. \A t \in A : \E u \in B : q[u] = t
    BY <1>2, <1>4
  <2>4. q \in Bijection(B, A)
    <3> HIDE DEF A, B, q
    <3> QED
      BY <2>1, <2>2, <2>3, Fun_IsBij
  <2>5. IsFiniteSet(B)
    BY <1>3, FS_Subset
  <2>6. ExistsBijection(B, A)
    BY <2>4 DEF ExistsBijection
  <2>7. Cardinality(A) = Cardinality(B)
    <3> HIDE DEF A, B, q
    <3> QED
      BY <2>5, <2>6, FS_Bijection
  <2> QED
    BY <1>1, <2>7 DEF Count
<1> QED
  BY <1>1, <1>5 DEF SameCounts

\* Objects that are all different stay so.
LEMMA SameObjectsInjective ==
    ASSUME NEW n \in Nat, NEW T, NEW a \in SpanOf(n, T), NEW b \in SpanOf(n, T),
           SameObjects(a, b), IsInjective(a)
    PROVE  \A x, y \in 0 .. n-1 : b[x] = b[y] => x = y
<1> DEFINE I == 0 .. n-1
<1>1. DOMAIN a = I /\ DOMAIN b = I
  BY DEF SpanOf
<1>2. PICK p \in Bijection(I, I) : \A z \in I : b[z] = a[p[z]]
  BY <1>1 DEF SameObjects
<1>3. \A u, v \in I : a[u] = a[v] => u = v
  BY <1>1 DEF IsInjective
<1> HIDE DEF I
<1>4. p \in [I -> I] /\ \A u, v \in I : p[u] = p[v] => u = v
  BY Fun_BijectionProperties
<1>5. \A x, y \in I : b[x] = b[y] => x = y
  BY <1>2, <1>3, <1>4
<1> QED  BY <1>5 DEF I

-----------------------------------------------------------------------------
\* A set of naturals has a least element, and so one that holds 0 and with
\* each number the next holds them all.
LEMMA LeastOf ==
    ASSUME NEW S \in SUBSET Nat, S # {}
    PROVE  \E x \in S : \A y \in S : x <= y
<1> DEFINE less == OpToRel(<, Nat)
<1>1. \A x, y \in Nat : x < y => <<x, y>> \in less
  BY DEF OpToRel
<1>2. IsWellFoundedOn(less, Nat)
  BY NatLessThanWellFounded
<1> HIDE DEF less
<1>3. PICK x \in S : \A y \in S : ~(<<y, x>> \in less)
  BY <1>2, WFMin
<1>4. ASSUME NEW y \in S PROVE x <= y
  <2>1. x \in Nat /\ y \in Nat
    OBVIOUS
  <2>2. ~(y < x)
    BY <1>1, <1>3, <2>1
  <2> QED  BY <2>1, <2>2
<1> QED  BY <1>4

LEMMA AllNaturals ==
    ASSUME NEW S \in SUBSET Nat, 0 \in S, \A m \in Nat : m \in S => m + 1 \in S
    PROVE  S = Nat
<1> SUFFICES ASSUME Nat \ S # {} PROVE FALSE
  OBVIOUS
<1>1. PICK x \in Nat \ S : \A y \in Nat \ S : x <= y
  BY LeastOf
<1>2. x - 1 \in Nat /\ x - 1 \in S
  BY <1>1
<1> QED  BY <1>1, <1>2

-----------------------------------------------------------------------------
\* r[x] is the span a after the first x of the m swaps of sw.
IsPath(r, a, sw, m) ==
    /\ r[0] = a
    /\ \A x \in 1 .. m : r[x] = Swapped(r[x-1], sw[x][1], sw[x][2])

\* Swaps of indices can be made, and reorder.
LEMMA PathExists ==
    ASSUME NEW n \in Nat, NEW T, NEW a \in SpanOf(n, T), NEW m \in Nat,
           NEW sw \in [1 .. m -> (0 .. n-1) \X (0 .. n-1)]
    PROVE  \E r \in [0 .. m -> SpanOf(n, T)] :
              IsPath(r, a, sw, m) /\ \A x \in 0 .. m : SameObjects(a, r[x])
<1> DEFINE Paths(l) == { r \in [0 .. l -> SpanOf(n, T)] :
                IsPath(r, a, sw, l) /\ \A x \in 0 .. l : SameObjects(a, r[x]) }
           S == { l \in Nat : l <= m => Paths(l) # {} }
<1> HIDE DEF Paths
<1>1. 0 \in S
  <2> DEFINE r == [x \in 0 .. 0 |-> a]
  <2>1. r \in [0 .. 0 -> SpanOf(n, T)] /\ IsPath(r, a, sw, 0)
    BY DEF IsPath
  <2>2. \A x \in 0 .. 0 : SameObjects(a, r[x])
    BY SameObjectsReflexive
  <2> HIDE DEF r
  <2>3. Paths(0) # {}
    BY <2>1, <2>2 DEF Paths
  <2> QED  BY <2>3
<1>2. ASSUME NEW l \in Nat, l \in S PROVE l + 1 \in S
  <2> SUFFICES ASSUME l + 1 <= m PROVE Paths(l + 1) # {}
    OBVIOUS
  <2>1. PICK r \in [0 .. l -> SpanOf(n, T)] :
            IsPath(r, a, sw, l) /\ \A x \in 0 .. l : SameObjects(a, r[x])
    <3>1. Paths(l) # {}
      BY <1>2
    <3> QED  BY <3>1 DEF Paths
  <2> DEFINE last == Swapped(r[l], sw[l+1][1], sw[l+1][2])
             q == [x \in 0 .. l+1 |-> IF x = l + 1 THEN last ELSE r[x]]
  <2>2. l \in 0 .. l /\ r[l] \in SpanOf(n, T) /\ sw[l+1] \in (0 .. n-1) \X (0 .. n-1)
    OBVIOUS
  <2>3. sw[l+1][1] \in 0 .. n-1 /\ sw[l+1][2] \in 0 .. n-1
    BY <2>2
  <2>4. last \in SpanOf(n, T) /\ SameObjects(a, last)
    BY <2>1, <2>2, <2>3, SwapType, SameObjectsSwap
  <2> HIDE DEF last
  <2>5. q \in [0 .. l+1 -> SpanOf(n, T)]
    BY <2>4
  <2>6. q[l+1] = last /\ \A x \in 0 .. l : q[x] = r[x]
    OBVIOUS
  <2> HIDE DEF q
  <2>7. q[0] = a
    BY <2>1, <2>6 DEF IsPath
  <2>8. ASSUME NEW x \in 1 .. l+1 PROVE q[x] = Swapped(q[x-1], sw[x][1], sw[x][2])
    <3>1. CASE x = l + 1
      <4>1. q[x] = last /\ x - 1 = l /\ q[l] = r[l]
        BY <3>1, <2>6
      <4> QED  BY <3>1, <4>1 DEF last
    <3>2. CASE x # l + 1
      <4>1. x \in 1 .. l /\ x \in 0 .. l /\ x - 1 \in 0 .. l
        BY <3>2
      <4>2. q[x] = r[x] /\ q[x-1] = r[x-1]
        BY <4>1, <2>6
      <4> QED  BY <2>1, <4>1, <4>2 DEF IsPath
    <3> QED  BY <3>1, <3>2
  <2>9. IsPath(q, a, sw, l + 1)
    BY <2>7, <2>8 DEF IsPath
  <2>10. \A x \in 0 .. l+1 : SameObjects(a, q[x])
    <3>1. \A x \in 0 .. l+1 : x = l + 1 \/ x \in 0 .. l
      OBVIOUS
    <3> QED  BY <3>1, <2>1, <2>4, <2>6
  <2> QED  BY <2>5, <2>9, <2>10 DEF Paths
<1>3. S = Nat
  <2> HIDE DEF S
  <2>1. S \in SUBSET Nat
    BY DEF S
  <2> QED  BY <1>1, <1>2, <2>1, AllNaturals
<1>4. Paths(m) # {}
  <2>1. m \in S
    <3> HIDE DEF S
    <3> QED  BY <1>3
  <2>2. m <= m
    OBVIOUS
  <2> QED  BY <2>1, <2>2
<1> QED  BY <1>4 DEF Paths

\* The last swap first is the way back.
LEMMA PathBack ==
    ASSUME NEW n \in Nat, NEW T, NEW a \in SpanOf(n, T), NEW m \in Nat,
           NEW sw \in [1 .. m -> (0 .. n-1) \X (0 .. n-1)],
           NEW r \in [0 .. m -> SpanOf(n, T)], IsPath(r, a, sw, m)
    PROVE  IsPath([x \in 0 .. m |-> r[m - x]], r[m], [x \in 1 .. m |-> sw[m + 1 - x]], m)
<1> DEFINE q == [x \in 0 .. m |-> r[m - x]]
           back == [x \in 1 .. m |-> sw[m + 1 - x]]
<1>1. q[0] = r[m]
  OBVIOUS
<1>2. ASSUME NEW x \in 1 .. m PROVE q[x] = Swapped(q[x-1], back[x][1], back[x][2])
  <2> DEFINE y == m + 1 - x
  <2>1. y \in 1 .. m /\ y - 1 \in 0 .. m /\ y \in 0 .. m /\ m - x = y - 1 /\ m - (x - 1) = y /\ x - 1 \in 0 .. m
    OBVIOUS
  <2>2. q[x] = r[y-1] /\ q[x-1] = r[y] /\ back[x] = sw[y]
    BY <2>1
  <2> HIDE DEF y, q, back
  <2>3. r[y] = Swapped(r[y-1], sw[y][1], sw[y][2]) /\ r[y-1] \in SpanOf(n, T)
    BY <2>1 DEF IsPath
  <2>4. sw[y] \in (0 .. n-1) \X (0 .. n-1)
    BY <2>1
  <2>5. sw[y][1] \in 0 .. n-1 /\ sw[y][2] \in 0 .. n-1
    BY <2>4
  <2>6. Swapped(Swapped(r[y-1], sw[y][1], sw[y][2]), sw[y][1], sw[y][2]) = r[y-1]
    BY <2>3, <2>5, SwapInvolution
  <2> QED  BY <2>2, <2>3, <2>6
<1> QED  BY <1>1, <1>2 DEF IsPath

-----------------------------------------------------------------------------
\* Where the objects of the first span are after the swaps of the loop down to
\* index k: no index above k has its own back, and one that is not above it has
\* its own still or that of an index above.
Carried(first, a, k, n) ==
    /\ \A x \in k+1 .. n-1 : \E y \in 0 .. n-1 : y # x /\ a[x] = first[y]
    /\ \A x \in 0 .. k : a[x] = first[x] \/ \E y \in k+1 .. n-1 : a[x] = first[y]

LEMMA SattoloStep ==
    ASSUME NEW n \in Nat, NEW T, NEW first \in SpanOf(n, T), NEW a \in SpanOf(n, T),
           NEW k \in 1 .. n-1, NEW r \in 0 .. k-1, Carried(first, a, k, n)
    PROVE  Carried(first, Swapped(a, k, r), k - 1, n)
<1> DEFINE b == Swapped(a, k, r)
<1>1. k \in 0 .. n-1 /\ r \in 0 .. n-1 /\ k # r /\ k - 1 \in Nat /\ (k - 1) + 1 = k
  OBVIOUS
<1>2. b[k] = a[r] /\ b[r] = a[k] /\ \A z \in 0 .. n-1 : z # k /\ z # r => b[z] = a[z]
  BY <1>1, SwapAt
<1> HIDE DEF b
<1>3. ASSUME NEW x \in k .. n-1 PROVE \E y \in 0 .. n-1 : y # x /\ b[x] = first[y]
  <2>1. CASE x = k
    <3>1. a[r] = first[r] \/ \E y \in k+1 .. n-1 : a[r] = first[y]
      BY DEF Carried
    <3>2. CASE a[r] = first[r]
      BY <1>1, <1>2, <2>1, <3>2
    <3>3. CASE \E y \in k+1 .. n-1 : a[r] = first[y]
      <4>1. PICK y \in k+1 .. n-1 : a[r] = first[y]
        BY <3>3
      <4>2. y \in 0 .. n-1 /\ y # x
        BY <1>1, <2>1
      <4> QED  BY <1>2, <2>1, <4>1, <4>2
    <3> QED  BY <3>1, <3>2, <3>3
  <2>2. CASE x # k
    <3>1. x \in k+1 .. n-1 /\ x \in 0 .. n-1 /\ x # r
      BY <1>1, <2>2
    <3>2. b[x] = a[x]
      BY <1>2, <2>2, <3>1
    <3> QED  BY <3>1, <3>2 DEF Carried
  <2> QED  BY <2>1, <2>2
<1>4. ASSUME NEW x \in 0 .. k-1
      PROVE  b[x] = first[x] \/ \E y \in k .. n-1 : b[x] = first[y]
  <2>1. x \in 0 .. n-1 /\ x # k /\ x \in 0 .. k /\ k \in 0 .. k
    BY <1>1
  <2>2. CASE x = r
    <3>1. a[k] = first[k] \/ \E y \in k+1 .. n-1 : a[k] = first[y]
      BY <2>1 DEF Carried
    <3>2. k \in k .. n-1 /\ \A y \in k+1 .. n-1 : y \in k .. n-1
      BY <1>1
    <3> QED  BY <1>2, <2>2, <3>1, <3>2
  <2>3. CASE x # r
    <3>1. b[x] = a[x]
      BY <1>2, <2>1, <2>3
    <3>2. a[x] = first[x] \/ \E y \in k+1 .. n-1 : a[x] = first[y]
      BY <2>1 DEF Carried
    <3>3. \A y \in k+1 .. n-1 : y \in k .. n-1
      BY <1>1
    <3> QED  BY <3>1, <3>2, <3>3
  <2> QED  BY <2>2, <2>3
<1> QED  BY <1>1, <1>3, <1>4 DEF Carried, b

\* a[k] is the span of n objects when the loop index of shuffle is k, r[k] the
\* draw made then, below k; the objects were all different.
SattoloRun(n, T, a, r) ==
    /\ n \in Nat /\ n > 1
    /\ a \in [0 .. n-1 -> SpanOf(n, T)]
    /\ \A k \in 1 .. n-1 : r[k] \in 0 .. k-1 /\ a[k-1] = Swapped(a[k], k, r[k])
    /\ \A x, y \in 0 .. n-1 : a[n-1][x] = a[n-1][y] => x = y

\* Sattolo's algorithm leaves no object where it was.
LEMMA Sattolo ==
    ASSUME NEW n, NEW T, NEW a, NEW r, SattoloRun(n, T, a, r)
    PROVE  \A x \in 0 .. n-1 : a[0][x] # a[n-1][x]
<1>run. /\ n \in Nat /\ n > 1
        /\ a \in [0 .. n-1 -> SpanOf(n, T)]
        /\ \A k \in 1 .. n-1 : r[k] \in 0 .. k-1 /\ a[k-1] = Swapped(a[k], k, r[k])
        /\ \A x, y \in 0 .. n-1 : a[n-1][x] = a[n-1][y] => x = y
  BY DEF SattoloRun
<1> USE <1>run
<1> DEFINE first == a[n-1]
           S == { m \in Nat : m <= n-1 => Carried(first, a[n-1-m], n-1-m, n) }
<1>0. first \in SpanOf(n, T)
  OBVIOUS
<1>1. 0 \in S
  <2>1. n-1-0 = n-1 /\ n-1 \in Nat
    OBVIOUS
  <2>2. Carried(first, a[n-1], n-1, n)
    BY DEF Carried
  <2> QED  BY <2>1, <2>2
<1>2. ASSUME NEW m \in Nat, m \in S PROVE m + 1 \in S
  <2> SUFFICES ASSUME m + 1 <= n-1 PROVE Carried(first, a[n-1-(m+1)], n-1-(m+1), n)
    OBVIOUS
  <2> DEFINE k == n-1-m
  <2>1. k \in 1 .. n-1 /\ n-1-(m+1) = k-1 /\ m <= n-1
    OBVIOUS
  <2>2. Carried(first, a[k], k, n)
    BY <1>2, <2>1
  <2> HIDE DEF k, first
  <2>3. r[k] \in 0 .. k-1 /\ a[k-1] = Swapped(a[k], k, r[k]) /\ a[k] \in SpanOf(n, T)
    BY <2>1
  <2>4. Carried(first, a[k-1], k-1, n)
    BY <1>0, <2>1, <2>2, <2>3, SattoloStep
  <2> QED  BY <2>1, <2>4
<1>3. S = Nat
  <2> HIDE DEF S
  <2>1. S \in SUBSET Nat
    BY DEF S
  <2> QED  BY <1>1, <1>2, <2>1, AllNaturals
<1>4. \A k \in 0 .. n-1 : Carried(first, a[k], k, n)
  <2> TAKE k \in 0 .. n-1
  <2>1. n-1-k \in Nat /\ n-1-k <= n-1 /\ n-1-(n-1-k) = k
    OBVIOUS
  <2>2. n-1-k \in S
    BY <1>3, <2>1
  <2> QED  BY <2>1, <2>2
<1> HIDE DEF S, first
<1>5. \A x, y \in 0 .. n-1 : first[x] = first[y] => x = y
  BY DEF first
<1>6. ASSUME NEW x \in 1 .. n-1 PROVE a[0][x] # first[x]
  <2>1. 0 \in 0 .. n-1 /\ x \in 0+1 .. n-1 /\ x \in 0 .. n-1
    OBVIOUS
  <2>m. Carried(first, a[0], 0, n)
    BY <1>4, <2>1
  <2>2. PICK y \in 0 .. n-1 : y # x /\ a[0][x] = first[y]
    BY <2>1, <2>m DEF Carried
  <2> QED  BY <1>5, <2>1, <2>2
<1>7. a[0][0] # first[0]
  <2>1. 1 \in 0 .. n-1 /\ 1 \in 1 .. n-1 /\ 0 \in 0 .. n-1 /\ 1 - 1 = 0 /\ 0 .. 1 - 1 = {0}
    OBVIOUS
  <2>2. r[1] = 0 /\ a[0] = Swapped(a[1], 1, r[1]) /\ a[1] \in SpanOf(n, T)
    BY <2>1
  <2>3. a[0][0] = a[1][1]
    BY <2>1, <2>2, SwapAt
  <2>4. a[1][1] = first[1] \/ \E y \in 1+1 .. n-1 : a[1][1] = first[y]
    BY <1>4, <2>1 DEF Carried
  <2>5. PICK y \in 1 .. n-1 : a[1][1] = first[y]
    BY <2>1, <2>4
  <2>6. y \in 0 .. n-1 /\ y # 0
    OBVIOUS
  <2> QED  BY <1>5, <2>1, <2>3, <2>5, <2>6
<1>8. \A x \in 0 .. n-1 : x \in 1 .. n-1 \/ x = 0
  OBVIOUS
<1> QED  BY <1>6, <1>7, <1>8 DEF first

-----------------------------------------------------------------------------
(* Division.                                                                *)

LEMMA Split ==
    ASSUME NEW x \in Nat, NEW w \in Nat \ {0}
    PROVE  /\ x = (x \div w) * w + (x % w)
           /\ (x % w) \in 0 .. w-1 /\ x \div w \in Nat
OBVIOUS

LEMMA Join ==
    ASSUME NEW q \in Nat, NEW w \in Nat \ {0}, NEW r \in 0 .. w-1
    PROVE  (q*w + r) \div w = q /\ (q*w + r) % w = r /\ q*w + r \in Nat
OBVIOUS

\* The word an index is in is whole just when the index is below the whole
\* words.
LEMMA InWord ==
    ASSUME NEW N \in Nat, NEW w \in Nat \ {0}
    PROVE  /\ WordCount(N, w) \in Nat
           /\ \A k \in 0 .. WordCount(N, w) - 1 : \A b \in 0 .. w-1 : k*w + b \in 0 .. N-1
           /\ \A k \in Nat : (\A b \in 0 .. w-1 : k*w + b < N) => k \in 0 .. WordCount(N, w) - 1
<1> DEFINE n == N \div w
<1>1. N = n * w + (N % w) /\ (N % w) \in 0 .. w-1 /\ n \in Nat
  BY Split
<1> HIDE DEF n
<1>2. ASSUME NEW k \in 0 .. n-1, NEW b \in 0 .. w-1 PROVE k*w + b \in 0 .. N-1
  <2>1. (k + 1) * w <= n * w /\ (k + 1) * w = k*w + w /\ k*w \in Nat
    BY <1>1
  <2> QED  BY <1>1, <2>1
<1>3. ASSUME NEW k \in Nat, \A b \in 0 .. w-1 : k*w + b < N PROVE k \in 0 .. n-1
  <2>1. k*w + (w-1) < N /\ k*w \in Nat /\ (k + 1) * w = k*w + w
    BY <1>3
  <2>2. (k + 1) * w <= N
    BY <2>1
  <2>3. CASE k >= n
    <3>1. (n + 1) * w <= (k + 1) * w /\ (n + 1) * w = n * w + w
      BY <1>1, <2>3
    <3> QED  BY <1>1, <2>2, <3>1
  <2> QED  BY <1>1, <2>3
<1> QED  BY <1>1, <1>2, <1>3 DEF n, WordCount

-----------------------------------------------------------------------------
(* Words.                                                                   *)

Word(w, T) == [0 .. w-1 -> T]

\* How many indices a span of N has.
LEMMA SizeOf ==
    ASSUME NEW N \in Nat, NEW T, NEW f \in SpanOf(N, T)
    PROVE  Cardinality(DOMAIN f) = N /\ DOMAIN f = 0 .. N-1
<1>1. DOMAIN f = 0 .. N-1
  BY DEF SpanOf
<1>2. Cardinality(0 .. N-1) = N
  BY FS_Interval
<1> QED  BY <1>1, <1>2

LEMMA WordsType ==
    ASSUME NEW N \in Nat, NEW w \in Nat \ {0}, NEW T, NEW f \in SpanOf(N, T)
    PROVE  /\ Reinterpret(f, w) \in SpanOf(WordCount(N, w), Word(w, T))
           /\ \A k \in 0 .. WordCount(N, w) - 1 : \A b \in 0 .. w-1 :
                 Reinterpret(f, w)[k][b] = f[k*w + b]
<1> DEFINE n == WordCount(N, w)
<1>1. n \in Nat /\ \A k \in 0 .. n-1 : \A b \in 0 .. w-1 : k*w + b \in 0 .. N-1
  BY InWord
<1>2. Reinterpret(f, w) = [k \in 0 .. n-1 |-> [b \in 0 .. w-1 |-> f[k*w + b]]]
  BY SizeOf DEF Reinterpret
<1> HIDE DEF n
<1>3. f \in [0 .. N-1 -> T]
  BY DEF SpanOf
<1>4. \A k \in 0 .. n-1 : [b \in 0 .. w-1 |-> f[k*w + b]] \in Word(w, T)
  BY <1>1, <1>3 DEF Word
<1>5. [k \in 0 .. n-1 |-> [b \in 0 .. w-1 |-> f[k*w + b]]] \in SpanOf(n, Word(w, T))
  BY <1>4 DEF SpanOf
<1> QED  BY <1>2, <1>5 DEF n

\* What writing words back leaves in the file.
LEMMA WithWordsIs ==
    ASSUME NEW N \in Nat, NEW w \in Nat \ {0}, NEW T, NEW f \in SpanOf(N, T),
           NEW v \in SpanOf(WordCount(N, w), Word(w, T))
    PROVE  /\ WithWords(f, w, v) \in SpanOf(N, T)
           /\ \A k \in 0 .. WordCount(N, w) - 1 : \A b \in 0 .. w-1 :
                 WithWords(f, w, v)[k*w + b] = v[k][b]
           /\ \A x \in 0 .. N-1 : x \div w \notin 0 .. WordCount(N, w) - 1 =>
                 WithWords(f, w, v)[x] = f[x]
           /\ Reinterpret(WithWords(f, w, v), w) = v
<1> DEFINE n == WordCount(N, w)
           g == WithWords(f, w, v)
<1>1. n \in Nat /\ \A k \in 0 .. n-1 : \A b \in 0 .. w-1 : k*w + b \in 0 .. N-1
  BY InWord
<1>2. DOMAIN v = 0 .. n-1 /\ DOMAIN f = 0 .. N-1 /\ f \in [0 .. N-1 -> T]
      /\ \A k \in 0 .. n-1 : v[k] \in [0 .. w-1 -> T]
  BY DEF SpanOf, Word
<1>3. g = [x \in 0 .. N-1 |-> IF x \div w \in 0 .. n-1 THEN v[x \div w][x % w] ELSE f[x]]
  BY <1>2 DEF WithWords
<1> HIDE DEF n, g
<1>4. g \in SpanOf(N, T)
  <2>1. \A x \in 0 .. N-1 : (x % w) \in 0 .. w-1
    BY Split
  <2>2. \A x \in 0 .. N-1 : (IF x \div w \in 0 .. n-1 THEN v[x \div w][x % w] ELSE f[x]) \in T
    BY <1>2, <2>1
  <2> QED  BY <1>3, <2>2 DEF SpanOf
<1>5. ASSUME NEW k \in 0 .. n-1, NEW b \in 0 .. w-1 PROVE g[k*w + b] = v[k][b]
  <2>1. k \in Nat /\ k*w + b \in 0 .. N-1
    BY <1>1
  <2>2. (k*w + b) \div w = k /\ (k*w + b) % w = b
    BY <2>1, Join
  <2> QED  BY <1>3, <2>1, <2>2
<1>6. \A x \in 0 .. N-1 : x \div w \notin 0 .. n-1 => g[x] = f[x]
  BY <1>3
<1>7. Reinterpret(g, w) = v
  <2>1. Reinterpret(g, w) \in SpanOf(n, Word(w, T))
        /\ \A k \in 0 .. n-1 : \A b \in 0 .. w-1 : Reinterpret(g, w)[k][b] = g[k*w + b]
    BY <1>4, WordsType DEF n
  <2> DEFINE u == Reinterpret(g, w)
  <2> HIDE DEF u
  <2>2. \A k \in 0 .. n-1 : u[k] \in [0 .. w-1 -> T] /\ \A b \in 0 .. w-1 : u[k][b] = v[k][b]
    BY <1>5, <2>1 DEF u, SpanOf, Word
  <2>3. \A k \in 0 .. n-1 : u[k] = v[k]
    BY <1>2, <2>2, SMTT(30)
  <2>4. u = [k \in 0 .. n-1 |-> u[k]] /\ v = [k \in 0 .. n-1 |-> v[k]]
    BY <2>1 DEF u, SpanOf, n
  <2>5. u = v
    BY <2>3, <2>4
  <2> QED  BY <2>5 DEF u
<1> QED  BY <1>4, <1>5, <1>6, <1>7 DEF n, g

\* Two files with the same whole words and the same tail are the same.
LEMMA SameFile ==
    ASSUME NEW N \in Nat, NEW w \in Nat \ {0}, NEW T, NEW f \in SpanOf(N, T), NEW g \in SpanOf(N, T),
           Reinterpret(f, w) = Reinterpret(g, w),
           \A x \in 0 .. N-1 : x \div w \notin 0 .. WordCount(N, w) - 1 => f[x] = g[x]
    PROVE  f = g
<1> DEFINE n == WordCount(N, w)
<1>1. ASSUME NEW x \in 0 .. N-1 PROVE f[x] = g[x]
  <2>1. CASE x \div w \in 0 .. n-1
    <3>1. x = (x \div w) * w + (x % w) /\ (x % w) \in 0 .. w-1
      BY Split
    <3>2. PICK k \in 0 .. n-1, b \in 0 .. w-1 : x = k*w + b
      BY <2>1, <3>1
    <3>3. Reinterpret(f, w)[k][b] = f[k*w + b] /\ Reinterpret(g, w)[k][b] = g[k*w + b]
      BY WordsType
    <3> QED  BY <3>2, <3>3
  <2> QED  BY <2>1
<1> QED  BY <1>1 DEF SpanOf

\* Writing words over words.
LEMMA WithWordsTwice ==
    ASSUME NEW N \in Nat, NEW w \in Nat \ {0}, NEW T, NEW f \in SpanOf(N, T),
           NEW v \in SpanOf(WordCount(N, w), Word(w, T))
    PROVE  WithWords(WithWords(f, w, v), w, Reinterpret(f, w)) = f
<1> DEFINE g == WithWords(f, w, v)
           h == WithWords(g, w, Reinterpret(f, w))
<1>1. g \in SpanOf(N, T)
      /\ \A x \in 0 .. N-1 : x \div w \notin 0 .. WordCount(N, w) - 1 => g[x] = f[x]
  BY WithWordsIs
<1>2. Reinterpret(f, w) \in SpanOf(WordCount(N, w), Word(w, T))
  BY WordsType
<1> HIDE DEF g
<1>3. h \in SpanOf(N, T) /\ Reinterpret(h, w) = Reinterpret(f, w)
      /\ \A x \in 0 .. N-1 : x \div w \notin 0 .. WordCount(N, w) - 1 => h[x] = g[x]
  BY <1>1, <1>2, WithWordsIs
<1> HIDE DEF h
<1>4. h = f
  BY <1>1, <1>3, SameFile
<1> QED  BY <1>4 DEF g, h

\* Words written over words are gone, and a file's own words change nothing.
LEMMA WithWordsOver ==
    ASSUME NEW N \in Nat, NEW w \in Nat \ {0}, NEW T, NEW f \in SpanOf(N, T),
           NEW u \in SpanOf(WordCount(N, w), Word(w, T)), NEW v \in SpanOf(WordCount(N, w), Word(w, T))
    PROVE  WithWords(WithWords(f, w, u), w, v) = WithWords(f, w, v)
<1> DEFINE g == WithWords(f, w, u)
           h == WithWords(g, w, v)
           e == WithWords(f, w, v)
<1>1. g \in SpanOf(N, T) /\ \A x \in 0 .. N-1 : x \div w \notin 0 .. WordCount(N, w) - 1 => g[x] = f[x]
  BY WithWordsIs
<1>2. e \in SpanOf(N, T) /\ Reinterpret(e, w) = v
      /\ \A x \in 0 .. N-1 : x \div w \notin 0 .. WordCount(N, w) - 1 => e[x] = f[x]
  BY WithWordsIs
<1> HIDE DEF g, e
<1>3. h \in SpanOf(N, T) /\ Reinterpret(h, w) = v
      /\ \A x \in 0 .. N-1 : x \div w \notin 0 .. WordCount(N, w) - 1 => h[x] = g[x]
  BY <1>1, WithWordsIs
<1> HIDE DEF h
<1>4. h = e
  BY <1>1, <1>2, <1>3, SameFile
<1> QED  BY <1>4 DEF g, h, e

LEMMA OwnWords ==
    ASSUME NEW N \in Nat, NEW w \in Nat \ {0}, NEW T, NEW f \in SpanOf(N, T)
    PROVE  WithWords(f, w, Reinterpret(f, w)) = f
<1> DEFINE v == Reinterpret(f, w)
           g == WithWords(f, w, v)
<1>1. v \in SpanOf(WordCount(N, w), Word(w, T))
  BY WordsType
<1> HIDE DEF v
<1>2. g \in SpanOf(N, T) /\ Reinterpret(g, w) = v
      /\ \A x \in 0 .. N-1 : x \div w \notin 0 .. WordCount(N, w) - 1 => g[x] = f[x]
  BY <1>1, WithWordsIs
<1> HIDE DEF g
<1>3. g = f
  BY <1>2, SameFile DEF v
<1> QED  BY <1>3 DEF g, v

-----------------------------------------------------------------------------
(* The loops of shuffle and unshuffle.                                      *)

\* The spans of n words between the swaps, by loop index, whichever way the
\* loop goes.
Rungs(at, n, draw, W) ==
    /\ at \in [0 .. n-1 -> SpanOf(n, W)]
    /\ \A k \in 1 .. n-1 : at[k-1] = Swapped(at[k], k, draw[k])

InBounds(draw, n) == \A k \in 1 .. n-1 : draw[k] \in 0 .. k

\* A swap and its bounds.
LEMMA OneRung ==
    ASSUME NEW n \in Nat \ {0}, NEW W, NEW draw, InBounds(draw, n), NEW k \in 1 .. n-1,
           NEW a \in SpanOf(n, W)
    PROVE  /\ Swapped(a, k, draw[k]) \in SpanOf(n, W)
           /\ Swapped(Swapped(a, k, draw[k]), k, draw[k]) = a
           /\ k-1 \in 0 .. n-1 /\ k \in 0 .. n-1 /\ draw[k] \in 0 .. n-1
<1>1. draw[k] \in 0 .. k
  BY DEF InBounds
<1>2. k-1 \in 0 .. n-1 /\ k \in 0 .. n-1 /\ draw[k] \in 0 .. n-1
  BY <1>1
<1> QED  BY <1>2, SwapType, SwapInvolution

\* From either end there are rungs to the other.
LEMMA RungsFromBottom ==
    ASSUME NEW n \in Nat \ {0}, NEW W, NEW draw, InBounds(draw, n), NEW v \in SpanOf(n, W)
    PROVE  \E g : Rungs(g, n, draw, W) /\ g[0] = v
<1> DEFINE I == 0 .. n-1
           Good(at, m) == /\ at \in [I -> SpanOf(n, W)] /\ at[0] = v
                          /\ \A k \in 1 .. n-1 : k <= m => at[k] = Swapped(at[k-1], k, draw[k])
           S == { m \in Nat : \E at : Good(at, m) }
<1>1. 0 \in S
  <2>1. Good([k \in I |-> v], 0)
    OBVIOUS
  <2> HIDE DEF Good
  <2> QED  BY <2>1
<1>2. ASSUME NEW m \in Nat, m \in S PROVE m + 1 \in S
  <2>1. PICK at : Good(at, m)
    BY <1>2
  <2>2. CASE m + 1 \in 1 .. n-1
    <3> DEFINE b == [at EXCEPT ![m+1] = Swapped(at[m], m+1, draw[m+1])]
    <3>1. m \in I /\ m + 1 \in I /\ (m + 1) - 1 = m /\ at[m] \in SpanOf(n, W)
      BY <2>1, <2>2
    <3>2. Swapped(at[m], m+1, draw[m+1]) \in SpanOf(n, W)
      BY <2>2, <3>1, OneRung
    <3>3. b \in [I -> SpanOf(n, W)] /\ b[0] = v
      BY <2>1, <3>1, <3>2
    <3>4. ASSUME NEW k \in 1 .. n-1, k <= m + 1 PROVE b[k] = Swapped(b[k-1], k, draw[k])
      <4>0. k \in I /\ k-1 \in I /\ k-1 # m+1
        BY <3>4
      <4>1. b[k-1] = at[k-1]
        BY <2>1, <4>0
      <4>2. CASE k = m + 1
        BY <2>1, <3>1, <4>1, <4>2
      <4>3. CASE k # m + 1
        <5>1. k <= m
          BY <3>4, <4>3
        <5> QED  BY <2>1, <4>0, <4>1, <4>3, <5>1
      <4> QED  BY <4>2, <4>3
    <3>5. Good(b, m + 1)
      BY <3>3, <3>4
    <3> HIDE DEF Good, b
    <3> QED  BY <3>5
  <2>3. CASE m + 1 \notin 1 .. n-1
    <3>1. Good(at, m + 1)
      BY <2>1, <2>3
    <3> HIDE DEF Good
    <3> QED  BY <3>1
  <2> QED  BY <2>2, <2>3
<1>3. S = Nat
  <2> HIDE DEF S
  <2>1. S \in SUBSET Nat
    BY DEF S
  <2> QED  BY <1>1, <1>2, <2>1, AllNaturals
<1>4. PICK g : Good(g, n - 1)
  <2>1. n - 1 \in S
    BY <1>3, SMTT(30)
  <2> HIDE DEF Good
  <2> QED  BY <2>1
<1>5. Rungs(g, n, draw, W)
  <2>1. ASSUME NEW k \in 1 .. n-1 PROVE g[k-1] = Swapped(g[k], k, draw[k])
    <3>1. g[k] = Swapped(g[k-1], k, draw[k]) /\ k-1 \in I /\ g[k-1] \in SpanOf(n, W)
      BY <1>4
    <3> QED  BY <3>1, OneRung
  <2> QED  BY <1>4, <2>1 DEF Rungs
<1> QED  BY <1>4, <1>5

LEMMA RungsFromTop ==
    ASSUME NEW n \in Nat \ {0}, NEW W, NEW draw, InBounds(draw, n), NEW v \in SpanOf(n, W)
    PROVE  \E g : Rungs(g, n, draw, W) /\ g[n-1] = v
<1> DEFINE I == 0 .. n-1
           Good(at, m) == /\ at \in [I -> SpanOf(n, W)] /\ at[n-1] = v
                          /\ \A k \in 1 .. n-1 : k + m >= n => at[k-1] = Swapped(at[k], k, draw[k])
           S == { m \in Nat : \E at : Good(at, m) }
<1>1. 0 \in S
  <2>1. Good([k \in I |-> v], 0)
    OBVIOUS
  <2> HIDE DEF Good
  <2> QED  BY <2>1
<1>2. ASSUME NEW m \in Nat, m \in S PROVE m + 1 \in S
  <2>1. PICK at : Good(at, m)
    BY <1>2
  <2> DEFINE l == n - 1 - m
  <2>2. CASE l \in 1 .. n-1
    <3> DEFINE b == [at EXCEPT ![l-1] = Swapped(at[l], l, draw[l])]
    <3>1. l \in I /\ l - 1 \in I /\ l - 1 # n - 1 /\ at[l] \in SpanOf(n, W) /\ l + m = n - 1
      BY <2>1, <2>2
    <3> HIDE DEF l
    <3>2. Swapped(at[l], l, draw[l]) \in SpanOf(n, W)
      BY <2>2, <3>1, OneRung
    <3>3. b \in [I -> SpanOf(n, W)] /\ b[n-1] = v
      BY <2>1, <3>1, <3>2
    <3>4. ASSUME NEW k \in 1 .. n-1, k + (m + 1) >= n PROVE b[k-1] = Swapped(b[k], k, draw[k])
      <4>0. k \in I /\ k-1 \in I /\ k >= l /\ k # l - 1
        BY <2>2, <3>1, <3>4
      <4>1. b[k] = at[k]
        BY <2>1, <4>0
      <4>2. CASE k = l
        BY <2>1, <3>1, <4>1, <4>2
      <4>3. CASE k # l
        <5>1. k + m >= n /\ k - 1 # l - 1
          BY <3>1, <4>0, <4>3
        <5> QED  BY <2>1, <4>0, <4>1, <5>1
      <4> QED  BY <4>2, <4>3
    <3>5. Good(b, m + 1)
      BY <3>3, <3>4
    <3> HIDE DEF Good, b
    <3> QED  BY <3>5
  <2>3. CASE l \notin 1 .. n-1
    <3>1. Good(at, m + 1)
      BY <2>1, <2>3
    <3> HIDE DEF Good
    <3> QED  BY <3>1
  <2> QED  BY <2>2, <2>3
<1>3. S = Nat
  <2> HIDE DEF S
  <2>1. S \in SUBSET Nat
    BY DEF S
  <2> QED  BY <1>1, <1>2, <2>1, AllNaturals
<1>4. PICK g : Good(g, n)
  <2>1. n \in S
    BY <1>3
  <2> HIDE DEF Good
  <2> QED  BY <2>1
<1>5. Rungs(g, n, draw, W)
  <2>1. ASSUME NEW k \in 1 .. n-1 PROVE g[k-1] = Swapped(g[k], k, draw[k])
    <3>1. k + n >= n
      OBVIOUS
    <3> QED  BY <1>4, <3>1
  <2> QED  BY <1>4, <2>1 DEF Rungs
<1> QED  BY <1>4, <1>5

\* Rungs that end alike at one end end alike at the other.
LEMMA RungsDown ==
    ASSUME NEW n \in Nat \ {0}, NEW W, NEW draw, NEW a, NEW b,
           Rungs(a, n, draw, W), Rungs(b, n, draw, W), a[n-1] = b[n-1]
    PROVE  a[0] = b[0]
<1> DEFINE S == { m \in Nat : m <= n-1 => a[n-1-m] = b[n-1-m] }
<1>1. 0 \in S
  OBVIOUS
<1>2. ASSUME NEW m \in Nat, m \in S PROVE m + 1 \in S
  <2> SUFFICES ASSUME m + 1 <= n-1 PROVE a[n-1-(m+1)] = b[n-1-(m+1)]
    OBVIOUS
  <2> DEFINE k == n-1-m
  <2>1. a[k] = b[k] /\ k \in 1 .. n-1 /\ n-1-(m+1) = k-1
    BY <1>2
  <2> HIDE DEF k
  <2> QED  BY <2>1 DEF Rungs
<1>3. S = Nat
  <2> HIDE DEF S
  <2>1. S \in SUBSET Nat
    BY DEF S
  <2> QED  BY <1>1, <1>2, <2>1, AllNaturals
<1>4. n-1 \in Nat /\ n-1-(n-1) = 0
  OBVIOUS
<1>5. n-1 \in S
  BY <1>3, <1>4
<1> QED  BY <1>4, <1>5

LEMMA RungsUp ==
    ASSUME NEW n \in Nat \ {0}, NEW W, NEW draw, InBounds(draw, n), NEW a, NEW b,
           Rungs(a, n, draw, W), Rungs(b, n, draw, W), a[0] = b[0]
    PROVE  a[n-1] = b[n-1]
<1> DEFINE S == { m \in Nat : m <= n-1 => a[m] = b[m] }
<1>1. 0 \in S
  OBVIOUS
<1>2. ASSUME NEW m \in Nat, m \in S PROVE m + 1 \in S
  <2> SUFFICES ASSUME m + 1 <= n-1 PROVE a[m+1] = b[m+1]
    OBVIOUS
  <2> DEFINE k == m + 1
  <2>1. a[k-1] = b[k-1] /\ k \in 1 .. n-1 /\ k \in 0 .. n-1
    BY <1>2
  <2> HIDE DEF k
  <2>2. a[k] \in SpanOf(n, W) /\ b[k] \in SpanOf(n, W)
        /\ a[k-1] = Swapped(a[k], k, draw[k]) /\ b[k-1] = Swapped(b[k], k, draw[k])
    BY <2>1 DEF Rungs
  <2>3. \A c \in SpanOf(n, W) : Swapped(Swapped(c, k, draw[k]), k, draw[k]) = c
    BY <2>1, OneRung
  <2>4. a[k] = b[k]
    BY <2>1, <2>2, <2>3
  <2> QED  BY <2>4 DEF k
<1>3. S = Nat
  <2> HIDE DEF S
  <2>1. S \in SUBSET Nat
    BY DEF S
  <2> QED  BY <1>1, <1>2, <2>1, AllNaturals
<1>4. n-1 \in Nat
  OBVIOUS
<1>5. n-1 \in S
  BY <1>3, <1>4
<1> QED  BY <1>5

\* All rungs are spans of the same objects.
LEMMA RungsSame ==
    ASSUME NEW n \in Nat \ {0}, NEW W, NEW draw, InBounds(draw, n), NEW a, Rungs(a, n, draw, W)
    PROVE  /\ a[0] \in SpanOf(n, W) /\ a[n-1] \in SpanOf(n, W) /\ SameObjects(a[n-1], a[0])
           /\ \A x, y \in 0 .. n-1 : SameObjects(a[x], a[y])
<1> DEFINE S == { m \in Nat : m <= n-1 => SameObjects(a[n-1], a[n-1-m]) }
<1>0. n-1 \in 0 .. n-1 /\ 0 \in 0 .. n-1 /\ n-1-0 = n-1 /\ n-1-(n-1) = 0
  OBVIOUS
<1>1. a[n-1] \in SpanOf(n, W) /\ a[0] \in SpanOf(n, W)
  BY <1>0 DEF Rungs
<1>2. 0 \in S
  BY <1>0, <1>1, SameObjectsReflexive
<1>3. ASSUME NEW m \in Nat, m \in S PROVE m + 1 \in S
  <2> SUFFICES ASSUME m + 1 <= n-1 PROVE SameObjects(a[n-1], a[n-1-(m+1)])
    OBVIOUS
  <2> DEFINE k == n-1-m
  <2>1. SameObjects(a[n-1], a[k]) /\ k \in 1 .. n-1 /\ k \in 0 .. n-1 /\ n-1-(m+1) = k-1
    BY <1>3
  <2> HIDE DEF k
  <2>2. a[k] \in SpanOf(n, W) /\ a[k-1] = Swapped(a[k], k, draw[k])
    BY <2>1 DEF Rungs
  <2>3. draw[k] \in 0 .. n-1
    BY <2>1, <2>2, OneRung
  <2>4. SameObjects(a[n-1], Swapped(a[k], k, draw[k]))
    BY <1>1, <2>1, <2>2, <2>3, SameObjectsSwap
  <2> QED  BY <2>1, <2>2, <2>4
<1>4. S = Nat
  <2> HIDE DEF S
  <2>1. S \in SUBSET Nat
    BY DEF S
  <2> QED  BY <1>2, <1>3, <2>1, AllNaturals
<1>5. ASSUME NEW x \in 0 .. n-1 PROVE SameObjects(a[n-1], a[x]) /\ a[x] \in SpanOf(n, W)
  <2> DEFINE m == n-1-x
  <2>1. m \in Nat /\ m <= n-1 /\ n-1-m = x
    OBVIOUS
  <2>2. m \in S
    BY <1>4, <2>1
  <2> HIDE DEF m
  <2> QED  BY <2>1, <2>2 DEF Rungs
<1>6. ASSUME NEW x \in 0 .. n-1, NEW y \in 0 .. n-1 PROVE SameObjects(a[x], a[y])
  BY <1>1, <1>5, SameObjectsEuclidean
<1> QED  BY <1>0, <1>1, <1>5, <1>6

\* The recursion of UnshuffleFrom has a solution, and so it is one.
LEMMA UnshuffleRungs ==
    ASSUME NEW n \in Nat \ {0}, NEW W, NEW draw, InBounds(draw, n), NEW v \in SpanOf(n, W)
    PROVE  /\ Rungs(UnshuffleFrom(v, n, draw), n, draw, W)
           /\ UnshuffleFrom(v, n, draw)[0] = v
<1> DEFINE I == 0 .. n-1
<1>4. PICK g : Rungs(g, n, draw, W) /\ g[0] = v
  BY RungsFromBottom
<1>4a. g \in [I -> SpanOf(n, W)]
  BY <1>4 DEF Rungs
<1>4b. ASSUME NEW k \in 1 .. n-1 PROVE g[k] = Swapped(g[k-1], k, draw[k])
  <2>1. g[k-1] = Swapped(g[k], k, draw[k]) /\ k \in I /\ g[k] \in SpanOf(n, W)
    BY <1>4, <1>4a DEF Rungs
  <2> QED  BY <2>1, OneRung
<1> DEFINE Sol(h) == h = [k \in 0 .. n-1 |-> IF k = 0 THEN v ELSE Swapped(h[k-1], k, draw[k])]
           u == CHOOSE h : Sol(h)
<1>5. Sol(g)
  <2>1. g = [k \in I |-> g[k]]
    BY <1>4a
  <2>2. \A k \in I : g[k] = IF k = 0 THEN v ELSE Swapped(g[k-1], k, draw[k])
    BY <1>4, <1>4b
  <2> QED  BY <2>1, <2>2
<1>6. UnshuffleFrom(v, n, draw) = u
  BY DEF UnshuffleFrom
<1>7. Sol(u)
  <2> HIDE DEF Sol
  <2> QED  BY <1>5
<1> HIDE DEF u
<1>8. u[0] = v
  BY <1>7
<1> DEFINE Z == { m \in Nat : m <= n-1 => u[m] = g[m] }
<1>9. Z = Nat
  <2>1. 0 \in Z
    BY <1>4, <1>8
  <2>2. ASSUME NEW m \in Nat, m \in Z PROVE m + 1 \in Z
    <3> SUFFICES ASSUME m + 1 <= n-1 PROVE u[m+1] = g[m+1]
      OBVIOUS
    <3>1. u[m] = g[m] /\ m + 1 \in 1 .. n-1 /\ m + 1 \in I /\ m+1 # 0 /\ (m + 1) - 1 = m
      BY <2>2
    <3>2. u[m+1] = Swapped(u[m], m+1, draw[m+1])
      BY <1>7, <3>1
    <3>3. g[m+1] = Swapped(g[m], m+1, draw[m+1])
      BY <1>4b, <3>1
    <3> QED  BY <3>1, <3>2, <3>3
  <2> HIDE DEF Z
  <2>3. Z \in SUBSET Nat
    BY DEF Z
  <2> QED  BY <2>1, <2>2, <2>3, AllNaturals
<1>10. u = g
  <2>1. \A k \in I : u[k] = g[k]
    BY <1>9
  <2>2. u = [k \in I |-> u[k]] /\ g = [k \in I |-> g[k]]
    BY <1>4a, <1>7
  <2> QED  BY <2>1, <2>2
<1> QED  BY <1>4, <1>6, <1>8, <1>10

\* So has that of ShuffleFrom.
LEMMA ShuffleRungs ==
    ASSUME NEW n \in Nat \ {0}, NEW W, NEW draw, InBounds(draw, n), NEW v \in SpanOf(n, W)
    PROVE  /\ Rungs(ShuffleFrom(v, n, draw), n, draw, W)
           /\ ShuffleFrom(v, n, draw)[n-1] = v
<1> DEFINE I == 0 .. n-1
<1>4. PICK g : Rungs(g, n, draw, W) /\ g[n-1] = v
  BY RungsFromTop
<1>4b. g \in [I -> SpanOf(n, W)]
  BY <1>4 DEF Rungs
<1> DEFINE Sol(h) == h = [k \in 0 .. n-1 |-> IF k = n-1 THEN v ELSE Swapped(h[k+1], k+1, draw[k+1])]
           u == CHOOSE h : Sol(h)
<1>4a. \A k \in I : k # n-1 => g[k] = Swapped(g[k+1], k+1, draw[k+1])
  <2> TAKE k \in I
  <2> HAVE k # n-1
  <2>1. k+1 \in 1 .. n-1 /\ (k+1) - 1 = k
    OBVIOUS
  <2> QED  BY <1>4, <2>1 DEF Rungs
<1>5. Sol(g)
  <2>1. g = [k \in I |-> g[k]]
    BY <1>4b
  <2>2. \A k \in I : g[k] = IF k = n-1 THEN v ELSE Swapped(g[k+1], k+1, draw[k+1])
    BY <1>4, <1>4a
  <2> QED  BY <2>1, <2>2
<1>6. ShuffleFrom(v, n, draw) = u
  BY DEF ShuffleFrom
<1>7. Sol(u)
  <2> HIDE DEF Sol
  <2> QED  BY <1>5
<1> HIDE DEF u
<1>8. u[n-1] = v
  BY <1>7
<1> DEFINE Z == { m \in Nat : m <= n-1 => u[n-1-m] = g[n-1-m] }
<1>9. Z = Nat
  <2>1. 0 \in Z
    BY <1>4, <1>8
  <2>2. ASSUME NEW m \in Nat, m \in Z PROVE m + 1 \in Z
    <3> SUFFICES ASSUME m + 1 <= n-1 PROVE u[n-1-(m+1)] = g[n-1-(m+1)]
      OBVIOUS
    <3> DEFINE k == n-1-(m+1)
    <3>1. u[k+1] = g[k+1] /\ k \in I /\ k # n-1
      BY <2>2
    <3> HIDE DEF k
    <3>2. u[k] = Swapped(u[k+1], k+1, draw[k+1])
      BY <1>7, <3>1
    <3>3. g[k] = Swapped(g[k+1], k+1, draw[k+1])
      BY <1>4a, <3>1
    <3>4. u[k] = g[k]
      BY <3>1, <3>2, <3>3
    <3> QED  BY <3>4 DEF k
  <2> HIDE DEF Z
  <2>3. Z \in SUBSET Nat
    BY DEF Z
  <2> QED  BY <2>1, <2>2, <2>3, AllNaturals
<1>10. u = g
  <2>1. \A k \in I : u[k] = g[k]
    <3> TAKE k \in I
    <3>1. n-1-k \in Nat /\ n-1-k <= n-1 /\ n-1-(n-1-k) = k
      OBVIOUS
    <3> DEFINE m == n-1-k
    <3>2. m \in Z
      BY <1>9, <3>1
    <3> HIDE DEF m
    <3>3. m \in Nat /\ m <= n-1 /\ n-1-m = k
      BY <3>1 DEF m
    <3> QED  BY <3>2, <3>3
  <2>2. u = [k \in I |-> u[k]] /\ g = [k \in I |-> g[k]]
    BY <1>4b, <1>7
  <2> QED  BY <2>1, <2>2
<1> QED  BY <1>4, <1>6, <1>8, <1>10

-----------------------------------------------------------------------------
(* What moving the words of one width does to the bytes and to the words of *)
(* another.                                                                 *)

\* Words that are reordered take their bytes along.
LEMMA BytesFollow ==
    ASSUME NEW N \in Nat, NEW w \in Nat \ {0}, NEW T, NEW f \in SpanOf(N, T),
           NEW v \in SpanOf(WordCount(N, w), Word(w, T)),
           SameObjects(Reinterpret(f, w), v)
    PROVE  SameObjects(f, WithWords(f, w, v))
<1> DEFINE n == WordCount(N, w)
           u == Reinterpret(f, w)
           g == WithWords(f, w, v)
           I == 0 .. N-1
           K == 0 .. n-1
<1>1. n \in Nat /\ \A k \in K : \A b \in 0 .. w-1 : k*w + b \in I
  BY InWord
<1>2. /\ u \in SpanOf(n, Word(w, T))
      /\ \A k \in K : \A b \in 0 .. w-1 : u[k][b] = f[k*w + b]
  BY WordsType
<1>3. /\ g \in SpanOf(N, T)
      /\ \A k \in K : \A b \in 0 .. w-1 : g[k*w + b] = v[k][b]
      /\ \A x \in I : x \div w \notin K => g[x] = f[x]
  BY WithWordsIs
<1> HIDE DEF n, u, g
<1>4. DOMAIN u = K /\ DOMAIN f = I /\ DOMAIN g = I
  BY <1>2, <1>3 DEF SpanOf
<1>5. PICK p \in Bijection(K, K) : \A k \in K : v[k] = u[p[k]]
  BY <1>4 DEF SameObjects, u
<1>k. \A k \in K : k \in Nat
  BY <1>1
<1>i. \A x \in I : x \in Nat
  OBVIOUS
<1> HIDE DEF K, I
<1>6. p \in [K -> K] /\ (\A x, y \in K : p[x] = p[y] => x = y) /\ (\A t \in K : \E x \in K : p[x] = t)
  BY Fun_BijectionProperties
<1>7. \A x \in I : x = (x \div w) * w + (x % w) /\ (x % w) \in 0 .. w-1
  <2> TAKE x \in I
  <2>1. x \in Nat
    BY <1>i
  <2> QED  BY <2>1, Split
<1> DEFINE P == [x \in I |-> IF x \div w \in K THEN p[x \div w] * w + (x % w) ELSE x]
<1>8. ASSUME NEW x \in I, x \div w \in K
      PROVE  /\ P[x] \in I /\ P[x] \div w = p[x \div w] /\ P[x] % w = x % w
             /\ g[x] = f[P[x]]
  <2> DEFINE k == x \div w
             b == x % w
  <2>1. k \in K /\ b \in 0 .. w-1 /\ x = k*w + b /\ P[x] = p[k] * w + b
    BY <1>7, <1>8
  <2> HIDE DEF k, b, P
  <2>2. p[k] \in K /\ p[k] \in Nat
    BY <1>k, <1>6, <2>1
  <2>3. P[x] \in I /\ P[x] \div w = p[k] /\ P[x] % w = b
    <3>1. p[k]*w + b \in I
      BY <1>1, <2>1, <2>2
    <3>2. (p[k]*w + b) \div w = p[k] /\ (p[k]*w + b) % w = b
      BY <2>1, <2>2, Join
    <3> QED  BY <2>1, <3>1, <3>2
  <2>4. g[x] = f[P[x]]
    <3>1. g[x] = v[k][b] /\ v[k] = u[p[k]] /\ u[p[k]][b] = f[p[k]*w + b]
      BY <1>2, <1>3, <1>5, <2>1, <2>2
    <3> QED  BY <2>1, <3>1
  <2> QED  BY <2>3, <2>4 DEF k, b
<1>9. ASSUME NEW x \in I, x \div w \notin K PROVE P[x] = x /\ g[x] = f[P[x]]
  BY <1>3, <1>9
<1>10. P \in [I -> I]
  <2>1. P = [x \in I |-> P[x]]
    OBVIOUS
  <2> HIDE DEF P
  <2>2. \A x \in I : P[x] \in I
    BY <1>8, <1>9
  <2> QED  BY <2>1, <2>2
<1> HIDE DEF P
<1>11. ASSUME NEW x \in I, NEW y \in I, P[x] = P[y] PROVE x = y
  <2>1. CASE x \div w \in K /\ y \div w \in K
    <3>1. p[x \div w] = p[y \div w] /\ x % w = y % w
      BY <1>8, <1>11, <2>1
    <3>2. x \div w = y \div w
      BY <1>6, <2>1, <3>1
    <3>3. x = (x \div w) * w + (x % w) /\ y = (y \div w) * w + (y % w)
      BY <1>7
    <3> QED  BY <3>1, <3>2, <3>3
  <2>2. CASE x \div w \in K /\ y \div w \notin K
    <3>1. P[x] \div w \in K
      BY <1>6, <1>8, <2>2
    <3> QED  BY <1>9, <1>11, <2>2, <3>1
  <2>3. CASE x \div w \notin K /\ y \div w \in K
    <3>1. P[y] \div w \in K
      BY <1>6, <1>8, <2>3
    <3> QED  BY <1>9, <1>11, <2>3, <3>1
  <2>4. CASE x \div w \notin K /\ y \div w \notin K
    BY <1>9, <1>11, <2>4
  <2> QED  BY <2>1, <2>2, <2>3, <2>4
<1>12. ASSUME NEW t \in I PROVE \E x \in I : P[x] = t
  <2>1. CASE t \div w \in K
    <3>1. PICK k \in K : p[k] = t \div w
      BY <1>6, <2>1
    <3> DEFINE b == t % w
               x == k*w + b
    <3>2. b \in 0 .. w-1 /\ t = (t \div w) * w + b
      BY <1>7
    <3> HIDE DEF b
    <3>3. x \in I /\ x \div w = k /\ x % w = b
      <4>1. k \in Nat
        BY <1>k
      <4> QED  BY <1>1, <3>2, <4>1, Join
    <3> HIDE DEF x
    <3>4. P[x] = p[x \div w] * w + (x % w)
      BY <3>3 DEF P
    <3>5. P[x] = t
      BY <3>1, <3>2, <3>3, <3>4
    <3> QED  BY <3>3, <3>5
  <2>2. CASE t \div w \notin K
    BY <1>9, <2>2
  <2> QED  BY <2>1, <2>2
<1>13. P \in Bijection(I, I)
  BY <1>10, <1>11, <1>12, Fun_IsBij
<1>14. \A x \in I : g[x] = f[P[x]]
  BY <1>8, <1>9
<1> QED  BY <1>4, <1>13, <1>14 DEF SameObjects, g

\* A word of c words of w bytes each.
LEMMA Nested ==
    ASSUME NEW q \in Nat, NEW c \in Nat \ {0}, NEW w \in Nat \ {0}, NEW r \in 0 .. c-1, NEW b \in 0 .. w-1
    PROVE  /\ (q*c + r) * w + b = q * (c*w) + (r*w + b)
           /\ r*w + b \in 0 .. c*w - 1
           /\ c*w \in Nat \ {0}
<1>1. (q*c + r) * w = (q*c) * w + r*w /\ (q*c) * w = q * (c*w)
  OBVIOUS
<1>2. (r+1) * w <= c*w /\ (r+1) * w = r*w + w /\ r*w \in Nat
  OBVIOUS
<1>3. c*w \in Nat
  OBVIOUS
<1> QED  BY <1>1, <1>2, <1>3

\* Words that are replaced by words of the same file bring no new word of a
\* width they are a multiple of.
LEMMA NoNewWord ==
    ASSUME NEW N \in Nat, NEW c \in Nat \ {0}, NEW w \in Nat \ {0}, NEW W, W = c*w,
           NEW T, NEW f \in SpanOf(N, T), NEW v \in SpanOf(WordCount(N, W), Word(W, T)),
           Range(v) \subseteq Range(Reinterpret(f, W))
    PROVE  Range(Reinterpret(WithWords(f, W, v), w)) \subseteq Range(Reinterpret(f, w))
<1> DEFINE n == WordCount(N, W)
           m == WordCount(N, w)
           g == WithWords(f, W, v)
           u == Reinterpret(f, W)
           F == Reinterpret(f, w)
           G == Reinterpret(g, w)
<1>0. W \in Nat \ {0}
  <2>1. 0 \in 0 .. c-1 /\ 0 \in 0 .. w-1 /\ 0 \in Nat
    OBVIOUS
  <2> QED  BY <2>1, Nested
<1>1. n \in Nat /\ \A k \in 0 .. n-1 : \A b \in 0 .. W-1 : k*W + b \in 0 .. N-1
  BY <1>0, InWord
<1>2. m \in Nat /\ \A k \in Nat : (\A b \in 0 .. w-1 : k*w + b < N) => k \in 0 .. m-1
  BY InWord
<1>3. /\ u \in SpanOf(n, Word(W, T))
      /\ \A k \in 0 .. n-1 : \A b \in 0 .. W-1 : u[k][b] = f[k*W + b]
  BY <1>0, WordsType
<1>4. /\ g \in SpanOf(N, T)
      /\ \A k \in 0 .. n-1 : \A b \in 0 .. W-1 : g[k*W + b] = v[k][b]
      /\ \A x \in 0 .. N-1 : x \div W \notin 0 .. n-1 => g[x] = f[x]
  BY <1>0, WithWordsIs
<1>5. /\ F \in SpanOf(m, Word(w, T))
      /\ \A k \in 0 .. m-1 : \A b \in 0 .. w-1 : F[k][b] = f[k*w + b]
  <2> HIDE DEF g, u, G
  <2>1. \A h \in SpanOf(N, T) : /\ Reinterpret(h, w) \in SpanOf(WordCount(N, w), Word(w, T))
                                /\ \A k \in 0 .. WordCount(N, w) - 1 : \A b \in 0 .. w-1 :
                                      Reinterpret(h, w)[k][b] = h[k*w + b]
    BY WordsType
  <2> QED  BY <2>1
<1>6. /\ G \in SpanOf(m, Word(w, T))
      /\ \A k \in 0 .. m-1 : \A b \in 0 .. w-1 : G[k][b] = g[k*w + b]
  <2> HIDE DEF g
  <2> QED  BY <1>4, WordsType
<1>7. \A q \in Nat : \A r \in 0 .. c-1 : \A b \in 0 .. w-1 :
         (q*c + r) * w + b = q*W + (r*w + b) /\ r*w + b \in 0 .. W-1
  BY Nested
<1>8. v \in SpanOf(n, Word(W, T)) /\ Range(v) \subseteq Range(u)
  OBVIOUS
<1>9. \A k \in 0 .. m-1 : \A b \in 0 .. w-1 : k*w + b \in 0 .. N-1
  BY InWord
<1> HIDE DEF n, m, g, u, F, G
<1>10. ASSUME NEW i \in 0 .. m-1 PROVE \E j \in 0 .. m-1 : G[i] = F[j]
  <2> DEFINE q == i \div c
             r == i % c
  <2>0. i \in Nat
    BY <1>2
  <2>1. i = q*c + r /\ r \in 0 .. c-1 /\ q \in Nat
    BY <2>0, Split
  <2> HIDE DEF q, r
  <2>2. CASE q \in 0 .. n-1
    <3>1. v[q] \in Range(u)
      BY <1>8, <2>2 DEF Range, SpanOf
    <3>2. PICK l \in 0 .. n-1 : v[q] = u[l]
      BY <1>3, <3>1 DEF Range, SpanOf
    <3> DEFINE j == l*c + r
    <3>3. l \in Nat /\ j \in Nat
      <4>1. l \in Nat
        BY <1>1
      <4>2. l*c \in Nat
        BY <4>1
      <4> QED  BY <2>1, <4>1, <4>2
    <3> DEFINE At(x, y, b) == x*w + b = y*W + (r*w + b) /\ r*w + b \in 0 .. W-1
    <3>a. \A y \in Nat : \A b \in 0 .. w-1 : At(y*c + r, y, b)
      BY <1>7, <2>1
    <3>b. \A b \in 0 .. w-1 : At(j, l, b) /\ At(i, q, b)
      <4> HIDE DEF At
      <4>1. \A b \in 0 .. w-1 : At(l*c + r, l, b)
        BY <3>a, <3>3
      <4>2. \A b \in 0 .. w-1 : At(q*c + r, q, b)
        BY <3>a, <2>1
      <4> QED  BY <2>1, <4>1, <4>2
    <3> HIDE DEF j
    <3>4. \A b \in 0 .. w-1 : j*w + b = l*W + (r*w + b) /\ i*w + b = q*W + (r*w + b) /\ r*w + b \in 0 .. W-1
      BY <3>b
    <3>5. \A b \in 0 .. w-1 : j*w + b < N
      <4> TAKE b \in 0 .. w-1
      <4>1. l*W + (r*w + b) \in 0 .. N-1
        BY <1>1, <3>4
      <4>2. j*w + b \in 0 .. N-1
        BY <3>4, <4>1
      <4> QED  BY <4>2
    <3>6. j \in 0 .. m-1
      BY <1>2, <3>3, <3>5
    <3>7. \A b \in 0 .. w-1 : G[i][b] = F[j][b]
      <4> TAKE b \in 0 .. w-1
      <4>1. G[i][b] = g[i*w + b] /\ F[j][b] = f[j*w + b]
        BY <1>5, <1>6, <3>6
      <4>2. g[q*W + (r*w + b)] = v[q][r*w + b] /\ u[l][r*w + b] = f[l*W + (r*w + b)]
        BY <1>3, <1>4, <2>2, <3>4
      <4> QED  BY <3>2, <3>4, <4>1, <4>2
    <3>8. G[i] = F[j]
      <4>1. G[i] \in [0 .. w-1 -> T] /\ F[j] \in [0 .. w-1 -> T]
        BY <1>5, <1>6, <3>6 DEF SpanOf, Word
      <4> DEFINE x == G[i]
                 y == F[j]
      <4>2. x \in [0 .. w-1 -> T] /\ y \in [0 .. w-1 -> T] /\ \A b \in 0 .. w-1 : x[b] = y[b]
        BY <3>7, <4>1
      <4> HIDE DEF x, y
      <4>3. x = y
        BY <4>2
      <4> QED  BY <4>3 DEF x, y
    <3> QED  BY <3>6, <3>8
  <2>3. CASE q \notin 0 .. n-1
    <3>1. \A b \in 0 .. w-1 : G[i][b] = F[i][b]
      <4> TAKE b \in 0 .. w-1
      <4>1. i*w + b = q*W + (r*w + b) /\ r*w + b \in 0 .. W-1 /\ i*w + b \in 0 .. N-1
        BY <1>7, <1>9, <2>1
      <4>2. (q*W + (r*w + b)) \div W = q
        BY <1>0, <2>1, <4>1, Join
      <4>3. g[i*w + b] = f[i*w + b]
        BY <1>4, <2>3, <4>1, <4>2
      <4> QED  BY <1>5, <1>6, <4>3
    <3>2. G[i] = F[i]
      <4>1. G[i] \in [0 .. w-1 -> T] /\ F[i] \in [0 .. w-1 -> T]
        BY <1>5, <1>6 DEF SpanOf, Word
      <4> QED  BY <3>1, <4>1
    <3> QED  BY <3>2
  <2> QED  BY <2>2, <2>3
<1>11. Range(G) \subseteq Range(F)
  <2>1. DOMAIN F = 0 .. m-1 /\ DOMAIN G = 0 .. m-1
    BY <1>5, <1>6 DEF SpanOf
  <2> QED  BY <1>10, <2>1 DEF Range
<1> QED  BY <1>11 DEF G, F, g

\* The words of W = c*w bytes of f are reordered to v.
WordsReordered(N, c, w, W, T, f, v) ==
    /\ N \in Nat /\ c \in Nat \ {0} /\ w \in Nat \ {0} /\ W = c*w
    /\ f \in SpanOf(N, T) /\ v \in SpanOf(WordCount(N, W), Word(W, T))
    /\ SameObjects(Reinterpret(f, W), v)

\* Reordering words leaves the set of the words of a narrower width.
LEMMA SameNarrowWords ==
    ASSUME NEW N, NEW c, NEW w, NEW W, NEW T, NEW f, NEW v, WordsReordered(N, c, w, W, T, f, v)
    PROVE  Range(Reinterpret(WithWords(f, W, v), w)) = Range(Reinterpret(f, w))
<1> DEFINE n == WordCount(N, W)
           u == Reinterpret(f, W)
           g == WithWords(f, W, v)
<1>are. /\ N \in Nat /\ c \in Nat \ {0} /\ w \in Nat \ {0} /\ W = c*w
        /\ f \in SpanOf(N, T) /\ v \in SpanOf(WordCount(N, W), Word(W, T))
        /\ SameObjects(Reinterpret(f, W), v)
  BY DEF WordsReordered
<1> USE <1>are
<1>0. W \in Nat \ {0}
  <2>1. 0 \in 0 .. c-1 /\ 0 \in 0 .. w-1 /\ 0 \in Nat
    OBVIOUS
  <2> QED  BY <2>1, Nested
<1>1. n \in Nat
  BY <1>0, InWord
<1>2. u \in SpanOf(n, Word(W, T))
  BY <1>0, WordsType
<1>3. Range(u) = Range(v)
  <2> HIDE DEF u, n
  <2>1. v \in SpanOf(n, Word(W, T)) /\ SameObjects(u, v)
    BY DEF u, n
  <2> QED  BY <1>1, <1>2, <2>1, SameObjectsRange
<1>4. g \in SpanOf(N, T) /\ Reinterpret(g, W) = v /\ WithWords(g, W, u) = f
  BY <1>0, WithWordsIs, WithWordsTwice
<1>6. Range(Reinterpret(g, w)) \subseteq Range(Reinterpret(f, w))
  BY <1>3, NoNewWord
<1>7. Range(Reinterpret(f, w)) \subseteq Range(Reinterpret(g, w))
  <2> HIDE DEF g, u
  <2>1. Range(u) \subseteq Range(Reinterpret(g, W))
    BY <1>3, <1>4
  <2>2. Range(Reinterpret(WithWords(g, W, u), w)) \subseteq Range(Reinterpret(g, w))
    BY <1>2, <1>4, <2>1, NoNewWord
  <2> QED  BY <1>4, <2>2
<1> QED  BY <1>6, <1>7

=============================================================================
