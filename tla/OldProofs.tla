----------------------------- MODULE OldProofs -----------------------------
(***************************************************************************)
(* Theorems about Old: for every file length, all widths of which that of   *)
(* bytes is the least, every filter and order of the words, every generator *)
(* in bounds, any number of runs in any mode, each store by store, v1       *)
(* undoes itself until a buffered run has cut off a tail, and loses at most *)
(* a word when it is stopped.                                               *)
(***************************************************************************)
EXTENDS Old, SpanTheorems, SequenceTheorems

-----------------------------------------------------------------------------
(* What is missing in a file.                                               *)

\* Sets of indices are finite.
LEMMA FiniteIndices ==
    ASSUME NEW N \in Nat, NEW T, NEW a \in SpanOf(N, T), NEW S, S \subseteq DOMAIN a
    PROVE  IsFiniteSet(S) /\ Cardinality(S) \in Nat
<1>1. DOMAIN a = 0 .. N-1 /\ IsFiniteSet(0 .. N-1)
  BY FS_Interval DEF SpanOf
<1>2. IsFiniteSet(S)
  BY <1>1, FS_Subset
<1> QED  BY <1>2, FS_CardinalityType

\* Nothing, in a rearrangement; and a larger bound is one too.
LEMMA MissesNothing ==
    ASSUME NEW N \in Nat, NEW T, NEW a \in SpanOf(N, T), NEW b \in SpanOf(N, T),
           SameObjects(a, b), NEW m \in Nat
    PROVE  MissesAtMost(m, a, b)
<1>1. SameCounts(a, b)
  BY SameObjectsCounts
<1>2. Cardinality({}) <= m /\ {} \in SUBSET DOMAIN a
  BY FS_EmptySet
<1>3. ASSUME NEW x \in Range(a)
      PROVE  Cardinality({ k \in DOMAIN a \ {} : a[k] = x }) <= Count(b, x)
  <2>1. { k \in DOMAIN a \ {} : a[k] = x } = { k \in DOMAIN a : a[k] = x }
    OBVIOUS
  <2>2. Count(a, x) = Count(b, x)
    BY <1>1 DEF SameCounts
  <2>3. { k \in DOMAIN a : a[k] = x } \subseteq DOMAIN a
    OBVIOUS
  <2>4. Cardinality({ k \in DOMAIN a : a[k] = x }) \in Nat
    BY <2>3, FiniteIndices
  <2> QED  BY <2>1, <2>2, <2>4 DEF Count
<1> QED  BY <1>2, <1>3 DEF MissesAtMost

LEMMA MissesMore ==
    ASSUME NEW N \in Nat, NEW T, NEW a \in SpanOf(N, T), NEW b, NEW m \in Nat, NEW l \in Nat, m <= l,
           MissesAtMost(m, a, b)
    PROVE  MissesAtMost(l, a, b)
<1>1. PICK lost \in SUBSET DOMAIN a :
         /\ Cardinality(lost) <= m
         /\ \A x \in Range(a) : Cardinality({ k \in DOMAIN a \ lost : a[k] = x }) <= Count(b, x)
  BY DEF MissesAtMost
<1>3. Cardinality(lost) \in Nat
  BY FiniteIndices
<1>4. Cardinality(lost) <= l
  BY <1>1, <1>3
<1> QED  BY <1>1, <1>4 DEF MissesAtMost

\* What is missing does not depend on the arrangement.
LEMMA MissesOf ==
    ASSUME NEW N \in Nat, NEW T, NEW a \in SpanOf(N, T), NEW b \in SpanOf(N, T), NEW c,
           SameObjects(a, b), NEW m \in Nat, MissesAtMost(m, b, c)
    PROVE  MissesAtMost(m, a, c)
<1> DEFINE I == 0 .. N-1
<1>1. DOMAIN a = I /\ DOMAIN b = I /\ IsFiniteSet(I) /\ Range(a) = Range(b)
  <2>1. Range(a) = Range(b)
    BY SameObjectsRange
  <2>2. IsFiniteSet(0 .. N-1)
    BY FS_Interval
  <2> QED  BY <2>1, <2>2 DEF SpanOf
<1>2. PICK lost \in SUBSET DOMAIN b :
         /\ Cardinality(lost) <= m
         /\ \A x \in Range(b) : Cardinality({ k \in DOMAIN b \ lost : b[k] = x }) <= Count(c, x)
  BY DEF MissesAtMost
<1>3. PICK p \in Bijection(I, I) : \A z \in I : b[z] = a[p[z]]
  BY <1>1 DEF SameObjects
<1> HIDE DEF I
<1>4. p \in [I -> I] /\ (\A u, v \in I : p[u] = p[v] => u = v) /\ \A t \in I : \E u \in I : p[u] = t
  BY Fun_BijectionProperties
<1> DEFINE gone == { p[k] : k \in lost }
<1>5. lost \subseteq I /\ IsFiniteSet(lost) /\ gone \in SUBSET DOMAIN a
  BY <1>1, <1>4, <1>2, FS_Subset
<1>6. Cardinality(gone) <= m
  <2> DEFINE q == [k \in lost |-> p[k]]
  <2>1. q \in [lost -> gone] /\ \A u, v \in lost : q[u] = q[v] => u = v
    BY <1>4, <1>5
  <2>2. \A t \in gone : \E u \in lost : q[u] = t
    OBVIOUS
  <2> HIDE DEF q, gone
  <2>3. q \in Bijection(lost, gone)
    BY <2>1, <2>2, Fun_IsBij
  <2>4. ExistsBijection(lost, gone)
    BY <2>3 DEF ExistsBijection
  <2>5. Cardinality(gone) = Cardinality(lost)
    BY <1>5, <2>4, FS_Bijection
  <2> QED  BY <1>2, <2>5
<1>7. ASSUME NEW x \in Range(a)
      PROVE  Cardinality({ k \in DOMAIN a \ gone : a[k] = x }) <= Count(c, x)
  <2> DEFINE A == { k \in I \ gone : a[k] = x }
             B == { k \in I \ lost : b[k] = x }
             q == [k \in B |-> p[k]]
  <2>1. \A k \in B : p[k] \in A
    <3> SUFFICES ASSUME NEW k \in B PROVE p[k] \in A
      OBVIOUS
    <3>1. k \in I /\ k \notin lost /\ p[k] \in I /\ a[p[k]] = x
      BY <1>3, <1>4
    <3>2. p[k] \notin gone
      BY <1>4, <1>5, <3>1
    <3> QED  BY <3>1, <3>2
  <2>2. \A u, v \in B : q[u] = q[v] => u = v
    BY <1>4
  <2>3. \A t \in A : \E u \in B : q[u] = t
    <3> SUFFICES ASSUME NEW t \in A PROVE \E u \in B : p[u] = t
      OBVIOUS
    <3>1. PICK u \in I : p[u] = t
      BY <1>4
    <3>2. u \notin lost /\ b[u] = x
      BY <1>3, <3>1
    <3> QED  BY <3>1, <3>2
  <2>4. q \in [B -> A]
    BY <2>1
  <2>5. q \in Bijection(B, A)
    <3> HIDE DEF A, B, q
    <3> QED  BY <2>2, <2>3, <2>4, Fun_IsBij
  <2>6. IsFiniteSet(B)
    BY <1>1, FS_Subset
  <2>7. ExistsBijection(B, A)
    BY <2>5 DEF ExistsBijection
  <2>8. Cardinality(A) = Cardinality(B)
    <3> HIDE DEF A, B, q
    <3> QED  BY <2>6, <2>7, FS_Bijection
  <2>9. Cardinality(B) <= Count(c, x)
    BY <1>1, <1>2
  <2> QED  BY <1>1, <2>8, <2>9
<1> HIDE DEF gone
<1> QED  BY <1>5, <1>6, <1>7 DEF MissesAtMost

\* A word over another: its bytes are missing.
LEMMA WordOver ==
    ASSUME NEW N \in Nat, NEW w \in Nat \ {0}, NEW T, NEW f \in SpanOf(N, T),
           NEW v \in SpanOf(WordCount(N, w), Word(w, T)),
           NEW i \in 0 .. WordCount(N, w) - 1, NEW j \in 0 .. WordCount(N, w) - 1
    PROVE  MissesAtMost(w, WithWords(f, w, v), WithWords(f, w, [v EXCEPT ![i] = v[j]]))
<1> DEFINE n == WordCount(N, w)
           u == [v EXCEPT ![i] = v[j]]
           a == WithWords(f, w, v)
           b == WithWords(f, w, u)
           low == i*w
           lost == low .. low + w - 1
<1>1. n \in Nat /\ \A k \in 0 .. n-1 : \A c \in 0 .. w-1 : k*w + c \in 0 .. N-1
  BY InWord
<1>2. u \in SpanOf(n, Word(w, T)) /\ \A k \in 0 .. n-1 : k # i => u[k] = v[k]
  BY DEF SpanOf
<1> HIDE DEF u
<1>3. /\ a \in SpanOf(N, T)
      /\ \A k \in 0 .. n-1 : \A c \in 0 .. w-1 : a[k*w + c] = v[k][c]
      /\ \A x \in 0 .. N-1 : x \div w \notin 0 .. n-1 => a[x] = f[x]
  BY WithWordsIs
<1>4. /\ b \in SpanOf(N, T)
      /\ \A k \in 0 .. n-1 : \A c \in 0 .. w-1 : b[k*w + c] = u[k][c]
      /\ \A x \in 0 .. N-1 : x \div w \notin 0 .. n-1 => b[x] = f[x]
  BY <1>2, WithWordsIs
<1> HIDE DEF a, b, n
<1>5. i \in Nat /\ low \in Nat
  BY <1>1
<1> HIDE DEF low
<1>6. \A x \in lost : x - low \in 0 .. w-1 /\ x = low + (x - low)
  BY <1>5
<1>7. lost \subseteq 0 .. N-1
  <2> SUFFICES ASSUME NEW x \in lost PROVE x \in 0 .. N-1
    OBVIOUS
  <2>1. PICK c \in 0 .. w-1 : x = low + c
    BY <1>6
  <2>2. i*w + c \in 0 .. N-1
    BY <1>1 DEF n
  <2> QED  BY <2>1, <2>2 DEF low
<1>8. IsFiniteSet(lost) /\ Cardinality(lost) <= w
  <2>1. IsFiniteSet(lost) /\ Cardinality(lost) = IF low > low + w - 1 THEN 0 ELSE (low + w - 1) - low + 1
    BY <1>5, FS_Interval
  <2> QED  BY <1>5, <2>1
<1>9. ASSUME NEW x \in 0 .. N-1, x \notin lost PROVE a[x] = b[x]
  <2> DEFINE k == x \div w
             c == x % w
  <2>0. x \in Nat
    OBVIOUS
  <2>1. x = k*w + c /\ c \in 0 .. w-1 /\ k \in Nat
    BY <2>0, Split
  <2> HIDE DEF k, c
  <2>2. CASE k \in 0 .. n-1
    <3>1. k # i
      <4> SUFFICES ASSUME k = i PROVE FALSE
        OBVIOUS
      <4>1. x = low + c
        BY <2>1 DEF low
      <4> QED  BY <1>5, <1>9, <2>1, <4>1
    <3>2. a[x] = v[k][c] /\ b[x] = u[k][c]
      BY <1>3, <1>4, <2>1, <2>2
    <3> QED  BY <1>2, <2>2, <3>1, <3>2
  <2>3. CASE k \notin 0 .. n-1
    <3>1. a[x] = f[x] /\ b[x] = f[x]
      BY <1>3, <1>4, <2>3 DEF k
    <3> QED  BY <3>1
  <2> QED  BY <2>2, <2>3
<1>10. DOMAIN a = 0 .. N-1 /\ DOMAIN b = 0 .. N-1
  BY <1>3, <1>4 DEF SpanOf
<1> HIDE DEF lost
<1>11. ASSUME NEW x PROVE Cardinality({ k \in DOMAIN a \ lost : a[k] = x }) <= Count(b, x)
  <2> DEFINE A == { k \in DOMAIN a \ lost : a[k] = x }
             B == { k \in DOMAIN b : b[k] = x }
  <2>1. A \subseteq B
    BY <1>9, <1>10
  <2>2. IsFiniteSet(B)
    <3>1. B \subseteq DOMAIN b
      OBVIOUS
    <3> QED  BY <1>4, <3>1, FiniteIndices
  <2> HIDE DEF A, B
  <2>3. Cardinality(A) <= Cardinality(B)
    BY <2>1, <2>2, FS_Subset
  <2> QED  BY <2>3 DEF A, B, Count
<1>12. MissesAtMost(w, a, b)
  BY <1>7, <1>8, <1>10, <1>11 DEF MissesAtMost
<1> QED  BY <1>12 DEF a, b, u

-----------------------------------------------------------------------------
(* One stage.                                                               *)

Files(N) == SpanOf(N, Byte)
WordsOf(s, f) == Reinterpret(f, Width[s])
CountOf(s, N) == WordCount(N, Width[s])
StageWord(s) == Word(Width[s], Byte)

\* The seeds stage s computes from a file.
SeedsIn(s, f) == MinMax(KeptKeys(WordsOf(s, f), Keep[s], Key[s]))

LEMMA FilesAre ==
    ASSUME NEW N \in Lengths, NEW f \in Files(N), NEW s \in Stages
    PROVE  /\ N \in Nat /\ f \in SpanOf(N, Byte) /\ Width[s] \in Nat \ {0}
           /\ Cardinality(DOMAIN f) = N /\ DOMAIN f = 0 .. N-1
           /\ CountOf(s, N) \in Nat
           /\ WordsOf(s, f) \in SpanOf(CountOf(s, N), StageWord(s))
<1> DEFINE w == Width[s]
<1>1. N \in Nat /\ f \in SpanOf(N, Byte) /\ w \in Nat \ {0}
  BY OldAssumption DEF Files
<1> HIDE DEF w
<1>2. Cardinality(DOMAIN f) = N /\ DOMAIN f = 0 .. N-1
  BY <1>1, SizeOf
<1>3. WordCount(N, w) \in Nat /\ Reinterpret(f, w) \in SpanOf(WordCount(N, w), Word(w, Byte))
  BY <1>1, InWord, WordsType
<1> QED  BY <1>1, <1>2, <1>3 DEF w, CountOf, WordsOf, StageWord

\* There is one pair of seeds, if any.
LEMMA OneSeed ==
    ASSUME NEW N \in Lengths, NEW s \in Stages, NEW f \in Files(N),
           NEW x \in SeedsIn(s, f), NEW y \in SeedsIn(s, f)
    PROVE  x = y
<1> DEFINE u == WordsOf(s, f)
           keys == KeptKeys(u, Keep[s], Key[s])
<1>2. keys \subseteq Int
  <2>1. Range(u) \subseteq StageWord(s)
    BY FilesAre DEF SpanOf, Range
  <2>2. Key[s] \in [StageWord(s) -> Int]
    BY OldKeyAssumption DEF StageWord, Word
  <2> HIDE DEF u
  <2> QED  BY <2>1, <2>2 DEF KeptKeys
<1>3. x \in keys \X keys /\ y \in keys \X keys
      /\ \A k \in keys : x[1] <= k /\ k <= x[2] /\ y[1] <= k /\ k <= y[2]
  BY DEF SeedsIn, MinMax
<1> HIDE DEF keys
<1>4. PICK xl \in keys, xh \in keys : x = <<xl, xh>>
  BY <1>3
<1>5. PICK yl \in keys, yh \in keys : y = <<yl, yh>>
  BY <1>3
<1>6. \A k \in keys : xl <= k /\ k <= xh /\ yl <= k /\ k <= yh
  BY <1>3, <1>4, <1>5
<1>7. xl <= yl /\ yl <= xl /\ xh <= yh /\ yh <= xh
  BY <1>6
<1>8. xl = yl /\ xh = yh
  BY <1>2, <1>7
<1> QED  BY <1>4, <1>5, <1>8

\* Files with the same words, in whatever order, have the same seeds.
LEMMA SeedsAlike ==
    ASSUME NEW s, NEW f, NEW g, Range(WordsOf(s, f)) = Range(WordsOf(s, g))
    PROVE  SeedsIn(s, f) = SeedsIn(s, g)
BY DEF SeedsIn, KeptKeys

\* The rungs of stage s of a file of N bytes, the words of f on rung x.
Laddered(N, s, draw, at, f, x) ==
    /\ N \in Lengths /\ s \in Stages /\ f \in Files(N) /\ draw \in Draws[s]
    /\ CountOf(s, N) > 1
    /\ Rungs(at, CountOf(s, N), draw, StageWord(s))
    /\ x \in 0 .. CountOf(s, N) - 1 /\ WordsOf(s, f) = at[x]

\* A stage has them, from either end.
LEMMA LadderExists ==
    ASSUME NEW N \in Lengths, NEW s \in Stages, NEW f \in Files(N), NEW draw \in Draws[s],
           CountOf(s, N) > 1, NEW x \in {0, CountOf(s, N) - 1}
    PROVE  InBounds(draw, CountOf(s, N)) /\ \E at : Laddered(N, s, draw, at, f, x)
<1> DEFINE n == CountOf(s, N)
           W == StageWord(s)
           u == WordsOf(s, f)
<1>1. InBounds(draw, n)
  BY OldDrawsAssumption DEF InBounds, CountOf
<1>2. n \in Nat \ {0} /\ u \in SpanOf(n, W)
  BY FilesAre
<1>3. x \in 0 .. n-1
  BY <1>2
<1>4. x \in {0, n-1}
  OBVIOUS
<1> HIDE DEF n, W, u
<1>5. \E at : Rungs(at, n, draw, W) /\ at[x] = u
  <2>1. CASE x = 0
    <3>1. \E g : Rungs(g, n, draw, W) /\ g[0] = u
      BY <1>1, <1>2, RungsFromBottom
    <3> QED  BY <2>1, <3>1
  <2>2. CASE x = n-1
    <3>1. \E g : Rungs(g, n, draw, W) /\ g[n-1] = u
      BY <1>1, <1>2, RungsFromTop
    <3> QED  BY <2>2, <3>1
  <2> QED  BY <1>4, <2>1, <2>2
<1>6. PICK at : Rungs(at, n, draw, W) /\ at[x] = u
  BY <1>5
<1>7. Laddered(N, s, draw, at, f, x)
  BY <1>3, <1>6 DEF Laddered, n, W, u
<1> QED  BY <1>1, <1>7 DEF n

\* The file with the words of rung y.
LEMMA RungFile ==
    ASSUME NEW N, NEW s, NEW draw, NEW at, NEW f, NEW x, Laddered(N, s, draw, at, f, x),
           NEW y \in 0 .. CountOf(s, N) - 1, NEW g, g = WithWords(f, Width[s], at[y])
    PROVE  /\ Laddered(N, s, draw, at, g, y)
           /\ SameObjects(f, g) /\ SeedsIn(s, g) = SeedsIn(s, f)
           /\ WithWords(g, Width[s], at[x]) = f
           /\ at[y] \in SpanOf(CountOf(s, N), StageWord(s))
<1> DEFINE n == CountOf(s, N)
           w == Width[s]
           W == StageWord(s)
           u == WordsOf(s, f)
           v == at[y]
<1>1. /\ N \in Lengths /\ s \in Stages /\ f \in Files(N) /\ draw \in Draws[s] /\ n > 1
      /\ Rungs(at, n, draw, W) /\ x \in 0 .. n-1 /\ u = at[x] /\ y \in 0 .. n-1
  BY DEF Laddered
<1>2. /\ N \in Nat /\ f \in SpanOf(N, Byte) /\ w \in Nat \ {0} /\ n \in Nat \ {0}
      /\ u = Reinterpret(f, w) /\ n = WordCount(N, w) /\ W = Word(w, Byte)
  BY <1>1, FilesAre DEF WordsOf, CountOf, StageWord
<1>3. InBounds(draw, n)
  BY <1>1, OldDrawsAssumption DEF InBounds, CountOf
<1> HIDE DEF n, w, W, u
<1>4. at[x] \in SpanOf(n, W) /\ v \in SpanOf(n, W)
  BY <1>1 DEF Rungs
<1> HIDE DEF v
<1>5. SameObjects(u, v)
  BY <1>1, <1>2, <1>3, RungsSame DEF v
<1>6. g \in SpanOf(N, Byte) /\ Reinterpret(g, w) = v
  BY <1>2, <1>4, WithWordsIs DEF v, w
<1>7. SameObjects(f, g)
  BY <1>2, <1>4, <1>5, BytesFollow DEF v, w
<1>8. WithWords(g, w, u) = f
  BY <1>2, <1>4, WithWordsTwice DEF v, w
<1>9. SeedsIn(s, g) = SeedsIn(s, f)
  <2>1. Range(u) = Range(v)
    BY <1>1, <1>2, <1>4, <1>5, SameObjectsRange
  <2>2. u = WordsOf(s, f) /\ v = WordsOf(s, g)
    BY <1>6 DEF u, w, WordsOf
  <2> QED  BY <2>1, <2>2, SeedsAlike
<1>10. Laddered(N, s, draw, at, g, y)
  BY <1>1, <1>6 DEF Laddered, Files, WordsOf, n, v, w, W
<1> QED  BY <1>1, <1>4, <1>7, <1>8, <1>9, <1>10 DEF n, w, W, v

Known(G) == \A x \in DOMAIN G : G[x] \in Draws[x[1]]

\* Stage s of a shuffle takes f to g, with this seed and the generators known
\* so far.
Descent(G, N, s, seed, f, g) ==
    /\ <<s, seed>> \in DOMAIN G
    /\ \E at : /\ Laddered(N, s, G[<<s, seed>>], at, f, CountOf(s, N) - 1)
               /\ g = WithWords(f, Width[s], at[0])

Went(G, N, s, f, g) ==
    IF CountOf(s, N) <= 1 THEN g = f
    ELSE \E seed \in SeedsIn(s, f) : Descent(G, N, s, seed, f, g)

LEMMA WentBy ==
    ASSUME NEW G, NEW N \in Lengths, NEW s \in Stages, NEW f \in Files(N), NEW g, CountOf(s, N) > 1,
           Went(G, N, s, f, g)
    PROVE  \E seed \in SeedsIn(s, f) : Descent(G, N, s, seed, f, g)
<1>1. CountOf(s, N) \in Nat
  BY FilesAre
<1>2. ~(CountOf(s, N) <= 1)
  BY <1>1
<1> QED  BY <1>2, Zenon DEF Went

\* It only rearranges, and what it was seeded with is still there.
LEMMA WentAlike ==
    ASSUME NEW G, NEW N \in Lengths, NEW s \in Stages, NEW f \in Files(N), NEW g, Went(G, N, s, f, g)
    PROVE  g \in Files(N) /\ SameObjects(f, g) /\ SeedsIn(s, g) = SeedsIn(s, f)
<1>1. N \in Nat /\ f \in SpanOf(N, Byte) /\ CountOf(s, N) \in Nat
  BY FilesAre
<1>2. CASE CountOf(s, N) <= 1
  BY <1>1, <1>2, SameObjectsReflexive DEF Went
<1>3. CASE CountOf(s, N) > 1
  <2>1. PICK seed \in SeedsIn(s, f) : Descent(G, N, s, seed, f, g)
    BY <1>3, WentBy
  <2>2. PICK at :
            /\ Laddered(N, s, G[<<s, seed>>], at, f, CountOf(s, N) - 1)
            /\ g = WithWords(f, Width[s], at[0])
    BY <2>1 DEF Descent
  <2>3. 0 \in 0 .. CountOf(s, N) - 1
    BY <1>1, <1>3
  <2>4. /\ Laddered(N, s, G[<<s, seed>>], at, g, 0) /\ SameObjects(f, g) /\ SeedsIn(s, g) = SeedsIn(s, f)
    BY <2>2, <2>3, RungFile
  <2> QED  BY <2>4 DEF Laddered
<1> QED  BY <1>1, <1>2, <1>3

\* A stage of a shuffle has one result.
LEMMA WentOnce ==
    ASSUME NEW G, NEW N \in Lengths, NEW s \in Stages, NEW f \in Files(N), NEW g, NEW h,
           Went(G, N, s, f, g), Went(G, N, s, f, h)
    PROVE  g = h
<1> DEFINE n == CountOf(s, N)
<1>1. n \in Nat
  BY FilesAre
<1>2. CASE n <= 1
  BY <1>2 DEF Went
<1>3. CASE n > 1
  <2>1. PICK x \in SeedsIn(s, f) : Descent(G, N, s, x, f, g)
    BY <1>3, WentBy
  <2>2. PICK y \in SeedsIn(s, f) : Descent(G, N, s, y, f, h)
    BY <1>3, WentBy
  <2>3. x = y
    BY OneSeed
  <2>4. PICK a : Laddered(N, s, G[<<s, x>>], a, f, n-1) /\ g = WithWords(f, Width[s], a[0])
    BY <2>1 DEF Descent
  <2>5. PICK b : Laddered(N, s, G[<<s, x>>], b, f, n-1) /\ h = WithWords(f, Width[s], b[0])
    BY <2>2, <2>3 DEF Descent
  <2> HIDE DEF n
  <2>6. /\ Rungs(a, n, G[<<s, x>>], StageWord(s)) /\ Rungs(b, n, G[<<s, x>>], StageWord(s))
        /\ a[n-1] = b[n-1] /\ n \in Nat \ {0}
    BY <1>1, <1>3, <2>4, <2>5 DEF Laddered, n
  <2>7. a[0] = b[0]
    BY <2>6, RungsDown
  <2> QED  BY <2>4, <2>5, <2>7
<1> QED  BY <1>1, <1>2, <1>3

\* And comes from one file.
LEMMA WentBack ==
    ASSUME NEW G, NEW N \in Lengths, NEW s \in Stages, NEW f \in Files(N), NEW h \in Files(N), NEW g,
           Went(G, N, s, f, g), Went(G, N, s, h, g)
    PROVE  f = h
<1> DEFINE n == CountOf(s, N)
<1>1. n \in Nat
  BY FilesAre
<1>2. CASE n <= 1
  BY <1>2 DEF Went
<1>3. CASE n > 1
  <2>1. PICK x \in SeedsIn(s, f) : Descent(G, N, s, x, f, g)
    BY <1>3, WentBy
  <2>2. PICK y \in SeedsIn(s, h) : Descent(G, N, s, y, h, g)
    BY <1>3, WentBy
  <2>3. g \in Files(N) /\ SeedsIn(s, g) = SeedsIn(s, f) /\ SeedsIn(s, g) = SeedsIn(s, h)
    BY WentAlike
  <2>4. x = y
    BY <2>3, OneSeed
  <2> DEFINE draw == G[<<s, x>>]
  <2> HIDE DEF n, draw
  <2>5. PICK a : Laddered(N, s, draw, a, f, n-1) /\ g = WithWords(f, Width[s], a[0])
    BY <2>1 DEF draw, n, Descent
  <2>6. PICK b : Laddered(N, s, draw, b, h, n-1) /\ g = WithWords(h, Width[s], b[0])
    BY <2>2, <2>4 DEF draw, n, Descent
  <2>7. n \in Nat \ {0} /\ 0 \in 0 .. n-1
    BY <1>1, <1>3
  <2>8. Laddered(N, s, draw, a, g, 0) /\ WithWords(g, Width[s], a[n-1]) = f
    BY <2>5, <2>7, RungFile DEF n
  <2>9. Laddered(N, s, draw, b, g, 0) /\ WithWords(g, Width[s], b[n-1]) = h
    BY <2>6, <2>7, RungFile DEF n
  <2>10. a[0] = b[0] /\ Rungs(a, n, draw, StageWord(s)) /\ Rungs(b, n, draw, StageWord(s)) /\ draw \in Draws[s]
    BY <2>8, <2>9 DEF Laddered, n
  <2>11. InBounds(draw, n)
    BY <2>10, OldDrawsAssumption DEF InBounds, CountOf, n
  <2>12. a[n-1] = b[n-1]
    BY <2>7, <2>10, <2>11, RungsUp
  <2> QED  BY <2>8, <2>9, <2>12
<1> QED  BY <1>1, <1>2, <1>3

\* The generators G are among those of H, and change no stage that went.
Extends(H, G) == \A x \in DOMAIN G : x \in DOMAIN H /\ H[x] = G[x]

LEMMA WentStays ==
    ASSUME NEW G, NEW H, NEW N, NEW s, NEW f, NEW g, Went(G, N, s, f, g), Extends(H, G)
    PROVE  Went(H, N, s, f, g)
BY DEF Went, Descent, Extends

-----------------------------------------------------------------------------
(* The three stages.                                                        *)

\* A shuffle takes x to y.
Edge(G, N, x, y) ==
    \E a, b \in Files(N) :
        Went(G, N, "long", x, a) /\ Went(G, N, "float", a, b) /\ Went(G, N, "byte", b, y)

\* A shuffle of x that has the stages in left before it has come to f.
Up(G, N, x, left, f) ==
    /\ left = <<"long", "float", "byte">> => f = x
    /\ left = <<"float", "byte">> => Went(G, N, "long", x, f)
    /\ left = <<"byte">> => \E a \in Files(N) : Went(G, N, "long", x, a) /\ Went(G, N, "float", a, f)
    /\ left = <<>> => Edge(G, N, x, f)

\* So has an unshuffle.
Down(G, N, x, left, f) ==
    /\ left = <<"byte", "float", "long">> => f = x
    /\ left = <<"float", "long">> => Went(G, N, "byte", f, x)
    /\ left = <<"long">> => \E b \in Files(N) : Went(G, N, "float", f, b) /\ Went(G, N, "byte", b, x)
    /\ left = <<>> => Edge(G, N, f, x)

UpLeft == {<<"long", "float", "byte">>, <<"float", "byte">>, <<"byte">>, <<>>}
DownLeft == {<<"byte", "float", "long">>, <<"float", "long">>, <<"long">>, <<>>}

LEMMA Lists ==
    /\ \A t \in UpLeft \cup DownLeft : t # <<>> =>
          Head(t) \in Stages /\ Tail(t) \in UpLeft \cup DownLeft
    /\ \A t \in UpLeft : t # <<>> => Tail(t) \in UpLeft
    /\ \A t \in DownLeft : t # <<>> => Tail(t) \in DownLeft
    /\ \A t \in DownLeft : Tail(t) # <<"byte", "float", "long">>
    /\ \A t \in DownLeft : t # <<>> /\ t # <<"byte", "float", "long">> => Head(t) # "byte"
    /\ \A t \in UpLeft \cup DownLeft : t \in Seq(Stages) /\ Len(t) <= 3
BY DEF UpLeft, DownLeft, Stages

LEMMA StageNames == "long" \in Stages /\ "float" \in Stages /\ "byte" \in Stages
BY DEF Stages

LEMMA EdgeStays ==
    ASSUME NEW G, NEW H, Extends(H, G), NEW N, NEW x, NEW y, Edge(G, N, x, y)
    PROVE  Edge(H, N, x, y)
<1>1. PICK a \in Files(N), b \in Files(N) :
         Went(G, N, "long", x, a) /\ Went(G, N, "float", a, b) /\ Went(G, N, "byte", b, y)
  BY DEF Edge
<1>2. Went(H, N, "long", x, a) /\ Went(H, N, "float", a, b) /\ Went(H, N, "byte", b, y)
  BY <1>1, WentStays
<1> QED  BY <1>2 DEF Edge

\* What has been done stays done when generators are added.
LEMMA UpStays ==
    ASSUME NEW G, NEW H, Extends(H, G), NEW N, NEW x, NEW f, NEW left, Up(G, N, x, left, f)
    PROVE  Up(H, N, x, left, f)
<1>1. ASSUME NEW s, NEW c, NEW d, Went(G, N, s, c, d) PROVE Went(H, N, s, c, d)
  BY <1>1, WentStays
<1>2. Edge(G, N, x, f) => Edge(H, N, x, f)
  BY EdgeStays
<1> QED  BY <1>1, <1>2 DEF Up

LEMMA DownStays ==
    ASSUME NEW G, NEW H, Extends(H, G), NEW N, NEW x, NEW f, NEW left, Down(G, N, x, left, f)
    PROVE  Down(H, N, x, left, f)
<1>1. ASSUME NEW s, NEW c, NEW d, Went(G, N, s, c, d) PROVE Went(H, N, s, c, d)
  BY <1>1, WentStays
<1>2. Edge(G, N, f, x) => Edge(H, N, f, x)
  BY EdgeStays
<1> QED  BY <1>1, <1>2 DEF Down

LEMMA UpStep ==
    ASSUME NEW G, NEW N, NEW x, NEW f \in Files(N), NEW g,
           NEW left \in UpLeft, left # <<>>, Up(G, N, x, left, f), Went(G, N, Head(left), f, g)
    PROVE  Up(G, N, x, Tail(left), g)
<1>1. CASE left = <<"long", "float", "byte">>
  <2>1. Tail(left) = <<"float", "byte">> /\ Head(left) = "long" /\ f = x
    BY <1>1 DEF Up
  <2> QED  BY <2>1 DEF Up
<1>2. CASE left = <<"float", "byte">>
  <2>1. Tail(left) = <<"byte">> /\ Head(left) = "float" /\ Went(G, N, "long", x, f)
    BY <1>2 DEF Up
  <2> QED  BY <2>1 DEF Up
<1>3. CASE left = <<"byte">>
  <2>1. Tail(left) = <<>> /\ Head(left) = "byte"
    BY <1>3
  <2>2. PICK a \in Files(N) : Went(G, N, "long", x, a) /\ Went(G, N, "float", a, f)
    BY <1>3 DEF Up
  <2>4. Edge(G, N, x, g)
    BY <2>1, <2>2 DEF Edge
  <2> QED  BY <2>1, <2>4 DEF Up
<1> QED  BY <1>1, <1>2, <1>3 DEF UpLeft

LEMMA DownStep ==
    ASSUME NEW G, NEW N, NEW x, NEW f \in Files(N), NEW g,
           NEW left \in DownLeft, left # <<>>, Down(G, N, x, left, f), Went(G, N, Head(left), g, f)
    PROVE  Down(G, N, x, Tail(left), g)
<1>1. CASE left = <<"byte", "float", "long">>
  <2>1. Tail(left) = <<"float", "long">> /\ Head(left) = "byte" /\ f = x
    BY <1>1 DEF Down
  <2> QED  BY <2>1 DEF Down
<1>2. CASE left = <<"float", "long">>
  <2>1. Tail(left) = <<"long">> /\ Head(left) = "float" /\ Went(G, N, "byte", f, x)
    BY <1>2 DEF Down
  <2>2. \E b \in Files(N) : Went(G, N, "float", g, b) /\ Went(G, N, "byte", b, x)
    BY <2>1
  <2>3. /\ <<"long">> # <<"byte", "float", "long">> /\ <<"long">> # <<"float", "long">>
        /\ <<"long">> # <<>>
    OBVIOUS
  <2>4. Down(G, N, x, <<"long">>, g)
    BY <2>2, <2>3, Zenon DEF Down
  <2> QED  BY <2>1, <2>4
<1>3. CASE left = <<"long">>
  <2>1. Tail(left) = <<>> /\ Head(left) = "long"
    BY <1>3
  <2>2. PICK b \in Files(N) : Went(G, N, "float", f, b) /\ Went(G, N, "byte", b, x)
    BY <1>3 DEF Down
  <2>4. Edge(G, N, g, x)
    BY <2>1, <2>2 DEF Edge
  <2>5. /\ <<>> # <<"byte", "float", "long">> /\ <<>> # <<"float", "long">>
        /\ <<>> # <<"long">>
    OBVIOUS
  <2>6. Down(G, N, x, <<>>, g)
    BY <2>4, <2>5, Zenon DEF Down
  <2> QED  BY <2>1, <2>6
<1> QED  BY <1>1, <1>2, <1>3 DEF DownLeft

\* A shuffle has one result, and comes from one file.
LEMMA EdgeOnce ==
    ASSUME NEW G, NEW N \in Lengths, NEW x \in Files(N), NEW y, NEW z, Edge(G, N, x, y), Edge(G, N, x, z)
    PROVE  y = z
<1>1. PICK a \in Files(N), b \in Files(N) :
         Went(G, N, "long", x, a) /\ Went(G, N, "float", a, b) /\ Went(G, N, "byte", b, y)
  BY DEF Edge
<1>2. PICK c \in Files(N), d \in Files(N) :
         Went(G, N, "long", x, c) /\ Went(G, N, "float", c, d) /\ Went(G, N, "byte", d, z)
  BY DEF Edge
<1>3. a = c
  BY <1>1, <1>2, StageNames, WentOnce
<1>4. b = d
  BY <1>1, <1>2, <1>3, StageNames, WentOnce
<1> QED  BY <1>1, <1>2, <1>4, StageNames, WentOnce

LEMMA EdgeBack ==
    ASSUME NEW G, NEW N \in Lengths, NEW x \in Files(N), NEW z \in Files(N), NEW y,
           Edge(G, N, x, y), Edge(G, N, z, y)
    PROVE  x = z
<1>1. PICK a \in Files(N), b \in Files(N) :
         Went(G, N, "long", x, a) /\ Went(G, N, "float", a, b) /\ Went(G, N, "byte", b, y)
  BY DEF Edge
<1>2. PICK c \in Files(N), d \in Files(N) :
         Went(G, N, "long", z, c) /\ Went(G, N, "float", c, d) /\ Went(G, N, "byte", d, y)
  BY DEF Edge
<1>3. b = d
  BY <1>1, <1>2, StageNames, WentBack
<1>4. a = c
  BY <1>1, <1>2, <1>3, StageNames, WentBack
<1> QED  BY <1>1, <1>2, <1>4, StageNames, WentBack

\* Rearrangements of one file of N bytes, in whichever direction.
LEMMA Chain ==
    ASSUME NEW N \in Lengths, NEW a \in Files(N), NEW b \in Files(N), NEW c \in Files(N),
           SameObjects(a, b), SameObjects(b, c)
    PROVE  SameObjects(a, c) /\ SameObjects(c, a)
BY OldAssumption, SameObjectsChain DEF Files

LEMMA Alone == ASSUME NEW N \in Lengths, NEW a \in Files(N) PROVE SameObjects(a, a)
BY OldAssumption, SameObjectsReflexive DEF Files

\* Wherever a run is, what it works on is a rearrangement of what it started
\* from.
LEMMA UpAlike ==
    ASSUME NEW G, NEW N \in Lengths, NEW x \in Files(N), NEW f \in Files(N), NEW left \in UpLeft,
           Up(G, N, x, left, f)
    PROVE  SameObjects(x, f)
<1>1. ASSUME NEW s \in Stages, NEW c \in Files(N), NEW d, Went(G, N, s, c, d)
      PROVE  d \in Files(N) /\ SameObjects(c, d)
  BY <1>1, WentAlike
<1>2. CASE left = <<"long", "float", "byte">>
  BY <1>2, Alone DEF Up
<1>3. CASE left = <<"float", "byte">>
  BY <1>1, <1>3, StageNames DEF Up
<1>4. CASE left = <<"byte">>
  <2>1. PICK a \in Files(N) : Went(G, N, "long", x, a) /\ Went(G, N, "float", a, f)
    BY <1>4 DEF Up
  <2> QED  BY <1>1, <2>1, StageNames, Chain
<1>5. CASE left = <<>>
  <2>1. PICK a \in Files(N), b \in Files(N) :
         Went(G, N, "long", x, a) /\ Went(G, N, "float", a, b) /\ Went(G, N, "byte", b, f)
    BY <1>5 DEF Up, Edge
  <2>2. SameObjects(x, a) /\ SameObjects(a, b) /\ SameObjects(b, f)
    BY <1>1, <2>1, StageNames
  <2>3. SameObjects(x, b)
    BY <2>2, Chain
  <2> QED  BY <2>2, <2>3, Chain
<1> QED  BY <1>2, <1>3, <1>4, <1>5 DEF UpLeft

LEMMA DownAlike ==
    ASSUME NEW G, NEW N \in Lengths, NEW x \in Files(N), NEW f \in Files(N), NEW left \in DownLeft,
           Down(G, N, x, left, f)
    PROVE  SameObjects(x, f)
<1>1. ASSUME NEW s \in Stages, NEW c \in Files(N), NEW d, Went(G, N, s, c, d)
      PROVE  d \in Files(N) /\ SameObjects(c, d)
  BY <1>1, WentAlike
<1>2. CASE left = <<"byte", "float", "long">>
  BY <1>2, Alone DEF Down
<1>3. CASE left = <<"float", "long">>
  <2>1. SameObjects(f, x)
    BY <1>1, <1>3, StageNames DEF Down
  <2> QED  BY <2>1, Alone, Chain
<1>4. CASE left = <<"long">>
  <2>1. PICK b \in Files(N) : Went(G, N, "float", f, b) /\ Went(G, N, "byte", b, x)
    BY <1>4 DEF Down
  <2> QED  BY <1>1, <2>1, StageNames, Chain
<1>5. CASE left = <<>>
  <2>1. PICK a \in Files(N), b \in Files(N) :
         Went(G, N, "long", f, a) /\ Went(G, N, "float", a, b) /\ Went(G, N, "byte", b, x)
    BY <1>5 DEF Down, Edge
  <2>2. SameObjects(f, a) /\ SameObjects(a, b) /\ SameObjects(b, x)
    BY <1>1, <2>1, StageNames
  <2>3. SameObjects(f, b)
    BY <2>2, Chain
  <2> QED  BY <2>2, <2>3, Chain
<1> QED  BY <1>2, <1>3, <1>4, <1>5 DEF DownLeft

-----------------------------------------------------------------------------
(* Inside a stage.                                                          *)

Ways == {"shuffle", "unshuffle"}

\* The rung a stage of n words starts from, the one it is on when m swaps are
\* left, and the index of the next of them.
StartRung(o, n) == IF o = "shuffle" THEN n - 1 ELSE 0
Rung(o, m, n) == IF o = "shuffle" THEN m ELSE n - 1 - m
NextIndex(o, m, n) == IF o = "shuffle" THEN m ELSE n - m

\* The swaps left.
Left(o, m, n, draw) ==
    [x \in 1 .. m |-> <<NextIndex(o, m + 1 - x, n), draw[NextIndex(o, m + 1 - x, n)]>>]

IsLeft(sw, o, m, n, draw) ==
    /\ Len(sw) = m /\ sw # <<>>
    /\ Head(sw) = <<NextIndex(o, m, n), draw[NextIndex(o, m, n)]>>
    /\ m = 1 => Tail(sw) = <<>>
    /\ m # 1 => Tail(sw) = Left(o, m - 1, n, draw)

LEMMA LeftIs ==
    ASSUME NEW o, NEW n \in Nat, NEW m \in 1 .. n-1, NEW draw
    PROVE  IsLeft(Left(o, m, n, draw), o, m, n, draw)
<1> DEFINE pair(l) == <<NextIndex(o, l, n), draw[NextIndex(o, l, n)]>>
           sw == Left(o, m, n, draw)
           V == { pair(l) : l \in 1 .. m }
<1> HIDE DEF pair
<1>1. \A l \in Nat : Left(o, l, n, draw) = [x \in 1 .. l |-> pair(l + 1 - x)]
  BY DEF Left, pair
<1>2. sw = [x \in 1 .. m |-> pair(m + 1 - x)]
  BY <1>1
<1> HIDE DEF sw
<1>3. \A x \in 1 .. m : m + 1 - x \in 1 .. m
  OBVIOUS
<1>4. \A x \in 1 .. m : pair(m + 1 - x) \in V
  BY <1>3
<1>5. m \in Nat /\ sw \in [1 .. m -> V]
  BY <1>2, <1>4
<1> HIDE DEF V
<1>6. sw \in Seq(V) /\ Len(sw) = m
  BY <1>5
<1>7. sw # <<>> /\ Head(sw) = pair(m)
  <2>1. sw # <<>> /\ Head(sw) = sw[1]
    BY <1>6
  <2>2. sw[1] = pair(m + 1 - 1) /\ m + 1 - 1 = m
    BY <1>2
  <2> QED  BY <2>1, <2>2
<1>8. Tail(sw) \in Seq(V) /\ Len(Tail(sw)) = m - 1 /\ \A x \in 1 .. m-1 : Tail(sw)[x] = sw[x+1]
  BY <1>6, <1>7
<1>9. \A x \in 1 .. m-1 : Tail(sw)[x] = pair((m - 1) + 1 - x)
  <2> TAKE x \in 1 .. m-1
  <2>1. x + 1 \in 1 .. m /\ m + 1 - (x + 1) = (m - 1) + 1 - x
    OBVIOUS
  <2> QED  BY <1>2, <1>8, <2>1
<1>10. Tail(sw) = [x \in 1 .. m-1 |-> pair((m - 1) + 1 - x)]
  <2> DEFINE r == [x \in 1 .. m-1 |-> pair((m - 1) + 1 - x)]
  <2>1. m - 1 \in Nat /\ \A x \in 1 .. m-1 : (m - 1) + 1 - x \in 1 .. m
    OBVIOUS
  <2>2. \A x \in 1 .. m-1 : pair((m - 1) + 1 - x) \in V
    BY <2>1 DEF V
  <2>3. r \in Seq(V) /\ Len(r) = m - 1 /\ \A x \in 1 .. m-1 : r[x] = pair((m - 1) + 1 - x)
    BY <2>1, <2>2
  <2> HIDE DEF r
  <2>4. \A x \in 1 .. Len(Tail(sw)) : Tail(sw)[x] = r[x]
    BY <1>8, <1>9, <2>3
  <2>5. Tail(sw) = r
    BY <1>8, <2>3, <2>4, SeqEqual
  <2> QED  BY <2>5 DEF r
<1>11. m # 1 => Tail(sw) = Left(o, m - 1, n, draw)
  <2>1. m - 1 \in Nat
    OBVIOUS
  <2> QED  BY <1>1, <1>10, <2>1
<1>12. m = 1 => Tail(sw) = <<>>
  <2>1. Tail(sw) # <<>> => Len(Tail(sw)) \in Nat \ {0}
    BY <1>8, EmptySeq
  <2>2. m = 1 => Len(Tail(sw)) = 0
    BY <1>8
  <2> QED  BY <2>1, <2>2
<1> QED  BY <1>6, <1>7, <1>11, <1>12 DEF IsLeft, sw, pair

\* With m swaps left of stage s, of which the next has its first store behind
\* it if tmp is the word it moved out.
InSwap(N, G, o, s, seed, base, at, m, a, sw, tmp) ==
    LET n == CountOf(s, N)
        draw == G[<<s, seed>>]
        v == at[Rung(o, m, n)]
        k == NextIndex(o, m, n)
    IN  /\ <<s, seed>> \in DOMAIN G
        /\ Laddered(N, s, draw, at, base, StartRung(o, n))
        /\ m \in 1 .. n-1
        /\ sw = Left(o, m, n, draw)
        /\ tmp = <<>> => a = WithWords(base, Width[s], v)
        /\ tmp # <<>> => tmp = v[k] /\ a = WithWords(base, Width[s], [v EXCEPT ![k] = v[draw[k]]])

\* The stage began with the file base, and a is what has become of it.
UnderWay(N, G, o, s, base, a, sw, tmp) ==
    \E seed \in SeedsIn(s, base) : \E at, m : InSwap(N, G, o, s, seed, base, at, m, a, sw, tmp)

\* One swap is one rung.
LEMMA RungStep ==
    ASSUME NEW N, NEW s, NEW draw, NEW at, NEW f, NEW x, Laddered(N, s, draw, at, f, x),
           NEW o \in Ways, NEW n, n = CountOf(s, N), NEW m \in 1 .. n-1, NEW k, k = NextIndex(o, m, n)
    PROVE  /\ n \in Nat \ {0} /\ k \in 1 .. n-1 /\ k \in 0 .. n-1 /\ draw[k] \in 0 .. n-1
           /\ Rung(o, m, n) \in 0 .. n-1 /\ Rung(o, m - 1, n) \in 0 .. n-1
           /\ at[Rung(o, m, n)] \in SpanOf(n, StageWord(s))
           /\ at[Rung(o, m - 1, n)] = Swapped(at[Rung(o, m, n)], k, draw[k])
<1>1. /\ N \in Lengths /\ s \in Stages /\ f \in Files(N) /\ draw \in Draws[s]
      /\ Rungs(at, n, draw, StageWord(s))
  BY DEF Laddered
<1>2. n \in Nat \ {0}
  <2>1. n \in Nat
    BY <1>1, FilesAre
  <2> QED  BY <2>1
<1>3. InBounds(draw, n)
  BY <1>1, OldDrawsAssumption DEF InBounds, CountOf
<1>4. k \in 1 .. n-1 /\ k \in 0 .. n-1 /\ k-1 \in 0 .. n-1
      /\ Rung(o, m, n) \in 0 .. n-1 /\ Rung(o, m - 1, n) \in 0 .. n-1
  BY <1>2 DEF NextIndex, Rung
<1>5. \A y \in 0 .. n-1 : at[y] \in SpanOf(n, StageWord(s))
  BY <1>1 DEF Rungs
<1>6. at[k-1] = Swapped(at[k], k, draw[k])
  BY <1>1, <1>4 DEF Rungs
<1>7. draw[k] \in 0 .. n-1 /\ Swapped(Swapped(at[k], k, draw[k]), k, draw[k]) = at[k]
  BY <1>2, <1>3, <1>4, <1>5, OneRung
<1>8. CASE o = "shuffle"
  <2>1. Rung(o, m, n) = k /\ Rung(o, m - 1, n) = k - 1
    BY <1>8 DEF Rung, NextIndex
  <2> QED  BY <1>2, <1>4, <1>5, <1>6, <1>7, <2>1
<1>9. CASE o = "unshuffle"
  <2>1. Rung(o, m, n) = k - 1 /\ Rung(o, m - 1, n) = k
    BY <1>2, <1>9 DEF Rung, NextIndex
  <2> QED  BY <1>2, <1>4, <1>5, <1>6, <1>7, <2>1
<1> QED  BY <1>8, <1>9 DEF Ways

\* The swaps of a stage of n words.
AllSwaps(o, n, draw) ==
    [k \in 1 .. n-1 |-> IF o = "shuffle" THEN <<n-k, draw[n-k]>> ELSE <<k, draw[k]>>]

\* A stage with swaps to make begins.
LEMMA SwapsBegin ==
    ASSUME NEW N \in Lengths, NEW G, NEW o \in Ways, NEW s \in Stages, NEW f \in Files(N),
           NEW seed \in SeedsIn(s, f), <<s, seed>> \in DOMAIN G, G[<<s, seed>>] \in Draws[s],
           CountOf(s, N) > 1
    PROVE  /\ UnderWay(N, G, o, s, f, f, AllSwaps(o, CountOf(s, N), G[<<s, seed>>]), <<>>)
           /\ AllSwaps(o, CountOf(s, N), G[<<s, seed>>]) # <<>>
<1> DEFINE n == CountOf(s, N)
           draw == G[<<s, seed>>]
           sw == AllSwaps(o, n, draw)
<1>1. n \in Nat /\ n-1 \in 1 .. n-1 /\ StartRung(o, n) \in {0, n-1}
  <2>1. n \in Nat
    BY FilesAre
  <2> QED  BY <2>1 DEF StartRung
<1>2. PICK at : Laddered(N, s, draw, at, f, StartRung(o, n))
  BY <1>1, LadderExists
<1> HIDE DEF n, draw
<1>3. sw = Left(o, n-1, n, draw)
  <2>1. \A k \in 1 .. n-1 : NextIndex(o, (n-1) + 1 - k, n) = IF o = "shuffle" THEN n-k ELSE k
    BY <1>1 DEF NextIndex
  <2>2. \A k \in 1 .. n-1 : (IF o = "shuffle" THEN <<n-k, draw[n-k]>> ELSE <<k, draw[k]>>)
                            = <<NextIndex(o, (n-1) + 1 - k, n), draw[NextIndex(o, (n-1) + 1 - k, n)]>>
    BY <2>1
  <2> QED  BY <2>2 DEF Left, AllSwaps
<1> HIDE DEF sw
<1>4. Rung(o, n-1, n) = StartRung(o, n)
  BY <1>1 DEF Rung, StartRung
<1>5. f = WithWords(f, Width[s], at[StartRung(o, n)])
  <2>1. at[StartRung(o, n)] = Reinterpret(f, Width[s])
    BY <1>2 DEF Laddered, WordsOf
  <2> QED  BY <2>1, FilesAre, OwnWords
<1>6. InSwap(N, G, o, s, seed, f, at, n-1, f, sw, <<>>)
  BY <1>1, <1>2, <1>3, <1>4, <1>5 DEF InSwap, n, draw
<1>7. sw # <<>>
  <2>1. IsLeft(Left(o, n-1, n, draw), o, n-1, n, draw)
    BY <1>1, LeftIs
  <2> QED  BY <1>3, <2>1 DEF IsLeft
<1> QED  BY <1>6, <1>7 DEF UnderWay, n, draw, sw

\* What is known of a stage under way: the seed, the rungs, where it is.
Whereabouts(N, G, o, s, base, seed, at, m, sw) ==
    LET n == CountOf(s, N)
        draw == G[<<s, seed>>]
        i == Head(sw)[1]
        j == Head(sw)[2]
        v == at[Rung(o, m, n)]
    IN  /\ n \in Nat \ {0} /\ m \in 1 .. n-1 /\ i = NextIndex(o, m, n) /\ j = draw[i]
        /\ Laddered(N, s, draw, at, base, StartRung(o, n)) /\ base \in Files(N)
        /\ i \in 1 .. n-1 /\ i \in 0 .. n-1 /\ j \in 0 .. n-1
        /\ Rung(o, m, n) \in 0 .. n-1 /\ Rung(o, m-1, n) \in 0 .. n-1
        /\ v \in SpanOf(n, StageWord(s)) /\ at[Rung(o, m-1, n)] = Swapped(v, i, j)
        /\ IsLeft(sw, o, m, n, draw)

LEMMA WhereItIs ==
    ASSUME NEW N \in Lengths, NEW G, NEW o \in Ways, NEW s \in Stages, NEW base, NEW a, NEW sw, NEW tmp,
           NEW seed, NEW at, NEW m, InSwap(N, G, o, s, seed, base, at, m, a, sw, tmp)
    PROVE  Whereabouts(N, G, o, s, base, seed, at, m, sw)
<1> DEFINE n == CountOf(s, N)
           draw == G[<<s, seed>>]
           i == Head(sw)[1]
           j == Head(sw)[2]
           v == at[Rung(o, m, n)]
           k == NextIndex(o, m, n)
<1>1. /\ Laddered(N, s, draw, at, base, StartRung(o, n)) /\ m \in 1 .. n-1 /\ sw = Left(o, m, n, draw)
  BY DEF InSwap
<1>2. n \in Nat /\ base \in Files(N)
  BY <1>1, FilesAre DEF Laddered
<1> HIDE DEF n, draw
<1>3. IsLeft(sw, o, m, n, draw)
  BY <1>1, <1>2, LeftIs
<1>4. Head(sw) = <<k, draw[k]>>
  BY <1>3 DEF IsLeft
<1> HIDE DEF k
<1>5. i = k /\ j = draw[i]
  BY <1>4
<1>6. /\ n \in Nat \ {0} /\ k \in 1 .. n-1 /\ k \in 0 .. n-1 /\ draw[k] \in 0 .. n-1
      /\ Rung(o, m, n) \in 0 .. n-1 /\ Rung(o, m - 1, n) \in 0 .. n-1
      /\ v \in SpanOf(n, StageWord(s))
      /\ at[Rung(o, m - 1, n)] = Swapped(v, k, draw[k])
  BY <1>1, RungStep DEF n, k
<1> HIDE DEF i, j, v
<1>7. /\ n \in Nat \ {0} /\ m \in 1 .. n-1 /\ i = NextIndex(o, m, n) /\ j = draw[i]
      /\ Laddered(N, s, draw, at, base, StartRung(o, n)) /\ base \in Files(N)
      /\ i \in 1 .. n-1 /\ i \in 0 .. n-1 /\ j \in 0 .. n-1
      /\ Rung(o, m, n) \in 0 .. n-1 /\ Rung(o, m-1, n) \in 0 .. n-1
      /\ v \in SpanOf(n, StageWord(s)) /\ at[Rung(o, m-1, n)] = Swapped(v, i, j)
  BY <1>1, <1>2, <1>5, <1>6 DEF k
<1> QED  BY <1>3, <1>7 DEF Whereabouts, n, draw, i, j, v

\* The words and draws of a stage under way are in the file.
LEMMA UnderWayTyped ==
    ASSUME NEW N \in Lengths, NEW G, NEW o \in Ways, NEW s \in Stages, NEW base, NEW a, NEW sw, NEW tmp,
           UnderWay(N, G, o, s, base, a, sw, tmp)
    PROVE  /\ \A k \in DOMAIN sw : sw[k] \in (1 .. N-1) \X (0 .. N-1)
           /\ tmp # <<>> => tmp \in StageWord(s)
           /\ Width[s] <= N
<1>1. PICK seed, at, m : InSwap(N, G, o, s, seed, base, at, m, a, sw, tmp)
  BY DEF UnderWay
<1> DEFINE n == CountOf(s, N)
           draw == G[<<s, seed>>]
           i == Head(sw)[1]
           v == at[Rung(o, m, n)]
           w == Width[s]
<1>2. /\ n \in Nat \ {0} /\ m \in 1 .. n-1 /\ i = NextIndex(o, m, n) /\ i \in 0 .. n-1
      /\ Laddered(N, s, draw, at, base, StartRung(o, n)) /\ v \in SpanOf(n, StageWord(s))
  BY <1>1, WhereItIs DEF Whereabouts
<1>3. sw = Left(o, m, n, draw) /\ (tmp # <<>> => tmp = v[i])
  BY <1>1, <1>2 DEF InSwap
<1>4. base \in Files(N) /\ draw \in Draws[s] /\ n = WordCount(N, w) /\ N \in Nat /\ w \in Nat \ {0}
  BY <1>2, FilesAre DEF Laddered, CountOf
<1>5. InBounds(draw, n)
  BY <1>4, OldDrawsAssumption DEF InBounds
<1> HIDE DEF n, draw, v, i, w
<1>6. n <= N /\ w <= N
  <2>0. n-1 \in 0 .. WordCount(N, w) - 1
    BY <1>2, <1>4
  <2>1. \A b \in 0 .. w-1 : (n-1)*w + b \in 0 .. N-1
    BY <1>4, <2>0, InWord
  <2>2. PICK q \in Nat : q = n-1
    BY <1>2
  <2>3. (n-1)*w + (w-1) \in 0 .. N-1
    BY <1>4, <2>1
  <2>4. q*w + (w-1) <= N-1
    BY <2>2, <2>3
  <2>5. q*w >= q
    <3>1. PICK t \in Nat : w = t + 1
      <4>1. w - 1 \in Nat /\ w = (w-1) + 1
        BY <1>4
      <4> QED  BY <4>1
    <3>2. q*w = q*t + q /\ q*t \in Nat
      BY <3>1, <2>2
    <3> QED  BY <3>2
  <2>6. q*w \in Nat
    BY <1>4
  <2>7. n = q + 1 /\ q >= 0
    BY <1>2, <2>2
  <2> QED  BY <1>2, <1>4, <2>4, <2>5, <2>6, <2>7
<1>7. ASSUME NEW x \in 1 .. m
      PROVE  NextIndex(o, m + 1 - x, n) \in 1 .. n-1
  BY <1>2 DEF NextIndex
<1>8. ASSUME NEW x \in DOMAIN sw PROVE sw[x] \in (1 .. N-1) \X (0 .. N-1)
  <2> DEFINE k == NextIndex(o, m + 1 - x, n)
  <2>1. x \in 1 .. m /\ sw[x] = <<k, draw[k]>>
    BY <1>3, <1>8 DEF Left
  <2>2. k \in 1 .. n-1
    BY <2>1, <1>7
  <2> HIDE DEF k
  <2>3. k \in 1 .. N-1 /\ draw[k] \in 0 .. N-1
    BY <1>2, <1>4, <1>5, <1>6, <2>2 DEF InBounds
  <2> QED  BY <2>1, <2>3
<1>9. tmp # <<>> => tmp \in StageWord(s)
  BY <1>2, <1>3 DEF SpanOf
<1> QED  BY <1>6, <1>8, <1>9 DEF w

\* The first store of a swap.
LEMMA FirstStore ==
    ASSUME NEW N \in Lengths, NEW G, NEW o \in Ways, NEW s \in Stages, NEW base, NEW a, NEW sw,
           UnderWay(N, G, o, s, base, a, sw, <<>>),
           NEW words, words = Reinterpret(a, Width[s]),
           NEW i, i = Head(sw)[1], NEW j, j = Head(sw)[2],
           NEW b, b = WithWords(a, Width[s],
                          [k \in 0 .. CountOf(s, N) - 1 |-> IF k = i THEN words[j] ELSE words[k]])
    PROVE  /\ a \in Files(N) /\ base \in Files(N) /\ SameObjects(base, a)
           /\ b \in Files(N) /\ words[i] # <<>>
           /\ UnderWay(N, G, o, s, base, b, sw, words[i])
<1>1. PICK seed \in SeedsIn(s, base) : \E at, m : InSwap(N, G, o, s, seed, base, at, m, a, sw, <<>>)
  BY DEF UnderWay
<1>2. PICK at, m : InSwap(N, G, o, s, seed, base, at, m, a, sw, <<>>)
  BY <1>1
<1> DEFINE n == CountOf(s, N)
           draw == G[<<s, seed>>]
           v == at[Rung(o, m, n)]
           w == Width[s]
           h == [v EXCEPT ![i] = v[j]]
           W == StageWord(s)
<1>3. /\ n \in Nat \ {0} /\ m \in 1 .. n-1 /\ i = NextIndex(o, m, n) /\ j = draw[i] /\ i \in 0 .. n-1
      /\ j \in 0 .. n-1 /\ Rung(o, m, n) \in 0 .. n-1
      /\ Laddered(N, s, draw, at, base, StartRung(o, n)) /\ v \in SpanOf(n, W) /\ base \in Files(N)
  BY <1>2, WhereItIs DEF Whereabouts
<1>4. a = WithWords(base, w, v) /\ <<s, seed>> \in DOMAIN G /\ sw = Left(o, m, n, draw)
  BY <1>2 DEF InSwap
<1>5. /\ n = WordCount(N, w) /\ N \in Nat /\ base \in SpanOf(N, Byte) /\ w \in Nat \ {0}
      /\ W = Word(w, Byte)
  BY <1>3, FilesAre DEF CountOf, StageWord
<1>6. SameObjects(base, a) /\ a \in Files(N)
  <2>1. Laddered(N, s, draw, at, a, Rung(o, m, n)) /\ SameObjects(base, a)
    BY <1>3, <1>4, RungFile
  <2> QED  BY <2>1 DEF Laddered
<1> HIDE DEF n, draw, v, w, W
<1>7. words = v
  BY <1>3, <1>4, <1>5, WithWordsIs DEF w
<1>8. h \in SpanOf(n, W) /\ h = [k \in 0 .. n-1 |-> IF k = i THEN words[j] ELSE words[k]]
  BY <1>3, <1>7 DEF SpanOf
<1>9. b = WithWords(a, w, h)
  BY <1>8 DEF n, w
<1> HIDE DEF h
<1>10. b = WithWords(base, w, h) /\ b \in Files(N)
  <2>1. WithWords(WithWords(base, w, v), w, h) = WithWords(base, w, h)
    BY <1>3, <1>5, <1>8, WithWordsOver
  <2>2. WithWords(base, w, h) \in SpanOf(N, Byte)
    BY <1>5, <1>8, WithWordsIs
  <2> QED  BY <1>4, <1>9, <2>1, <2>2 DEF Files
<1>11. words[i] = v[i] /\ words[i] # <<>>
  <2>1. v[i] \in [0 .. w-1 -> Byte]
    BY <1>3, <1>5, SMTT(30) DEF SpanOf, Word
  <2>2. DOMAIN v[i] = 0 .. w-1 /\ 0 \in 0 .. w-1
    BY <1>5, <2>1
  <2>e. DOMAIN <<>> = {}
    OBVIOUS
  <2>3. v[i] # <<>>
    BY <2>2, <2>e, Zenon
  <2> QED  BY <1>7, <2>3
<1>12. InSwap(N, G, o, s, seed, base, at, m, b, sw, words[i])
  BY <1>3, <1>4, <1>10, <1>11 DEF InSwap, n, draw, v, w, h
<1> QED  BY <1>3, <1>6, <1>10, <1>11, <1>12 DEF UnderWay

\* The second: until it is made a word is missing; with it the stage is one
\* rung further, or over.
Stored(N, G, o, s, base, a, sw, b) ==
    /\ a \in Files(N) /\ b \in Files(N) /\ base \in Files(N) /\ MissesAtMost(Width[s], base, a)
    /\ Len(sw) # 1 => Tail(sw) # <<>> /\ UnderWay(N, G, o, s, base, b, Tail(sw), <<>>)
    /\ Len(sw) = 1 => /\ Tail(sw) = <<>>
                      /\ o = "shuffle" => Went(G, N, s, base, b)
                      /\ o = "unshuffle" => Went(G, N, s, b, base)

LEMMA SecondStore ==
    ASSUME NEW N \in Lengths, NEW G, NEW o \in Ways, NEW s \in Stages, NEW base, NEW a, NEW sw, NEW tmp,
           UnderWay(N, G, o, s, base, a, sw, tmp), tmp # <<>>,
           NEW words, words = Reinterpret(a, Width[s]), NEW j, j = Head(sw)[2],
           NEW b, b = WithWords(a, Width[s],
                          [k \in 0 .. CountOf(s, N) - 1 |-> IF k = j THEN tmp ELSE words[k]])
    PROVE  Stored(N, G, o, s, base, a, sw, b)
<1>1. PICK seed \in SeedsIn(s, base) : \E at, m : InSwap(N, G, o, s, seed, base, at, m, a, sw, tmp)
  BY DEF UnderWay
<1>2. PICK at, m : InSwap(N, G, o, s, seed, base, at, m, a, sw, tmp)
  BY <1>1
<1> DEFINE n == CountOf(s, N)
           draw == G[<<s, seed>>]
           r == Rung(o, m, n)
           v == at[r]
           w == Width[s]
           i == Head(sw)[1]
           h == [v EXCEPT ![i] = v[j]]
           W == StageWord(s)
           u == Swapped(v, i, j)
<1>3. /\ n \in Nat \ {0} /\ m \in 1 .. n-1 /\ i = NextIndex(o, m, n) /\ j = draw[i] /\ i \in 0 .. n-1
      /\ j \in 0 .. n-1 /\ r \in 0 .. n-1 /\ Rung(o, m-1, n) \in 0 .. n-1
      /\ Laddered(N, s, draw, at, base, StartRung(o, n)) /\ v \in SpanOf(n, W) /\ base \in Files(N)
      /\ at[Rung(o, m-1, n)] = u /\ IsLeft(sw, o, m, n, draw)
  BY <1>2, WhereItIs DEF Whereabouts
<1>4. a = WithWords(base, w, h) /\ tmp = v[i] /\ <<s, seed>> \in DOMAIN G
  BY <1>2, <1>3 DEF InSwap
<1>5. /\ n = WordCount(N, w) /\ N \in Nat /\ base \in SpanOf(N, Byte) /\ w \in Nat \ {0}
      /\ W = Word(w, Byte)
  BY <1>3, FilesAre DEF CountOf, StageWord
<1>6. SameObjects(base, WithWords(base, w, v)) /\ WithWords(base, w, v) \in Files(N)
  <2>1. Laddered(N, s, draw, at, WithWords(base, w, v), r) /\ SameObjects(base, WithWords(base, w, v))
    BY <1>3, RungFile
  <2> QED  BY <2>1 DEF Laddered
<1>7. Laddered(N, s, draw, at, WithWords(base, w, u), Rung(o, m-1, n))
      /\ SeedsIn(s, WithWords(base, w, u)) = SeedsIn(s, base)
      /\ WithWords(WithWords(base, w, u), w, at[StartRung(o, n)]) = base
      /\ WithWords(base, w, u) \in Files(N)
  <2>1. /\ Laddered(N, s, draw, at, WithWords(base, w, u), Rung(o, m-1, n))
        /\ SeedsIn(s, WithWords(base, w, u)) = SeedsIn(s, base)
        /\ WithWords(WithWords(base, w, u), w, at[StartRung(o, n)]) = base
    BY <1>3, RungFile
  <2> QED  BY <2>1 DEF Laddered
<1> HIDE DEF n, draw, r, v, w, i, W
<1>8. h \in SpanOf(n, W) /\ u \in SpanOf(n, W)
  BY <1>3 DEF SpanOf, Swapped
<1>9. u = [k \in 0 .. n-1 |-> IF k = j THEN tmp ELSE h[k]]
  BY <1>3, <1>4 DEF SpanOf, Swapped
<1> HIDE DEF u
<1>10. MissesAtMost(w, base, a) /\ a \in Files(N)
  <2>1. MissesAtMost(w, WithWords(base, w, v), WithWords(base, w, h))
    BY <1>3, <1>5, WordOver
  <2>2. w \in Nat /\ N \in Nat /\ WithWords(base, w, v) \in SpanOf(N, Byte)
    BY <1>5, <1>6 DEF Files
  <2>3. WithWords(base, w, h) \in SpanOf(N, Byte)
    BY <1>5, <1>8, WithWordsIs
  <2> HIDE DEF h
  <2>4. MissesAtMost(w, base, WithWords(base, w, h))
    BY <1>5, <1>6, <2>1, <2>2, MissesOf
  <2> QED  BY <1>4, <2>3, <2>4 DEF Files
<1> HIDE DEF h
<1>11. b = WithWords(base, w, u)
  <2>1. words = h
    BY <1>4, <1>5, <1>8, WithWordsIs DEF w
  <2>2. b = WithWords(a, w, u)
    BY <1>9, <2>1 DEF n, w
  <2>3. WithWords(WithWords(base, w, h), w, u) = WithWords(base, w, u)
    BY <1>5, <1>8, WithWordsOver
  <2> QED  BY <1>4, <2>2, <2>3
<1>12. Len(sw) = m /\ (m = 1 => Tail(sw) = <<>>) /\ (m # 1 => Tail(sw) = Left(o, m-1, n, draw))
  BY <1>3 DEF IsLeft
<1>13. ASSUME Len(sw) # 1 PROVE Tail(sw) # <<>> /\ UnderWay(N, G, o, s, base, b, Tail(sw), <<>>)
  <2>1. m-1 \in 1 .. n-1 /\ Tail(sw) = Left(o, m-1, n, draw)
    BY <1>3, <1>12, <1>13
  <2>2. Tail(sw) # <<>>
    <3>1. n \in Nat
      BY <1>3
    <3>2. PICK l : l = m-1 /\ l \in 1 .. n-1
      BY <2>1
    <3>3. IsLeft(Left(o, l, n, draw), o, l, n, draw)
      BY <3>1, <3>2, LeftIs
    <3>4. Left(o, l, n, draw) # <<>>
      BY <3>3 DEF IsLeft
    <3> QED  BY <2>1, <3>2, <3>4
  <2>3. b = WithWords(base, w, at[Rung(o, m-1, n)])
    BY <1>3, <1>11
  <2>4. InSwap(N, G, o, s, seed, base, at, m-1, b, Tail(sw), <<>>)
    BY <1>3, <1>4, <2>1, <2>3 DEF InSwap, n, draw, w
  <2> QED  BY <2>2, <2>4 DEF UnderWay
<1>14. ASSUME Len(sw) = 1, o = "shuffle" PROVE Went(G, N, s, base, b)
  <2>1. Rung(o, m-1, n) = 0 /\ StartRung(o, n) = n-1
    BY <1>3, <1>12, <1>14 DEF Rung, StartRung
  <2>2. Laddered(N, s, draw, at, base, n-1) /\ b = WithWords(base, w, at[0])
    BY <1>3, <1>11, <2>1
  <2>3. Descent(G, N, s, seed, base, b)
    BY <1>4, <2>2 DEF Descent, n, draw, w
  <2>4. ~(n <= 1)
    BY <1>3
  <2> QED  BY <2>3, <2>4 DEF Went, n
<1>15. ASSUME Len(sw) = 1, o = "unshuffle" PROVE Went(G, N, s, b, base)
  <2>1. Rung(o, m-1, n) = n-1 /\ StartRung(o, n) = 0
    BY <1>3, <1>12, <1>15 DEF Rung, StartRung
  <2>2. /\ Laddered(N, s, draw, at, b, n-1) /\ SeedsIn(s, b) = SeedsIn(s, base)
        /\ WithWords(b, w, at[0]) = base
    BY <1>7, <1>11, <2>1
  <2>3. Descent(G, N, s, seed, b, base)
    BY <1>4, <2>2 DEF Descent, n, draw, w
  <2>4. ~(n <= 1)
    BY <1>3
  <2> QED  BY <2>2, <2>3, <2>4 DEF Went, n
<1> QED  BY <1>3, <1>7, <1>10, <1>11, <1>12, <1>13, <1>14, <1>15 DEF Stored, w

-----------------------------------------------------------------------------
(* The invariant.                                                           *)

\* What the variables hold.
OTyped ==
    /\ Size \in Lengths /\ arr \in Files(Size)
    /\ \E n \in 0 .. Size : disk \in Files(n)
    /\ op # "dead" \/ status # "killed" => disk \in Files(Size)
    /\ mode \in Modes /\ stack \in Stacks /\ element \in {1} \cup Range(Width)
    /\ op \in {"none", "shuffle", "unshuffle", "dead"}
    /\ status \in {"none", "0", "1", "segv", "overflow", "killed"}
    /\ Known(gens)
    /\ 0 \in DOMAIN seen /\ depth \in DOMAIN seen /\ DOMAIN seen \subseteq Depths
    /\ \A x, y \in DOMAIN seen : x .. y \subseteq DOMAIN seen
    /\ \A d \in DOMAIN seen : seen[d] \in Files(Size)
    /\ tailLost \in BOOLEAN

\* An unshuffle has room for the rng_values of its bytes.
Roomy == CountOf("byte", Size) - 1 <= stack

\* Where a run is.
OPoint ==
    /\ todo \in UpLeft \cup DownLeft
    /\ op = "shuffle" => todo \in UpLeft /\ depth + 1 \in Depths
    /\ op = "unshuffle" => todo \in DownLeft /\ depth - 1 \in Depths
    /\ op = "unshuffle" /\ (todo # <<"byte", "float", "long">> \/ swaps # <<>>) => Roomy
    /\ op = "none" => swaps = <<>>
    /\ temp # <<>> => swaps # <<>>
    /\ swaps # <<>> => todo # <<>> /\ element = Width[Head(todo)]
    /\ status \in {"segv", "overflow", "killed"} => op = "dead"

\* The current stage began with base, on the way of the run.
Began(base) ==
    /\ op = "shuffle" => Up(gens, Size, seen[depth], todo, base)
    /\ op = "unshuffle" => Down(gens, Size, seen[depth], todo, base)

\* The array is base, or what the swaps made have made of it.
Made(o, base) ==
    /\ swaps = <<>> => arr = base
    /\ swaps # <<>> => UnderWay(Size, gens, o, Head(todo), base, arr, swaps, temp)

Tracks ==
    \E o \in Ways, base \in Files(Size) :
        /\ Running => o = op
        /\ Made(o, base)
        /\ ~tailLost => Began(base)

\* All but a word of the run's width is on the disk.
Nearly == \E m \in 0 .. Size : m <= element /\ MissesAtMost(m, seen[depth], disk)

OnDisk ==
    ~tailLost =>
        /\ \A e \in DOMAIN seen : e + 1 \in DOMAIN seen => Edge(gens, Size, seen[e], seen[e+1])
        /\ op = "none" \/ status = "overflow" => disk = seen[depth]
        /\ Running /\ mode # "inplace" => disk = seen[depth]
        /\ mode = "inplace" /\ (Running \/ status = "killed") => Nearly
        /\ status = "segv" => SameObjects(seen[depth], disk)

OldInv == OTyped /\ OPoint /\ Tracks /\ OnDisk

\* An array as long as before.
LEMMA SizeIs == ASSUME NEW N \in Lengths, arr \in Files(N) PROVE Size = N
BY FilesAre, StageNames DEF Size

LEMMA InitOld == Init => OldInv
<1> SUFFICES ASSUME Init PROVE OldInv
  OBVIOUS
<1>1. PICK N \in Lengths : disk \in Files(N)
  BY DEF Init, Files
<1>2. Size = N /\ N \in Nat /\ arr \in Files(N)
  BY <1>1, SizeIs, OldAssumption DEF Init
<1>3. DOMAIN seen = {0} /\ seen[0] = disk /\ DOMAIN gens = {}
  BY DEF Init
<1>4. \A x, y \in {0} : x .. y \subseteq {0}
  OBVIOUS
<1>5. N \in 0 .. N
  BY <1>2
<1>6. OTyped
  BY <1>1, <1>2, <1>3, <1>4, <1>5, OldAssumption DEF OTyped, Init, Known
<1>7. OPoint
  BY DEF OPoint, Init, UpLeft
<1>8. Tracks
  <2>1. "shuffle" \in Ways /\ Made("shuffle", arr) /\ Began(arr) /\ ~Running
    BY DEF Ways, Made, Began, Running, Init
  <2> QED  BY <1>2, <2>1 DEF Tracks
<1>9. OnDisk
  <2>1. \A e \in DOMAIN seen : e + 1 \notin DOMAIN seen
    BY <1>3
  <2> QED  BY <1>3, <2>1 DEF OnDisk, Init, Running
<1> QED  BY <1>6, <1>7, <1>8, <1>9 DEF OldInv

\* Sizes and widths.
LEMMA OldSizes ==
    ASSUME OTyped
    PROVE  /\ Size \in Nat /\ Size \in Lengths /\ DOMAIN arr = 0 .. Size - 1
           /\ Depths \subseteq Int /\ depth \in Int
           /\ \A s \in Stages : Width[s] \in Nat \ {0} /\ CountOf(s, Size) \in Nat
           /\ seen[depth] \in Files(Size)
<1>1. Size \in Lengths /\ arr \in Files(Size) /\ seen[depth] \in Files(Size) /\ depth \in Depths
  BY DEF OTyped
<1>2. Size \in Nat /\ DOMAIN arr = 0 .. Size - 1
      /\ \A s \in Stages : Width[s] \in Nat \ {0} /\ CountOf(s, Size) \in Nat
  <2>1. PICK N \in Lengths : N = Size
    BY <1>1
  <2>2. arr \in Files(N)
    BY <1>1, <2>1
  <2>3. N \in Nat /\ DOMAIN arr = 0 .. N-1
    BY <2>2, FilesAre, StageNames
  <2>4. \A s \in Stages : Width[s] \in Nat \ {0} /\ CountOf(s, N) \in Nat
    BY <2>2, FilesAre
  <2> QED  BY <2>1, <2>3, <2>4
<1> QED  BY <1>1, <1>2, OldAssumption

\* There are as many bytes as any words.
LEMMA BytesMost ==
    ASSUME NEW N \in Nat, NEW s \in Stages
    PROVE  CountOf(s, N) <= CountOf("byte", N)
<1> DEFINE n == CountOf(s, N)
           w == Width[s]
           b == Width["byte"]
<1>1. w \in Nat \ {0} /\ b \in Nat \ {0} /\ b <= w
  BY OldAssumption, OldWidthAssumption, StageNames
<1>2. n \in Nat /\ CountOf("byte", N) \in Nat
  BY <1>1, InWord DEF CountOf
<1>3. CASE n = 0
  BY <1>2, <1>3
<1>4. CASE n # 0
  <2>1. PICK q \in Nat : n = q + 1
    <3>1. n-1 \in Nat /\ n = (n-1) + 1
      BY <1>2, <1>4
    <3> QED  BY <3>1
  <2>2. PICK t \in Nat : w = b + t
    <3>1. w - b \in Nat /\ w = b + (w - b)
      BY <1>1
    <3> QED  BY <3>1
  <2>3. q \in 0 .. WordCount(N, w) - 1 /\ w-1 \in 0 .. w-1
    BY <1>1, <2>1 DEF CountOf
  <2>4. q*w + (w-1) \in 0 .. N-1
    BY <1>1, <2>3, InWord
  <2> HIDE DEF n, w, b
  <2>5. q*w = q*b + q*t /\ q*t \in Nat /\ q*b \in Nat
    BY <1>1, <2>1, <2>2
  <2>6. \A x \in 0 .. b-1 : q*b + x < N
    <3>1. PICK l \in Nat : l = q*b
      BY <2>5
    <3>2. PICK g \in Nat : g = q*w /\ l <= g
      BY <2>5, <3>1
    <3>3. g + (w-1) <= N-1
      BY <2>4, <3>2
    <3> QED  BY <1>1, <3>1, <3>2, <3>3
  <2>7. q \in 0 .. WordCount(N, b) - 1
    BY <1>1, <2>1, <2>6, InWord
  <2>8. PICK c \in Nat : c = CountOf("byte", N)
    BY <1>2
  <2>9. q \in 0 .. c-1
    BY <2>7, <2>8 DEF CountOf, b
  <2>10. n <= c
    BY <2>1, <2>9
  <2> QED  BY <2>8, <2>10 DEF n
<1> QED  BY <1>3, <1>4

\* A stage begins with a rearrangement of what the run began with.
LEMMA BaseAlike ==
    ASSUME OTyped, OPoint, Running, NEW base \in Files(Size), Began(base)
    PROVE  SameObjects(seen[depth], base)
<1>1. PICK N \in Lengths : N = Size
  BY OldSizes
<1>2. PICK x \in Files(N) : x = seen[depth]
  BY <1>1, OldSizes
<1>3. CASE op = "shuffle"
  <2>1. todo \in UpLeft /\ Up(gens, N, x, todo, base)
    BY <1>1, <1>2, <1>3 DEF Began, OPoint
  <2> QED  BY <1>1, <1>2, <2>1, UpAlike
<1>4. CASE op = "unshuffle"
  <2>1. todo \in DownLeft /\ Down(gens, N, x, todo, base)
    BY <1>1, <1>2, <1>4 DEF Began, OPoint
  <2> QED  BY <1>1, <1>2, <2>1, DownAlike
<1> QED  BY <1>3, <1>4 DEF Running

\* Nothing is missing in a rearrangement.
LEMMA NothingMissing ==
    ASSUME NEW N \in Lengths, NEW a \in Files(N), NEW b \in Files(N), SameObjects(a, b)
    PROVE  0 \in 0 .. N /\ MissesAtMost(0, a, b)
<1>1. N \in Nat
  BY OldAssumption
<1> QED  BY <1>1, MissesNothing DEF Files

\* A depth next to one of the depths reached.
LEMMA NextDepth ==
    ASSUME NEW D \in SUBSET Int, \A x, y \in D : x .. y \subseteq D,
           NEW c \in D, NEW d \in {c - 1, c + 1}
    PROVE  /\ \A x, y \in D \cup {d} : x .. y \subseteq D \cup {d}
           /\ d \notin D => \A e \in D \cup {d} : e + 1 \in D \cup {d} =>
                 (e \in D /\ e + 1 \in D) \/ (e = d /\ d + 1 = c) \/ (e = c /\ c + 1 = d)
<1>1. ASSUME NEW x \in D \cup {d}, NEW y \in D \cup {d}, NEW z \in x .. y PROVE z \in D \cup {d}
  <2>1. x \in Int /\ y \in Int /\ z \in Int /\ x <= z /\ z <= y /\ c \in Int /\ d \in Int
    OBVIOUS
  <2>2. CASE x \in D /\ y \in D
    BY <2>2
  <2>3. CASE x = d /\ y \in D
    <3>1. z = d \/ z \in c .. y \/ z \in y .. c
      BY <2>1, <2>3
    <3> QED  BY <2>3, <3>1
  <2>4. CASE x \in D /\ y = d
    <3>1. z = d \/ z \in x .. c \/ z \in c .. x
      BY <2>1, <2>4
    <3> QED  BY <2>4, <3>1
  <2>5. CASE x = d /\ y = d
    BY <2>1, <2>5
  <2> QED  BY <2>2, <2>3, <2>4, <2>5
<1>2. ASSUME d \notin D, NEW e \in D \cup {d}, e + 1 \in D \cup {d},
             ~(e \in D /\ e + 1 \in D)
      PROVE  (e = d /\ d + 1 = c) \/ (e = c /\ c + 1 = d)
  <2>1. e \in Int /\ c \in Int /\ d \in Int
    OBVIOUS
  <2>2. CASE e = d
    <3>1. d + 1 \in D
      BY <1>2, <2>1, <2>2
    <3>2. CASE d = c + 1
      <4>1. d \in c .. d + 1
        BY <2>1, <3>2
      <4> QED  BY <1>2, <3>1, <4>1
    <3>3. CASE d = c - 1
      BY <2>1, <2>2, <3>3
    <3> QED  BY <3>2, <3>3
  <2>3. CASE e \in D /\ e + 1 = d
    <3>1. CASE d = c - 1
      <4>1. d \in e .. c
        BY <2>1, <2>3, <3>1
      <4> QED  BY <1>2, <2>3, <4>1
    <3>2. CASE d = c + 1
      BY <2>1, <2>3, <3>2
    <3> QED  BY <3>1, <3>2
  <2> QED  BY <1>2, <2>2, <2>3
<1> QED  BY <1>1, <1>2

-----------------------------------------------------------------------------
(* Steps.                                                                   *)

LEMMA StutterKeeps == ASSUME OldInv, UNCHANGED vars PROVE OldInv'
<1> USE DEF vars, process, stage, history
<1>1. OTyped'
  BY DEF OldInv, OTyped, Size
<1>2. OPoint'
  BY DEF OldInv, OPoint, Roomy, Size
<1>3. Tracks'
  BY DEF OldInv, Tracks, Made, Began, Running, Size
<1>4. OnDisk'
  BY DEF OldInv, OnDisk, Nearly, Running, Size
<1> QED  BY <1>1, <1>2, <1>3, <1>4 DEF OldInv

LEMMA RefusedKeeps == ASSUME OldInv, Refused PROVE OldInv'
<1> USE DEF Refused, process, stage, history
<1>1. OTyped'
  BY DEF OldInv, OTyped, Size
<1>2. OPoint'
  BY DEF OldInv, OPoint, Roomy, Size
<1>3. Tracks'
  BY DEF OldInv, Tracks, Made, Began, Running, Size
<1>4. OnDisk'
  BY DEF OldInv, OPoint, OnDisk, Nearly, Running, Size
<1> QED  BY <1>1, <1>2, <1>3, <1>4 DEF OldInv

LEMMA OutfileKeeps == ASSUME OldInv, OutfileFails PROVE OldInv'
<1> USE DEF OutfileFails, Done, process, stage, history
<1>1. OTyped'
  BY DEF OldInv, OTyped, Running, Size
<1>2. OPoint'
  BY DEF OldInv, OPoint, Roomy, Size
<1>3. Tracks'
  <2>1. PICK o \in Ways, base \in Files(Size) : Made(o, base)
    BY DEF OldInv, Tracks
  <2>2. Made(o, base)' /\ Began(base)' /\ ~Running' /\ Size' = Size
    BY <2>1 DEF Made, Began, Running, Size
  <2> QED  BY <2>2 DEF Tracks
<1>4. OnDisk'
  <2>1. mode # "inplace" /\ Size' = Size
    BY DEF Size
  <2> QED  BY <2>1 DEF OldInv, OPoint, OnDisk, Running
<1> QED  BY <1>1, <1>2, <1>3, <1>4 DEF OldInv

\* A process starts.
LEMMA BeginKeeps ==
    ASSUME OldInv, OpenInPlace \/ ReadWholeFile \/ StringShuffle
    PROVE  OldInv'
<1>1. PICK m \in Modes, o \in Ways : Begin(m, o)
  BY DEF OpenInPlace, ReadWholeFile, StringShuffle, Ways
<1>2. /\ op = "none" /\ mode' = m /\ op' = o /\ stack' \in Stacks
      /\ o = "shuffle" => depth + 1 \in Depths
      /\ o = "unshuffle" => depth - 1 \in Depths
      /\ arr' = disk /\ element' = 1 /\ todo' = Order(o) /\ status' = "none"
      /\ UNCHANGED <<disk, swaps, temp, gens, depth, seen, tailLost>>
  BY <1>1 DEF Begin, history, Ways
<1>3. PICK N \in Lengths : N = Size /\ disk \in Files(N) /\ N \in Nat
  BY <1>2, OldSizes DEF OldInv, OTyped
<1>4. Size' = N
  <2>1. Cardinality(DOMAIN disk) = N
    BY <1>3, FilesAre, StageNames
  <2> QED  BY <1>2, <2>1 DEF Size
<1>5. PICK n \in 0 .. N : disk \in Files(n)
  BY <1>3
<1>6. /\ seen[depth] \in Files(N) /\ swaps = <<>> /\ temp = <<>>
      /\ ~tailLost => disk = seen[depth]
  BY <1>2, <1>3 DEF OldInv, OTyped, OPoint, OnDisk
<1>7. OTyped'
  BY <1>2, <1>3, <1>4, <1>5 DEF OldInv, OTyped, Known, Ways
<1>8. OPoint'
  <2>1. /\ o = "shuffle" => todo' = <<"long", "float", "byte">>
        /\ o = "unshuffle" => todo' = <<"byte", "float", "long">>
    BY <1>2 DEF Order
  <2> QED  BY <1>2, <1>6, <2>1 DEF OPoint, UpLeft, DownLeft, Ways
<1>9. Tracks'
  <2>1. Made(o, disk)' /\ (Running' => o = op')
    BY <1>2, <1>6 DEF Made
  <2>2. ~tailLost => Began(disk)'
    BY <1>2, <1>6 DEF Began, Order, Up, Down
  <2> QED  BY <1>2, <1>3, <1>4, <2>1, <2>2 DEF Tracks
<1>10. OnDisk'
  <2>1. ASSUME ~tailLost PROVE Nearly'
    <3>1. SameObjects(disk, disk)
      BY <1>3, Alone
    <3>2. 0 \in 0 .. N /\ MissesAtMost(0, disk, disk)
      BY <1>3, <3>1, NothingMissing
    <3>3. 0 <= element'
      BY <1>2
    <3> QED  BY <1>2, <1>4, <1>6, <2>1, <3>2, <3>3 DEF Nearly
  <2> QED  BY <1>2, <1>3, <1>4, <1>6, <2>1 DEF OldInv, OnDisk
<1> QED  BY <1>7, <1>8, <1>9, <1>10 DEF OldInv

\* What is known of a stage that has not begun.
LEMMA NotBegun ==
    ASSUME OldInv, NEW s \in Stages, Starts(s)
    PROVE  /\ Running /\ todo # <<>> /\ s = Head(todo) /\ swaps = <<>> /\ temp = <<>> /\ op \in Ways
           /\ ~tailLost => Began(arr) /\ SameObjects(seen[depth], arr)
           /\ arr \in Files(Size) /\ disk \in Files(Size)
           /\ NWords(s) = CountOf(s, Size)
           /\ status \notin {"segv", "overflow", "killed"}
<1>1. /\ Running /\ todo # <<>> /\ s = Head(todo) /\ swaps = <<>> /\ temp = <<>> /\ op \in Ways
      /\ arr \in Files(Size) /\ disk \in Files(Size) /\ status \notin {"segv", "overflow", "killed"}
  BY DEF OldInv, OTyped, OPoint, Starts, Running, Ways
<1>2. PICK base \in Files(Size) : base = arr /\ (~tailLost => Began(base))
  BY <1>1 DEF OldInv, Tracks, Made
<1>3. ~tailLost => SameObjects(seen[depth], base)
  BY <1>1, <1>2, BaseAlike DEF OldInv
<1> QED  BY <1>1, <1>2, <1>3 DEF NWords, CountOf

\* What a flush leaves on the disk.
LEMMA Flushed ==
    ASSUME OldInv, Running, Flush, NEW N, N = Size
    PROVE  /\ disk' \in Files(N) /\ \E n \in 0 .. N : disk' \in Files(n)
           /\ mode = "inplace" => disk' = arr
           /\ mode # "inplace" => disk' = disk
<1>1. /\ disk' \in Files(N)
      /\ mode = "inplace" => disk' = arr
      /\ mode # "inplace" => disk' = disk
  BY DEF OldInv, OTyped, Running, Flush
<1>2. N \in 0 .. N
  BY OldSizes DEF OldInv
<1> QED  BY <1>1, <1>2

LEMMA OverflowKeeps == ASSUME OldInv, StackOverflow PROVE OldInv'
<1>1. PICK s \in Stages : Starts(s) /\ op = "unshuffle" /\ NWords(s) - 1 > stack
  BY DEF StackOverflow
<1>2. /\ op' = "dead" /\ status' = "overflow" /\ Flush
      /\ UNCHANGED <<arr, mode, stack, element, todo, swaps, temp, gens, depth, seen, tailLost>>
  BY DEF StackOverflow, stage, history
<1>3. /\ Running /\ todo # <<>> /\ s = Head(todo) /\ swaps = <<>> /\ temp = <<>>
      /\ ~tailLost => Began(arr)
      /\ arr \in Files(Size) /\ NWords(s) = CountOf(s, Size)
  BY <1>1, NotBegun
<1>4. Size' = Size
  BY <1>2 DEF Size
<1>5. /\ disk' \in Files(Size) /\ \E n \in 0 .. Size : disk' \in Files(n)
      /\ mode = "inplace" => disk' = arr
      /\ mode # "inplace" => disk' = disk
  BY <1>2, <1>3, Flushed
<1>6. todo = <<"byte", "float", "long">>
  <2> SUFFICES ASSUME todo # <<"byte", "float", "long">> PROVE FALSE
    OBVIOUS
  <2>1. Size \in Nat /\ stack \in Nat
    BY OldSizes, OldAssumption DEF OldInv, OTyped
  <2>2. CountOf("byte", Size) - 1 <= stack
    BY <1>1 DEF OldInv, OPoint, Roomy
  <2>3. CountOf(s, Size) - 1 > stack
    BY <1>1, <1>3
  <2>4. CountOf(s, Size) <= CountOf("byte", Size)
    BY <2>1, BytesMost
  <2>5. CountOf(s, Size) \in Nat /\ CountOf("byte", Size) \in Nat
    BY OldSizes, StageNames DEF OldInv
  <2> QED  BY <2>1, <2>2, <2>3, <2>4, <2>5
<1>7. ~tailLost => disk' = seen[depth]
  <2> SUFFICES ASSUME ~tailLost PROVE disk' = seen[depth]
    OBVIOUS
  <2>1. arr = seen[depth]
    BY <1>1, <1>3, <1>6 DEF Began, Down
  <2>2. mode # "inplace" => disk = seen[depth]
    BY <1>3 DEF OldInv, OnDisk
  <2> QED  BY <1>5, <2>1, <2>2
<1>8. OTyped'
  BY <1>2, <1>4, <1>5 DEF OldInv, OTyped
<1>9. OPoint'
  BY <1>2, <1>3 DEF OldInv, OPoint
<1>10. Tracks'
  <2>1. Made("shuffle", arr)' /\ Began(arr)' /\ ~Running'
    BY <1>2, <1>3 DEF Made, Began, Running
  <2>2. "shuffle" \in Ways
    BY DEF Ways
  <2> QED  BY <1>2, <1>3, <1>4, <2>1, <2>2 DEF Tracks
<1>11. OnDisk'
  BY <1>2, <1>4, <1>7 DEF OldInv, OnDisk, Running
<1> QED  BY <1>8, <1>9, <1>10, <1>11 DEF OldInv

LEMMA NaNKeeps == ASSUME OldInv, NaNCrash PROVE OldInv'
<1>1. /\ Starts("float")
      /\ op' = "dead" /\ status' = "segv" /\ element' = Width["float"] /\ Flush
      /\ UNCHANGED <<arr, mode, stack, todo, swaps, temp, gens, depth, seen, tailLost>>
  BY DEF NaNCrash, history
<1>2. /\ Running /\ todo # <<>> /\ swaps = <<>> /\ temp = <<>>
      /\ ~tailLost => SameObjects(seen[depth], arr)
      /\ arr \in Files(Size) /\ disk \in Files(Size)
  BY <1>1, NotBegun, StageNames
<1>3. Size' = Size
  BY <1>1 DEF Size
<1>4. /\ disk' \in Files(Size) /\ \E n \in 0 .. Size : disk' \in Files(n)
      /\ mode = "inplace" => disk' = arr
      /\ mode # "inplace" => disk' = disk
  BY <1>1, <1>2, Flushed
<1>5. ~tailLost => SameObjects(seen[depth], disk')
  <2>1. SameObjects(seen[depth], seen[depth])
    BY OldSizes, Alone DEF OldInv
  <2>2. ~tailLost /\ mode # "inplace" => disk = seen[depth]
    BY <1>2 DEF OldInv, OnDisk
  <2> QED  BY <1>2, <1>4, <2>1, <2>2
<1>6. element' \in Range(Width)
  BY <1>1, StageNames, OldAssumption DEF Range
<1>7. OTyped'
  BY <1>1, <1>3, <1>4, <1>6 DEF OldInv, OTyped
<1>8. OPoint'
  BY <1>1, <1>2 DEF OldInv, OPoint
<1>9. Tracks'
  <2>1. Made("shuffle", arr)' /\ Began(arr)' /\ ~Running'
    BY <1>1, <1>2 DEF Made, Began, Running
  <2>2. "shuffle" \in Ways
    BY DEF Ways
  <2> QED  BY <1>1, <1>2, <1>3, <2>1, <2>2 DEF Tracks
<1>10. OnDisk'
  BY <1>1, <1>3, <1>5 DEF OldInv, OnDisk, Running
<1> QED  BY <1>7, <1>8, <1>9, <1>10 DEF OldInv

\* A stage takes its seed and its draws, and flushes what there was.
LEMMA StageKeeps == ASSUME OldInv, NEW s \in Stages, Stage(s) PROVE OldInv'
<1>1. /\ Starts(s) /\ Fits(s) /\ element' = Width[s]
      /\ UNCHANGED <<arr, mode, op, stack, temp, status, depth, seen, tailLost>>
      /\ NWords(s) <= 1 => swaps' = <<>> /\ todo' = Tail(todo) /\ gens' = gens
      /\ ~(NWords(s) <= 1) =>
            /\ todo' = todo
            /\ \E seed \in MinMax(Keys(s)) : \E draw \in DrawsOf(s, seed) :
                 /\ swaps' = Swaps(NWords(s), draw)
                 /\ gens' = [g \in DOMAIN gens \cup {<<s, seed>>} |->
                                IF g = <<s, seed>> THEN draw ELSE gens[g]]
      /\ NWords(s) > 0 => Flush
      /\ ~(NWords(s) > 0) => disk' = disk
  BY DEF Stage, process, history
<1>2. /\ Running /\ todo # <<>> /\ s = Head(todo) /\ swaps = <<>> /\ temp = <<>> /\ op \in Ways
      /\ ~tailLost => Began(arr) /\ SameObjects(seen[depth], arr)
      /\ arr \in Files(Size) /\ disk \in Files(Size)
      /\ NWords(s) = CountOf(s, Size)
      /\ status \notin {"segv", "overflow", "killed"}
  BY <1>1, NotBegun
<1> DEFINE n == CountOf(s, Size)
<1>3. PICK N \in Lengths : N = Size /\ Size' = N /\ N \in Nat /\ n \in Nat /\ Width[s] \in Nat \ {0}
                           /\ n = CountOf(s, N) /\ arr \in Files(N)
  <2>1. Size' = Size
    BY <1>1 DEF Size
  <2>2. PICK N \in Lengths : N = Size
    BY OldSizes DEF OldInv
  <2>3. N \in Nat /\ n \in Nat /\ Width[s] \in Nat \ {0}
    BY <2>2, OldSizes DEF OldInv
  <2> QED  BY <1>2, <2>1, <2>2, <2>3
<1> HIDE DEF n
<1>4. /\ disk' \in Files(N) /\ \E l \in 0 .. N : disk' \in Files(l)
      /\ mode # "inplace" => disk' = disk
      /\ mode = "inplace" /\ n > 0 => disk' = arr
  <2>1. CASE n > 0
    <3>1. Flush
      BY <1>1, <1>2, <2>1 DEF n
    <3> QED  BY <1>2, <1>3, <3>1, Flushed
  <2>2. CASE n = 0
    <3>1. disk' = disk /\ N \in 0 .. N /\ ~(n > 0)
      BY <1>1, <1>2, <1>3, <2>2 DEF n
    <3> QED  BY <1>2, <1>3, <3>1
  <2> QED  BY <1>3, <2>1, <2>2
<1>5. /\ Known(gens') /\ Extends(gens', gens)
      /\ n <= 1 => swaps' = <<>> /\ todo' = Tail(todo)
      /\ n > 1 => todo' = todo /\ swaps' # <<>> /\ UnderWay(N, gens', op, s, arr, arr, swaps', <<>>)
  <2>1. CASE n <= 1
    <3>1. swaps' = <<>> /\ todo' = Tail(todo) /\ gens' = gens
      BY <1>1, <1>2, <2>1 DEF n
    <3>2. ~(n > 1)
      BY <1>3, <2>1
    <3> QED  BY <3>1, <3>2 DEF OldInv, OTyped, Known, Extends
  <2>2. CASE n > 1
    <3>0. ~(n <= 1)
      BY <1>3, <2>2
    <3>p. PICK seed \in MinMax(Keys(s)) : \E draw \in DrawsOf(s, seed) :
             /\ swaps' = Swaps(NWords(s), draw)
             /\ gens' = [g \in DOMAIN gens \cup {<<s, seed>>} |->
                            IF g = <<s, seed>> THEN draw ELSE gens[g]]
      BY <1>1, <1>2, <3>0 DEF n
    <3>1. PICK draw \in DrawsOf(s, seed) :
             /\ swaps' = Swaps(NWords(s), draw)
             /\ gens' = [g \in DOMAIN gens \cup {<<s, seed>>} |->
                            IF g = <<s, seed>> THEN draw ELSE gens[g]]
      BY <3>p
    <3>2. todo' = todo
      BY <1>1, <1>2, <3>0 DEF n
    <3>3. draw \in Draws[s] /\ (<<s, seed>> \in DOMAIN gens => draw = gens[<<s, seed>>])
      BY <3>1 DEF DrawsOf, OldInv, OTyped, Known
    <3>4. /\ DOMAIN gens' = DOMAIN gens \cup {<<s, seed>>} /\ gens'[<<s, seed>>] = draw
          /\ \A g \in DOMAIN gens : g # <<s, seed>> => gens'[g] = gens[g]
      BY <3>1
    <3>5. Extends(gens', gens)
      BY <3>3, <3>4 DEF Extends
    <3>6. Known(gens')
      BY <3>3, <3>4 DEF Known, OldInv, OTyped
    <3>7. seed \in SeedsIn(s, arr)
      BY <3>1 DEF Keys, SeedsIn, WordsOf
    <3>8. swaps' = AllSwaps(op, n, draw)
      BY <1>2, <3>1 DEF Swaps, AllSwaps, n
    <3>a. PICK G : G = gens'
      OBVIOUS
    <3>b. PICK sw : sw = swaps'
      OBVIOUS
    <3>c. PICK o \in Ways, f \in Files(N) : o = op /\ f = arr
      BY <1>2, <1>3
    <3>9. G = gens' /\ sw = swaps' /\ o = op /\ f = arr
      BY <3>a, <3>b, <3>c
    <3>10. /\ <<s, seed>> \in DOMAIN G /\ draw = G[<<s, seed>>] /\ seed \in SeedsIn(s, f)
           /\ sw = AllSwaps(o, n, draw) /\ CountOf(s, N) > 1
      BY <1>3, <2>2, <3>4, <3>7, <3>8, <3>9
    <3>11. UnderWay(N, G, o, s, f, f, sw, <<>>) /\ sw # <<>>
      BY <1>3, <3>3, <3>10, SwapsBegin
    <3> QED  BY <3>0, <3>2, <3>5, <3>6, <3>9, <3>11
  <2> QED  BY <1>3, <2>1, <2>2
<1>6. OTyped'
  <2>1. element' \in Range(Width)
    BY <1>1, OldAssumption DEF Range
  <2> QED  BY <1>1, <1>2, <1>3, <1>4, <1>5, <2>1 DEF OldInv, OTyped
<1>7. OPoint'
  <2>1. n <= 1 \/ n > 1
    BY <1>3
  <2>2. /\ op = "shuffle" => todo' \in UpLeft
        /\ op = "unshuffle" => todo' \in DownLeft
        /\ todo' \in UpLeft \cup DownLeft
    BY <1>2, <1>5, <2>1, Lists DEF OldInv, OPoint, Ways
  <2>3. op = "unshuffle" => Roomy'
    <3>1. op = "unshuffle" => Roomy
      <4>1. CASE todo = <<"byte", "float", "long">>
        <5>1. s = "byte"
          BY <1>2, <4>1
        <5> QED  BY <1>1, <1>2, <5>1 DEF Fits, Roomy
      <4>2. CASE todo # <<"byte", "float", "long">>
        BY <4>2 DEF OldInv, OPoint
      <4> QED  BY <4>1, <4>2
    <3> QED  BY <1>1, <1>3, <3>1 DEF Roomy
  <2>4. swaps' # <<>> => todo' # <<>> /\ element' = Width[Head(todo')]
    BY <1>1, <1>2, <1>5, <2>1
  <2> QED  BY <1>1, <1>2, <2>2, <2>3, <2>4 DEF OldInv, OPoint, Ways
<1>8. Tracks'
  <2>1. ASSUME ~tailLost PROVE Began(arr)'
    <3>a. PICK G : G = gens
      OBVIOUS
    <3>b. PICK H : H = gens'
      OBVIOUS
    <3>c. PICK x : x = seen[depth]
      OBVIOUS
    <3>d. PICK f \in Files(N), left \in UpLeft \cup DownLeft : f = arr /\ left = todo
      BY <1>3 DEF OldInv, OPoint
    <3>1. /\ G = gens /\ H = gens' /\ x = seen[depth] /\ f = arr /\ left = todo
          /\ (n <= 1 \/ n > 1)
      BY <1>3, <3>a, <3>b, <3>c, <3>d
    <3>2. Extends(H, G)
      BY <1>5, <3>1
    <3>3. CASE op = "shuffle"
      <4>1. Up(G, N, x, left, f) /\ left \in UpLeft
        BY <1>2, <1>3, <2>1, <3>1, <3>3 DEF Began, OldInv, OPoint
      <4>2. Up(H, N, x, left, f)
        BY <3>2, <4>1, UpStays
      <4>3. ASSUME n <= 1 PROVE Up(H, N, x, Tail(left), f)
        <5>1. Went(H, N, Head(left), f, f)
          BY <1>2, <1>3, <3>1, <4>3 DEF Went
        <5> QED  BY <1>2, <3>1, <4>1, <4>2, <5>1, UpStep
      <4>4. Up(gens', N, seen[depth], todo', arr)
        BY <1>3, <1>5, <3>1, <4>2, <4>3
      <4> QED  BY <1>1, <1>3, <3>3, <4>4 DEF Began
    <3>4. CASE op = "unshuffle"
      <4>1. Down(G, N, x, left, f) /\ left \in DownLeft
        BY <1>2, <1>3, <2>1, <3>1, <3>4 DEF Began, OldInv, OPoint
      <4>2. Down(H, N, x, left, f)
        BY <3>2, <4>1, DownStays
      <4>3. ASSUME n <= 1 PROVE Down(H, N, x, Tail(left), f)
        <5>1. Went(H, N, Head(left), f, f)
          BY <1>2, <1>3, <3>1, <4>3 DEF Went
        <5> QED  BY <1>2, <3>1, <4>1, <4>2, <5>1, DownStep
      <4>4. Down(gens', N, seen[depth], todo', arr)
        BY <1>3, <1>5, <3>1, <4>2, <4>3
      <4> QED  BY <1>1, <1>3, <3>4, <4>4 DEF Began
    <3> QED  BY <1>2, <3>3, <3>4 DEF Ways
  <2>2. Made(op, arr)'
    BY <1>1, <1>2, <1>3, <1>5 DEF Made
  <2> QED  BY <1>1, <1>2, <1>3, <2>1, <2>2 DEF Tracks
<1>9. OnDisk'
  <2> SUFFICES ASSUME ~tailLost PROVE OnDisk'
    BY <1>1 DEF OnDisk
  <2>1. \A e \in DOMAIN seen : e + 1 \in DOMAIN seen => Edge(gens', N, seen[e], seen[e+1])
    BY <1>3, <1>5, EdgeStays DEF OldInv, OnDisk
  <2>2. mode # "inplace" => disk' = seen[depth]
    BY <1>2, <1>4 DEF OldInv, OnDisk
  <2>3. ASSUME mode = "inplace" PROVE Nearly'
    <3>1. CASE n > 0
      <4>1. 0 \in 0 .. N /\ MissesAtMost(0, seen[depth], arr)
        BY <1>2, <1>3, NothingMissing, OldSizes DEF OldInv
      <4>2. disk' = arr /\ 0 <= element'
        BY <1>1, <1>3, <1>4, <2>3, <3>1
      <4> QED  BY <1>1, <1>3, <4>1, <4>2 DEF Nearly
    <3>2. CASE n = 0
      <4>1. PICK m \in 0 .. N : m <= element /\ MissesAtMost(m, seen[depth], disk)
        BY <1>2, <1>3, <2>3 DEF OldInv, OnDisk, Nearly
      <4>2. disk' = disk
        BY <1>1, <1>2, <1>3, <3>2 DEF n
      <4>3. N < Width[s]
        <5>1. N \div Width[s] = 0
          BY <1>3, <3>2 DEF CountOf, WordCount
        <5>2. N = (N \div Width[s]) * Width[s] + (N % Width[s]) /\ N % Width[s] \in 0 .. Width[s] - 1
          BY <1>3, Split
        <5> QED  BY <1>3, <5>1, <5>2
      <4>4. m <= element'
        BY <1>1, <1>3, <4>3
      <4> QED  BY <1>1, <1>3, <4>1, <4>2, <4>4 DEF Nearly
    <3> QED  BY <1>3, <3>1, <3>2
  <2> QED  BY <1>1, <1>2, <1>3, <2>1, <2>2, <2>3 DEF OnDisk, Running, Ways
<1> QED  BY <1>6, <1>7, <1>8, <1>9 DEF OldInv

\* What is known of a stage with swaps left.
LEMMA Swapping ==
    ASSUME OldInv, Running, swaps # <<>>
    PROVE  /\ op \in Ways /\ todo # <<>> /\ Head(todo) \in Stages /\ element = Width[Head(todo)]
           /\ todo \in UpLeft \cup DownLeft
           /\ \E base \in Files(Size) :
                 /\ UnderWay(Size, gens, op, Head(todo), base, arr, swaps, temp)
                 /\ ~tailLost => Began(base) /\ SameObjects(seen[depth], base)
           /\ status \notin {"segv", "overflow", "killed"}
<1>1. /\ op \in Ways /\ todo # <<>> /\ element = Width[Head(todo)] /\ todo \in UpLeft \cup DownLeft
      /\ status \notin {"segv", "overflow", "killed"}
  BY DEF OldInv, OPoint, Running, Ways
<1>2. Head(todo) \in Stages
  BY <1>1, Lists
<1>3. PICK base \in Files(Size) :
         /\ UnderWay(Size, gens, op, Head(todo), base, arr, swaps, temp)
         /\ ~tailLost => Began(base)
  BY DEF OldInv, Tracks, Made
<1>4. ~tailLost => SameObjects(seen[depth], base)
  BY <1>3, BaseAlike DEF OldInv
<1> QED  BY <1>1, <1>2, <1>3, <1>4

LEMMA FirstKeeps == ASSUME OldInv, SwapFirst PROVE OldInv'
<1>1. /\ Running /\ swaps # <<>> /\ temp = <<>>
      /\ ArSet(Head(swaps)[1], Reinterpret(arr, element)[Head(swaps)[2]])
      /\ temp' = Reinterpret(arr, element)[Head(swaps)[1]]
      /\ UNCHANGED <<mode, op, stack, element, todo, swaps, gens, status, depth, seen, tailLost>>
  BY DEF SwapFirst, process, history
<1>2. PICK s \in Stages, o \in Ways, N \in Lengths :
         /\ s = Head(todo) /\ o = op /\ N = Size /\ element = Width[s] /\ todo # <<>>
         /\ status \notin {"segv", "overflow", "killed"}
  BY <1>1, Swapping, OldSizes DEF OldInv
<1>3. PICK base \in Files(N) :
         /\ UnderWay(N, gens, o, s, base, arr, swaps, <<>>)
         /\ ~tailLost => Began(base) /\ SameObjects(seen[depth], base)
  BY <1>1, <1>2, Swapping
<1>4. PICK words, i, j : words = Reinterpret(arr, element) /\ i = Head(swaps)[1] /\ j = Head(swaps)[2]
  OBVIOUS
<1>5. /\ arr' = WithWords(arr, Width[s],
                   [k \in 0 .. CountOf(s, N) - 1 |-> IF k = i THEN words[j] ELSE words[k]])
      /\ Flush /\ temp' = words[i]
  BY <1>1, <1>2, <1>4 DEF ArSet, CountOf
<1>6. /\ arr \in Files(N) /\ SameObjects(base, arr)
      /\ arr' \in Files(N) /\ temp' # <<>>
      /\ UnderWay(N, gens, o, s, base, arr', swaps, temp')
  <2>1. PICK G, a, sw, b :
           /\ G = gens /\ a = arr /\ sw = swaps
           /\ b = WithWords(a, Width[s], [k \in 0 .. CountOf(s, N) - 1 |-> IF k = i THEN words[j] ELSE words[k]])
    OBVIOUS
  <2>2. /\ UnderWay(N, G, o, s, base, a, sw, <<>>) /\ words = Reinterpret(a, Width[s])
        /\ i = Head(sw)[1] /\ j = Head(sw)[2]
    BY <1>2, <1>3, <1>4, <2>1
  <2>3. /\ a \in Files(N) /\ SameObjects(base, a) /\ b \in Files(N) /\ words[i] # <<>>
        /\ UnderWay(N, G, o, s, base, b, sw, words[i])
    BY <2>1, <2>2, FirstStore
  <2> QED  BY <1>5, <2>1, <2>3
<1>7. Size' = N
  <2>1. Cardinality(DOMAIN arr') = N
    BY <1>6, FilesAre
  <2> QED  BY <2>1 DEF Size
<1>8. /\ disk' \in Files(N) /\ \E n \in 0 .. N : disk' \in Files(n)
      /\ mode = "inplace" => disk' = arr
      /\ mode # "inplace" => disk' = disk
  BY <1>1, <1>2, <1>5, Flushed
<1>9. OTyped'
  BY <1>1, <1>2, <1>6, <1>7, <1>8 DEF OldInv, OTyped
<1>10. OPoint'
  BY <1>1, <1>2, <1>7 DEF OldInv, OPoint, Roomy, Ways
<1>11. Tracks'
  <2>1. Made(o, base)'
    BY <1>1, <1>2, <1>6, <1>7 DEF Made
  <2>2. ~tailLost => Began(base)'
    BY <1>1, <1>2, <1>3, <1>7 DEF Began
  <2> QED  BY <1>1, <1>2, <1>7, <2>1, <2>2 DEF Tracks
<1>12. OnDisk'
  <2> SUFFICES ASSUME ~tailLost PROVE OnDisk'
    BY <1>1 DEF OnDisk
  <2>1. ASSUME mode = "inplace" PROVE Nearly'
    <3>1. PICK x \in Files(N) : x = seen[depth]
      BY <1>2, OldSizes DEF OldInv
    <3>2. SameObjects(x, arr)
      BY <1>3, <1>6, <3>1, Chain
    <3>3. 0 \in 0 .. N /\ MissesAtMost(0, x, arr)
      BY <1>6, <3>2, NothingMissing
    <3>4. 0 <= element
      BY <1>2, OldAssumption
    <3> QED  BY <1>1, <1>7, <1>8, <2>1, <3>1, <3>3, <3>4 DEF Nearly
  <2> QED  BY <1>1, <1>2, <1>7, <1>8, <2>1 DEF OldInv, OnDisk, Running, Ways
<1> QED  BY <1>9, <1>10, <1>11, <1>12 DEF OldInv

LEMMA SecondKeeps == ASSUME OldInv, SwapSecond PROVE OldInv'
<1>1. /\ Running /\ swaps # <<>> /\ temp # <<>> /\ ArSet(Head(swaps)[2], temp)
      /\ temp' = <<>> /\ swaps' = Tail(swaps)
      /\ Len(swaps) = 1 => todo' = Tail(todo)
      /\ Len(swaps) # 1 => todo' = todo
      /\ UNCHANGED <<mode, op, stack, element, gens, status, depth, seen, tailLost>>
  BY DEF SwapSecond, process, history, OldInv, OPoint
<1>2. PICK s \in Stages, o \in Ways, N \in Lengths :
         /\ s = Head(todo) /\ o = op /\ N = Size /\ element = Width[s] /\ todo # <<>>
         /\ status \notin {"segv", "overflow", "killed"}
  BY <1>1, Swapping, OldSizes DEF OldInv
<1>3. PICK base \in Files(N) :
         /\ UnderWay(N, gens, o, s, base, arr, swaps, temp)
         /\ ~tailLost => Began(base) /\ SameObjects(seen[depth], base)
  BY <1>1, <1>2, Swapping
<1>4. PICK words, j : words = Reinterpret(arr, element) /\ j = Head(swaps)[2]
  OBVIOUS
<1>5. /\ arr' = WithWords(arr, Width[s],
                   [k \in 0 .. CountOf(s, N) - 1 |-> IF k = j THEN temp ELSE words[k]])
      /\ Flush
  BY <1>1, <1>2, <1>4 DEF ArSet, CountOf
<1>6. /\ arr \in Files(N) /\ arr' \in Files(N) /\ MissesAtMost(Width[s], base, arr) /\ Width[s] <= N
      /\ Len(swaps) # 1 => swaps' # <<>> /\ UnderWay(N, gens, o, s, base, arr', swaps', <<>>)
      /\ Len(swaps) = 1 => /\ swaps' = <<>>
                           /\ o = "shuffle" => Went(gens, N, s, base, arr')
                           /\ o = "unshuffle" => Went(gens, N, s, arr', base)
  <2>1. PICK G, a, sw, tmp, b :
           /\ G = gens /\ a = arr /\ sw = swaps /\ tmp = temp
           /\ b = WithWords(a, Width[s], [k \in 0 .. CountOf(s, N) - 1 |-> IF k = j THEN tmp ELSE words[k]])
    OBVIOUS
  <2>2. /\ UnderWay(N, G, o, s, base, a, sw, tmp) /\ words = Reinterpret(a, Width[s])
        /\ tmp # <<>> /\ j = Head(sw)[2]
    BY <1>1, <1>2, <1>3, <1>4, <2>1
  <2>3. Stored(N, G, o, s, base, a, sw, b)
    BY <2>1, <2>2, SecondStore
  <2>4. Width[s] <= N
    BY <2>2, UnderWayTyped
  <2> QED  BY <1>1, <1>5, <2>1, <2>3, <2>4 DEF Stored
<1>7. Size' = N
  <2>1. Cardinality(DOMAIN arr') = N
    BY <1>6, FilesAre
  <2> QED  BY <2>1 DEF Size
<1>8. /\ disk' \in Files(N) /\ \E n \in 0 .. N : disk' \in Files(n)
      /\ mode = "inplace" => disk' = arr
      /\ mode # "inplace" => disk' = disk
  BY <1>1, <1>2, <1>5, Flushed
<1>9. OTyped'
  BY <1>1, <1>2, <1>6, <1>7, <1>8 DEF OldInv, OTyped
<1>10. OPoint'
  <2>1. /\ op = "shuffle" => todo' \in UpLeft
        /\ op = "unshuffle" => todo' \in DownLeft
        /\ todo' \in UpLeft \cup DownLeft
    BY <1>1, <1>2, Lists DEF OldInv, OPoint, Ways
  <2>2. op = "unshuffle" => Roomy'
    BY <1>1, <1>2, <1>7 DEF OldInv, OPoint, Roomy
  <2>3. swaps' # <<>> => todo' = todo
    BY <1>1, <1>6
  <2> QED  BY <1>1, <1>2, <2>1, <2>2, <2>3 DEF OldInv, OPoint, Ways
<1>11. Tracks'
  <2>1. CASE Len(swaps) # 1
    <3>1. Made(o, base)'
      BY <1>1, <1>2, <1>6, <1>7, <2>1 DEF Made
    <3>2. ~tailLost => Began(base)'
      BY <1>1, <1>2, <1>3, <1>7, <2>1 DEF Began
    <3> QED  BY <1>1, <1>2, <1>7, <3>1, <3>2 DEF Tracks
  <2>2. CASE Len(swaps) = 1
    <3>1. PICK f \in Files(N) : f = arr'
      BY <1>6
    <3>2. Made(o, f)'
      BY <1>6, <2>2, <3>1 DEF Made
    <3>3. ASSUME ~tailLost PROVE Began(f)'
      <4>a. PICK G : G = gens
        OBVIOUS
      <4>b. PICK x : x = seen[depth]
        OBVIOUS
      <4>c. PICK left \in UpLeft \cup DownLeft : left = todo
        BY DEF OldInv, OPoint
      <4>1. todo' = Tail(left) /\ left # <<>> /\ s = Head(left)
        BY <1>1, <1>2, <2>2, <4>c
      <4>2. CASE o = "shuffle"
        <5>1. Up(G, N, x, left, base) /\ left \in UpLeft /\ Went(G, N, Head(left), base, f)
          BY <1>2, <1>3, <1>6, <2>2, <3>1, <3>3, <4>a, <4>b, <4>c, <4>1, <4>2 DEF Began, OldInv, OPoint
        <5>2. Up(G, N, x, Tail(left), f)
          BY <4>1, <5>1, UpStep
        <5> QED  BY <1>1, <1>2, <1>7, <4>a, <4>b, <4>1, <4>2, <5>2 DEF Began
      <4>3. CASE o = "unshuffle"
        <5>1. Down(G, N, x, left, base) /\ left \in DownLeft /\ Went(G, N, Head(left), f, base)
          BY <1>2, <1>3, <1>6, <2>2, <3>1, <3>3, <4>a, <4>b, <4>c, <4>1, <4>3 DEF Began, OldInv, OPoint
        <5>2. Down(G, N, x, Tail(left), f)
          BY <4>1, <5>1, DownStep
        <5> QED  BY <1>1, <1>2, <1>7, <4>a, <4>b, <4>1, <4>3, <5>2 DEF Began
      <4> QED  BY <4>2, <4>3 DEF Ways
    <3> QED  BY <1>1, <1>2, <1>7, <3>1, <3>2, <3>3 DEF Tracks
  <2> QED  BY <2>1, <2>2
<1>12. OnDisk'
  <2> SUFFICES ASSUME ~tailLost PROVE OnDisk'
    BY <1>1 DEF OnDisk
  <2>1. ASSUME mode = "inplace" PROVE Nearly'
    <3>1. PICK x \in Files(N), m \in 0 .. N : x = seen[depth] /\ m = Width[s]
      <4>1. N \in Nat /\ Width[s] \in Nat
        BY OldAssumption
      <4>2. Width[s] \in 0 .. N
        BY <1>6, <4>1
      <4> QED  BY <1>2, <4>2, OldSizes DEF OldInv
    <3>2. SameObjects(x, base) /\ m \in Nat /\ N \in Nat /\ MissesAtMost(m, base, arr)
      BY <1>3, <1>6, <3>1, OldAssumption
    <3>3. MissesAtMost(m, x, arr)
      BY <3>2, MissesOf DEF Files
    <3>4. m <= element
      BY <1>2, <3>1, <3>2
    <3> QED  BY <1>1, <1>7, <1>8, <2>1, <3>1, <3>3, <3>4 DEF Nearly
  <2> QED  BY <1>1, <1>2, <1>7, <1>8, <2>1 DEF OldInv, OnDisk, Running, Ways
<1> QED  BY <1>9, <1>10, <1>11, <1>12 DEF OldInv

\* What is known at the end of a run.
LEMMA AtEnd ==
    ASSUME OldInv, Done
    PROVE  /\ swaps = <<>> /\ temp = <<>> /\ status \notin {"segv", "overflow", "killed"}
           /\ ~tailLost => /\ op = "shuffle" => Edge(gens, Size, seen[depth], arr)
                           /\ op = "unshuffle" => Edge(gens, Size, arr, seen[depth])
<1>1. Running /\ todo = <<>> /\ swaps = <<>> /\ temp = <<>> /\ status \notin {"segv", "overflow", "killed"}
  BY DEF OldInv, OPoint, Done, Running
<1>2. ~tailLost => Began(arr)
  BY <1>1 DEF OldInv, Tracks, Made
<1> QED  BY <1>1, <1>2 DEF Began, Up, Down

LEMMA KillKeeps == ASSUME OldInv, Kill PROVE OldInv'
<1>1. /\ Running /\ op' = "dead" /\ status' = "killed"
      /\ UNCHANGED <<arr, mode, stack, element, todo, swaps, temp, gens, depth, seen, tailLost>>
  BY DEF Kill, stage, history
<1>2. PICK N \in Lengths : N = Size /\ Size' = N /\ arr \in Files(N) /\ disk \in Files(N) /\ N \in Nat
                           /\ DOMAIN arr = 0 .. N-1
  <2>1. Size' = Size
    BY <1>1 DEF Size
  <2> QED  BY <1>1, <2>1, OldSizes DEF OldInv, OTyped, Running
<1>3. (\E n \in 0 .. N : disk' \in Files(n)) /\ (mode = "inplace" => disk' = disk)
  <2>1. CASE disk' = disk
    <3>1. N \in 0 .. N
      BY <1>2
    <3> QED  BY <1>2, <2>1, <3>1
  <2>2. CASE mode = "buffered" /\ \E n \in 0 .. Size : disk' = [x \in 0 .. n-1 |-> Dumped[x]]
    <3>1. PICK n \in 0 .. N : disk' = [x \in 0 .. n-1 |-> Dumped[x]]
      BY <1>2, <2>2
    <3>2. \A x \in 0 .. N-1 : Dumped[x] \in Byte
      BY <1>2, OldAssumption DEF Dumped, Files, SpanOf
    <3>3. \A x \in 0 .. n-1 : x \in 0 .. N-1
      BY <1>2
    <3>4. \A x \in 0 .. n-1 : Dumped[x] \in Byte
      BY <3>2, <3>3
    <3>5. disk' \in Files(n)
      BY <3>1, <3>4 DEF Files, SpanOf
    <3> QED  BY <2>2, <3>5
  <2> QED  BY <2>1, <2>2 DEF Kill
<1>4. OTyped'
  BY <1>1, <1>2, <1>3 DEF OldInv, OTyped
<1>5. OPoint'
  BY <1>1 DEF OldInv, OPoint
<1>6. Tracks'
  <2>1. PICK o \in Ways, base \in Files(N) : Made(o, base)
    BY <1>2 DEF OldInv, Tracks
  <2>2. Made(o, base)' /\ Began(base)' /\ ~Running'
    BY <1>1, <1>2, <2>1 DEF Made, Began, Running
  <2> QED  BY <1>2, <2>1, <2>2 DEF Tracks
<1>7. OnDisk'
  <2>1. status \notin {"segv", "overflow", "killed"}
    BY <1>1 DEF OldInv, OPoint, Running
  <2>2. ~tailLost /\ mode = "inplace" => Nearly'
    BY <1>1, <1>2, <1>3 DEF OldInv, OnDisk, Nearly
  <2> QED  BY <1>1, <1>2, <2>2 DEF OldInv, OnDisk, Running
<1> QED  BY <1>4, <1>5, <1>6, <1>7 DEF OldInv

\* What a run leaves: the file it made, at the depth it came to.
LEMMA EndKeeps ==
    ASSUME OldInv, CloseInPlace \/ WriteOut \/ PrintString
    PROVE  OldInv'
<1>1. Done /\ Running /\ \E f \in {arr, Dumped} : End(f)
  BY DEF CloseInPlace, WriteOut, PrintString, End, Done
<1>2. PICK N \in Lengths : N = Size /\ arr \in Files(N) /\ N \in Nat /\ DOMAIN arr = 0 .. N-1
  BY OldSizes DEF OldInv, OTyped
<1>3. PICK f \in Files(N) : End(f)
  <2>1. \A x \in 0 .. N-1 : Dumped[x] \in Byte
    BY <1>2, OldAssumption DEF Dumped, Files, SpanOf
  <2>2. Dumped \in Files(N)
    BY <1>2, <2>1 DEF Dumped, Files, SpanOf
  <2> QED  BY <1>1, <1>2, <2>2
<1>b. PICK D \in SUBSET Int : D = DOMAIN seen
  BY OldAssumption DEF OldInv, OTyped
<1>c. PICK c \in D : c = depth
  BY <1>b DEF OldInv, OTyped
<1>d. PICK d \in {c - 1, c + 1} : (op = "shuffle" /\ d = c + 1) \/ (op = "unshuffle" /\ d = c - 1)
  BY <1>1 DEF Running
<1>4. /\ D = DOMAIN seen /\ c = depth
      /\ (op = "shuffle" /\ d = c + 1) \/ (op = "unshuffle" /\ d = c - 1)
      /\ \A x, y \in D : x .. y \subseteq D
  BY <1>b, <1>c, <1>d DEF OldInv, OTyped
<1>5. d = IF op = "shuffle" THEN depth + 1 ELSE depth - 1
  BY <1>4
<1>6. /\ depth' = d /\ disk' = f /\ op' = "none" /\ status' = "0" /\ tailLost' = (tailLost \/ f # arr)
      /\ d \in D => seen' = seen
      /\ d \notin D => seen' = [e \in D \cup {d} |-> IF e = d THEN f ELSE seen[e]]
      /\ UNCHANGED <<arr, mode, stack, element, todo, swaps, temp, gens>>
  BY <1>3, <1>4, <1>5 DEF End, stage
<1>7. d \in Depths /\ d \in Int
  BY <1>4 DEF OldInv, OPoint
<1>8. /\ swaps = <<>> /\ temp = <<>>
      /\ ~tailLost => /\ op = "shuffle" => Edge(gens, N, seen[c], arr)
                      /\ op = "unshuffle" => Edge(gens, N, arr, seen[c])
  BY <1>1, <1>2, <1>4, AtEnd
<1>9. Size' = N
  BY <1>2, <1>6 DEF Size
<1>10. /\ D \subseteq DOMAIN seen' /\ DOMAIN seen' = D \cup {d}
       /\ \A e \in D : seen'[e] = seen[e]
       /\ d \notin D => seen'[d] = f
  BY <1>4, <1>6
<1>11. OTyped'
  <2>1. N \in 0 .. N
    BY <1>2
  <2>2. \A x, y \in DOMAIN seen' : x .. y \subseteq DOMAIN seen'
    <3>1. \A x, y \in D \cup {d} : x .. y \subseteq D \cup {d}
      BY <1>4, NextDepth
    <3> QED  BY <1>10, <3>1
  <2>3. \A e \in DOMAIN seen' : seen'[e] \in Files(N)
    <3>1. \A e \in D : seen[e] \in Files(N)
      BY <1>2, <1>4 DEF OldInv, OTyped
    <3> QED  BY <1>10, <3>1
  <2>4. 0 \in DOMAIN seen' /\ depth' \in DOMAIN seen' /\ DOMAIN seen' \subseteq Depths
    BY <1>4, <1>6, <1>7, <1>10 DEF OldInv, OTyped
  <2>5. tailLost' \in BOOLEAN
    BY <1>6
  <2> QED  BY <1>2, <1>6, <1>9, <2>1, <2>2, <2>3, <2>4, <2>5 DEF OldInv, OTyped, Known
<1>12. OPoint'
  BY <1>6, <1>8 DEF OldInv, OPoint
<1>13. Tracks'
  <2>1. Made("shuffle", arr)' /\ Began(arr)' /\ ~Running' /\ "shuffle" \in Ways
    BY <1>6, <1>8 DEF Made, Began, Running, Ways
  <2> QED  BY <1>2, <1>6, <1>9, <2>1 DEF Tracks
<1>14. ASSUME ~tailLost' PROVE OnDisk'
  <2>1. ~tailLost /\ f = arr
    BY <1>6, <1>14
  <2>2. \A e \in D : e + 1 \in D => Edge(gens, N, seen[e], seen[e+1])
    BY <1>2, <1>4, <2>1 DEF OldInv, OnDisk
  <2>3. \A e \in D : seen[e] \in Files(N)
    BY <1>2, <1>4 DEF OldInv, OTyped
  <2>4. (op = "shuffle" => Edge(gens, N, seen[c], f)) /\ (op = "unshuffle" => Edge(gens, N, f, seen[c]))
    BY <1>8, <2>1
  <2>5. seen'[d] = f
    <3>1. CASE d \in D
      <4>1. CASE op = "shuffle"
        <5>1. c + 1 = d /\ Edge(gens, N, seen[c], seen[d])
          BY <1>4, <2>2, <3>1, <4>1
        <5>2. seen[d] = f
          BY <2>3, <2>4, <4>1, <5>1, EdgeOnce
        <5> QED  BY <1>10, <3>1, <5>2
      <4>2. CASE op = "unshuffle"
        <5>1. d + 1 = c
          BY <1>4, <4>2
        <5>2. Edge(gens, N, seen[d], seen[c])
          BY <2>2, <3>1, <5>1
        <5>3. seen[d] = f
          BY <2>3, <2>4, <3>1, <4>2, <5>2, EdgeBack
        <5> QED  BY <1>10, <3>1, <5>3
      <4> QED  BY <1>4, <4>1, <4>2
    <3>2. CASE d \notin D
      BY <1>10, <3>2
    <3> QED  BY <3>1, <3>2
  <2>6. ASSUME NEW e \in D \cup {d}, e + 1 \in D \cup {d}
        PROVE  Edge(gens, N, seen'[e], seen'[e+1])
    <3>1. CASE d \in D
      <4>1. e \in D /\ e + 1 \in D
        BY <2>6, <3>1
      <4> QED  BY <1>10, <2>2, <4>1
    <3>2. CASE d \notin D
      <4>1. (e \in D /\ e + 1 \in D) \/ (e = d /\ d + 1 = c) \/ (e = c /\ c + 1 = d)
        BY <1>4, <2>6, <3>2, NextDepth
      <4>2. CASE e \in D /\ e + 1 \in D
        BY <1>10, <2>2, <4>2
      <4>3. CASE e = d /\ d + 1 = c
        <5>1. op = "unshuffle"
          BY <1>4, <1>7, <4>3
        <5> QED  BY <1>10, <2>4, <2>5, <4>3, <5>1
      <4>4. CASE e = c /\ c + 1 = d
        <5>1. op = "shuffle"
          BY <1>4, <1>7, <4>4
        <5> QED  BY <1>10, <2>4, <2>5, <4>4, <5>1
      <4> QED  BY <4>1, <4>2, <4>3, <4>4
    <3> QED  BY <3>1, <3>2
  <2>7. op' = "none" /\ status' = "0" /\ disk' = seen'[depth']
    BY <1>6, <2>5
  <2> QED  BY <1>6, <1>9, <1>10, <2>6, <2>7 DEF OnDisk, Running
<1>15. OnDisk'
  BY <1>14 DEF OnDisk
<1> QED  BY <1>11, <1>12, <1>13, <1>15 DEF OldInv

LEMMA OldNext == OldInv /\ [Next]_vars => OldInv'
<1> SUFFICES ASSUME OldInv, [Next]_vars PROVE OldInv'
  OBVIOUS
<1>1. CASE OpenInPlace \/ ReadWholeFile \/ StringShuffle
  BY <1>1, BeginKeeps
<1>2. CASE CloseInPlace \/ WriteOut \/ PrintString
  BY <1>2, EndKeeps
<1>3. ASSUME NEW s \in Stages, Stage(s) PROVE OldInv'
  BY <1>3, StageKeeps
<1> QED  BY <1>1, <1>2, <1>3, RefusedKeeps, OverflowKeeps, NaNKeeps, FirstKeeps, SecondKeeps,
            OutfileKeeps, KillKeeps, StutterKeeps DEF Next

\* Between runs and within them, at every store, after crashes and kills too:
\* how the array came from the file, and what of it is on the disk.
THEOREM OldInvariant == Spec => []OldInv
BY InitOld, OldNext, PTL DEF Spec

\* The variables of v1 have their types, and its swaps are within its array
\* (old/src/main.c 33-55, 99-173; array.c 185-208).
THEOREM OldTypeTheorem == Spec => []OldTypeOK
<1>1. ASSUME OldInv PROVE OldTypeOK
  <2>1. PICK N \in Lengths : N = Size /\ N \in Nat /\ arr \in Files(N)
    BY <1>1, OldSizes DEF OldInv, OTyped
  <2>2. disk \in UNION { SpanOf(n, Byte) : n \in 0 .. Size }
    BY <1>1 DEF OldInv, OTyped, Files
  <2>3. arr \in UNION { SpanOf(n, Byte) : n \in Lengths }
    BY <2>1 DEF Files
  <2>4. todo \in Seq(Stages) /\ Len(todo) <= 3
    BY <1>1, Lists DEF OldInv, OPoint
  <2>5. /\ \A k \in DOMAIN swaps : swaps[k] \in (1 .. Size - 1) \X (0 .. Size - 1)
        /\ temp # <<>> => temp \in Words(element) /\ swaps # <<>>
    <3>1. CASE swaps = <<>>
      BY <1>1, <3>1 DEF OldInv, OPoint
    <3>2. CASE swaps # <<>>
      <4>1. Head(todo) \in Stages /\ element = Width[Head(todo)]
        BY <1>1, <3>2, Lists DEF OldInv, OPoint
      <4>2. PICK o \in Ways, base \in Files(Size) :
               UnderWay(Size, gens, o, Head(todo), base, arr, swaps, temp)
        BY <1>1, <3>2 DEF OldInv, Tracks, Made
      <4>3. /\ \A k \in DOMAIN swaps : swaps[k] \in (1 .. N-1) \X (0 .. N-1)
            /\ temp # <<>> => temp \in StageWord(Head(todo))
        BY <2>1, <4>1, <4>2, UnderWayTyped
      <4> QED  BY <2>1, <3>2, <4>1, <4>3 DEF StageWord, Word, Words
    <3> QED  BY <3>1, <3>2
  <2> QED  BY <1>1, <2>2, <2>3, <2>4, <2>5 DEF OldInv, OTyped, Known, OldTypeOK
<1> QED  BY <1>1, OldInvariant, PTL

\* v1 undoes itself, whatever the runs and their modes, of every file, as its
\* usage has it: until a buffered run has cut off a tail, the file of a depth is
\* the one this depth had before (old/src/main.c 99-183, 341-372).
THEOREM OldRoundTripTheorem == Spec => []OldRoundTrip
<1>1. ASSUME OldInv PROVE OldRoundTrip
  BY <1>1 DEF OldInv, OnDisk, OldRoundTrip, OldReverses
<1> QED  BY <1>1, OldInvariant, PTL

\* A run that dies of a NaN has lost no byte, and one whose rng_values overflow
\* its stack has touched none (old/src/main.c 46, 99-173; rng.c 46-50).
THEOREM CrashTheorem == Spec => []CrashKeepsBytes
<1>1. ASSUME OldInv PROVE CrashKeepsBytes
  <2> SUFFICES ASSUME ~tailLost, status = "segv" PROVE SameCounts(seen[depth], disk)
    BY <1>1 DEF OldInv, OnDisk, CrashKeepsBytes
  <2>1. SameObjects(seen[depth], disk)
    BY <1>1 DEF OldInv, OnDisk
  <2>2. PICK N \in Lengths : N = Size /\ N \in Nat /\ seen[depth] \in Files(N)
    BY <1>1, OldSizes DEF OldInv
  <2>3. seen[depth] \in SpanOf(N, Byte) /\ disk \in SpanOf(N, Byte)
    BY <1>1, <2>2 DEF OldInv, OTyped, Files
  <2> QED  BY <2>1, <2>2, <2>3, SameObjectsCounts
<1> QED  BY <1>1, OldInvariant, PTL

\* A run in place that is killed at any store has lost at most a word of the
\* width of its stage: what stdio has not written yet, with what it has, is the
\* array before a store or after it (old/src/main.c 99-173, array.c 95-131, 193-200).
THEOREM KillTheorem == Spec => []KilledLosesAWord
<1>1. ASSUME OldInv PROVE KilledLosesAWord
  <2> SUFFICES ASSUME ~tailLost, status = "killed", mode = "inplace"
               PROVE  MissesAtMost(element, seen[depth], disk)
    BY DEF KilledLosesAWord
  <2>1. PICK m \in 0 .. Size : m <= element /\ MissesAtMost(m, seen[depth], disk)
    BY <1>1 DEF OldInv, OnDisk, Nearly
  <2>2. PICK N \in Lengths : N = Size /\ N \in Nat /\ seen[depth] \in Files(N)
    BY <1>1, OldSizes DEF OldInv
  <2>3. m \in Nat /\ seen[depth] \in SpanOf(N, Byte)
    BY <2>2 DEF Files
  <2>4. element \in Nat
    <3>1. Range(Width) \subseteq Nat
      BY OldAssumption DEF Range
    <3> QED  BY <1>1, <3>1 DEF OldInv, OTyped
  <2> QED  BY <2>1, <2>2, <2>3, <2>4, MissesMore
<1> QED  BY <1>1, OldInvariant, PTL

=============================================================================
