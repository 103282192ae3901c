----------------------------- MODULE WorkProofs -----------------------------
(***************************************************************************)
(* Theorems about Work: for every file length, every three widths of which  *)
(* the long one is so many of the float one, every order and filter of the  *)
(* floats, every generator in bounds and any number of runs, the program    *)
(* undoes itself and loses no byte.                                         *)
(***************************************************************************)
EXTENDS Work, SpanTheorems

-----------------------------------------------------------------------------
(* What a whole loop of shuffle or of unshuffle does.                       *)

\* What the loops make of n words.
LEMMA LoopsUndo ==
    ASSUME NEW n \in Nat \ {0}, NEW W, NEW draw, InBounds(draw, n), NEW v \in SpanOf(n, W)
    PROVE  /\ ShuffleFrom(v, n, draw)[0] \in SpanOf(n, W)
           /\ UnshuffleFrom(v, n, draw)[n-1] \in SpanOf(n, W)
           /\ SameObjects(v, ShuffleFrom(v, n, draw)[0])
           /\ SameObjects(v, UnshuffleFrom(v, n, draw)[n-1])
           /\ UnshuffleFrom(ShuffleFrom(v, n, draw)[0], n, draw)[n-1] = v
           /\ ShuffleFrom(UnshuffleFrom(v, n, draw)[n-1], n, draw)[0] = v
<1> DEFINE a == ShuffleFrom(v, n, draw)
           b == UnshuffleFrom(v, n, draw)
           c == UnshuffleFrom(a[0], n, draw)
           d == ShuffleFrom(b[n-1], n, draw)
<1>1. Rungs(a, n, draw, W) /\ a[n-1] = v
  BY ShuffleRungs
<1>2. Rungs(b, n, draw, W) /\ b[0] = v
  BY UnshuffleRungs
<1> HIDE DEF a, b
<1>3. a[0] \in SpanOf(n, W) /\ SameObjects(v, a[0])
  BY <1>1, RungsSame
<1>4. b[n-1] \in SpanOf(n, W) /\ SameObjects(b[n-1], v)
  BY <1>2, RungsSame
<1>5. SameObjects(v, b[n-1])
  BY <1>4, SameObjectsReflexive, SameObjectsEuclidean
<1>6. c[n-1] = v
  <2>1. Rungs(c, n, draw, W) /\ c[0] = a[0]
    BY <1>3, UnshuffleRungs
  <2> HIDE DEF c
  <2> QED  BY <1>1, <2>1, RungsUp
<1>7. d[0] = v
  <2>1. Rungs(d, n, draw, W) /\ d[n-1] = b[n-1]
    BY <1>4, ShuffleRungs
  <2> HIDE DEF d
  <2> QED  BY <1>2, <2>1, RungsDown
<1> QED  BY <1>3, <1>4, <1>5, <1>6, <1>7 DEF a, b, c, d

-----------------------------------------------------------------------------
(* One stage.                                                               *)

Files(N) == SpanOf(N, Byte)
WordsOf(s, f) == Reinterpret(f, Width[s])

\* The seeds stage s computes from a file, which is all it uses of the file
\* besides the words it moves.
SeedsIn(dbg, s, f) == SeedsOf(KeptKeys(WordsOf(s, f), Keep[s], Key[s]),
                              dbg, Key[s][Zero[s]], Range(Key[s]))

\* The file has at most one pair of seeds for stage s, or no need of any.
Fixed(dbg, s, f) == \/ dbg
                    \/ Cardinality(DOMAIN WordsOf(s, f)) <= 1
                    \/ Range(WordsOf(s, f)) \cap Keep[s] # {}

Shuffled(s, f, draw) ==
    WithWords(f, Width[s],
              ShuffleFrom(WordsOf(s, f), WordCount(Cardinality(DOMAIN f), Width[s]), draw)[0])

Unshuffled(s, f, draw) ==
    LET n == WordCount(Cardinality(DOMAIN f), Width[s])
    IN  WithWords(f, Width[s], UnshuffleFrom(WordsOf(s, f), n, draw)[n-1])

LEMMA WidthType ==
    ASSUME NEW s \in Stages
    PROVE  Width[s] \in Nat \ {0}
BY WidthAssumption

LEMMA FilesAre ==
    ASSUME NEW N \in Lengths, NEW f \in Files(N), NEW s \in Stages
    PROVE  /\ N \in Nat /\ f \in SpanOf(N, Byte)
           /\ Cardinality(DOMAIN f) = N /\ DOMAIN f = 0 .. N-1
           /\ WordCount(N, Width[s]) \in Nat
           /\ WordsOf(s, f) \in SpanOf(WordCount(N, Width[s]), Word(Width[s], Byte))
           /\ Cardinality(DOMAIN WordsOf(s, f)) = WordCount(N, Width[s])
<1>1. N \in Nat /\ f \in SpanOf(N, Byte)
  BY LengthsAssumption DEF Files
<1>2. Cardinality(DOMAIN f) = N /\ DOMAIN f = 0 .. N-1
  BY <1>1, SizeOf
<1> DEFINE w == Width[s]
           n == WordCount(N, w)
           u == WordsOf(s, f)
<1>3. w \in Nat \ {0}
  BY WidthType
<1>4. u = Reinterpret(f, w)
  BY DEF WordsOf
<1> HIDE DEF w, u
<1>5. n \in Nat /\ u \in SpanOf(n, Word(w, Byte))
  BY <1>1, <1>3, <1>4, InWord, WordsType
<1> HIDE DEF n
<1>6. Cardinality(DOMAIN u) = n
  BY <1>5, SizeOf
<1> QED  BY <1>1, <1>2, <1>5, <1>6 DEF u, n, w

\* Both ways a stage reorders whole words, and each undoes the other.
LEMMA StageUndo ==
    ASSUME NEW N \in Lengths, NEW s \in Stages, NEW f \in Files(N), NEW draw \in Draws[s],
           WordCount(N, Width[s]) > 1
    PROVE  /\ \A g \in {Shuffled(s, f, draw), Unshuffled(s, f, draw)} :
                 /\ g \in Files(N) /\ SameObjects(f, g)
                 /\ SameObjects(WordsOf(s, f), WordsOf(s, g))
                 /\ \E v \in SpanOf(WordCount(N, Width[s]), Word(Width[s], Byte)) :
                       g = WithWords(f, Width[s], v) /\ SameObjects(WordsOf(s, f), v)
           /\ Unshuffled(s, Shuffled(s, f, draw), draw) = f
           /\ Shuffled(s, Unshuffled(s, f, draw), draw) = f
<1> DEFINE w == Width[s]
           n == WordCount(N, w)
           W == Word(w, Byte)
           u == WordsOf(s, f)
           a == ShuffleFrom(u, n, draw)[0]
           b == UnshuffleFrom(u, n, draw)[n-1]
<1>1. N \in Nat /\ w \in Nat \ {0} /\ f \in SpanOf(N, Byte) /\ u \in SpanOf(n, W)
      /\ u = Reinterpret(f, w) /\ n \in Nat /\ n > 1
  BY FilesAre, WidthType DEF WordsOf
<1>2. InBounds(draw, n)
  BY WorkDrawsAssumption DEF InBounds
<1>3. Shuffled(s, f, draw) = WithWords(f, w, a) /\ Unshuffled(s, f, draw) = WithWords(f, w, b)
  BY FilesAre DEF Shuffled, Unshuffled
<1>w. /\ \A g \in Files(N) : Shuffled(s, g, draw) = WithWords(g, w, ShuffleFrom(Reinterpret(g, w), n, draw)[0])
      /\ \A g \in Files(N) : Unshuffled(s, g, draw) = WithWords(g, w, UnshuffleFrom(Reinterpret(g, w), n, draw)[n-1])
  BY FilesAre DEF Shuffled, Unshuffled, WordsOf
<1> HIDE DEF w, n, u
<1>4. n \in Nat \ {0}
  BY <1>1
<1>5. /\ a \in SpanOf(n, W) /\ b \in SpanOf(n, W) /\ SameObjects(u, a) /\ SameObjects(u, b)
      /\ UnshuffleFrom(a, n, draw)[n-1] = u /\ ShuffleFrom(b, n, draw)[0] = u
  BY <1>1, <1>2, <1>4, LoopsUndo
<1> HIDE DEF W, a, b
<1>6. ASSUME NEW v \in SpanOf(n, W), SameObjects(u, v)
      PROVE  /\ WithWords(f, w, v) \in Files(N) /\ SameObjects(f, WithWords(f, w, v))
             /\ Reinterpret(WithWords(f, w, v), w) = v
             /\ WithWords(WithWords(f, w, v), w, u) = f
  <2>1. v \in SpanOf(WordCount(N, w), Word(w, Byte))
    BY DEF n, W
  <2> QED  BY <1>1, <1>6, <2>1, WithWordsIs, WithWordsTwice, BytesFollow DEF Files
<1>7. ASSUME NEW v \in {a, b}
      PROVE  /\ WithWords(f, w, v) \in Files(N) /\ SameObjects(f, WithWords(f, w, v))
             /\ SameObjects(u, WordsOf(s, WithWords(f, w, v)))
             /\ v \in SpanOf(n, W) /\ SameObjects(u, v)
  BY <1>5, <1>6 DEF WordsOf, w
<1>8. Unshuffled(s, WithWords(f, w, a), draw) = f
  BY <1>5, <1>6, <1>w
<1>9. Shuffled(s, WithWords(f, w, b), draw) = f
  BY <1>5, <1>6, <1>w
<1> QED  BY <1>3, <1>7, <1>8, <1>9 DEF u, w, n, W

\* Files with the same words, in whatever order, have the same seeds.
LEMMA SeedsAlike ==
    ASSUME NEW dbg, NEW s, NEW f, NEW g, Range(WordsOf(s, f)) = Range(WordsOf(s, g))
    PROVE  SeedsIn(dbg, s, f) = SeedsIn(dbg, s, g)
BY DEF SeedsIn, KeptKeys

LEMMA OneSeed ==
    ASSUME NEW dbg \in BOOLEAN, NEW N \in Lengths, NEW s \in Stages, NEW f \in Files(N),
           Fixed(dbg, s, f), WordCount(N, Width[s]) > 1,
           NEW x \in SeedsIn(dbg, s, f), NEW y \in SeedsIn(dbg, s, f)
    PROVE  x = y
<1> DEFINE u == WordsOf(s, f)
           keys == KeptKeys(u, Keep[s], Key[s])
<1>1. u \in SpanOf(WordCount(N, Width[s]), Word(Width[s], Byte))
      /\ Cardinality(DOMAIN u) = WordCount(N, Width[s]) /\ WordCount(N, Width[s]) \in Nat
  BY FilesAre
<1>2. keys \subseteq Int
  <2>1. Range(u) \subseteq Word(Width[s], Byte)
    BY <1>1 DEF SpanOf, Range
  <2>2. Key[s] \in [Word(Width[s], Byte) -> Int]
    BY WorkKeyAssumption DEF Word
  <2> HIDE DEF u
  <2> QED  BY <2>1, <2>2 DEF KeptKeys
<1>3. CASE keys # {}
  <2>1. x \in keys \X keys /\ y \in keys \X keys
        /\ \A k \in keys : x[1] <= k /\ k <= x[2] /\ y[1] <= k /\ k <= y[2]
    BY <1>3 DEF SeedsIn, SeedsOf
  <2> HIDE DEF keys
  <2>2. PICK xl \in keys, xh \in keys : x = <<xl, xh>>
    BY <2>1
  <2>3. PICK yl \in keys, yh \in keys : y = <<yl, yh>>
    BY <2>1
  <2>4. \A k \in keys : xl <= k /\ k <= xh /\ yl <= k /\ k <= yh
    BY <2>1, <2>2, <2>3
  <2>5. xl <= yl /\ yl <= xl /\ xh <= yh /\ yh <= xh
    BY <2>4
  <2>6. xl = yl /\ xh = yh
    BY <1>2, <2>5
  <2> QED  BY <2>2, <2>3, <2>6
<1>4. CASE keys = {}
  <2>1. Range(u) \cap Keep[s] = {}
    BY <1>4 DEF KeptKeys
  <2>2. dbg
    BY <1>1, <2>1 DEF Fixed
  <2> QED  BY <1>4, <2>2 DEF SeedsIn, SeedsOf
<1> QED  BY <1>3, <1>4

\* Only the float stage may have no seeds.
LEMMA OthersFixed ==
    ASSUME NEW dbg \in BOOLEAN, NEW N \in Lengths, NEW s \in Stages \ {"float"}, NEW f \in Files(N)
    PROVE  Fixed(dbg, s, f)
<1> DEFINE u == WordsOf(s, f)
           n == WordCount(N, Width[s])
<1>1. u \in SpanOf(n, Word(Width[s], Byte)) /\ Cardinality(DOMAIN u) = n /\ n \in Nat
  BY FilesAre
<1>2. Word(Width[s], Byte) \subseteq Keep[s]
  BY WorkKeepAssumption DEF Word
<1> HIDE DEF n, u
<1>3. CASE n > 1
  <2>1. 0 \in 0 .. n-1
    BY <1>1, <1>3
  <2>2. u[0] \in Range(u) /\ u[0] \in Keep[s]
    BY <1>1, <1>2, <2>1 DEF SpanOf, Range
  <2> QED  BY <2>2 DEF Fixed, u
<1>4. CASE n <= 1
  BY <1>1, <1>4 DEF Fixed, u
<1> QED  BY <1>1, <1>3, <1>4

\* Stage s of a shuffle takes f to g, with the generators known so far.
Went(dbg, G, s, f, g) ==
    IF WordCount(Cardinality(DOMAIN f), Width[s]) <= 1 THEN g = f
    ELSE \E seed \in SeedsIn(dbg, s, f) :
            <<s, seed>> \in DOMAIN G /\ g = Shuffled(s, f, G[<<s, seed>>])

Known(G) == \A x \in DOMAIN G : G[x] \in Draws[x[1]]

\* What two files have in common of which one is the other shuffled by stage s.
Alike(N, s, f, g) ==
    /\ f \in Files(N) /\ g \in Files(N)
    /\ SameObjects(f, g)
    /\ Range(WordsOf(s, f)) = Range(WordsOf(s, g))
    /\ s = "long" => Range(WordsOf("float", f)) = Range(WordsOf("float", g))

LEMMA AlikeStage ==
    ASSUME NEW N \in Lengths, NEW s \in Stages, NEW f \in Files(N), NEW draw \in Draws[s],
           WordCount(N, Width[s]) > 1, NEW g \in {Shuffled(s, f, draw), Unshuffled(s, f, draw)}
    PROVE  Alike(N, s, f, g)
<1> DEFINE n == WordCount(N, Width[s])
           W == Word(Width[s], Byte)
<1>1. /\ g \in Files(N) /\ SameObjects(f, g)
      /\ SameObjects(WordsOf(s, f), WordsOf(s, g))
      /\ \E v \in SpanOf(n, W) : g = WithWords(f, Width[s], v) /\ SameObjects(WordsOf(s, f), v)
  BY StageUndo
<1>2. n \in Nat /\ WordsOf(s, f) \in SpanOf(n, W) /\ WordsOf(s, g) \in SpanOf(n, W) /\ N \in Nat
      /\ f \in SpanOf(N, Byte)
  BY <1>1, FilesAre
<1>3. Range(WordsOf(s, f)) = Range(WordsOf(s, g))
  <2> HIDE DEF n, W
  <2> QED  BY <1>1, <1>2, SameObjectsRange
<1>4. ASSUME s = "long" PROVE Range(WordsOf("float", f)) = Range(WordsOf("float", g))
  <2> DEFINE w == Width["float"]
             L == Width["long"]
             c == L \div w
  <2>1. w \in Nat \ {0} /\ L \in Nat \ {0} /\ L % w = 0
    BY WidthType, NestedAssumption DEF Stages
  <2> HIDE DEF w, L
  <2>2. c \in Nat /\ L = c * w + (L % w)
    BY <2>1, Split
  <2> HIDE DEF c
  <2>3. c \in Nat \ {0} /\ L = c * w
    BY <2>1, <2>2
  <2>4. PICK v \in SpanOf(WordCount(N, L), Word(L, Byte)) :
           g = WithWords(f, L, v) /\ SameObjects(Reinterpret(f, L), v)
    BY <1>1, <1>4 DEF L, WordsOf
  <2>5. Range(Reinterpret(WithWords(f, L, v), w)) = Range(Reinterpret(f, w))
    <3>1. WordsReordered(N, c, w, L, Byte, f, v)
      BY <1>2, <2>1, <2>3, <2>4 DEF WordsReordered
    <3> QED  BY <3>1, SameNarrowWords
  <2> QED  BY <2>4, <2>5 DEF WordsOf, w
<1> QED  BY <1>1, <1>3, <1>4 DEF Alike

LEMMA WentAlike ==
    ASSUME NEW dbg, NEW G, Known(G), NEW N \in Lengths, NEW s \in Stages,
           NEW f \in Files(N), NEW g, Went(dbg, G, s, f, g)
    PROVE  Alike(N, s, f, g)
<1>1. Cardinality(DOMAIN f) = N /\ N \in Nat /\ WordCount(N, Width[s]) \in Nat /\ f \in SpanOf(N, Byte)
  BY FilesAre
<1>2. CASE WordCount(N, Width[s]) <= 1
  <2>1. g = f
    BY <1>1, <1>2 DEF Went
  <2> QED  BY <1>1, <2>1, SameObjectsReflexive DEF Alike
<1>3. CASE WordCount(N, Width[s]) > 1
  <2>1. PICK seed \in SeedsIn(dbg, s, f) : <<s, seed>> \in DOMAIN G /\ g = Shuffled(s, f, G[<<s, seed>>])
    BY <1>1, <1>3 DEF Went
  <2>2. G[<<s, seed>>] \in Draws[s]
    BY <2>1 DEF Known
  <2> QED  BY <1>3, <2>1, <2>2, AlikeStage
<1> QED  BY <1>1, <1>2, <1>3

\* Files alike are fixed alike.
LEMMA FixedAlike ==
    ASSUME NEW dbg, NEW N \in Lengths, NEW s \in Stages, NEW f \in Files(N), NEW g \in Files(N),
           Range(WordsOf(s, f)) = Range(WordsOf(s, g)), Fixed(dbg, s, f)
    PROVE  Fixed(dbg, s, g)
<1>1. Cardinality(DOMAIN WordsOf(s, f)) = Cardinality(DOMAIN WordsOf(s, g))
  BY FilesAre
<1> QED  BY <1>1 DEF Fixed

\* A stage of a shuffle has one result, and one file leads to it.
LEMMA WentOnce ==
    ASSUME NEW dbg \in BOOLEAN, NEW G, Known(G), NEW N \in Lengths, NEW s \in Stages,
           NEW f \in Files(N), NEW g, NEW h,
           Fixed(dbg, s, f), Went(dbg, G, s, f, g), Went(dbg, G, s, f, h)
    PROVE  g = h
<1>1. Cardinality(DOMAIN f) = N /\ WordCount(N, Width[s]) \in Nat
  BY FilesAre
<1>2. CASE WordCount(N, Width[s]) <= 1
  BY <1>1, <1>2 DEF Went
<1>3. CASE WordCount(N, Width[s]) > 1
  <2>1. PICK x \in SeedsIn(dbg, s, f) : g = Shuffled(s, f, G[<<s, x>>])
    BY <1>1, <1>3 DEF Went
  <2>2. PICK y \in SeedsIn(dbg, s, f) : h = Shuffled(s, f, G[<<s, y>>])
    BY <1>1, <1>3 DEF Went
  <2>3. x = y
    BY <1>3, OneSeed
  <2> QED  BY <2>1, <2>2, <2>3
<1> QED  BY <1>1, <1>2, <1>3

LEMMA WentBack ==
    ASSUME NEW dbg \in BOOLEAN, NEW G, Known(G), NEW N \in Lengths, NEW s \in Stages,
           NEW f \in Files(N), NEW h \in Files(N), NEW g,
           Fixed(dbg, s, f), Went(dbg, G, s, f, g), Went(dbg, G, s, h, g)
    PROVE  f = h
<1>1. Cardinality(DOMAIN f) = N /\ Cardinality(DOMAIN h) = N /\ WordCount(N, Width[s]) \in Nat
  BY FilesAre
<1>2. CASE WordCount(N, Width[s]) <= 1
  BY <1>1, <1>2 DEF Went
<1>3. CASE WordCount(N, Width[s]) > 1
  <2>1. PICK x \in SeedsIn(dbg, s, f) : <<s, x>> \in DOMAIN G /\ g = Shuffled(s, f, G[<<s, x>>])
    BY <1>1, <1>3 DEF Went
  <2>2. PICK y \in SeedsIn(dbg, s, h) : <<s, y>> \in DOMAIN G /\ g = Shuffled(s, h, G[<<s, y>>])
    BY <1>1, <1>3 DEF Went
  <2>3. SeedsIn(dbg, s, f) = SeedsIn(dbg, s, h)
    BY WentAlike, SeedsAlike DEF Alike
  <2>4. x = y
    BY <1>3, <2>3, OneSeed
  <2>5. G[<<s, x>>] \in Draws[s]
    BY <2>1 DEF Known
  <2>6. Unshuffled(s, Shuffled(s, f, G[<<s, x>>]), G[<<s, x>>]) = f
        /\ Unshuffled(s, Shuffled(s, h, G[<<s, x>>]), G[<<s, x>>]) = h
    BY <1>3, <2>5, StageUndo
  <2> QED  BY <2>1, <2>2, <2>4, <2>6
<1> QED  BY <1>1, <1>2, <1>3

\* Generators that are added change no stage that went.
LEMMA WentStays ==
    ASSUME NEW dbg, NEW G, NEW H, NEW s, NEW f, NEW g, Went(dbg, G, s, f, g),
           \A x \in DOMAIN G : x \in DOMAIN H /\ H[x] = G[x]
    PROVE  Went(dbg, H, s, f, g)
BY DEF Went

\* A stage of an unshuffle goes the way back.
LEMMA WentUnshuffled ==
    ASSUME NEW dbg, NEW G, Known(G), NEW N \in Lengths, NEW s \in Stages, NEW g \in Files(N),
           WordCount(N, Width[s]) > 1, NEW seed \in SeedsIn(dbg, s, g), <<s, seed>> \in DOMAIN G
    PROVE  /\ Unshuffled(s, g, G[<<s, seed>>]) \in Files(N)
           /\ Went(dbg, G, s, Unshuffled(s, g, G[<<s, seed>>]), g)
<1> DEFINE draw == G[<<s, seed>>]
           f == Unshuffled(s, g, draw)
<1>1. draw \in Draws[s]
  BY DEF Known
<1>2. Alike(N, s, g, f) /\ Shuffled(s, f, draw) = g
  BY <1>1, AlikeStage, StageUndo
<1> HIDE DEF f
<1>3. f \in Files(N) /\ SeedsIn(dbg, s, g) = SeedsIn(dbg, s, f)
  BY <1>2, SeedsAlike DEF Alike
<1>4. Cardinality(DOMAIN f) = N /\ WordCount(N, Width[s]) \in Nat
  BY <1>3, FilesAre
<1>5. Went(dbg, G, s, f, g)
  BY <1>2, <1>3, <1>4 DEF Went
<1> QED  BY <1>3, <1>5 DEF f

-----------------------------------------------------------------------------
(* A loop that was left in the middle.                                      *)

\* The rounds a call of o of n words has behind it at loop index k; all of them is
\* any number from n-1 on.
Rounds(o, n, k, d) ==
    \/ d = IF o = "shuffle" THEN n-1-k ELSE k
    \/ d >= n-1 /\ k = IF o = "shuffle" THEN 0 ELSE n-1

\* The rungs of the first rounds, and from there no more swaps.
LEMMA LoopBackIs ==
    ASSUME NEW n \in Nat \ {0}, NEW W, NEW draw, InBounds(draw, n), NEW v \in SpanOf(n, W),
           NEW o \in {"shuffle", "unshuffle"}, NEW k \in 0 .. n-1, NEW d \in Nat, Rounds(o, n, k, d)
    PROVE  /\ Loop(o, v, n, draw)[k] \in SpanOf(n, W)
           /\ SameObjects(v, Loop(o, v, n, draw)[k])
           /\ LoopBack(o, Loop(o, v, n, draw)[k], n, draw, d) = v
<1>k. k \in Nat /\ n-1 \in 0 .. n-1 /\ 0 \in 0 .. n-1
  OBVIOUS
<1>s. ASSUME NEW a \in SpanOf(n, W), NEW x \in 0 .. n-1 PROVE Swapped(a, x, x) = a
  BY DEF Swapped, SpanOf
<1>1. CASE o = "shuffle"
  <2> DEFINE a == ShuffleFrom(v, n, draw)
             only == Only(draw, n, n-d, n-1)
             c == UnshuffleFrom(a[k], n, only)
             e == [x \in 0 .. n-1 |-> IF x >= k THEN a[x] ELSE a[k]]
  <2>1. Rungs(a, n, draw, W) /\ a[n-1] = v
    BY ShuffleRungs
  <2>2. InBounds(only, n) /\ \A x \in 1 .. n-1 : only[x] = IF x > k THEN draw[x] ELSE x
    BY <1>1, <1>k DEF Only, InBounds, Rounds
  <2> HIDE DEF a, only
  <2>3. a[k] \in SpanOf(n, W) /\ a[n-1] \in SpanOf(n, W) /\ \A x \in 0 .. n-1 : a[x] \in SpanOf(n, W)
    BY <1>k, <2>1 DEF Rungs
  <2>4. SameObjects(v, a[k])
    BY <1>k, <2>1, RungsSame
  <2>5. Rungs(e, n, only, W)
    <3>1. e \in [0 .. n-1 -> SpanOf(n, W)]
      BY <2>3
    <3>2. ASSUME NEW x \in 1 .. n-1 PROVE e[x-1] = Swapped(e[x], x, only[x])
      <4>0. x \in 0 .. n-1 /\ x-1 \in 0 .. n-1
        OBVIOUS
      <4>1. CASE x > k
        <5>1. e[x] = a[x] /\ e[x-1] = a[x-1] /\ only[x] = draw[x]
          BY <1>k, <2>2, <4>0, <4>1
        <5> HIDE DEF e
        <5> QED  BY <2>1, <5>1 DEF Rungs
      <4>2. CASE ~(x > k)
        <5>1. e[x] = a[k] /\ e[x-1] = a[k] /\ only[x] = x
          BY <1>k, <2>2, <4>0, <4>2
        <5> HIDE DEF e
        <5> QED  BY <1>s, <2>3, <4>0, <5>1
      <4> QED  BY <4>1, <4>2
    <3> HIDE DEF e
    <3> QED  BY <3>1, <3>2 DEF Rungs
  <2>6. e[0] = a[k] /\ e[n-1] = v
    BY <1>k, <2>1
  <2>7. Rungs(c, n, only, W) /\ c[0] = a[k]
    BY <2>2, <2>3, UnshuffleRungs
  <2> HIDE DEF c, e
  <2>8. c[n-1] = v
    BY <2>2, <2>5, <2>6, <2>7, RungsUp
  <2> QED  BY <1>1, <2>3, <2>4, <2>8 DEF a, c, only, Loop, LoopBack
<1>2. CASE o = "unshuffle"
  <2> DEFINE b == UnshuffleFrom(v, n, draw)
             only == Only(draw, n, 1, d)
             c == ShuffleFrom(b[k], n, only)
             e == [x \in 0 .. n-1 |-> IF x <= k THEN b[x] ELSE b[k]]
  <2>1. Rungs(b, n, draw, W) /\ b[0] = v
    BY UnshuffleRungs
  <2>2. InBounds(only, n) /\ \A x \in 1 .. n-1 : only[x] = IF x <= k THEN draw[x] ELSE x
    BY <1>2, <1>k DEF Only, InBounds, Rounds
  <2> HIDE DEF b, only
  <2>3. b[k] \in SpanOf(n, W) /\ \A x \in 0 .. n-1 : b[x] \in SpanOf(n, W)
    BY <1>k, <2>1 DEF Rungs
  <2>4. SameObjects(v, b[k])
    BY <1>k, <2>1, RungsSame
  <2>5. Rungs(e, n, only, W)
    <3>1. e \in [0 .. n-1 -> SpanOf(n, W)]
      BY <2>3
    <3>2. ASSUME NEW x \in 1 .. n-1 PROVE e[x-1] = Swapped(e[x], x, only[x])
      <4>0. x \in 0 .. n-1 /\ x-1 \in 0 .. n-1
        OBVIOUS
      <4>1. CASE x <= k
        <5>1. e[x] = b[x] /\ e[x-1] = b[x-1] /\ only[x] = draw[x]
          BY <1>k, <2>2, <4>0, <4>1
        <5> HIDE DEF e
        <5> QED  BY <2>1, <5>1 DEF Rungs
      <4>2. CASE ~(x <= k)
        <5>1. e[x] = b[k] /\ e[x-1] = b[k] /\ only[x] = x
          BY <1>k, <2>2, <4>0, <4>2
        <5> HIDE DEF e
        <5> QED  BY <1>s, <2>3, <4>0, <5>1
      <4> QED  BY <4>1, <4>2
    <3> HIDE DEF e
    <3> QED  BY <3>1, <3>2 DEF Rungs
  <2>6. e[0] = v /\ e[n-1] = b[k]
    BY <1>k, <2>1
  <2>7. Rungs(c, n, only, W) /\ c[n-1] = b[k]
    BY <2>2, <2>3, ShuffleRungs
  <2> HIDE DEF c, e
  <2>8. c[0] = v
    BY <2>5, <2>6, <2>7, RungsDown
  <2> QED  BY <1>2, <2>3, <2>4, <2>8 DEF b, c, only, Loop, LoopBack
<1> QED  BY <1>1, <1>2

\* The file at loop index k of stage s of o.
RunOf(o, s, f, draw, k) ==
    WithWords(f, Width[s], Loop(o, WordsOf(s, f), WordCount(Cardinality(DOMAIN f), Width[s]), draw)[k])

\* Back of Work, as a function of the generators known.
BackIn(dbg, G, o, s, f, d) ==
    LET n == WordCount(Cardinality(DOMAIN f), Width[s])
    IN  IF n <= 1 THEN {f}
        ELSE { WithWords(f, Width[s], LoopBack(o, WordsOf(s, f), n, G[<<s, seed>>], d)) :
                 seed \in { x \in SeedsIn(dbg, s, f) : <<s, x>> \in DOMAIN G } }

\* The words of a file left in mid stage are those it began with, so their seeds
\* are too, and lead the way back.
LEMMA RunBack ==
    ASSUME NEW dbg, NEW G, Known(G), NEW N \in Lengths, NEW s \in Stages, NEW f \in Files(N),
           WordCount(N, Width[s]) > 1, NEW o \in {"shuffle", "unshuffle"},
           NEW seed \in SeedsIn(dbg, s, f), <<s, seed>> \in DOMAIN G,
           NEW k \in 0 .. WordCount(N, Width[s]) - 1
    PROVE  /\ RunOf(o, s, f, G[<<s, seed>>], k) \in Files(N)
           /\ SameObjects(f, RunOf(o, s, f, G[<<s, seed>>], k))
           /\ \A d \in Nat : Rounds(o, WordCount(N, Width[s]), k, d) =>
                 f \in BackIn(dbg, G, o, s, RunOf(o, s, f, G[<<s, seed>>], k), d)
<1> DEFINE w == Width[s]
           n == WordCount(N, w)
           W == Word(w, Byte)
           u == WordsOf(s, f)
           draw == G[<<s, seed>>]
           v == Loop(o, u, n, draw)[k]
           g == RunOf(o, s, f, draw, k)
<1>1. N \in Nat /\ w \in Nat \ {0} /\ f \in SpanOf(N, Byte) /\ u \in SpanOf(n, W)
      /\ u = Reinterpret(f, w) /\ n \in Nat \ {0} /\ n > 1 /\ k \in 0 .. n-1
  BY FilesAre, WidthType DEF WordsOf
<1>2. InBounds(draw, n)
  BY WorkDrawsAssumption DEF InBounds, Known
<1>3. g = WithWords(f, w, v)
  BY FilesAre DEF RunOf
<1>i. \A h \in Files(N) : Cardinality(DOMAIN h) = N
  BY FilesAre
<1>w. WordsOf(s, WithWords(f, w, v)) = Reinterpret(WithWords(f, w, v), w)
  BY DEF WordsOf
<1> HIDE DEF w, n, u, draw, g
<1>4. 0 \in Nat /\ \E d \in Nat : Rounds(o, n, k, d)
  BY <1>1 DEF Rounds
<1>5. /\ v \in SpanOf(n, W) /\ SameObjects(u, v)
      /\ \A d \in Nat : Rounds(o, n, k, d) => LoopBack(o, v, n, draw, d) = u
  <2> HIDE DEF W
  <2> QED  BY <1>1, <1>2, <1>4, LoopBackIs
<1> HIDE DEF v
<1>6. g \in Files(N) /\ SameObjects(f, g) /\ Reinterpret(g, w) = v /\ WithWords(g, w, u) = f
  <2>1. v \in SpanOf(WordCount(N, w), Word(w, Byte))
    BY <1>5 DEF n, W
  <2> QED  BY <1>1, <1>3, <1>5, <2>1, WithWordsIs, WithWordsTwice, BytesFollow DEF Files
<1>7. WordsOf(s, g) = v
  BY <1>3, <1>6, <1>w
<1>8. Range(WordsOf(s, f)) = Range(WordsOf(s, g))
  <2> HIDE DEF W
  <2>1. Range(u) = Range(v)
    BY <1>1, <1>5, SameObjectsRange
  <2> QED  BY <1>7, <2>1 DEF u
<1>9. seed \in SeedsIn(dbg, s, g)
  BY <1>8, SeedsAlike
<1>10. ASSUME NEW d \in Nat, Rounds(o, n, k, d) PROVE f \in BackIn(dbg, G, o, s, g, d)
  <2>1. WithWords(g, w, LoopBack(o, WordsOf(s, g), n, draw, d)) = f
    BY <1>5, <1>6, <1>7, <1>10
  <2>2. WordCount(Cardinality(DOMAIN g), w) = n
    BY <1>6, <1>i DEF n
  <2>3. ~(n <= 1)
    BY <1>1
  <2>4. BackIn(dbg, G, o, s, g, d) =
           { WithWords(g, w, LoopBack(o, WordsOf(s, g), n, G[<<s, x>>], d)) :
               x \in { y \in SeedsIn(dbg, s, g) : <<s, y>> \in DOMAIN G } }
    BY <2>2, <2>3 DEF BackIn, w
  <2> QED  BY <1>9, <2>1, <2>4 DEF draw
<1> QED  BY <1>6, <1>10 DEF n, w, g, draw

\* Stage s of o took x to y.
Gone(dbg, G, o, s, x, y) ==
    IF o = "shuffle" THEN Went(dbg, G, s, x, y) ELSE Went(dbg, G, s, y, x)

\* A whole stage is taken back by all its rounds.
LEMMA GoneBack ==
    ASSUME NEW dbg, NEW G, Known(G), NEW N \in Lengths, NEW s \in Stages, NEW o \in {"shuffle", "unshuffle"},
           NEW x \in Files(N), NEW y \in Files(N), Gone(dbg, G, o, s, x, y),
           NEW d \in Nat, d >= WordCount(N, Width[s]) - 1
    PROVE  x \in BackIn(dbg, G, o, s, y, d)
<1> DEFINE n == WordCount(N, Width[s])
<1>1. Cardinality(DOMAIN x) = N /\ Cardinality(DOMAIN y) = N /\ n \in Nat
  BY FilesAre
<1>2. CASE n <= 1
  BY <1>1, <1>2 DEF BackIn, Gone, Went
<1>3. CASE n > 1 /\ o = "shuffle"
  <2>1. PICK seed \in SeedsIn(dbg, s, x) : <<s, seed>> \in DOMAIN G /\ y = Shuffled(s, x, G[<<s, seed>>])
    BY <1>1, <1>3 DEF Gone, Went
  <2>2. y = RunOf(o, s, x, G[<<s, seed>>], 0)
    BY <1>3, <2>1 DEF Shuffled, RunOf, Loop
  <2>3. Rounds(o, n, 0, d) /\ 0 \in 0 .. n-1
    BY <1>1, <1>3 DEF Rounds
  <2> QED  BY <1>3, <2>1, <2>2, <2>3, RunBack
<1>4. CASE n > 1 /\ o = "unshuffle"
  <2>1. PICK seed \in SeedsIn(dbg, s, y) : <<s, seed>> \in DOMAIN G /\ x = Shuffled(s, y, G[<<s, seed>>])
    BY <1>1, <1>4 DEF Gone, Went
  <2>2. SeedsIn(dbg, s, y) = SeedsIn(dbg, s, x)
    BY <1>4, WentAlike, SeedsAlike DEF Gone, Alike
  <2>3. G[<<s, seed>>] \in Draws[s]
    BY <2>1 DEF Known
  <2>4. y = Unshuffled(s, x, G[<<s, seed>>])
    BY <1>4, <2>1, <2>3, StageUndo
  <2>5. y = RunOf(o, s, x, G[<<s, seed>>], n-1)
    BY <1>1, <1>4, <2>4 DEF Unshuffled, RunOf, Loop
  <2>6. Rounds(o, n, n-1, d) /\ n-1 \in 0 .. n-1
    BY <1>1, <1>4 DEF Rounds
  <2> QED  BY <1>4, <2>1, <2>2, <2>5, <2>6, RunBack
<1> QED  BY <1>1, <1>2, <1>3, <1>4

\* A file has no more words than bytes.
LEMMA CountAtMost ==
    ASSUME NEW N \in Nat, NEW w \in Nat \ {0}
    PROVE  WordCount(N, w) \in Nat /\ WordCount(N, w) <= N
<1>1. N = (N \div w) * w + (N % w) /\ N % w \in 0 .. w-1 /\ N \div w \in Nat
  BY Split
<1> DEFINE q == N \div w
<1>2. q \in Nat /\ q * w <= N
  BY <1>1
<1> HIDE DEF q
<1>3. q <= q * w
  BY <1>2
<1> QED  BY <1>2, <1>3 DEF q, WordCount

-----------------------------------------------------------------------------
(* The three stages.                                                        *)

\* A shuffle takes x to y.
Edge(dbg, G, N, x, y) ==
    \E a, b \in Files(N) :
        Went(dbg, G, "long", x, a) /\ Went(dbg, G, "float", a, b) /\ Went(dbg, G, "byte", b, y)

\* A shuffle of x that has the stages in left before it has come to f.
Up(dbg, G, N, x, left, f) ==
    /\ left = <<"long", "float", "byte">> => f = x
    /\ left = <<"float", "byte">> => Went(dbg, G, "long", x, f)
    /\ left = <<"byte">> => \E a \in Files(N) : Went(dbg, G, "long", x, a) /\ Went(dbg, G, "float", a, f)
    /\ left = <<>> => Edge(dbg, G, N, x, f)

\* So has an unshuffle.
Down(dbg, G, N, x, left, f) ==
    /\ left = <<"byte", "float", "long">> => f = x
    /\ left = <<"float", "long">> => Went(dbg, G, "byte", f, x)
    /\ left = <<"long">> => \E b \in Files(N) : Went(dbg, G, "float", f, b) /\ Went(dbg, G, "byte", b, x)
    /\ left = <<>> => Edge(dbg, G, N, f, x)

UpLeft == {<<"long", "float", "byte">>, <<"float", "byte">>, <<"byte">>, <<>>}
DownLeft == {<<"byte", "float", "long">>, <<"float", "long">>, <<"long">>, <<>>}

LEMMA Lists ==
    /\ \A t \in UpLeft \cup DownLeft : t # <<>> =>
          Head(t) \in Stages /\ Tail(t) \in UpLeft \cup DownLeft
    /\ \A t \in UpLeft : t # <<>> => Tail(t) \in UpLeft
    /\ \A t \in DownLeft : t # <<>> => Tail(t) \in DownLeft
    /\ \A t \in UpLeft \cup DownLeft : t \in Seq(Stages) /\ Len(t) <= 3
BY DEF UpLeft, DownLeft, Stages

\* The generators G are among those of H.
Extends(H, G) == \A x \in DOMAIN G : x \in DOMAIN H /\ H[x] = G[x]

LEMMA EdgeStays ==
    ASSUME NEW dbg, NEW G, NEW H, Extends(H, G), NEW N, NEW x, NEW y, Edge(dbg, G, N, x, y)
    PROVE  Edge(dbg, H, N, x, y)
<1>1. PICK a \in Files(N), b \in Files(N) :
         Went(dbg, G, "long", x, a) /\ Went(dbg, G, "float", a, b) /\ Went(dbg, G, "byte", b, y)
  BY DEF Edge
<1>2. Went(dbg, H, "long", x, a) /\ Went(dbg, H, "float", a, b) /\ Went(dbg, H, "byte", b, y)
  BY <1>1, WentStays DEF Extends
<1> QED  BY <1>2 DEF Edge

LEMMA UpStep ==
    ASSUME NEW dbg, NEW G, NEW H, Extends(H, G), NEW N, NEW x, NEW f \in Files(N), NEW g,
           NEW left \in UpLeft, left # <<>>, Up(dbg, G, N, x, left, f), Went(dbg, H, Head(left), f, g)
    PROVE  Up(dbg, H, N, x, Tail(left), g)
<1>1. CASE left = <<"long", "float", "byte">>
  <2>1. Tail(left) = <<"float", "byte">> /\ Head(left) = "long" /\ f = x
    BY <1>1 DEF Up
  <2> QED  BY <2>1 DEF Up
<1>2. CASE left = <<"float", "byte">>
  <2>1. Tail(left) = <<"byte">> /\ Head(left) = "float" /\ Went(dbg, G, "long", x, f)
    BY <1>2 DEF Up
  <2>2. Went(dbg, H, "long", x, f)
    BY <2>1, WentStays DEF Extends
  <2> QED  BY <2>1, <2>2 DEF Up
<1>3. CASE left = <<"byte">>
  <2>1. Tail(left) = <<>> /\ Head(left) = "byte"
    BY <1>3
  <2>2. PICK a \in Files(N) : Went(dbg, G, "long", x, a) /\ Went(dbg, G, "float", a, f)
    BY <1>3 DEF Up
  <2>3. Went(dbg, H, "long", x, a) /\ Went(dbg, H, "float", a, f)
    BY <2>2, WentStays DEF Extends
  <2>4. Edge(dbg, H, N, x, g)
    BY <2>1, <2>3 DEF Edge
  <2> QED  BY <2>1, <2>4 DEF Up
<1> QED  BY <1>1, <1>2, <1>3 DEF UpLeft

LEMMA DownStep ==
    ASSUME NEW dbg, NEW G, NEW H, Extends(H, G), NEW N, NEW x, NEW f \in Files(N), NEW g,
           NEW left \in DownLeft, left # <<>>, Down(dbg, G, N, x, left, f), Went(dbg, H, Head(left), g, f)
    PROVE  Down(dbg, H, N, x, Tail(left), g)
<1>1. CASE left = <<"byte", "float", "long">>
  <2>1. Tail(left) = <<"float", "long">> /\ Head(left) = "byte" /\ f = x
    BY <1>1 DEF Down
  <2> QED  BY <2>1 DEF Down
<1>2. CASE left = <<"float", "long">>
  <2>1. Tail(left) = <<"long">> /\ Head(left) = "float" /\ Went(dbg, G, "byte", f, x)
    BY <1>2 DEF Down
  <2>2. Went(dbg, H, "byte", f, x)
    BY <2>1, WentStays DEF Extends
  <2> QED  BY <2>1, <2>2 DEF Down
<1>3. CASE left = <<"long">>
  <2>1. Tail(left) = <<>> /\ Head(left) = "long"
    BY <1>3
  <2>2. PICK b \in Files(N) : Went(dbg, G, "float", f, b) /\ Went(dbg, G, "byte", b, x)
    BY <1>3 DEF Down
  <2>3. Went(dbg, H, "float", f, b) /\ Went(dbg, H, "byte", b, x)
    BY <2>2, WentStays DEF Extends
  <2>4. Edge(dbg, H, N, g, x)
    BY <2>1, <2>3 DEF Edge
  <2> QED  BY <2>1, <2>4 DEF Down
<1> QED  BY <1>1, <1>2, <1>3 DEF DownLeft

\* Float seeds that are determined before the long stage are so after it: what
\* lets Determined be about the files between runs.
LEMMA LongKeepsFixed ==
    ASSUME NEW dbg \in BOOLEAN, NEW G, Known(G), NEW N \in Lengths, NEW x \in Files(N), NEW a \in Files(N),
           Fixed(dbg, "float", x), Went(dbg, G, "long", x, a)
    PROVE  Fixed(dbg, "float", a)
<1>1. Range(WordsOf("float", x)) = Range(WordsOf("float", a))
  BY WentAlike DEF Alike, Stages
<1> QED  BY <1>1, FixedAlike DEF Stages

\* A shuffle has one result, and comes from one file.
LEMMA EdgeOnce ==
    ASSUME NEW dbg \in BOOLEAN, NEW G, Known(G), NEW N \in Lengths, NEW x \in Files(N), NEW y, NEW z,
           Fixed(dbg, "float", x), Edge(dbg, G, N, x, y), Edge(dbg, G, N, x, z)
    PROVE  y = z
<1>1. PICK a \in Files(N), b \in Files(N) :
         Went(dbg, G, "long", x, a) /\ Went(dbg, G, "float", a, b) /\ Went(dbg, G, "byte", b, y)
  BY DEF Edge
<1>2. PICK c \in Files(N), d \in Files(N) :
         Went(dbg, G, "long", x, c) /\ Went(dbg, G, "float", c, d) /\ Went(dbg, G, "byte", d, z)
  BY DEF Edge
<1>3. "long" \in Stages \ {"float"} /\ "byte" \in Stages \ {"float"} /\ "float" \in Stages
  BY DEF Stages
<1>4. a = c
  BY <1>1, <1>2, <1>3, OthersFixed, WentOnce
<1>5. Fixed(dbg, "float", a)
  BY <1>1, LongKeepsFixed
<1>6. b = d
  BY <1>1, <1>2, <1>3, <1>4, <1>5, WentOnce
<1> QED  BY <1>1, <1>2, <1>3, <1>6, OthersFixed, WentOnce

LEMMA EdgeBack ==
    ASSUME NEW dbg \in BOOLEAN, NEW G, Known(G), NEW N \in Lengths, NEW x \in Files(N), NEW z \in Files(N),
           NEW y, Fixed(dbg, "float", x), Edge(dbg, G, N, x, y), Edge(dbg, G, N, z, y)
    PROVE  x = z
<1>1. PICK a \in Files(N), b \in Files(N) :
         Went(dbg, G, "long", x, a) /\ Went(dbg, G, "float", a, b) /\ Went(dbg, G, "byte", b, y)
  BY DEF Edge
<1>2. PICK c \in Files(N), d \in Files(N) :
         Went(dbg, G, "long", z, c) /\ Went(dbg, G, "float", c, d) /\ Went(dbg, G, "byte", d, y)
  BY DEF Edge
<1>3. "long" \in Stages \ {"float"} /\ "byte" \in Stages \ {"float"} /\ "float" \in Stages
  BY DEF Stages
<1>4. b = d
  BY <1>1, <1>2, <1>3, OthersFixed, WentBack
<1>5. Fixed(dbg, "float", a)
  BY <1>1, LongKeepsFixed
<1>6. a = c
  BY <1>1, <1>2, <1>3, <1>4, <1>5, WentBack
<1> QED  BY <1>1, <1>2, <1>3, <1>6, OthersFixed, WentBack

\* What Gone says stays true with more generators, a run's way so far as well.
LEMMA WayStays ==
    ASSUME NEW dbg, NEW G, NEW H, Extends(H, G), NEW N, NEW x, NEW left, NEW f
    PROVE  /\ Up(dbg, G, N, x, left, f) => Up(dbg, H, N, x, left, f)
           /\ Down(dbg, G, N, x, left, f) => Down(dbg, H, N, x, left, f)
<1>1. \A s, y, z : Went(dbg, G, s, y, z) => Went(dbg, H, s, y, z)
  BY WentStays DEF Extends
<1>2. \A y, z : Edge(dbg, G, N, y, z) => Edge(dbg, H, N, y, z)
  BY EdgeStays
<1>3. ASSUME Up(dbg, G, N, x, left, f) PROVE Up(dbg, H, N, x, left, f)
  BY <1>1, <1>2, <1>3 DEF Up
<1>4. ASSUME Down(dbg, G, N, x, left, f) PROVE Down(dbg, H, N, x, left, f)
  BY <1>1, <1>2, <1>4 DEF Down
<1> QED  BY <1>3, <1>4

\* BegunWith of Work, as a function of the file and the generators.
WholeIn(dbg, G, N, o, s, fs) == UNION { BackIn(dbg, G, o, s, f, N) : f \in fs }

BegunIn(dbg, G, N, o, m, f, d) ==
    LET s == Order(o)
    IN  CASE m = 1 -> BackIn(dbg, G, o, s[1], f, d)
          [] m = 2 -> WholeIn(dbg, G, N, o, s[1], BackIn(dbg, G, o, s[2], f, d))
          [] m = 3 -> WholeIn(dbg, G, N, o, s[1], WholeIn(dbg, G, N, o, s[2], BackIn(dbg, G, o, s[3], f, d)))

\* The whole stages before the one that was left are taken back after it.
LEMMA Begun ==
    ASSUME NEW dbg, NEW G, Known(G), NEW N \in Lengths, NEW o \in {"shuffle", "unshuffle"},
           NEW x \in Files(N), NEW a \in Files(N), NEW b \in Files(N), NEW g, NEW d
    PROVE  /\ x \in BackIn(dbg, G, o, Order(o)[1], g, d) => x \in BegunIn(dbg, G, N, o, 1, g, d)
           /\ Gone(dbg, G, o, Order(o)[1], x, a) /\ a \in BackIn(dbg, G, o, Order(o)[2], g, d)
              => x \in BegunIn(dbg, G, N, o, 2, g, d)
           /\ Gone(dbg, G, o, Order(o)[1], x, a) /\ Gone(dbg, G, o, Order(o)[2], a, b)
              /\ b \in BackIn(dbg, G, o, Order(o)[3], g, d)
              => x \in BegunIn(dbg, G, N, o, 3, g, d)
<1>1. \A m \in 1 .. 3 : Order(o)[m] \in Stages
  BY DEF Order, Stages
<1>2. ASSUME NEW s \in Stages, NEW y \in Files(N), NEW z \in Files(N), Gone(dbg, G, o, s, y, z),
             NEW fs, z \in fs
      PROVE  y \in WholeIn(dbg, G, N, o, s, fs)
  <2>1. N \in Nat /\ N >= WordCount(N, Width[s]) - 1
    BY WidthType, LengthsAssumption, CountAtMost
  <2>2. y \in BackIn(dbg, G, o, s, z, N)
    BY <1>2, <2>1, GoneBack
  <2> QED  BY <1>2, <2>2 DEF WholeIn
<1> DEFINE s1 == Order(o)[1]
           s2 == Order(o)[2]
           s3 == Order(o)[3]
<1>3. s1 \in Stages /\ s2 \in Stages /\ s3 \in Stages
  BY <1>1
<1>4. /\ BegunIn(dbg, G, N, o, 1, g, d) = BackIn(dbg, G, o, s1, g, d)
      /\ BegunIn(dbg, G, N, o, 2, g, d) = WholeIn(dbg, G, N, o, s1, BackIn(dbg, G, o, s2, g, d))
      /\ BegunIn(dbg, G, N, o, 3, g, d)
            = WholeIn(dbg, G, N, o, s1, WholeIn(dbg, G, N, o, s2, BackIn(dbg, G, o, s3, g, d)))
  BY DEF BegunIn
<1> HIDE DEF s1, s2, s3
<1>5. Gone(dbg, G, o, s1, x, a) /\ a \in BackIn(dbg, G, o, s2, g, d)
      => x \in BegunIn(dbg, G, N, o, 2, g, d)
  BY <1>2, <1>3, <1>4
<1>6. Gone(dbg, G, o, s1, x, a) /\ Gone(dbg, G, o, s2, a, b) /\ b \in BackIn(dbg, G, o, s3, g, d)
      => x \in BegunIn(dbg, G, N, o, 3, g, d)
  <2> SUFFICES ASSUME Gone(dbg, G, o, s1, x, a), Gone(dbg, G, o, s2, a, b), b \in BackIn(dbg, G, o, s3, g, d)
               PROVE  x \in BegunIn(dbg, G, N, o, 3, g, d)
    OBVIOUS
  <2>1. a \in WholeIn(dbg, G, N, o, s2, BackIn(dbg, G, o, s3, g, d))
    BY <1>2, <1>3
  <2> QED  BY <1>2, <1>3, <1>4, <2>1
<1> QED  BY <1>4, <1>5, <1>6 DEF s1, s2, s3

\* Recoverable of Work, of a run that began with x and left g.
CameFrom(dbg, G, N, x, g) ==
    \/ g = x
    \/ \E o \in {"shuffle", "unshuffle"}, m \in 1 .. 3 :
          \E d \in 0 .. WordCount(N, Width[Order(o)[m]]) : x \in BegunIn(dbg, G, N, o, m, g, d)

\* A run of o from x that has left to do comes from x; so it does after some rounds of its next stage.
LEMMA WayBack ==
    ASSUME NEW dbg, NEW G, Known(G), NEW N \in Lengths, NEW x \in Files(N), NEW f \in Files(N), NEW g,
           NEW o \in {"shuffle", "unshuffle"}, NEW left \in IF o = "shuffle" THEN UpLeft ELSE DownLeft,
           IF o = "shuffle" THEN Up(dbg, G, N, x, left, f) ELSE Down(dbg, G, N, x, left, f),
           \/ g = f
           \/ /\ left # <<>>
              /\ \E d \in 0 .. WordCount(N, Width[Head(left)]) : f \in BackIn(dbg, G, o, Head(left), g, d)
    PROVE  CameFrom(dbg, G, N, x, g)
<1> DEFINE s1 == Order(o)[1]
           s2 == Order(o)[2]
           s3 == Order(o)[3]
           In(m) == \E d \in 0 .. WordCount(N, Width[Order(o)[m]]) : x \in BegunIn(dbg, G, N, o, m, g, d)
           Part(y, s) == \E d \in 0 .. WordCount(N, Width[s]) : y \in BackIn(dbg, G, o, s, g, d)
<1>1. s1 \in Stages /\ s2 \in Stages /\ s3 \in Stages
  BY DEF Order, Stages
<1>2. ASSUME NEW m \in 1 .. 3, In(m) PROVE CameFrom(dbg, G, N, x, g)
  BY <1>2 DEF CameFrom
<1>3. ASSUME NEW y \in Files(N), NEW z \in Files(N), NEW s \in Stages, Gone(dbg, G, o, s, y, z), g = z
      PROVE  Part(y, s)
  <2>1. WordCount(N, Width[s]) \in Nat
    BY FilesAre
  <2>2. WordCount(N, Width[s]) \in 0 .. WordCount(N, Width[s])
        /\ WordCount(N, Width[s]) >= WordCount(N, Width[s]) - 1
    BY <2>1
  <2> QED  BY <1>3, <2>1, <2>2, GoneBack
<1>4. left = <<s1, s2, s3>> \/ left = <<s2, s3>> \/ left = <<s3>> \/ left = <<>>
  BY DEF UpLeft, DownLeft, Order
<1>5. /\ left = <<s1, s2, s3>> => f = x
      /\ left = <<s2, s3>> => Gone(dbg, G, o, s1, x, f)
      /\ left = <<s3>> => \E a \in Files(N) : Gone(dbg, G, o, s1, x, a) /\ Gone(dbg, G, o, s2, a, f)
      /\ left = <<>> => \E a, b \in Files(N) :
            Gone(dbg, G, o, s1, x, a) /\ Gone(dbg, G, o, s2, a, b) /\ Gone(dbg, G, o, s3, b, f)
  <2>1. CASE o = "shuffle"
    BY <2>1 DEF Up, Edge, Gone, Order
  <2>2. CASE o = "unshuffle"
    BY <2>2 DEF Down, Edge, Gone, Order
  <2> QED  BY <2>1, <2>2
<1>6. g = f \/ (left # <<>> /\ Part(f, Head(left)))
  OBVIOUS
<1> USE DEF Part
<1>7. /\ Part(x, s1) => In(1)
      /\ \A a \in Files(N) : Gone(dbg, G, o, s1, x, a) /\ Part(a, s2) => In(2)
      /\ \A a, b \in Files(N) : Gone(dbg, G, o, s1, x, a) /\ Gone(dbg, G, o, s2, a, b) /\ Part(b, s3) => In(3)
  BY Begun
<1> HIDE DEF s1, s2, s3, In, Part
<1>8. CASE left = <<s1, s2, s3>>
  <2>1. g = x \/ Part(x, s1)
    BY <1>5, <1>6, <1>8
  <2> QED  BY <1>2, <1>7, <2>1 DEF CameFrom
<1>9. CASE left = <<s2, s3>>
  <2>1. CASE g = f
    BY <1>1, <1>2, <1>3, <1>5, <1>7, <1>9, <2>1
  <2>2. CASE Part(f, s2)
    BY <1>2, <1>5, <1>7, <1>9, <2>2
  <2> QED  BY <1>6, <1>9, <2>1, <2>2
<1>10. CASE left = <<s3>>
  <2>1. PICK a \in Files(N) : Gone(dbg, G, o, s1, x, a) /\ Gone(dbg, G, o, s2, a, f)
    BY <1>5, <1>10
  <2>2. CASE g = f
    BY <1>1, <1>2, <1>3, <1>7, <2>1, <2>2
  <2>3. CASE Part(f, s3)
    BY <1>2, <1>7, <2>1, <2>3
  <2> QED  BY <1>6, <1>10, <2>2, <2>3
<1>11. CASE left = <<>>
  <2>1. PICK a \in Files(N), b \in Files(N) :
           Gone(dbg, G, o, s1, x, a) /\ Gone(dbg, G, o, s2, a, b) /\ Gone(dbg, G, o, s3, b, f)
    BY <1>5, <1>11
  <2>2. Part(b, s3)
    BY <1>1, <1>3, <1>6, <1>11, <2>1
  <2> QED  BY <1>2, <1>7, <2>1, <2>2
<1> QED  BY <1>4, <1>8, <1>9, <1>10, <1>11

-----------------------------------------------------------------------------
(* The invariant of the program.                                            *)

\* The types, with what every run leaves of the file: its bytes.
Typed ==
    /\ debug \in BOOLEAN /\ debug \in Builds
    /\ FileSize \in Lengths /\ file \in Files(FileSize)
    /\ Known(gens)
    /\ depth \in DOMAIN seen /\ 0 \in DOMAIN seen /\ DOMAIN seen \subseteq Depths
    /\ \A x, y \in DOMAIN seen : x .. y \subseteq DOMAIN seen
    /\ \A d \in DOMAIN seen : seen[d] \in Files(FileSize) /\ SameObjects(seen[d], file)

\* What the program point says of the locals, and how the process ended.
Point ==
    /\ op \in {"none", "shuffle", "unshuffle", "dead"}
    /\ op \in {"none", "dead"} => todo = <<>>
    /\ op = "shuffle" => todo \in UpLeft /\ depth + 1 \in Depths
    /\ op = "unshuffle" => todo \in DownLeft /\ depth - 1 \in Depths
    /\ status \in {"none", "0", "1", "abort", "killed"}

\* Each edge between depths is a shuffle, and the running process is where its
\* stages have brought it.
Walks ==
    /\ \A e \in DOMAIN seen : e + 1 \in DOMAIN seen => Edge(debug, gens, FileSize, seen[e], seen[e+1])
    /\ op = "none" => file = seen[depth]
    /\ op = "shuffle" => Up(debug, gens, FileSize, seen[depth], todo, file)
    /\ op = "unshuffle" => Down(debug, gens, FileSize, seen[depth], todo, file)

WorkInv == Typed /\ Point /\ (Determined => Walks)

\* What a stage does up to one of its loop indices.
LEMMA RunGoes ==
    ASSUME Typed, Point, todo # <<>>, op \in {"shuffle", "unshuffle"}, Objects > 1,
           NEW k \in 0 .. Objects - 1, RunTo(k)
    PROVE  /\ FileSize' = FileSize /\ file' \in Files(FileSize) /\ SameObjects(file, file')
           /\ Known(gens') /\ Extends(gens', gens)
           /\ Objects = WordCount(FileSize, Width[Head(todo)])
           /\ \E seed \in SeedsIn(debug, Head(todo), file) :
                 /\ <<Head(todo), seed>> \in DOMAIN gens'
                 /\ file' = RunOf(op, Head(todo), file, gens'[<<Head(todo), seed>>], k)
           /\ \E d \in 0 .. Objects : file \in BackIn(debug, gens', op, Head(todo), file', d)
<1> DEFINE N == FileSize
           s == Head(todo)
           n == WordCount(N, Width[s])
<1>1. N \in Lengths /\ file \in Files(N) /\ s \in Stages /\ N = Cardinality(DOMAIN file)
  BY Lists DEF Point, Typed, FileSize
<1>2. Objects = n /\ n \in Nat
  BY <1>1, FilesAre DEF Objects
<1>3. PICK seed \in Seeds(s, file) : \E draw \in DrawsOf(s, seed) :
        /\ gens' = [g \in DOMAIN gens \cup {<<s, seed>>} |-> IF g = <<s, seed>> THEN draw ELSE gens[g]]
        /\ file' = WithWords(file, Width[s], Loop(op, Reinterpret(file, Width[s]), Objects, draw)[k])
  BY DEF RunTo
<1>4. PICK draw \in DrawsOf(s, seed) :
        /\ gens' = [g \in DOMAIN gens \cup {<<s, seed>>} |-> IF g = <<s, seed>> THEN draw ELSE gens[g]]
        /\ file' = WithWords(file, Width[s], Loop(op, WordsOf(s, file), n, draw)[k])
  BY <1>2, <1>3 DEF WordsOf
<1>5. seed \in SeedsIn(debug, s, file)
  BY DEF Seeds, SeedsIn, WordsOf
<1> HIDE DEF N, s, n
<1>6. draw \in Draws[s] /\ (<<s, seed>> \in DOMAIN gens => draw = gens[<<s, seed>>])
  BY DEF DrawsOf, Typed, Known
<1>7. <<s, seed>> \in DOMAIN gens' /\ gens'[<<s, seed>>] = draw
  BY <1>4
<1>8. Known(gens')
  BY <1>4, <1>6 DEF Typed, Known
<1>9. Extends(gens', gens)
  BY <1>4, <1>6 DEF Extends
<1>10. file' = RunOf(op, s, file, gens'[<<s, seed>>], k)
  BY <1>1, <1>4, <1>7 DEF RunOf, n
<1>11. /\ file' \in Files(N) /\ SameObjects(file, file')
       /\ \A d \in Nat : Rounds(op, n, k, d) => file \in BackIn(debug, gens', op, s, file', d)
  <2>1. n > 1 /\ k \in 0 .. n-1
    BY <1>2
  <2> QED  BY <1>1, <1>5, <1>7, <1>8, <1>10, <2>1, RunBack DEF n
<1>12. FileSize' = N
  BY <1>1, <1>11, FilesAre DEF FileSize
<1>13. \E d \in 0 .. n : file \in BackIn(debug, gens', op, s, file', d)
  <2> DEFINE d == IF op = "shuffle" THEN n-1-k ELSE k
  <2>1. d \in Nat /\ d \in 0 .. n /\ Rounds(op, n, k, d)
    BY <1>2 DEF Rounds
  <2> QED  BY <1>11, <2>1
<1> QED  BY <1>2, <1>5, <1>7, <1>8, <1>9, <1>10, <1>11, <1>12, <1>13 DEF N, s, n

\* What the steps of a stage do.
LEMMA StageGoes ==
    ASSUME Typed, Point, Stage \/ StageSkipped
    PROVE  /\ FileSize' = FileSize /\ file' \in Files(FileSize) /\ SameObjects(file, file')
           /\ Known(gens') /\ Extends(gens', gens)
           /\ op = "shuffle" => Went(debug, gens', Head(todo), file, file')
           /\ op = "unshuffle" => Went(debug, gens', Head(todo), file', file)
           /\ todo # <<>> /\ todo' = Tail(todo) /\ op \in {"shuffle", "unshuffle"}
           /\ UNCHANGED <<debug, op, status, depth, seen>>
<1> DEFINE N == FileSize
           s == Head(todo)
<1>0. /\ todo # <<>> /\ todo' = Tail(todo) /\ op \in {"shuffle", "unshuffle"}
      /\ UNCHANGED <<debug, op, status, depth, seen>>
  BY DEF Stage, StageSkipped, Point
<1>1. N \in Lengths /\ file \in Files(N) /\ s \in Stages /\ N = Cardinality(DOMAIN file)
  BY <1>0, Lists DEF Point, Typed, FileSize
<1>2. N \in Nat /\ WordCount(N, Width[s]) \in Nat /\ file \in SpanOf(N, Byte)
  BY <1>1, FilesAre
<1> HIDE DEF N, s
<1>3. CASE StageSkipped
  <2>1. WordCount(N, Width[s]) <= 1 /\ file' = file /\ gens' = gens
    BY <1>3 DEF StageSkipped, Objects, N, s
  <2>2. SameObjects(file, file) /\ FileSize' = FileSize
    BY <1>2, <2>1, SameObjectsReflexive DEF FileSize
  <2>3. Went(debug, gens', s, file, file')
    BY <1>1, <2>1 DEF Went
  <2>4. Known(gens') /\ Extends(gens', gens)
    BY <2>1 DEF Typed, Extends
  <2> QED  BY <1>0, <1>1, <2>1, <2>2, <2>3, <2>4 DEF N, s
<1>4. CASE Stage
  <2> DEFINE n == WordCount(N, Width[s])
             k == IF op = "shuffle" THEN 0 ELSE n - 1
  <2>1. Objects = n /\ n > 1 /\ RunTo(k)
    BY <1>4 DEF Stage, Objects, N, s
  <2>2. k \in 0 .. Objects - 1
    BY <1>2, <2>1
  <2>3. /\ FileSize' = N /\ file' \in Files(N) /\ SameObjects(file, file')
        /\ Known(gens') /\ Extends(gens', gens)
        /\ \E seed \in SeedsIn(debug, s, file) :
              <<s, seed>> \in DOMAIN gens' /\ file' = RunOf(op, s, file, gens'[<<s, seed>>], k)
    <3> HIDE DEF k, n
    <3> QED  BY <1>0, <2>1, <2>2, RunGoes DEF N, s
  <2>4. PICK seed \in SeedsIn(debug, s, file) :
           <<s, seed>> \in DOMAIN gens' /\ file' = RunOf(op, s, file, gens'[<<s, seed>>], k)
    BY <2>3
  <2>5. ASSUME op = "shuffle" PROVE Went(debug, gens', s, file, file')
    <3>1. file' = Shuffled(s, file, gens'[<<s, seed>>])
      BY <2>4, <2>5 DEF RunOf, Shuffled, Loop
    <3>2. ~(WordCount(Cardinality(DOMAIN file), Width[s]) <= 1)
      BY <1>1, <1>2, <2>1
    <3> QED  BY <2>4, <3>1, <3>2 DEF Went
  <2>6. ASSUME op = "unshuffle" PROVE Went(debug, gens', s, file', file)
    <3>1. file' = Unshuffled(s, file, gens'[<<s, seed>>])
      BY <1>1, <2>4, <2>6 DEF RunOf, Unshuffled, Loop
    <3> QED  BY <1>1, <2>1, <2>3, <2>4, <3>1, WentUnshuffled
  <2> QED  BY <1>0, <2>3, <2>5, <2>6 DEF N, s
<1> QED  BY <1>3, <1>4

\* What the ways to die with the file mapped leave.
LEMMA DeathGoes ==
    ASSUME Typed, Point, SeedNaN \/ ContainerPanics \/ Kill
    PROVE  /\ op \in {"shuffle", "unshuffle"} /\ op' = "dead" /\ todo' = <<>>
           /\ status' \in {"abort", "killed"} /\ UNCHANGED <<debug, depth, seen>>
           /\ FileSize' = FileSize /\ file' \in Files(FileSize) /\ SameObjects(file, file')
           /\ Known(gens') /\ Extends(gens', gens)
           /\ \/ file' = file
              \/ /\ todo # <<>>
                 /\ \E d \in 0 .. WordCount(FileSize, Width[Head(todo)]) :
                       file \in BackIn(debug, gens', op, Head(todo), file', d)
<1>1. /\ op \in {"shuffle", "unshuffle"} /\ op' = "dead" /\ todo' = <<>>
      /\ status' \in {"abort", "killed"} /\ UNCHANGED <<debug, depth, seen>>
  BY DEF SeedNaN, ContainerPanics, Kill, Dies, Point
<1>2. UNCHANGED <<file, gens>> \/ Inside
  BY DEF SeedNaN, ContainerPanics, Kill
<1>3. CASE UNCHANGED <<file, gens>>
  <2>1. FileSize' = FileSize /\ file \in Files(FileSize) /\ FileSize \in Nat /\ file \in SpanOf(FileSize, Byte)
    BY <1>3, LengthsAssumption DEF FileSize, Typed, Files
  <2>2. SameObjects(file, file)
    BY <2>1, SameObjectsReflexive
  <2> QED  BY <1>1, <1>3, <2>1, <2>2 DEF Typed, Extends
<1>4. CASE Inside
  <2>1. PICK k \in 0 .. Objects - 1 : todo # <<>> /\ Objects > 1 /\ RunTo(k)
    BY <1>4 DEF Inside
  <2> QED  BY <1>1, <2>1, RunGoes
<1> QED  BY <1>2, <1>3, <1>4

\* SameObjects both ways.
LEMMA SameThrough ==
    ASSUME NEW N \in Lengths, NEW a \in Files(N), NEW b \in Files(N), NEW c \in Files(N),
           SameObjects(a, b), SameObjects(b, c)
    PROVE  SameObjects(a, c) /\ SameObjects(c, a)
<1>1. N \in Nat /\ a \in SpanOf(N, Byte) /\ b \in SpanOf(N, Byte) /\ c \in SpanOf(N, Byte)
  BY LengthsAssumption DEF Files
<1>2. SameObjects(a, a)
  BY <1>1, SameObjectsReflexive
<1>3. SameObjects(b, a)
  BY <1>1, <1>2, SameObjectsEuclidean
<1>4. SameObjects(a, c) /\ SameObjects(c, a)
  BY <1>1, <1>3, SameObjectsEuclidean
<1> QED  BY <1>4

\* The history after Unmap.
LEMMA SeenNext ==
    ASSUME Typed, Point, Unmap
    PROVE  \E d \in Depths :
              /\ (op = "shuffle" /\ d = depth + 1) \/ (op = "unshuffle" /\ d = depth - 1)
              /\ depth' = d
              /\ d \in DOMAIN seen => seen' = seen
              /\ d \notin DOMAIN seen => seen' = [e \in DOMAIN seen \cup {d} |-> IF e = d THEN file ELSE seen[e]]
              /\ d \in Int /\ depth \in Int /\ todo = <<>>
              /\ op' = "none" /\ status' = "0" /\ UNCHANGED <<debug, file, todo, gens>>
BY WorkDepthsAssumption DEF Typed, Point, Unmap

LEMMA InitInv == Init => WorkInv
<1> SUFFICES ASSUME Init PROVE WorkInv
  OBVIOUS
<1>1. PICK n \in Lengths : file \in SpanOf(n, Byte)
  BY DEF Init
<1>2. n \in Nat
  BY LengthsAssumption
<1>3. FileSize = n /\ file \in Files(FileSize)
  BY <1>1, <1>2, SizeOf DEF FileSize, Files
<1>4. SameObjects(file, file)
  BY <1>1, <1>2, SameObjectsReflexive
<1>5. seen = [d \in {0} |-> file] /\ depth = 0 /\ DOMAIN seen = {0} /\ seen[0] = file
  BY DEF Init
<1>6. Typed
  <2>1. debug \in BOOLEAN /\ debug \in Builds /\ Known(gens)
    BY WorkBuildsAssumption DEF Init, Known
  <2>2. \A x, y \in DOMAIN seen : x .. y \subseteq DOMAIN seen
    BY <1>5
  <2> QED  BY <1>3, <1>4, <1>5, <2>1, <2>2, WorkDepthsAssumption DEF Typed
<1>7. Point
  BY DEF Init, Point
<1>8. Walks
  BY <1>5 DEF Init, Walks
<1> QED  BY <1>6, <1>7, <1>8 DEF WorkInv

\* The runs that touch neither the file nor the history.
LEMMA FrameTyped ==
    ASSUME Typed, UNCHANGED <<debug, file, gens, depth, seen>>
    PROVE  Typed' /\ FileSize' = FileSize
<1>1. FileSize' = FileSize
  BY DEF FileSize
<1> QED  BY <1>1 DEF Typed, Known

LEMMA NextTyped ==
    ASSUME Typed, Point, [Next]_vars
    PROVE  Typed'
<1>1. CASE Help \/ MapFails \/ MapShuffle \/ MapUnshuffle \/ UNCHANGED vars
  <2>1. UNCHANGED <<debug, file, gens, depth, seen>>
    BY <1>1 DEF Help, MapFails, MapShuffle, MapUnshuffle, Map, vars
  <2> QED  BY <2>1, FrameTyped
<1>2. CASE Stage \/ StageSkipped \/ SeedNaN \/ ContainerPanics \/ Kill
  <2>1. /\ FileSize' = FileSize /\ file' \in Files(FileSize) /\ SameObjects(file, file')
        /\ Known(gens') /\ UNCHANGED <<debug, depth, seen>>
    BY <1>2, StageGoes, DeathGoes
  <2>2. \A d \in DOMAIN seen : seen[d] \in Files(FileSize) /\ SameObjects(seen[d], file')
    BY <2>1, SameThrough DEF Typed
  <2> QED  BY <2>1, <2>2 DEF Typed, Known
<1>3. CASE Unmap
  <2>1. PICK d \in Depths :
           /\ (op = "shuffle" /\ d = depth + 1) \/ (op = "unshuffle" /\ d = depth - 1)
           /\ depth' = d
           /\ d \in DOMAIN seen => seen' = seen
           /\ d \notin DOMAIN seen => seen' = [e \in DOMAIN seen \cup {d} |-> IF e = d THEN file ELSE seen[e]]
           /\ d \in Int /\ depth \in Int /\ UNCHANGED <<debug, file, gens>>
    BY <1>3, SeenNext
  <2>2. FileSize' = FileSize
    BY <2>1 DEF FileSize
  <2>3. CASE d \in DOMAIN seen
    <3>1. seen' = seen
      BY <2>1, <2>3
    <3> QED  BY <2>1, <2>2, <2>3, <3>1 DEF Typed, Known
  <2>4. CASE d \notin DOMAIN seen
    <3>1. DOMAIN seen' = DOMAIN seen \cup {d} /\ seen'[d] = file /\ \A e \in DOMAIN seen : seen'[e] = seen[e]
      BY <2>1, <2>4
    <3>2. SameObjects(file, file)
      <4>1. FileSize \in Nat /\ file \in SpanOf(FileSize, Byte)
        BY FilesAre, LengthsAssumption DEF Typed, Files
      <4> QED  BY <4>1, SameObjectsReflexive
    <3>3. \A e \in DOMAIN seen' : seen'[e] \in Files(FileSize) /\ SameObjects(seen'[e], file)
      BY <3>1, <3>2 DEF Typed
    <3>4. \A x, y \in DOMAIN seen' : x .. y \subseteq DOMAIN seen'
      <4>1. \A x \in DOMAIN seen : x \in Int
        BY WorkDepthsAssumption DEF Typed
      <4>2. depth \in DOMAIN seen /\ depth \in Int /\ (d = depth + 1 \/ d = depth - 1)
        BY <2>1 DEF Typed
      <4> SUFFICES ASSUME NEW x \in DOMAIN seen', NEW y \in DOMAIN seen', NEW z \in x .. y
                   PROVE  z \in DOMAIN seen'
        OBVIOUS
      <4>3. x \in Int /\ y \in Int /\ z \in Int /\ x <= z /\ z <= y
        BY <2>1, <3>1, <4>1
      <4>4. \A u, v \in DOMAIN seen : u .. v \subseteq DOMAIN seen
        BY DEF Typed
      <4>5. CASE x \in DOMAIN seen /\ y \in DOMAIN seen
        BY <3>1, <4>4, <4>5
      <4>6. CASE x = d /\ y \in DOMAIN seen
        <5>1. z = d \/ z \in depth .. y \/ z \in y .. depth
          BY <4>2, <4>3, <4>6
        <5> QED  BY <3>1, <4>2, <4>4, <4>6, <5>1
      <4>7. CASE x \in DOMAIN seen /\ y = d
        <5>1. z = d \/ z \in x .. depth \/ z \in depth .. x
          BY <4>2, <4>3, <4>7
        <5> QED  BY <3>1, <4>2, <4>4, <4>7, <5>1
      <4>8. CASE x = d /\ y = d
        <5>1. z = d
          BY <4>3, <4>8
        <5> QED  BY <3>1, <5>1
      <4> QED  BY <3>1, <4>5, <4>6, <4>7, <4>8
    <3>5. 0 \in DOMAIN seen' /\ depth' \in DOMAIN seen' /\ DOMAIN seen' \subseteq Depths
      BY <2>1, <3>1 DEF Typed
    <3> QED  BY <2>1, <2>2, <3>3, <3>4, <3>5 DEF Typed, Known
  <2> QED  BY <2>3, <2>4
<1> QED  BY <1>1, <1>2, <1>3 DEF Next

LEMMA NextPoint ==
    ASSUME Typed, Point, [Next]_vars
    PROVE  Point'
<1>1. CASE Help \/ MapFails \/ UNCHANGED vars
  BY <1>1 DEF Point, Help, MapFails, vars
<1>5. CASE SeedNaN \/ ContainerPanics \/ Kill
  BY <1>5, DeathGoes DEF Point
<1>2. CASE MapShuffle \/ MapUnshuffle
  BY <1>2 DEF Point, MapShuffle, MapUnshuffle, Map, Order, UpLeft, DownLeft
<1>3. CASE Stage \/ StageSkipped
  <2>1. /\ todo # <<>> /\ todo' = Tail(todo) /\ op \in {"shuffle", "unshuffle"}
        /\ UNCHANGED <<debug, op, status, depth>>
    BY <1>3, StageGoes
  <2>2. /\ op = "shuffle" => todo' \in UpLeft
        /\ op = "unshuffle" => todo' \in DownLeft
    BY <2>1, Lists DEF Point
  <2> QED  BY <2>1, <2>2 DEF Point
<1>4. CASE Unmap
  BY <1>4 DEF Unmap, Point
<1> QED  BY <1>1, <1>2, <1>3, <1>4, <1>5 DEF Next

\* What is remembered of a depth stays.
LEMMA Remembered ==
    ASSUME Typed, Point, [Next]_vars
    PROVE  debug' = debug /\ \A e \in DOMAIN seen : e \in DOMAIN seen' /\ seen'[e] = seen[e]
<1>1. CASE ~Unmap
  <2>1. debug' = debug /\ seen' = seen
    BY <1>1, StageGoes, DeathGoes DEF Next, Help, MapFails, MapShuffle, MapUnshuffle, Map, vars
  <2> QED  BY <2>1
<1>2. CASE Unmap
  BY <1>2, SeenNext
<1> QED  BY <1>1, <1>2

LEMMA DeterminedBefore ==
    ASSUME Typed, Point, [Next]_vars, Determined'
    PROVE  Determined
<1>1. debug' = debug /\ \A e \in DOMAIN seen : e \in DOMAIN seen' /\ seen'[e] = seen[e]
  BY Remembered
<1> SUFFICES ASSUME NEW e \in DOMAIN seen, e + 1 \in DOMAIN seen PROVE FloatDetermined(e)
  BY DEF Determined
<1>2. FloatDetermined(e)'
  BY <1>1 DEF Determined
<1> QED  BY <1>1, <1>2 DEF FloatDetermined

LEMMA NextWalks ==
    ASSUME Typed, Point, Determined, Walks, [Next]_vars
    PROVE  Walks'
<1>1. CASE Help \/ MapFails \/ UNCHANGED vars
  BY <1>1 DEF Walks, FileSize, Point, Help, MapFails, vars
<1>5. CASE SeedNaN \/ ContainerPanics \/ Kill
  <2>1. FileSize' = FileSize /\ Extends(gens', gens) /\ op' = "dead" /\ UNCHANGED <<debug, depth, seen>>
    BY <1>5, DeathGoes
  <2>2. \A e \in DOMAIN seen : e + 1 \in DOMAIN seen => Edge(debug, gens', FileSize, seen[e], seen[e+1])
    BY <2>1, EdgeStays DEF Walks
  <2> QED  BY <2>1, <2>2 DEF Walks
<1>2. CASE MapShuffle \/ MapUnshuffle
  <2>1. /\ UNCHANGED <<debug, file, gens, depth, seen>> /\ file = seen[depth] /\ FileSize' = FileSize
        /\ \/ op' = "shuffle" /\ todo' = <<"long", "float", "byte">>
           \/ op' = "unshuffle" /\ todo' = <<"byte", "float", "long">>
    BY <1>2 DEF Walks, FileSize, MapShuffle, MapUnshuffle, Map, Order
  <2>2. /\ op' = "shuffle" => Up(debug, gens, FileSize, seen[depth], todo', file)
        /\ op' = "unshuffle" => Down(debug, gens, FileSize, seen[depth], todo', file)
    BY <2>1 DEF Up, Down
  <2> QED  BY <2>1, <2>2 DEF Walks
<1>3. CASE Stage \/ StageSkipped
  <2>1. /\ FileSize' = FileSize /\ Extends(gens', gens)
        /\ op = "shuffle" => Went(debug, gens', Head(todo), file, file')
        /\ op = "unshuffle" => Went(debug, gens', Head(todo), file', file)
        /\ todo # <<>> /\ todo' = Tail(todo) /\ op \in {"shuffle", "unshuffle"}
        /\ UNCHANGED <<debug, op, status, depth, seen>>
    BY <1>3, StageGoes
  <2>2. \A e \in DOMAIN seen : e + 1 \in DOMAIN seen => Edge(debug, gens', FileSize, seen[e], seen[e+1])
    BY <2>1, EdgeStays DEF Walks
  <2>3. ASSUME op = "shuffle" PROVE Up(debug, gens', FileSize, seen[depth], Tail(todo), file')
    BY <2>1, <2>3, UpStep DEF Walks, Point, Typed
  <2>4. ASSUME op = "unshuffle" PROVE Down(debug, gens', FileSize, seen[depth], Tail(todo), file')
    BY <2>1, <2>4, DownStep DEF Walks, Point, Typed
  <2> QED  BY <2>1, <2>2, <2>3, <2>4 DEF Walks
<1>4. CASE Unmap
  <2>1. PICK d \in Depths :
           /\ (op = "shuffle" /\ d = depth + 1) \/ (op = "unshuffle" /\ d = depth - 1)
           /\ depth' = d
           /\ d \in DOMAIN seen => seen' = seen
           /\ d \notin DOMAIN seen => seen' = [e \in DOMAIN seen \cup {d} |-> IF e = d THEN file ELSE seen[e]]
           /\ d \in Int /\ depth \in Int /\ todo = <<>>
           /\ op' = "none" /\ UNCHANGED <<debug, file, todo, gens>>
    BY <1>4, SeenNext
  <2>2. FileSize' = FileSize
    BY <2>1 DEF FileSize
  <2>3. /\ op = "shuffle" => Edge(debug, gens, FileSize, seen[depth], file)
        /\ op = "unshuffle" => Edge(debug, gens, FileSize, file, seen[depth])
    BY <2>1 DEF Walks, Up, Down
  <2>4. CASE d \in DOMAIN seen
    <3>1. file = seen[d]
      <4>1. /\ debug \in BOOLEAN /\ FileSize \in Lengths /\ Known(gens) /\ file \in Files(FileSize)
            /\ depth \in DOMAIN seen /\ \A e \in DOMAIN seen : seen[e] \in Files(FileSize)
        BY DEF Typed
      <4>2. CASE op = "shuffle"
        <5>1. d = depth + 1 /\ FloatDetermined(depth) /\ Edge(debug, gens, FileSize, seen[depth], seen[d])
          BY <2>1, <2>4, <4>1, <4>2 DEF Determined, Walks
        <5>2. Fixed(debug, "float", seen[depth])
          BY <5>1 DEF FloatDetermined, Fixed, WordsOf
        <5> QED  BY <2>3, <4>1, <4>2, <5>1, <5>2, EdgeOnce
      <4>3. CASE op = "unshuffle"
        <5>1. d + 1 = depth /\ FloatDetermined(d) /\ Edge(debug, gens, FileSize, seen[d], seen[depth])
          <6>1. d + 1 = depth
            BY <2>1, <4>3
          <6> QED  BY <2>4, <4>1, <6>1 DEF Determined, Walks
        <5>2. Fixed(debug, "float", seen[d])
          BY <5>1 DEF FloatDetermined, Fixed, WordsOf
        <5> QED  BY <2>3, <2>4, <4>1, <4>3, <5>1, <5>2, EdgeBack
      <4> QED  BY <2>1, <4>2, <4>3
    <3> QED  BY <2>1, <2>2, <2>4, <3>1 DEF Walks
  <2>5. CASE d \notin DOMAIN seen
    <3>1. DOMAIN seen' = DOMAIN seen \cup {d} /\ seen'[d] = file /\ \A e \in DOMAIN seen : seen'[e] = seen[e]
      BY <2>1, <2>5
    <3>2. ASSUME NEW e \in DOMAIN seen', e + 1 \in DOMAIN seen'
          PROVE  Edge(debug, gens, FileSize, seen'[e], seen'[e+1])
      <4>0. depth \in DOMAIN seen /\ \A x, y \in DOMAIN seen : x .. y \subseteq DOMAIN seen
        BY DEF Typed
      <4>i. \A x \in DOMAIN seen : x \in Int
        BY WorkDepthsAssumption DEF Typed
      <4>1. CASE e \in DOMAIN seen /\ e + 1 \in DOMAIN seen
        BY <3>1, <4>1 DEF Walks
      <4>2. CASE e = d /\ e + 1 \in DOMAIN seen
        <5>1. e + 1 = depth
          <6>1. CASE d = depth + 1
            <7>1. d \in depth .. e + 1
              BY <2>1, <4>2, <6>1
            <7> QED  BY <2>5, <4>0, <4>2, <7>1
          <6>2. CASE d = depth - 1
            BY <2>1, <4>2, <6>2
          <6> QED  BY <2>1, <6>1, <6>2
        <5>2. op = "unshuffle"
          BY <2>1, <4>2, <5>1
        <5> QED  BY <2>3, <3>1, <4>0, <4>2, <5>1, <5>2
      <4>3. CASE e \in DOMAIN seen /\ e + 1 = d
        <5>1. e = depth
          <6>1. CASE d = depth - 1
            <7>1. d \in e .. depth
              BY <2>1, <4>3, <4>i, <6>1
            <7> QED  BY <2>5, <4>0, <4>3, <7>1
          <6>2. CASE d = depth + 1
            BY <2>1, <4>3, <4>i, <6>2
          <6> QED  BY <2>1, <6>1, <6>2
        <5>2. op = "shuffle"
          BY <2>1, <4>3, <5>1
        <5> QED  BY <2>3, <3>1, <4>0, <4>3, <5>1, <5>2
      <4>4. e # d \/ e + 1 # d
        BY <2>1
      <4> QED  BY <3>1, <3>2, <4>1, <4>2, <4>3, <4>4
    <3> QED  BY <2>1, <2>2, <3>1, <3>2 DEF Walks
  <2> QED  BY <2>4, <2>5
<1> QED  BY <1>1, <1>2, <1>3, <1>4, <1>5 DEF Next

LEMMA NextInv == WorkInv /\ [Next]_vars => WorkInv'
<1> SUFFICES ASSUME WorkInv, [Next]_vars PROVE WorkInv'
  OBVIOUS
<1>1. Typed' /\ Point'
  BY NextTyped, NextPoint DEF WorkInv
<1>2. Determined' => Walks'
  BY DeterminedBefore, NextWalks DEF WorkInv
<1> QED  BY <1>1, <1>2 DEF WorkInv

\* Between runs and within them, after crashes and failures too: the bytes of
\* the file, the history, and the stages each edge of it stands for.
THEOREM WorkInvariant == Spec => []WorkInv
BY InitInv, NextInv, PTL DEF Spec

\* The variables have their types (main.c 250-265, work.cpp 40-116).
THEOREM WorkTypeTheorem == Spec => []TypeOK
<1>1. ASSUME WorkInv PROVE TypeOK
  <2>1. file \in UNION { SpanOf(n, Byte) : n \in Lengths }
    BY <1>1 DEF WorkInv, Typed, Files
  <2>2. todo \in Seq(Stages) /\ Len(todo) <= 3
    <3>1. todo \in UpLeft \cup DownLeft
      BY <1>1 DEF WorkInv, Point, UpLeft, DownLeft
    <3> QED  BY <3>1, Lists
  <2> QED  BY <1>1, <2>1, <2>2 DEF WorkInv, Typed, Point, Known, TypeOK
<1> QED  BY <1>1, WorkInvariant, PTL

\* shuffle3 -u undoes shuffle3 -s, and the other way round, in whatever sequence
\* they are run: the file as a whole comes back when the stages of all three
\* widths are undone in reverse order, each seeded from what the others left
\* (README.md 3; work.cpp 58-116).
THEOREM WorkRoundTripTheorem == Spec => []RoundTrip
<1>1. ASSUME WorkInv PROVE RoundTrip
  BY <1>1 DEF WorkInv, Walks, RoundTrip, Reversable
<1> QED  BY <1>1, WorkInvariant, PTL

\* No run loses or invents a byte, between whichever two swaps it dies and in
\* every build (work.cpp 58-116, shuffle.hpp 14-75).
THEOREM BytesTheorem == Spec => []BytesConserved
<1>1. ASSUME WorkInv PROVE BytesConserved
  <2>1. FileSize \in Lengths /\ file \in Files(FileSize) /\ seen[0] \in Files(FileSize) /\ SameObjects(seen[0], file)
    BY <1>1 DEF WorkInv, Typed
  <2>2. FileSize \in Nat
    BY <2>1, LengthsAssumption
  <2> QED  BY <2>1, <2>2, SameObjectsCounts DEF BytesConserved, Files
<1> QED  BY <1>1, WorkInvariant, PTL

\* Recoverable, of the functions above.
LEMMA RecoverableIs ==
    ASSUME Determined /\ op = "dead" => CameFrom(debug, gens, FileSize, seen[depth], file)
    PROVE  Recoverable
<1>1. \A s, f : Seeds(s, f) = SeedsIn(debug, s, f)
  BY DEF Seeds, SeedsIn, WordsOf
<1>2. \A o, s, f, d : Back(o, s, f, d) = BackIn(debug, gens, o, s, f, d)
  BY <1>1, Zenon DEF Back, BackIn, WordsOf
<1>3. \A o, s, fs : WholeBack(o, s, fs) = WholeIn(debug, gens, FileSize, o, s, fs)
  BY <1>2 DEF WholeBack, WholeIn
<1>4. \A o, m, d : BegunWith(o, m, d) = BegunIn(debug, gens, FileSize, o, m, file, d)
  BY <1>2, <1>3, Zenon DEF BegunWith, BegunIn
<1> QED  BY <1>4, Zenon DEF CameFrom, Recoverable

\* Whoever dies is on the way of a run, so many rounds into its next stage.
LEMMA DeathCameFrom ==
    ASSUME WorkInv, Determined, SeedNaN \/ ContainerPanics \/ Kill
    PROVE  CameFrom(debug, gens', FileSize, seen[depth], file')
<1>1. /\ op \in {"shuffle", "unshuffle"} /\ Known(gens') /\ Extends(gens', gens)
      /\ \/ file' = file
         \/ /\ todo # <<>>
            /\ \E d \in 0 .. WordCount(FileSize, Width[Head(todo)]) :
                  file \in BackIn(debug, gens', op, Head(todo), file', d)
  BY DeathGoes DEF WorkInv
<1>2. FileSize \in Lengths /\ file \in Files(FileSize) /\ seen[depth] \in Files(FileSize)
      /\ todo \in IF op = "shuffle" THEN UpLeft ELSE DownLeft
  BY <1>1 DEF WorkInv, Typed, Point
<1>3. IF op = "shuffle" THEN Up(debug, gens, FileSize, seen[depth], todo, file)
      ELSE Down(debug, gens, FileSize, seen[depth], todo, file)
  BY <1>1 DEF WorkInv, Walks
<1>4. IF op = "shuffle" THEN Up(debug, gens', FileSize, seen[depth], todo, file)
      ELSE Down(debug, gens', FileSize, seen[depth], todo, file)
  BY <1>1, <1>3, WayStays
<1> QED  BY <1>1, <1>2, <1>4, WayBack

\* A process that dies, panicking or killed between two swaps, with earlier stages
\* and part of one in the file, has lost nothing: taking back the rounds done and
\* then the stages before, each with the seeds the file has by then, brings back
\* what the run began with (shuffle.hpp 42-73, work.cpp 61-92).
THEOREM RecoveryTheorem == Spec => []Recoverable
<1> DEFINE Left == Determined /\ op = "dead" => CameFrom(debug, gens, FileSize, seen[depth], file)
<1>1. Init => Left
  BY DEF Init
<1>2. WorkInv /\ Left /\ [Next]_vars => Left'
  <2> SUFFICES ASSUME WorkInv, Left, [Next]_vars, Determined', (op = "dead")' PROVE (CameFrom(debug, gens, FileSize, seen[depth], file))'
    OBVIOUS
  <2>1. Determined
    BY DeterminedBefore DEF WorkInv
  <2>2. CASE SeedNaN \/ ContainerPanics \/ Kill
    <3>1. CameFrom(debug, gens', FileSize, seen[depth], file')
      BY <2>1, <2>2, DeathCameFrom
    <3>2. FileSize' = FileSize /\ UNCHANGED <<debug, depth, seen>>
      BY <2>2, DeathGoes DEF WorkInv
    <3> QED  BY <3>1, <3>2
  <2>3. CASE UNCHANGED vars
    BY <2>1, <2>3 DEF vars, FileSize
  <2>4. CASE Help \/ MapFails \/ MapShuffle \/ MapUnshuffle \/ StageSkipped \/ Stage \/ Unmap
    <3>1. op' # "dead"
      <4>1. CASE Help \/ MapFails \/ MapShuffle \/ MapUnshuffle \/ Unmap
        BY <4>1 DEF Help, MapFails, MapShuffle, MapUnshuffle, Map, Unmap
      <4>2. CASE StageSkipped \/ Stage
        BY <4>2, StageGoes DEF WorkInv
      <4> QED  BY <2>4, <4>1, <4>2
    <3> QED  BY <3>1
  <2> QED  BY <2>2, <2>3, <2>4 DEF Next
<1>3. Left => Recoverable
  BY RecoverableIs
<1> HIDE DEF Left
<1> QED  BY <1>1, <1>2, <1>3, WorkInvariant, PTL DEF Spec

-----------------------------------------------------------------------------
(* The program implements Reversible.                                       *)

\* What the abstract file holds.
LEMMA AbstractFile ==
    ASSUME WorkInv, Determined
    PROVE  (IF op = "none" THEN file ELSE seen[depth]) = seen[depth]
BY DEF WorkInv, Walks

\* Reordering means the same to the abstract module.
LEMMA SameRanges == \A a : File!Range(a) = Range(a)
BY DEF File!Range, Range

LEMMA SameCardinality == \A S : File!Cardinality(S) = Cardinality(S)
BY DEF File!Cardinality, Cardinality, File!IsFiniteSet, IsFiniteSet

LEMMA SameCount == \A a, x : File!Count(a, x) = Count(a, x)
BY SameCardinality DEF File!Count, Count

LEMMA SameCounting == \A a, b : SameCounts(a, b) => File!SameCounts(a, b)
BY SameRanges, SameCount DEF SameCounts, File!SameCounts

LEMMA UnmapMoves ==
    ASSUME WorkInv, Determined, WorkInv', Determined', Unmap
    PROVE  File!Next
<1>1. PICK d \in Depths :
         /\ (op = "shuffle" /\ d = depth + 1) \/ (op = "unshuffle" /\ d = depth - 1)
         /\ depth' = d
         /\ d \in DOMAIN seen => seen' = seen
         /\ d \notin DOMAIN seen => seen' = [e \in DOMAIN seen \cup {d} |-> IF e = d THEN file ELSE seen[e]]
         /\ op' = "none" /\ UNCHANGED <<debug, file, todo, gens>>
  BY SeenNext DEF WorkInv
<1> DEFINE c == IF op = "none" THEN file ELSE seen[depth]
<1>2. c = seen[depth] /\ c' = file /\ file = seen'[d]
  <2>1. c = seen[depth]
    BY AbstractFile
  <2>2. c' = file'
    BY <1>1
  <2>3. c' = seen'[depth']
    <3>1. ((IF op = "none" THEN file ELSE seen[depth]) = seen[depth])'
      BY AbstractFile, PTL
    <3> QED  BY <3>1
  <2> QED  BY <1>1, <2>1, <2>2, <2>3
<1>3. /\ FileSize \in Lengths /\ file \in Files(FileSize)
      /\ seen[depth] \in Files(FileSize) /\ SameObjects(seen[depth], file)
  BY DEF WorkInv, Typed
<1> DEFINE N == FileSize
           x == seen[depth]
<1>4. N \in Nat /\ x \in SpanOf(N, Byte) /\ file \in SpanOf(N, Byte) /\ SameObjects(x, file)
  BY <1>3, LengthsAssumption DEF Files
<1>5. SameCounts(x, file) /\ file \in [DOMAIN x -> Range(x)]
  <2> HIDE DEF N, x
  <2>1. SameCounts(x, file)
    BY <1>4, SameObjectsCounts
  <2>2. Range(x) = Range(file)
    BY <1>4, SameObjectsRange
  <2>3. DOMAIN x = 0 .. N-1 /\ DOMAIN file = 0 .. N-1 /\ file \in [0 .. N-1 -> Byte]
    BY <1>4 DEF SpanOf
  <2>4. \A k \in 0 .. N-1 : file[k] \in Range(file)
    BY <2>3 DEF Range
  <2> QED  BY <2>1, <2>2, <2>3, <2>4
<1>6. File!Move(d)
  <2>1. CASE d \in DOMAIN seen
    BY <1>1, <1>2, <2>1 DEF File!Move
  <2>2. CASE d \notin DOMAIN seen
    <3>1. c' \in [DOMAIN c -> Range(c)] /\ SameCounts(c, c')
      BY <1>2, <1>5
    <3>2. seen' = [e \in DOMAIN seen \cup {d} |-> IF e = d THEN c' ELSE seen[e]]
      BY <1>1, <1>2, <2>2
    <3> HIDE DEF c
    <3>3. File!SameCounts(c, c') /\ File!Range(c) = Range(c)
      BY <3>1, SameCounting, SameRanges, Zenon
    <3> QED  BY <1>1, <2>2, <3>1, <3>2, <3>3, Zenon DEF File!Move, c
  <2> QED  BY <2>1, <2>2
<1> QED  BY <1>1, <1>6 DEF File!Next

LEMMA StepRefines ==
    ASSUME WorkInv, Determined, WorkInv', Determined', [Next]_vars
    PROVE  [File!Next]_(File!vars)
<1>1. CASE Unmap
  BY <1>1, UnmapMoves
<1>2. CASE ~Unmap
  <2>1. UNCHANGED <<depth, seen>>
    BY <1>2, StageGoes, DeathGoes DEF WorkInv, Next, Help, MapFails, MapShuffle, MapUnshuffle, Map, vars
  <2>2. (IF op = "none" THEN file ELSE seen[depth]) = seen[depth]
    BY AbstractFile
  <2>3. ((IF op = "none" THEN file ELSE seen[depth]) = seen[depth])'
    BY AbstractFile, PTL
  <2> QED  BY <2>1, <2>2, <2>3 DEF File!vars
<1> QED  BY <1>1, <1>2

\* The whole program is the abstract one of Reversible, on files whose float
\* seeds are determined: a walk up and down one chain of reorderings of the
\* bytes (README.md 3; work.cpp 58-116).
THEOREM WorkImplementsReversible == DeterminedSpec => ImplementsReversible
<1>1. Init => Determined /\ WorkInv
  BY InitInv, WorkDepthsAssumption DEF Init, Determined
<1>2. WorkInv /\ [Next /\ Determined']_vars => WorkInv'
  BY NextInv
<1>5. Determined /\ [Next /\ Determined']_vars => Determined'
  BY DEF vars, Determined, FloatDetermined
<1>3. Init => File!Init
  BY DEF Init, File!Init
<1>4. WorkInv /\ Determined /\ WorkInv' /\ Determined' /\ [Next /\ Determined']_vars
      => [File!Next]_(File!vars)
  BY StepRefines
<1> QED  BY <1>1, <1>2, <1>3, <1>4, <1>5, PTL DEF DeterminedSpec, ImplementsReversible, File!Spec

=============================================================================
