---------------------------- MODULE TwoRunsProofs ----------------------------
(***************************************************************************)
(* Theorems about TwoRuns, for any number of processes, any file and any    *)
(* generator in bounds.                                                     *)
(***************************************************************************)
EXTENDS TwoRuns, SpanTheorems

\* What the program points leave in the locals.
Control == \A p \in Process :
    /\ pc[p] = "start" => k[p] = 0 /\ seen[p] = {}
    /\ pc[p] = "scan" => k[p] < N
    /\ pc[p] = "done" => swaps[p] = <<>>
    /\ Swapping(p) => swaps[p] # <<>>
    /\ pc[p] = "load2" => Len(load[p]) = 1
    /\ pc[p] \in {"store", "store2"} => Len(load[p]) = 2

\* What was loaded is still there.
Loaded == \A p \in Process :
    /\ pc[p] \in {"load2", "store"} => load[p][1] = span[I(p)]
    /\ pc[p] = "store" => load[p][2] = span[J(p)]

\* No two swaps under way are of a common object.
Apart == \A p, q \in Process :
    p # q /\ Swapping(p) /\ Swapping(q) => Now(p) \cap Now(q) = {}

\* v is the file with the second stores made that are still to come.
Settled(v) ==
    /\ SameObjects(original, v)
    /\ \A x \in Indices :
          (\A p \in Process : pc[p] = "store2" => J(p) # x) => v[x] = span[x]
    /\ \A p \in Process : pc[p] = "store2" => v[J(p)] = load[p][1]

Conserved == \E v \in SpanOf(N, Item) : Settled(v)

RaceInv == TypeOK /\ Control /\ (raced \/ (Loaded /\ Apart /\ Conserved))

-----------------------------------------------------------------------------
\* The indices of a swap under way are indices.
LEMMA SwapIndices ==
    ASSUME TypeOK, NEW p \in Process, swaps[p] # <<>>
    PROVE  /\ Head(swaps[p]) \in Indices \X Indices
           /\ I(p) \in Indices /\ J(p) \in Indices
           /\ Tail(swaps[p]) \in Seq(Indices \X Indices)
  BY DEF TypeOK, I, J

\* The file is a span of N objects.
LEMMA SizeN == N \in Nat /\ N > 1 /\ Indices = 0 .. N-1
  BY TwoRunsAssumption DEF Indices

\* The answers of a generator are indices.
LEMMA DrawIndices ==
    ASSUME NEW draw \in Tape, NEW x \in 1 .. N-1
    PROVE  draw[x] \in Indices
  BY SizeN, TwoRunsAssumption DEF Tapes, Indices

\* What Append does.
LEMMA Appended ==
    ASSUME NEW T, NEW s \in Seq(T), NEW x \in T
    PROVE  /\ Append(s, x) \in Seq(T) /\ Len(Append(s, x)) = Len(s) + 1
           /\ Append(s, x)[Len(s) + 1] = x
           /\ \A y \in 1 .. Len(s) : Append(s, x)[y] = s[y]
  OBVIOUS

\* Types and program points are kept.
LEMMA TypeStep == TypeOK /\ Control /\ [Next]_vars => TypeOK' /\ Control'
  <1> SUFFICES ASSUME TypeOK, Control, [Next]_vars PROVE TypeOK' /\ Control'
    OBVIOUS
  <1> USE SizeN DEF Swapping, history, file, At
  <1>1. ASSUME NEW p \in Process, Map(p) PROVE TypeOK' /\ Control'
    <2>1. TypeOK'
      BY <1>1 DEF TypeOK, Map
    <2>2. Control'
      BY <1>1 DEF TypeOK, Control, Map
    <2> QED  BY <2>1, <2>2
  <1>2. ASSUME NEW p \in Process, Scan(p) PROVE TypeOK' /\ Control'
    <2>1. pc[p] = "scan" /\ k[p] \in 0 .. N-1
      BY <1>2 DEF Scan, Control, TypeOK
    <2>2. span[k[p]] \in Item
      BY <2>1 DEF TypeOK, SpanOf
    <2>3. pc' \in [Process -> {"start", "scan", "seed", "load", "load2", "store", "store2", "done"}]
      BY <1>2 DEF TypeOK, Scan
    <2>4. k' \in [Process -> 0 .. N] /\ seen' \in [Process -> SUBSET Item]
      BY <1>2, <2>1, <2>2 DEF TypeOK, Scan
    <2>5. TypeOK'
      BY <1>2, <2>3, <2>4 DEF TypeOK, Scan
    <2>6. Control'
      BY <1>2, <2>1 DEF TypeOK, Control, Scan
    <2> QED  BY <2>5, <2>6
  <1>3. ASSUME NEW p \in Process, Seed(p) PROVE TypeOK' /\ Control'
    <2> DEFINE seed == SeedOf(seen[p])
               list(draw) == [x \in 1 .. N - 1 |->
                     IF op[p] = "shuffle" THEN <<N - x, draw[N - x]>> ELSE <<x, draw[x]>>]
    <2>1. PICK draw \in IF seed \in DOMAIN gens THEN {gens[seed]} ELSE Tape :
              /\ gens' = [s \in DOMAIN gens \cup {seed} |-> IF s = seed THEN draw ELSE gens[s]]
              /\ swaps' = [swaps EXCEPT ![p] = list(draw)]
      BY <1>3 DEF Seed
    <2>2. draw \in Tape
      BY DEF TypeOK
    <2>3. \A x \in 1 .. N-1 : draw[x] \in Indices /\ x \in Indices /\ N - x \in 1 .. N-1
      BY <2>2, DrawIndices DEF Indices
    <2>4. \A x \in 1 .. N-1 : list(draw)[x] \in Indices \X Indices
      BY <2>3
    <2>5. list(draw) \in [1 .. N-1 -> Indices \X Indices]
      BY <2>4
    <2>6. list(draw) \in Seq(Indices \X Indices)
      BY <2>5
    <2> HIDE DEF seed, list
    <2>7. swaps' \in [Process -> Seq(Indices \X Indices)]
      BY <2>1, <2>6 DEF TypeOK
    <2>8. \A s \in DOMAIN gens' : gens'[s] \in Tape
      BY <2>1, <2>2 DEF TypeOK
    <2>9. TypeOK'
      BY <1>3, <2>7, <2>8 DEF TypeOK, Seed
    <2>10. Control'
      BY <1>3, <2>1 DEF TypeOK, Control, Seed
    <2> QED  BY <2>9, <2>10
  <1>4. ASSUME NEW p \in Process, Load(p) PROVE TypeOK' /\ Control'
    <2>1. span[I(p)] \in Item
      BY <1>4, SwapIndices DEF Load, TypeOK, SpanOf
    <2>2. TypeOK'
      BY <1>4, <2>1 DEF TypeOK, Load
    <2>3. Control'
      BY <1>4, <2>1 DEF TypeOK, Control, Load
    <2> QED  BY <2>2, <2>3
  <1>5. ASSUME NEW p \in Process, Load2(p) PROVE TypeOK' /\ Control'
    <2>1. pc[p] = "load2" /\ swaps[p] # <<>> /\ Len(load[p]) = 1 /\ load[p] \in Seq(Item)
      BY <1>5 DEF Load2, Control, TypeOK
    <2>2. span[J(p)] \in Item
      BY <2>1, SwapIndices DEF TypeOK, SpanOf
    <2> DEFINE loaded == Append(load[p], span[J(p)])
    <2>3. loaded \in Seq(Item) /\ Len(loaded) = 2
      <3>1. \A s \in Seq(Item), x \in Item :
                Append(s, x) \in Seq(Item) /\ Len(Append(s, x)) = Len(s) + 1
        BY Appended
      <3>2. loaded \in Seq(Item) /\ Len(loaded) = Len(load[p]) + 1
        BY <2>1, <2>2, <3>1, Zenon
      <3> HIDE DEF loaded
      <3> QED  BY <2>1, <3>2
    <2> HIDE DEF loaded
    <2>4. load' = [load EXCEPT ![p] = loaded]
      BY <1>5 DEF Load2, loaded
    <2>5. TypeOK'
      <3>1. load' \in [Process -> Seq(Item)] /\ \A q \in Process : Len(load'[q]) <= 2
        <4>1. load \in [Process -> Seq(Item)] /\ \A q \in Process : Len(load[q]) <= 2
          BY DEF TypeOK
        <4>2. load' \in [Process -> Seq(Item)]
          BY <2>3, <2>4, <4>1
        <4>3. Len(loaded) <= 2
          BY <2>3
        <4>4. \A q \in Process : load'[q] = IF q = p THEN loaded ELSE load[q]
          BY <2>4, <4>1
        <4> QED  BY <4>1, <4>2, <4>3, <4>4, Zenon
      <3>2. pc' \in [Process -> {"start", "scan", "seed", "load", "load2", "store", "store2", "done"}]
        BY <1>5 DEF TypeOK, Load2
      <3> QED  BY <1>5, <3>1, <3>2 DEF TypeOK, Load2
    <2>6. Control'
      BY <1>5, <2>1, <2>3, <2>4 DEF TypeOK, Control, Load2
    <2> QED  BY <2>5, <2>6
  <1>6. ASSUME NEW p \in Process, Store(p) PROVE TypeOK' /\ Control'
    <2>1. swaps[p] # <<>> /\ load[p][2] \in Item
      BY <1>6 DEF Store, Control, TypeOK
    <2>2. span' \in SpanOf(N, Item)
      BY <1>6, <2>1, SwapIndices DEF Store, TypeOK, SpanOf
    <2>3. alone' \in [Process -> BOOLEAN]
      BY <1>6 DEF Store, TypeOK, Others
    <2>4. TypeOK'
      BY <1>6, <2>2, <2>3 DEF TypeOK, Store
    <2>5. Control'
      BY <1>6 DEF TypeOK, Control, Store
    <2> QED  BY <2>4, <2>5
  <1>7. ASSUME NEW p \in Process, Store2(p) PROVE TypeOK' /\ Control'
    <2>1. swaps[p] # <<>> /\ load[p][1] \in Item
      BY <1>7 DEF Store2, Control, TypeOK
    <2>2. span' \in SpanOf(N, Item)
      BY <1>7, <2>1, SwapIndices DEF Store2, TypeOK, SpanOf
    <2>3. alone' \in [Process -> BOOLEAN]
      BY <1>7 DEF Store2, TypeOK, Others
    <2>4. swaps' \in [Process -> Seq(Indices \X Indices)]
      BY <1>7, <2>1, SwapIndices DEF Store2, TypeOK
    <2>5. TypeOK'
      BY <1>7, <2>2, <2>3, <2>4 DEF TypeOK, Store2
    <2>6. Control'
      BY <1>7 DEF TypeOK, Control, Store2
    <2> QED  BY <2>5, <2>6
  <1>8. ASSUME NEW p \in Process, Return(p) PROVE TypeOK' /\ Control'
    <2>1. TypeOK'
      BY <1>8 DEF TypeOK, Return
    <2>2. Control'
      BY <1>8 DEF TypeOK, Control, Return
    <2> QED  BY <2>1, <2>2
  <1>9. CASE UNCHANGED vars
    BY <1>9 DEF TypeOK, Control, vars
  <1> QED
    BY <1>1, <1>2, <1>3, <1>4, <1>5, <1>6, <1>7, <1>8, <1>9 DEF Next, Step

-----------------------------------------------------------------------------
Unraced == Loaded /\ Apart /\ Conserved

\* A step that leaves the file and the swaps under way alone.
LEMMA QuietKeeps ==
    ASSUME Unraced, UNCHANGED <<file, load>>,
           \A q \in Process :
              /\ Swapping(q) => pc'[q] = pc[q] /\ swaps'[q] = swaps[q]
              /\ pc'[q] \in {"load2", "store", "store2"} => pc'[q] = pc[q]
    PROVE  Unraced'
<1>1. Loaded'
  BY DEF Unraced, Loaded, Swapping, I, J, file
<1>2. Apart'
  BY DEF Unraced, Apart, Swapping, Now, I, J
<1>3. PICK v \in SpanOf(N, Item) : Settled(v)
  BY DEF Unraced, Conserved
<1>4. \A q \in Process : pc'[q] = "store2" <=> pc[q] = "store2"
  BY DEF Swapping
<1>5. \A q \in Process : pc[q] = "store2" => J(q)' = J(q)
  BY DEF Swapping, J
<1>6. Settled(v)'
  BY <1>3, <1>4, <1>5 DEF Settled, file
<1> QED
  BY <1>1, <1>2, <1>6 DEF Unraced, Conserved

\* A swap begins.
LEMMA LoadKeeps ==
    ASSUME TypeOK, TypeOK', Unraced, NEW p \in Process, Load(p), ~raced'
    PROVE  Unraced'
<1> USE DEF At, file
<1>1. /\ pc' = [pc EXCEPT ![p] = "load2"] /\ pc[p] = "load"
      /\ load' = [load EXCEPT ![p] = <<span[I(p)]>>]
      /\ UNCHANGED <<span, original, swaps>>
  BY DEF Load
<1>2. /\ load'[p][1] = span[I(p)] /\ pc'[p] = "load2" /\ ~Swapping(p)
      /\ \A q \in Process \ {p} : load'[q] = load[q] /\ pc'[q] = pc[q]
  BY <1>1 DEF TypeOK, Swapping
<1>3. Loaded'
  BY <1>1, <1>2 DEF Unraced, Loaded, I, J
<1>4. \A q \in Process \ {p} : Swapping(q) => Now(p) \cap Now(q) = {}
  BY DEF Load
<1>5. Apart'
  BY <1>1, <1>2, <1>4 DEF Unraced, Apart, Swapping, Now, I, J
<1>6. PICK v \in SpanOf(N, Item) : Settled(v)
  BY DEF Unraced, Conserved
<1>7. \A q \in Process : pc'[q] = "store2" => pc[q] = "store2" /\ q # p
  BY <1>2
<1>8. \A q \in Process : pc[q] = "store2" => pc'[q] = "store2" /\ q # p /\ J(q)' = J(q)
  BY <1>1, <1>2 DEF J
<1>9. Settled(v)'
  BY <1>1, <1>2, <1>6, <1>7, <1>8 DEF Settled
<1> QED
  BY <1>3, <1>5, <1>9 DEF Unraced, Conserved

LEMMA Load2Keeps ==
    ASSUME TypeOK, Control, Unraced, NEW p \in Process, Load2(p)
    PROVE  Unraced'
<1> USE DEF At, file
<1>1. /\ pc' = [pc EXCEPT ![p] = "store"] /\ pc[p] = "load2"
      /\ load' = [load EXCEPT ![p] = Append(@, span[J(p)])]
      /\ UNCHANGED <<span, original, swaps>>
  BY DEF Load2
<1>2. load[p] \in Seq(Item) /\ Len(load[p]) = 1 /\ swaps[p] # <<>>
  BY <1>1 DEF TypeOK, Control, Swapping
<1>3. span[J(p)] \in Item
  BY <1>2, SwapIndices, SizeN DEF TypeOK, SpanOf
<1>4. load'[p] = Append(load[p], span[J(p)])
  BY <1>1 DEF TypeOK
<1>5. load'[p][1] = load[p][1] /\ load'[p][2] = span[J(p)]
  BY <1>2, <1>3, <1>4, Appended
<1>6. /\ pc'[p] = "store"
      /\ \A q \in Process \ {p} : load'[q] = load[q] /\ pc'[q] = pc[q]
  BY <1>1 DEF TypeOK
<1>7. Loaded'
  BY <1>1, <1>5, <1>6 DEF Unraced, Loaded, I, J
<1>8. Apart'
  BY <1>1, <1>6 DEF Unraced, Apart, Swapping, Now, I, J
<1>9. PICK v \in SpanOf(N, Item) : Settled(v)
  BY DEF Unraced, Conserved
<1>10. \A q \in Process : pc'[q] = "store2" => pc[q] = "store2" /\ q # p
  BY <1>6
<1>11. \A q \in Process : pc[q] = "store2" => pc'[q] = "store2" /\ q # p /\ J(q)' = J(q)
  BY <1>1, <1>6 DEF J
<1>12. Settled(v)'
  BY <1>1, <1>6, <1>9, <1>10, <1>11 DEF Settled
<1> QED
  BY <1>7, <1>8, <1>12 DEF Unraced, Conserved

\* The first store: the file it settles to is a swap further.
LEMMA StoreKeeps ==
    ASSUME TypeOK, Control, Unraced, NEW p \in Process, Store(p)
    PROVE  Unraced'
<1> USE DEF At
<1>1. /\ pc' = [pc EXCEPT ![p] = "store2"] /\ pc[p] = "store"
      /\ span' = [span EXCEPT ![I(p)] = load[p][2]]
      /\ UNCHANGED <<original, swaps, load>>
  BY DEF Store
<1>2. I(p) \in 0 .. N-1 /\ J(p) \in 0 .. N-1 /\ Swapping(p)
  BY <1>1, SwapIndices, SizeN DEF Control, Swapping
<1>3. load[p][1] = span[I(p)] /\ load[p][2] = span[J(p)]
  BY <1>1 DEF Unraced, Loaded
<1>4. pc'[p] = "store2" /\ \A q \in Process \ {p} : pc'[q] = pc[q]
  BY <1>1 DEF TypeOK
<1>5. \A q \in Process \ {p} : Swapping(q) =>
          I(q) # I(p) /\ I(q) # J(p) /\ J(q) # I(p) /\ J(q) # J(p)
  BY <1>2 DEF Unraced, Apart, Now
<1>6. \A q \in Process : I(q)' = I(q) /\ J(q)' = J(q)
  BY <1>1 DEF I, J
<1>7. span'[I(p)] = span[J(p)] /\ \A x \in 0 .. N-1 : x # I(p) => span'[x] = span[x]
  BY <1>1, <1>2, <1>3 DEF TypeOK, SpanOf
<1>8. Loaded'
  <2> SUFFICES ASSUME NEW q \in Process
               PROVE  /\ pc'[q] \in {"load2", "store"} => load[q][1] = span'[I(q)]
                      /\ pc'[q] = "store" => load[q][2] = span'[J(q)]
    BY <1>1, <1>6 DEF Loaded
  <2>1. CASE q # p /\ pc[q] \in {"load2", "store"}
    <3>1. I(q) \in 0 .. N-1 /\ J(q) \in 0 .. N-1 /\ Swapping(q)
      BY <2>1, SwapIndices, SizeN DEF Control, Swapping
    <3> QED  BY <2>1, <3>1, <1>4, <1>5, <1>7 DEF Unraced, Loaded
  <2> QED  BY <2>1, <1>4
<1>9. Apart'
  <2>1. \A q \in Process : Swapping(q)' <=> Swapping(q)
    BY <1>1, <1>4 DEF Swapping
  <2> QED  BY <2>1, <1>6 DEF Unraced, Apart, Now
<1>10. PICK v \in SpanOf(N, Item) : Settled(v)
  BY DEF Unraced, Conserved
<1> DEFINE w == Swapped(v, I(p), J(p))
<1>11. w \in SpanOf(N, Item) /\ SameObjects(original, w)
  BY <1>2, <1>10, SwapType, SameObjectsSwap, SizeN DEF Settled, TypeOK
<1>12. w[I(p)] = v[J(p)] /\ w[J(p)] = v[I(p)]
       /\ \A x \in 0 .. N-1 : x # I(p) /\ x # J(p) => w[x] = v[x]
  BY <1>2, <1>10, SwapAt, SizeN
<1>13. \A q \in Process : pc[q] = "store2" => J(q) # I(p) /\ J(q) # J(p) /\ J(q) \in 0 .. N-1 /\ q # p
  BY <1>1, <1>5, SwapIndices, SizeN DEF Swapping, Control
<1>14. v[I(p)] = span[I(p)] /\ v[J(p)] = span[J(p)]
  BY <1>2, <1>10, <1>13, SizeN DEF Settled
<1> HIDE DEF w
<1>15. SameObjects(original', w)
  BY <1>1, <1>11
<1>16. ASSUME NEW x \in Indices, \A q \in Process : pc'[q] = "store2" => J(q) # x
       PROVE  w[x] = span'[x]
  <2>1. x # J(p) /\ x \in 0 .. N-1
    BY <1>4, <1>16, SizeN
  <2>2. CASE x = I(p)
    BY <2>2, <1>7, <1>12, <1>14
  <2>3. CASE x # I(p)
    <3>1. v[x] = span[x]
      BY <1>4, <1>10, <1>13, <1>16 DEF Settled
    <3> QED  BY <2>1, <2>3, <3>1, <1>7, <1>12
  <2> QED  BY <2>2, <2>3
<1>17. ASSUME NEW q \in Process, pc'[q] = "store2" PROVE w[J(q)] = load[q][1]
  <2>1. CASE q = p
    BY <2>1, <1>3, <1>12, <1>14
  <2>2. CASE q # p
    BY <2>2, <1>4, <1>10, <1>12, <1>13, <1>17 DEF Settled
  <2> QED  BY <2>1, <2>2
<1>18. Conserved'
  <2>1. \A x \in Indices : (\A q \in Process : pc'[q] = "store2" => J(q)' # x) => w[x] = span'[x]
    BY <1>6, <1>16
  <2>2. \A q \in Process : pc'[q] = "store2" => w[J(q)'] = load'[q][1]
    BY <1>1, <1>6, <1>17
  <2>3. \E u \in SpanOf(N, Item) :
          /\ SameObjects(original', u)
          /\ \A x \in Indices : (\A q \in Process : pc'[q] = "store2" => J(q)' # x) => u[x] = span'[x]
          /\ \A q \in Process : pc'[q] = "store2" => u[J(q)'] = load'[q][1]
    BY <1>11, <1>15, <2>1, <2>2
  <2> QED  BY <2>3 DEF Conserved, Settled
<1> QED
  BY <1>8, <1>9, <1>18 DEF Unraced

\* The second store: the file comes nearer to what it settles to.
LEMMA Store2Keeps ==
    ASSUME TypeOK, Control, Unraced, NEW p \in Process, Store2(p)
    PROVE  Unraced'
<1> USE DEF At
<1>1. /\ pc' = [pc EXCEPT ![p] = "load"] /\ pc[p] = "store2"
      /\ span' = [span EXCEPT ![J(p)] = load[p][1]]
      /\ swaps' = [swaps EXCEPT ![p] = Tail(@)]
      /\ UNCHANGED <<original, load>>
  BY DEF Store2
<1>2. I(p) \in 0 .. N-1 /\ J(p) \in 0 .. N-1 /\ Swapping(p)
  BY <1>1, SwapIndices, SizeN DEF Control, Swapping
<1>3. pc'[p] = "load" /\ \A q \in Process \ {p} : pc'[q] = pc[q] /\ swaps'[q] = swaps[q]
  BY <1>1 DEF TypeOK
<1>4. \A q \in Process \ {p} : Swapping(q) => I(q) # J(p) /\ J(q) # J(p)
  BY <1>2 DEF Unraced, Apart, Now
<1>5. \A q \in Process \ {p} : I(q)' = I(q) /\ J(q)' = J(q)
  BY <1>3 DEF I, J
<1>6. span'[J(p)] = load[p][1] /\ \A x \in 0 .. N-1 : x # J(p) => span'[x] = span[x]
  BY <1>1, <1>2 DEF TypeOK, SpanOf
<1>7. Loaded'
  <2> SUFFICES ASSUME NEW q \in Process, q # p, pc[q] \in {"load2", "store"}
               PROVE  /\ load[q][1] = span'[I(q)]
                      /\ pc[q] = "store" => load[q][2] = span'[J(q)]
    BY <1>1, <1>3, <1>5 DEF Loaded
  <2>1. I(q) \in 0 .. N-1 /\ J(q) \in 0 .. N-1 /\ Swapping(q)
    BY SwapIndices, SizeN DEF Control, Swapping
  <2> QED  BY <2>1, <1>4, <1>6 DEF Unraced, Loaded
<1>8. Apart'
  <2>1. \A q \in Process : Swapping(q)' => Swapping(q) /\ q # p
    BY <1>3 DEF Swapping
  <2> QED  BY <2>1, <1>5 DEF Unraced, Apart, Now
<1>9. PICK v \in SpanOf(N, Item) : Settled(v)
  BY DEF Unraced, Conserved
<1>10. v[J(p)] = load[p][1]
  BY <1>1, <1>9 DEF Settled
<1>11. ASSUME NEW x \in Indices, \A q \in Process : pc'[q] = "store2" => J(q)' # x
       PROVE  v[x] = span'[x]
  <2>1. CASE x = J(p)
    BY <2>1, <1>6, <1>10
  <2>2. CASE x # J(p)
    <3>1. \A q \in Process : pc[q] = "store2" => J(q) # x
      BY <2>2, <1>3, <1>5, <1>11
    <3>2. v[x] = span[x]
      BY <3>1, <1>9 DEF Settled
    <3> QED  BY <2>2, <3>2, <1>6, SizeN
  <2> QED  BY <2>1, <2>2
<1>12. \A q \in Process : pc'[q] = "store2" => v[J(q)'] = load'[q][1]
  BY <1>1, <1>3, <1>5, <1>9 DEF Settled
<1>13. SameObjects(original', v)
  BY <1>1, <1>9 DEF Settled
<1>14. Settled(v)'
  BY <1>11, <1>12, <1>13 DEF Settled
<1> QED
  BY <1>7, <1>8, <1>14 DEF Unraced, Conserved

LEMMA InitRaceInv == Init => RaceInv
<1> SUFFICES ASSUME Init PROVE RaceInv
  OBVIOUS
<1>1. TypeOK /\ Control
  <2>1. \A p \in Process : load[p] = <<>> /\ swaps[p] = <<>>
    BY DEF Init
  <2>2. load \in [Process -> Seq(Item)] /\ swaps \in [Process -> Seq(Indices \X Indices)]
    BY DEF Init
  <2>3. DOMAIN gens = {}
    BY DEF Init
  <2>4. \A p \in Process : Len(load[p]) <= 2
    BY <2>1
  <2>5. k \in [Process -> 0 .. N]
    BY SizeN DEF Init
  <2>6. TypeOK
    BY <2>2, <2>3, <2>4, <2>5 DEF Init, TypeOK, history, file
  <2>7. Control
    BY SizeN DEF Init, Control, Swapping
  <2> QED  BY <2>6, <2>7
<1>2. Loaded /\ Apart
  BY DEF Init, Loaded, Apart, Swapping
<1>3. Settled(span) /\ span \in SpanOf(N, Item)
  BY SameObjectsReflexive, SizeN DEF Init, Settled
<1> QED
  BY <1>1, <1>2, <1>3 DEF RaceInv, Conserved

LEMMA NextRaceInv == RaceInv /\ [Next]_vars => RaceInv'
<1> SUFFICES ASSUME RaceInv, [Next]_vars PROVE RaceInv'
  OBVIOUS
<1>1. TypeOK /\ Control /\ TypeOK' /\ Control' /\ (raced \/ Unraced)
  BY TypeStep DEF RaceInv, Unraced
<1>2. raced => raced'
  BY DEF Next, Step, Map, Scan, Seed, Load, Load2, Store, Store2, Return, vars, history
<1> SUFFICES ASSUME ~raced' PROVE Unraced'
  BY <1>1 DEF RaceInv, Unraced
<1>3. Unraced
  BY <1>1, <1>2
<1>4. ASSUME NEW p \in Process, Map(p) \/ Scan(p) \/ Seed(p) \/ Return(p) PROVE Unraced'
  <2>1. /\ pc[p] \notin {"load2", "store", "store2"} /\ pc'[p] \notin {"load2", "store", "store2"}
        /\ \A q \in Process \ {p} : pc'[q] = pc[q] /\ swaps'[q] = swaps[q]
    BY <1>1, <1>4 DEF Map, Scan, Seed, Return, At, TypeOK
  <2>2. UNCHANGED <<file, load>>
    BY <1>4 DEF Map, Scan, Seed, Return
  <2> QED
    BY <1>3, <2>1, <2>2, QuietKeeps DEF Swapping
<1>5. CASE UNCHANGED vars
  BY <1>3, <1>5, QuietKeeps DEF vars
<1> QED
  BY <1>1, <1>3, <1>4, <1>5, LoadKeeps, Load2Keeps, StoreKeeps, Store2Keeps DEF Next, Step

\* A file no swap is in the middle of is a rearrangement.
LEMMA SettledFile ==
    ASSUME RaceInv, ~raced, ~Midway
    PROVE  SameObjects(original, span)
<1>1. PICK v \in SpanOf(N, Item) : Settled(v)
  BY DEF RaceInv, Conserved
<1>2. \A x \in 0 .. N-1 : v[x] = span[x]
  BY <1>1, SizeN DEF Settled, Midway
<1>3. v \in [0 .. N-1 -> Item] /\ span \in [0 .. N-1 -> Item]
  BY <1>1 DEF SpanOf, RaceInv, TypeOK
<1>4. v = [x \in 0 .. N-1 |-> v[x]] /\ span = [x \in 0 .. N-1 |-> span[x]]
  BY <1>3
<1>5. v = span
  BY <1>2, <1>4, Zenon
<1> QED
  BY <1>1, <1>5 DEF Settled

(***************************************************************************)
(* Processes that swap on one file without a lock lose no object unless two *)
(* swaps on a common object were under way at once (shuffle.hpp 19, 21).    *)
(***************************************************************************)
THEOREM RaceTheorem == Spec => []LostOnlyInRace
<1>1. RaceInv => LostOnlyInRace
  <2> SUFFICES ASSUME RaceInv, ~raced, ~Midway PROVE SameCounts(original, span)
    BY DEF LostOnlyInRace
  <2> QED
    BY SettledFile, SameObjectsCounts, SizeN DEF RaceInv, TypeOK
<1> QED
  BY <1>1, InitRaceInv, NextRaceInv, PTL DEF Spec

(***************************************************************************)
(* The locals of every process keep their types: the indices it swaps are   *)
(* in the file, whatever the others do to the objects its seed comes from.  *)
(***************************************************************************)
THEOREM TypeTheorem == Spec => []TypeOK
<1>1. RaceInv => TypeOK
  BY DEF RaceInv
<1> QED
  BY <1>1, InitRaceInv, NextRaceInv, PTL DEF Spec

-----------------------------------------------------------------------------
\* The objects p has scanned are those of the file as it is.
Scanned(p) == seen[p] = { span[x] : x \in 0 .. k[p]-1 }

\* What p has scanned is all of the file and nothing else, unless another
\* stored meanwhile.
Whole == \A p \in Process : alone[p] =>
    /\ pc[p] = "scan" => Scanned(p) /\ ~Midway
    /\ pc[p] \notin {"start", "scan"} => seen[p] = Range(original)

\* A process that maps the file has scanned nothing of it.
LEMMA MapScans ==
    ASSUME TypeOK, Control, NEW p \in Process, Map(p)
    PROVE  Scanned(p)'
<1>1. k'[p] = 0 /\ seen'[p] = {} /\ 0 .. 0-1 = {}
  BY DEF Map, Control, At
<1> QED  BY <1>1 DEF Scanned

\* The turn of the loop over the last object leaves all of them.
LEMMA ScanScans ==
    ASSUME TypeOK, Control, NEW p \in Process, Scan(p), Scanned(p)
    PROVE  /\ pc'[p] = "scan" => Scanned(p)'
           /\ pc'[p] # "scan" => seen'[p] = Range(span)
<1>1. /\ k[p] \in 0 .. N-1 /\ k'[p] = k[p] + 1 /\ span' = span
      /\ seen'[p] = seen[p] \cup {span[k[p]]}
      /\ pc'[p] = IF k[p] = N-1 THEN "seed" ELSE "scan"
  BY SizeN DEF Scan, Control, At, TypeOK, file
<1> DEFINE n == k[p]
<1>2. n \in 0 .. N-1 /\ (n + 1) - 1 = n
  BY <1>1, SizeN
<1>3. seen'[p] = { span[x] : x \in 0 .. n }
  <2>1. seen[p] = { span[x] : x \in 0 .. n-1 }
    BY DEF Scanned
  <2>2. 0 .. n = (0 .. n-1) \cup {n}
    BY <1>2, SizeN
  <2> HIDE DEF n
  <2>3. { span[x] : x \in 0 .. n } = { span[x] : x \in 0 .. n-1 } \cup {span[n]}
    BY <2>2
  <2> QED  BY <1>1, <2>1, <2>3 DEF n
<1>4. Scanned(p)'
  <2>1. k'[p] - 1 = n
    BY <1>1, <1>2
  <2> QED  BY <1>1, <1>3, <2>1 DEF Scanned
<1>5. ASSUME n = N-1 PROVE seen'[p] = Range(span)
  <2>1. DOMAIN span = 0 .. n
    BY <1>5 DEF TypeOK, SpanOf
  <2> HIDE DEF n
  <2> QED  BY <1>3, <2>1 DEF Range
<1> QED  BY <1>1, <1>4, <1>5

LEMMA WholeStep ==
    ASSUME RaceInv, RaceInv', ~raced', Whole, Next
    PROVE  Whole'
<1>1. TypeOK /\ Control /\ TypeOK' /\ ~raced
  <2>1. raced => raced'
    BY DEF Next, Step, Map, Scan, Seed, Load, Load2, Store, Store2, Return, history
  <2> QED  BY <2>1 DEF RaceInv
<1>2. original' = original
  BY DEF Next, Step, Map, Scan, Seed, Load, Load2, Store, Store2, Return, file
<1>3. PICK p \in Process : Step(p)
  BY DEF Next
<1>4. \A q \in Process \ {p} : pc'[q] = pc[q] /\ seen'[q] = seen[q] /\ k'[q] = k[q]
  BY <1>1, <1>3 DEF Step, Map, Scan, Seed, Load, Load2, Store, Store2, Return, At, TypeOK
<1>5. CASE Store(p) \/ Store2(p)
  <2>1. \A q \in Process : alone'[q] => alone[q] /\ q = p
    BY <1>5 DEF Store, Store2, Others
  <2>2. /\ pc[p] \notin {"start", "scan"} /\ pc'[p] \notin {"start", "scan"}
        /\ seen'[p] = seen[p]
    BY <1>1, <1>5 DEF Store, Store2, At, TypeOK
  <2> QED  BY <1>2, <2>1, <2>2 DEF Whole
<1>6. CASE ~(Store(p) \/ Store2(p))
  <2>1. /\ span' = span
        /\ \A q \in Process : pc'[q] = "store2" <=> pc[q] = "store2"
        /\ \A q \in Process \ {p} : alone'[q] = alone[q]
    BY <1>1, <1>3, <1>6 DEF Step, Map, Scan, Seed, Load, Load2, Return, At, TypeOK, file, history
  <2>2. Midway' <=> Midway
    BY <2>1 DEF Midway
  <2>3. ASSUME NEW q \in Process, q # p, alone'[q]
        PROVE  /\ pc'[q] = "scan" => Scanned(q)' /\ ~Midway'
               /\ pc'[q] \notin {"start", "scan"} => seen'[q] = Range(original)
    BY <1>4, <2>1, <2>2, <2>3 DEF Whole, Scanned
  <2>4. ASSUME alone'[p]
        PROVE  /\ pc'[p] = "scan" => Scanned(p)' /\ ~Midway'
               /\ pc'[p] \notin {"start", "scan"} => seen'[p] = Range(original)
    <3>1. CASE Map(p)
      <4>1. pc'[p] = "scan" /\ ~Midway
        BY <1>1, <2>4, <3>1 DEF Map, At, TypeOK, Midway
      <4> QED  BY <1>1, <2>2, <3>1, <4>1, MapScans
    <3>2. CASE Scan(p)
      <4>1. alone[p] /\ pc[p] = "scan" /\ pc'[p] \in {"scan", "seed"}
        BY <1>1, <2>4, <3>2 DEF Scan, At, TypeOK, history
      <4>2. Scanned(p) /\ ~Midway
        BY <4>1 DEF Whole
      <4>3. Range(span) = Range(original)
        BY <1>1, <4>2, SettledFile, SameObjectsRange, SizeN DEF TypeOK
      <4> QED  BY <1>1, <2>2, <3>2, <4>1, <4>2, <4>3, ScanScans
    <3>3. CASE Seed(p) \/ Load(p) \/ Load2(p) \/ Return(p)
      <4>1. /\ alone[p] /\ pc[p] \notin {"start", "scan"} /\ pc'[p] \notin {"start", "scan"}
            /\ seen'[p] = seen[p]
        BY <1>1, <2>4, <3>3 DEF Seed, Load, Load2, Return, At, TypeOK, history
      <4> QED  BY <4>1 DEF Whole
    <3> QED  BY <1>3, <1>6, <3>1, <3>2, <3>3 DEF Step
  <2> QED  BY <1>2, <2>3, <2>4 DEF Whole
<1> QED  BY <1>5, <1>6

WholeInv == RaceInv /\ (raced \/ Whole)

LEMMA InitWholeInv == Init => WholeInv
<1> SUFFICES ASSUME Init PROVE WholeInv
  OBVIOUS
<1>1. Whole
  BY DEF Init, Whole
<1> QED  BY <1>1, InitRaceInv DEF WholeInv

LEMMA NextWholeInv == WholeInv /\ [Next]_vars => WholeInv'
<1> SUFFICES ASSUME WholeInv, [Next]_vars PROVE WholeInv'
  OBVIOUS
<1>1. RaceInv /\ RaceInv' /\ (raced \/ Whole)
  BY NextRaceInv DEF WholeInv
<1>2. raced => raced'
  BY DEF Next, Step, Map, Scan, Seed, Load, Load2, Store, Store2, Return, vars, history
<1>3. CASE Next
  BY <1>1, <1>2, <1>3, WholeStep DEF WholeInv
<1>4. CASE UNCHANGED vars
  BY <1>1, <1>2, <1>4 DEF WholeInv, Whole, Scanned, Midway, vars, file, history
<1> QED  BY <1>3, <1>4

(***************************************************************************)
(* A process that no store of another came between, and that found no swap  *)
(* half stored, seeds its generator with the bounds of the objects of the   *)
(* whole file as it was first, unless a race had lost some (work.cpp 54-75).*)
(***************************************************************************)
THEOREM SeedsTheorem == Spec => []SeedsOfWhole
<1>1. WholeInv => SeedsOfWhole
  BY DEF WholeInv, Whole, SeedsOfWhole
<1> QED
  BY <1>1, InitWholeInv, NextWholeInv, PTL DEF Spec

-----------------------------------------------------------------------------
\* The swaps of a loop, and the files along it.
Swaps(o, draw) ==
    [x \in 1 .. N-1 |-> IF o = "shuffle" THEN <<N-x, draw[N-x]>> ELSE <<x, draw[x]>>]

IsWay(r, o, draw, first) ==
    /\ r \in [0 .. N-1 -> SpanOf(N, Item)]
    /\ IsPath(r, first, Swaps(o, draw), N-1)
    /\ \A x \in 0 .. N-1 : SameObjects(first, r[x])

Way(o, draw, first) == CHOOSE r : IsWay(r, o, draw, first)

Backward(r) == [x \in 0 .. N-1 |-> r[N-1-x]]

LEMMA SwapsType ==
    ASSUME NEW o, NEW draw \in Tape
    PROVE  Swaps(o, draw) \in [1 .. N-1 -> Indices \X Indices]
<1>1. \A x \in 1 .. N-1 : draw[x] \in Indices /\ x \in Indices /\ N-x \in 1 .. N-1
  BY DrawIndices, SizeN
<1> QED  BY <1>1, SizeN DEF Swaps

LEMMA WayIs ==
    ASSUME NEW o, NEW draw \in Tape, NEW first \in SpanOf(N, Item)
    PROVE  IsWay(Way(o, draw, first), o, draw, first)
<1> DEFINE m == N-1
           sw == Swaps(o, draw)
<1>1. m \in Nat /\ sw \in [1 .. m -> (0 .. N-1) \X (0 .. N-1)]
  BY SwapsType, SizeN
<1> HIDE DEF m, sw
<1>2. \E r \in [0 .. m -> SpanOf(N, Item)] :
          IsPath(r, first, sw, m) /\ \A x \in 0 .. m : SameObjects(first, r[x])
  <2>1. N \in Nat
    BY SizeN
  <2> QED  BY <1>1, <2>1, PathExists, Zenon
<1>3. \E r : IsWay(r, o, draw, first)
  BY <1>2 DEF IsWay, m, sw
<1> QED  BY <1>3 DEF Way

\* The other operation, with the same draws, goes the way back.
LEMMA WayBack ==
    ASSUME NEW o \in Ops, NEW u \in Ops, o # u, NEW draw \in Tape, NEW first, NEW r,
           first \in SpanOf(N, Item), IsWay(r, o, draw, first)
    PROVE  /\ Backward(r) \in [0 .. N-1 -> SpanOf(N, Item)]
           /\ IsPath(Backward(r), r[N-1], Swaps(u, draw), N-1)
           /\ Backward(r)[0] = r[N-1] /\ Backward(r)[N-1] = first
<1> DEFINE m == N-1
           sw == Swaps(o, draw)
<1>1. m \in Nat /\ sw \in [1 .. m -> (0 .. N-1) \X (0 .. N-1)]
  BY SwapsType, SizeN
<1>2. r \in [0 .. m -> SpanOf(N, Item)] /\ IsPath(r, first, sw, m)
  BY DEF IsWay
<1>3. Swaps(u, draw) = [x \in 1 .. m |-> sw[m + 1 - x]]
  <2>1. \A x \in 1 .. N-1 : N-x \in 1 .. N-1 /\ (N-1) + 1 - x = N-x /\ N-(N-x) = x
    BY SizeN
  <2>2. \A x \in 1 .. N-1 : Swaps(u, draw)[x] = Swaps(o, draw)[N-x]
    BY <2>1 DEF Swaps, Ops
  <2> QED  BY <2>1, <2>2 DEF Swaps
<1>4. Backward(r) = [x \in 0 .. m |-> r[m - x]]
  BY DEF Backward
<1>5. \A x \in 0 .. m : m - x \in 0 .. m
  BY <1>1
<1>6. 0 \in 0 .. m /\ m \in 0 .. m /\ m - 0 = m /\ m - m = 0
  BY <1>1
<1>8. r[0] = first
  BY <1>2 DEF IsPath
<1> HIDE DEF sw, m
<1>7. IsPath(Backward(r), r[m], Swaps(u, draw), m)
  <2>1. IsPath([x \in 0 .. m |-> r[m - x]], r[m], [x \in 1 .. m |-> sw[m + 1 - x]], m)
    BY <1>1, <1>2, PathBack, SizeN
  <2> QED  BY <2>1, <1>3, <1>4, Zenon
<1>9. Backward(r) \in [0 .. m -> SpanOf(N, Item)]
  BY <1>2, <1>4, <1>5
<1>10. Backward(r)[0] = r[m] /\ Backward(r)[m] = first
  BY <1>4, <1>6, <1>8
<1> QED  BY <1>7, <1>9, <1>10 DEF m

-----------------------------------------------------------------------------
\* The swaps p has made of those of sw.
Made(p) == N - 1 - Len(swaps[p])

\* p alone walks along r, whose swaps are sw.
Walk(p, r, sw) ==
    /\ Made(p) \in 0 .. N-1
    /\ \A x \in 1 .. Len(swaps[p]) : swaps[p][x] = sw[Made(p) + x]
    /\ pc[p] # "store2" => span = r[Made(p)]
    /\ pc[p] \in {"load2", "store"} => load[p][1] = span[I(p)]
    /\ pc[p] = "store" => load[p][2] = span[J(p)]
    /\ pc[p] = "store2" => /\ load[p][1] = r[Made(p)][I(p)]
                           /\ span = [r[Made(p)] EXCEPT ![I(p)] = r[Made(p)][J(p)]]

\* Another process that stores nothing does not disturb it.
LEMMA WalkKeeps ==
    ASSUME NEW p, NEW r, NEW sw, Walk(p, r, sw), span' = span,
           pc'[p] = pc[p], swaps'[p] = swaps[p], load'[p] = load[p]
    PROVE  Walk(p, r, sw)'
BY DEF Walk, Made, I, J

\* The swap p is at is the next of the path.
LEMMA AtSwap ==
    ASSUME TypeOK, NEW p \in Process, NEW r, NEW sw, Walk(p, r, sw), swaps[p] # <<>>
    PROVE  /\ Made(p) + 1 \in 1 .. N-1
           /\ I(p) = sw[Made(p) + 1][1] /\ J(p) = sw[Made(p) + 1][2]
<1>1. swaps[p] \in Seq(Indices \X Indices)
  BY DEF TypeOK
<1>2. Len(swaps[p]) \in Nat /\ Len(swaps[p]) > 0 /\ Head(swaps[p]) = swaps[p][1]
  BY <1>1
<1>3. 1 \in 1 .. Len(swaps[p]) /\ Made(p) + 1 \in 1 .. N-1
  BY <1>2, SizeN DEF Made, Walk
<1> QED  BY <1>2, <1>3 DEF Walk, I, J

\* A step of the swap loop goes along the path.
LEMMA WalkStep ==
    ASSUME TypeOK, Control, NEW p \in Process, NEW r \in [0 .. N-1 -> SpanOf(N, Item)], NEW sw,
           IsPath(r, r[0], sw, N-1), Walk(p, r, sw),
           Load(p) \/ Load2(p) \/ Store(p) \/ Store2(p) \/ Return(p)
    PROVE  Walk(p, r, sw)'
<1> USE DEF At, file
<1> DEFINE m == Made(p)
           a == r[m]
<1>1. m \in 0 .. N-1 /\ a \in SpanOf(N, Item)
  BY DEF Walk
<1>2. CASE Load(p)
  <2>1. /\ pc[p] = "load" /\ pc'[p] = "load2" /\ UNCHANGED <<span, swaps>>
        /\ load'[p] = <<span[I(p)]>>
    BY <1>2 DEF Load, TypeOK
  <2>2. load'[p][1] = span[I(p)]
    BY <2>1
  <2> QED  BY <2>1, <2>2 DEF Walk, Made, I, J
<1>3. CASE Load2(p)
  <2>1. /\ pc[p] = "load2" /\ pc'[p] = "store" /\ UNCHANGED <<span, swaps>>
        /\ load'[p] = Append(load[p], span[J(p)])
    BY <1>3 DEF Load2, TypeOK
  <2>2. load[p] \in Seq(Item) /\ Len(load[p]) = 1 /\ swaps[p] # <<>>
    BY <2>1 DEF TypeOK, Control, Swapping
  <2>3. span[J(p)] \in Item
    BY <2>2, SwapIndices, SizeN DEF TypeOK, SpanOf
  <2>4. load'[p][1] = load[p][1] /\ load'[p][2] = span[J(p)]
    BY <2>1, <2>2, <2>3, Appended
  <2> QED  BY <2>1, <2>4 DEF Walk, Made, I, J
<1>4. CASE Store(p)
  <2>1. /\ pc[p] = "store" /\ pc'[p] = "store2" /\ UNCHANGED <<swaps, load>>
        /\ span' = [span EXCEPT ![I(p)] = load[p][2]]
    BY <1>4 DEF Store, TypeOK
  <2>2. span = a /\ load[p][1] = a[I(p)] /\ load[p][2] = a[J(p)]
    BY <2>1 DEF Walk
  <2>3. span' = [a EXCEPT ![I(p)] = a[J(p)]]
    BY <2>1, <2>2
  <2> QED  BY <2>1, <2>2, <2>3 DEF Walk, Made, I, J
<1>5. CASE Store2(p)
  <2>1. /\ pc[p] = "store2" /\ pc'[p] = "load" /\ UNCHANGED load
        /\ span' = [span EXCEPT ![J(p)] = load[p][1]]
        /\ swaps'[p] = Tail(swaps[p])
    BY <1>5 DEF Store2, TypeOK
  <2>2. swaps[p] # <<>> /\ swaps[p] \in Seq(Indices \X Indices)
    BY <2>1 DEF TypeOK, Control, Swapping
  <2>3. I(p) \in 0 .. N-1 /\ J(p) \in 0 .. N-1
    BY <2>2, SwapIndices, SizeN
  <2>4. /\ m + 1 \in 1 .. N-1 /\ (m + 1) - 1 = m
        /\ I(p) = sw[m + 1][1] /\ J(p) = sw[m + 1][2]
    BY <1>1, <2>2, AtSwap
  <2>5. Len(swaps'[p]) = Len(swaps[p]) - 1 /\ Len(swaps[p]) \in Nat
        /\ \A x \in 1 .. Len(swaps[p]) - 1 : swaps'[p][x] = swaps[p][x + 1]
    BY <2>1, <2>2
  <2>6. Made(p)' = m + 1
    BY <2>5, SizeN DEF Made
  <2>7. \A x \in 1 .. Len(swaps'[p]) : swaps'[p][x] = sw[Made(p)' + x]
    <3> TAKE x \in 1 .. Len(swaps'[p])
    <3>1. x + 1 \in 1 .. Len(swaps[p]) /\ m + (x + 1) = (m + 1) + x
      BY <1>1, <2>5
    <3>2. swaps'[p][x] = swaps[p][x + 1]
      BY <2>5
    <3>3. swaps[p][x + 1] = sw[m + (x + 1)]
      BY <3>1 DEF Walk
    <3> QED  BY <2>6, <3>1, <3>2, <3>3
  <2>8. span = [a EXCEPT ![I(p)] = a[J(p)]] /\ load[p][1] = a[I(p)]
    BY <2>1 DEF Walk
  <2>9. r[m + 1] = Swapped(a, I(p), J(p))
    BY <2>4 DEF IsPath
  <2>10. [[a EXCEPT ![I(p)] = a[J(p)]] EXCEPT ![J(p)] = a[I(p)]] = Swapped(a, I(p), J(p))
    BY <1>1, <2>3, TwoStores, SizeN
  <2> HIDE DEF a, m
  <2>11. span' = r[m + 1]
    BY <2>1, <2>8, <2>9, <2>10
  <2>12. m + 1 \in 0 .. N-1
    BY <2>4
  <2> QED  BY <2>1, <2>6, <2>7, <2>11, <2>12 DEF Walk
<1>6. CASE Return(p)
  <2>1. pc[p] = "load" /\ pc'[p] = "done" /\ UNCHANGED <<span, swaps, load>>
    BY <1>6 DEF Return, TypeOK
  <2> QED  BY <2>1 DEF Walk, Made, I, J
<1> QED  BY <1>2, <1>3, <1>4, <1>5, <1>6

-----------------------------------------------------------------------------
\* The seed of the file, whatever order its objects are in.
Whose == SeedOf(Range(original))

\* How far the scan of p is, no other process having stored.
Seeding(p) ==
    /\ pc[p] = "scan" => Scanned(p)
    /\ pc[p] \notin {"start", "scan"} => seen[p] = Range(original)

Before == {"start", "scan", "seed"}

\* p has the file to itself.
First(p) ==
    /\ Seeding(p)
    /\ pc[p] \in Before => span = original
    /\ pc[p] \notin Before =>
          /\ Whose \in DOMAIN gens
          /\ Walk(p, Way(op[p], gens[Whose], original), Swaps(op[p], gens[Whose]))

Finished(p) == swaps[p] = <<>> /\ pc[p] \in {"load", "done"}

\* q starts where p has ended, and goes p's way back.
Second(p, q) ==
    /\ Seeding(q)
    /\ Whose \in DOMAIN gens
    /\ pc[q] \in Before => span = Way(op[p], gens[Whose], original)[N-1]
    /\ pc[q] \notin Before =>
          Walk(q, Backward(Way(op[p], gens[Whose], original)), Swaps(op[q], gens[Whose]))

InOrder(p, q) ==
    /\ pc[q] = "start" => First(p)
    /\ pc[q] # "start" /\ alone[q] /\ Finished(p) => Second(p, q)

OrderInv ==
    /\ TypeOK /\ Control
    /\ \A p, q \in Process : Process = {p, q} /\ op[p] # op[q] => InOrder(p, q)

\* A generator stays what it was for the seeds it has had.
LEMMA GeneratorsStay ==
    ASSUME NEW p \in Process, Step(p)
    PROVE  /\ \A s \in DOMAIN gens : s \in DOMAIN gens' /\ gens'[s] = gens[s]
           /\ original' = original /\ op' = op
  <1>1. CASE Seed(p)
    BY <1>1 DEF Seed, file
  <1>2. CASE ~Seed(p)
    BY <1>2 DEF Step, Map, Scan, Load, Load2, Store, Store2, Return, file
  <1> QED  BY <1>1, <1>2

\* The swaps a seed gives.
LEMMA SeedLists ==
    ASSUME TypeOK, NEW p \in Process, Seed(p)
    PROVE  \E draw \in Tape :
              /\ SeedOf(seen[p]) \in DOMAIN gens' /\ gens'[SeedOf(seen[p])] = draw
              /\ SeedOf(seen[p]) \in DOMAIN gens => draw = gens[SeedOf(seen[p])]
              /\ swaps'[p] = Swaps(op[p], draw) /\ Len(swaps'[p]) = N-1
<1> DEFINE seed == SeedOf(seen[p])
           list(draw) == [x \in 1 .. N - 1 |->
                 IF op[p] = "shuffle" THEN <<N - x, draw[N - x]>> ELSE <<x, draw[x]>>]
<1>1. PICK draw \in IF seed \in DOMAIN gens THEN {gens[seed]} ELSE Tape :
          /\ gens' = [s \in DOMAIN gens \cup {seed} |-> IF s = seed THEN draw ELSE gens[s]]
          /\ swaps' = [swaps EXCEPT ![p] = list(draw)]
  BY DEF Seed
<1>2. draw \in Tape
  BY DEF TypeOK
<1> HIDE DEF seed, list
<1>3. seed \in DOMAIN gens' /\ gens'[seed] = draw /\ (seed \in DOMAIN gens => draw = gens[seed])
  BY <1>1
<1>4. swaps'[p] = Swaps(op[p], draw)
  BY <1>1 DEF TypeOK, list, Swaps
<1>5. Len(swaps'[p]) = N-1
  <2>1. Swaps(op[p], draw) \in [1 .. N-1 -> Indices \X Indices]
    BY <1>2, SwapsType
  <2> HIDE DEF Swaps
  <2>2. Len(Swaps(op[p], draw)) = N-1
    BY <2>1, SizeN
  <2> QED  BY <1>4, <2>2
<1> QED  BY <1>2, <1>3, <1>4, <1>5 DEF seed

\* A loop begins at the start of its path.
LEMMA SeedWalks ==
    ASSUME TypeOK, NEW p \in Process, Seed(p), SeedOf(seen[p]) = Whose
    PROVE  \E draw \in Tape :
              /\ Whose \in DOMAIN gens' /\ gens'[Whose] = draw
              /\ Whose \in DOMAIN gens => draw = gens[Whose]
              /\ pc'[p] = "load"
              /\ \A r : r[0] = span => Walk(p, r, Swaps(op[p], draw))'
<1>1. PICK draw \in Tape :
          /\ Whose \in DOMAIN gens' /\ gens'[Whose] = draw
          /\ Whose \in DOMAIN gens => draw = gens[Whose]
          /\ swaps'[p] = Swaps(op[p], draw) /\ Len(swaps'[p]) = N-1
  BY SeedLists
<1>2. op' = op /\ span' = span /\ pc'[p] = "load"
  BY DEF Seed, At, TypeOK, file
<1>3. Made(p)' = 0 /\ 0 \in 0 .. N-1
  BY <1>1, SizeN DEF Made
<1>4. ASSUME NEW r, r[0] = span PROVE Walk(p, r, Swaps(op[p], draw))'
  <2>1. \A x \in 1 .. Len(swaps'[p]) : swaps'[p][x] = Swaps(op[p], draw)[Made(p)' + x]
    BY <1>1, <1>3, SizeN
  <2> QED  BY <1>2, <1>3, <1>4, <2>1 DEF Walk
<1> QED  BY <1>1, <1>2, <1>4

\* A scan of a file that has the objects of the original.
LEMMA SeedingStep ==
    ASSUME TypeOK, Control, NEW p \in Process, Step(p), Seeding(p),
           pc[p] \in Before => Range(span) = Range(original)
    PROVE  Seeding(p)'
<1>1. original' = original
  BY GeneratorsStay
<1>2. CASE Map(p)
  <2>1. pc'[p] = "scan"
    BY <1>2 DEF Map, At, TypeOK
  <2> QED  BY <1>2, <2>1, MapScans DEF Seeding
<1>3. CASE Scan(p)
  <2>1. pc[p] = "scan" /\ pc'[p] \in {"scan", "seed"}
    BY <1>3 DEF Scan, At, TypeOK
  <2>2. Range(span) = Range(original) /\ Scanned(p)
    BY <2>1 DEF Before, Seeding
  <2> QED  BY <1>1, <1>3, <2>1, <2>2, ScanScans DEF Seeding
<1>4. CASE ~Map(p) /\ ~Scan(p)
  <2>1. /\ pc[p] \notin {"start", "scan"} /\ pc'[p] \notin {"start", "scan"}
        /\ seen'[p] = seen[p]
    BY <1>4 DEF Step, Seed, Load, Load2, Store, Store2, Return, At, TypeOK
  <2> QED  BY <1>1, <2>1 DEF Seeding
<1> QED  BY <1>2, <1>3, <1>4

\* The file to itself: its own step goes on along its path.
LEMMA FirstStep ==
    ASSUME TypeOK, Control, NEW p \in Process, Step(p), First(p)
    PROVE  First(p)'
<1>1. original' = original /\ op' = op /\ Whose' = Whose
  BY GeneratorsStay DEF Whose
<1>2. Seeding(p)'
  BY SeedingStep DEF First
<1>3. CASE Map(p) \/ Scan(p)
  <2>1. pc[p] \in Before /\ pc'[p] \in Before /\ span' = span
    BY <1>3 DEF Map, Scan, At, TypeOK, Before, file
  <2> QED  BY <1>1, <1>2, <2>1 DEF First
<1>4. CASE Seed(p)
  <2>1. pc[p] = "seed" /\ span = original /\ seen[p] = Range(original)
    BY <1>4 DEF Seed, At, First, Seeding, Before
  <2>2. SeedOf(seen[p]) = Whose
    BY <2>1 DEF Whose
  <2>3. PICK d \in Tape :
            /\ Whose \in DOMAIN gens' /\ gens'[Whose] = d /\ pc'[p] = "load"
            /\ \A w : w[0] = span => Walk(p, w, Swaps(op[p], d))'
    BY <1>4, <2>2, SeedWalks
  <2>4. PICK w : w = Way(op[p], d, original)
    OBVIOUS
  <2>5. w[0] = original
    <3>1. IsWay(w, op[p], d, original)
      BY <2>4, WayIs DEF TypeOK
    <3> QED  BY <3>1 DEF IsWay, IsPath
  <2>6. Walk(p, w, Swaps(op[p], d))'
    BY <2>1, <2>3, <2>5
  <2>7. gens'[Whose'] = d /\ Way(op'[p], d, original') = w
    BY <1>1, <2>3, <2>4
  <2> QED  BY <1>1, <1>2, <2>3, <2>6, <2>7 DEF First, Before
<1>5. CASE Load(p) \/ Load2(p) \/ Store(p) \/ Store2(p) \/ Return(p)
  <2>1. pc[p] \notin Before /\ pc'[p] \notin Before /\ gens' = gens
    BY <1>5 DEF Load, Load2, Store, Store2, Return, At, TypeOK, Before
  <2>2. Whose \in DOMAIN gens /\ gens[Whose] \in Tape
    BY <2>1 DEF First, TypeOK
  <2>3. PICK r, sw : r = Way(op[p], gens[Whose], original) /\ sw = Swaps(op[p], gens[Whose])
    OBVIOUS
  <2>4. Walk(p, r, sw)
    BY <2>1, <2>3 DEF First
  <2>5. IsWay(r, op[p], gens[Whose], original)
    BY <2>2, <2>3, WayIs DEF TypeOK
  <2>6. r \in [0 .. N-1 -> SpanOf(N, Item)] /\ IsPath(r, r[0], sw, N-1)
    BY <2>3, <2>5 DEF IsWay, IsPath
  <2>7. Walk(p, r, sw)'
    BY <1>5, <2>4, <2>6, WalkStep
  <2>8. r = Way(op[p], gens[Whose], original)' /\ sw = Swaps(op[p], gens[Whose])'
    BY <1>1, <2>1, <2>3
  <2> QED  BY <1>1, <1>2, <2>1, <2>2, <2>7, <2>8 DEF First
<1> QED  BY <1>3, <1>4, <1>5 DEF Step

\* What p leaves when it is finished.
LEMMA FirstLeaves ==
    ASSUME TypeOK, NEW p \in Process, First(p), Finished(p)
    PROVE  /\ Whose \in DOMAIN gens
           /\ span = Way(op[p], gens[Whose], original)[N-1]
<1>1. pc[p] \notin Before /\ pc[p] # "store2" /\ swaps[p] = <<>>
  BY DEF Finished, Before
<1>2. Made(p) = N-1
  BY <1>1, SizeN DEF Made
<1> QED  BY <1>1, <1>2 DEF First, Walk

\* p has finished: the steps of q go the way back.
LEMMA SecondStep ==
    ASSUME TypeOK, Control, NEW p \in Process, NEW q \in Process, op[p] # op[q],
           Step(q), Finished(p), pc[q] # "start", Second(p, q)
    PROVE  Second(p, q)'
<1>1. original' = original /\ op' = op /\ Whose' = Whose
  BY GeneratorsStay DEF Whose
<1>2. Whose \in DOMAIN gens /\ Whose \in DOMAIN gens' /\ gens'[Whose] = gens[Whose]
      /\ gens[Whose] \in Tape
  BY GeneratorsStay DEF Second, TypeOK
<1>3. PICK d, r, sw :
          /\ d = gens[Whose] /\ r = Way(op[p], d, original) /\ sw = Swaps(op[q], d)
  OBVIOUS
<1>4. /\ r = Way(op[p], gens[Whose], original)'
      /\ sw = Swaps(op[q], gens[Whose])'
  BY <1>1, <1>2, <1>3
<1>5. IsWay(r, op[p], d, original)
  BY <1>2, <1>3, WayIs DEF TypeOK
<1>6. SameObjects(original, r[N-1]) /\ r[N-1] \in SpanOf(N, Item)
  BY <1>5, SizeN DEF IsWay
<1>7. /\ Backward(r) \in [0 .. N-1 -> SpanOf(N, Item)]
      /\ IsPath(Backward(r), Backward(r)[0], sw, N-1) /\ Backward(r)[0] = r[N-1]
  <2>1. original \in SpanOf(N, Item) /\ op[p] \in Ops /\ op[q] \in Ops /\ d \in Tape
    BY <1>2, <1>3 DEF TypeOK
  <2>2. IsPath(Backward(r), r[N-1], Swaps(op[q], d), N-1) /\ Backward(r)[0] = r[N-1]
        /\ Backward(r) \in [0 .. N-1 -> SpanOf(N, Item)]
    BY <1>5, <2>1, WayBack
  <2> QED  BY <1>3, <2>2
<1>8. pc[q] \in Before => span = r[N-1]
  BY <1>3 DEF Second
<1>9. pc[q] \in Before => Range(span) = Range(original)
  BY <1>6, <1>8, SameObjectsRange, SizeN DEF TypeOK
<1>10. Seeding(q)'
  BY <1>9, SeedingStep DEF Second
<1>11. CASE Map(q) \/ Scan(q)
  <2>1. pc[q] \in Before /\ pc'[q] \in Before /\ span' = span
    BY <1>11 DEF Map, Scan, At, TypeOK, Before, file
  <2> QED  BY <1>2, <1>1, <1>4, <1>8, <1>10, <2>1 DEF Second
<1>12. CASE Seed(q)
  <2>1. pc[q] = "seed" /\ seen[q] = Range(original) /\ span = r[N-1]
    BY <1>8, <1>12 DEF Seed, At, Second, Seeding, Before
  <2>2. SeedOf(seen[q]) = Whose
    BY <2>1 DEF Whose
  <2>3. /\ pc'[q] = "load"
        /\ \A w : w[0] = span => Walk(q, w, Swaps(op[q], d))'
    BY <1>2, <1>3, <1>12, <2>2, SeedWalks
  <2>4. Walk(q, Backward(r), Swaps(op[q], d))'
    BY <1>7, <2>1, <2>3
  <2>5. Walk(q, Backward(r), sw)'
    BY <1>1, <1>3, <2>4
  <2> QED  BY <1>1, <1>2, <1>4, <1>10, <2>3, <2>5 DEF Second, Before
<1>13. CASE Load(q) \/ Load2(q) \/ Store(q) \/ Store2(q) \/ Return(q)
  <2>1. pc[q] \notin Before /\ pc'[q] \notin Before
    BY <1>13 DEF Load, Load2, Store, Store2, Return, At, TypeOK, Before
  <2>2. Walk(q, Backward(r), sw)
    BY <1>3, <2>1 DEF Second
  <2>3. PICK b : b = Backward(r)
    OBVIOUS
  <2>4. Walk(q, b, sw)'
    BY <1>7, <1>13, <2>2, <2>3, WalkStep
  <2> QED  BY <1>1, <1>2, <1>4, <1>10, <2>1, <2>3, <2>4 DEF Second
<1> QED  BY <1>11, <1>12, <1>13 DEF Step

\* q starts after p has finished.
LEMMA SecondStarts ==
    ASSUME TypeOK, Control, NEW p \in Process, NEW q \in Process, p # q,
           Map(q), Finished(p), First(p)
    PROVE  Second(p, q)'
<1>1. /\ original' = original /\ op' = op /\ Whose' = Whose
      /\ gens' = gens /\ span' = span
  BY DEF Map, Whose, file
<1>2. pc'[q] = "scan" /\ Scanned(q)'
  BY MapScans DEF Map, At, TypeOK
<1>3. Whose \in DOMAIN gens /\ span = Way(op[p], gens[Whose], original)[N-1]
  BY FirstLeaves
<1> QED  BY <1>1, <1>2, <1>3 DEF Second, Seeding, Before

\* A process finishes with a store, which the other one has met.
LEMMA FinishStores ==
    ASSUME TypeOK, Control, NEW p \in Process, NEW q \in Process, p # q,
           Step(p), ~Finished(p), Finished(p)'
    PROVE  ~alone'[q]
<1>1. ~Seed(p)
  <2> SUFFICES ASSUME Seed(p) PROVE FALSE
    OBVIOUS
  <2>1. Len(swaps'[p]) = N-1 /\ N-1 # 0
    BY SeedLists, SizeN
  <2> QED  BY <2>1 DEF Finished
<1>2. ~Store2(p) => pc'[p] \in {"scan", "seed", "load2", "store", "store2"} \/ Return(p)
  BY <1>1 DEF Step, Map, Scan, Load, Load2, Store, At, TypeOK
<1>3. Return(p) => Finished(p)
  BY DEF Return, At, Finished
<1>4. Store2(p)
  BY <1>2, <1>3 DEF Finished
<1> QED  BY <1>4 DEF Store2, Others

LEMMA InOrderStep ==
    ASSUME TypeOK, Control, Next, NEW p \in Process, NEW q \in Process,
           Process = {p, q}, op[p] # op[q], InOrder(p, q)
    PROVE  InOrder(p, q)'
<1>1. p # q
  OBVIOUS
<1>2. CASE Step(p)
  <2>1. /\ pc'[q] = pc[q] /\ swaps'[q] = swaps[q] /\ load'[q] = load[q]
        /\ k'[q] = k[q] /\ seen'[q] = seen[q]
        /\ alone'[q] => alone[q]
    BY <1>1, <1>2 DEF Step, Map, Scan, Seed, Load, Load2, Store, Store2, Return, At, TypeOK,
          Others, history
  <2>2. pc'[q] = "start" => First(p)'
    BY <1>2, <2>1, FirstStep DEF InOrder
  <2>3. ASSUME pc'[q] # "start", alone'[q], Finished(p)' PROVE Second(p, q)'
    <3>1. Finished(p)
      BY <1>1, <1>2, <2>3, FinishStores
    <3>2. Second(p, q)
      BY <2>1, <2>3, <3>1 DEF InOrder
    <3>3. Return(p)
      BY <1>2, <3>1 DEF Step, Map, Scan, Seed, Load, Load2, Store, Store2, At, Finished
    <3>4. UNCHANGED <<span, original, op, gens>>
      BY <3>3 DEF Return, file
    <3>5. Whose' = Whose
      BY <3>4 DEF Whose
    <3>6. Seeding(q)'
      BY <2>1, <3>2, <3>4 DEF Second, Seeding, Scanned
    <3>7. PICK r, sw : r = Backward(Way(op[p], gens[Whose], original)) /\ sw = Swaps(op[q], gens[Whose])
      OBVIOUS
    <3>8. Walk(q, r, sw) => Walk(q, r, sw)'
      BY <2>1, <3>4, WalkKeeps
    <3>9. r = Backward(Way(op[p], gens[Whose], original))' /\ sw = Swaps(op[q], gens[Whose])'
      BY <3>4, <3>5, <3>7
    <3> QED  BY <2>1, <3>2, <3>4, <3>5, <3>6, <3>7, <3>8, <3>9 DEF Second
  <2> QED  BY <2>2, <2>3 DEF InOrder
<1>3. CASE Step(q)
  <2>1. pc'[p] = pc[p] /\ swaps'[p] = swaps[p] /\ op' = op
    BY <1>1, <1>3 DEF Step, Map, Scan, Seed, Load, Load2, Store, Store2, Return, At, TypeOK
  <2>2. pc'[q] # "start"
    BY <1>3 DEF Step, Map, Scan, Seed, Load, Load2, Store, Store2, Return, At, TypeOK
  <2>3. ASSUME alone'[q], Finished(p)' PROVE Second(p, q)'
    <3>1. Finished(p)
      BY <2>1, <2>3 DEF Finished
    <3>2. CASE Map(q)
      <4>1. First(p)
        BY <3>2 DEF Map, At, InOrder
      <4> QED  BY <1>1, <3>1, <3>2, <4>1, SecondStarts
    <3>3. CASE ~Map(q)
      <4>1. pc[q] # "start" /\ alone[q]
        BY <1>3, <2>3, <3>3 DEF Step, Scan, Seed, Load, Load2, Store, Store2, Return, At, TypeOK,
              Others, history
      <4>2. Second(p, q)
        BY <3>1, <4>1 DEF InOrder
      <4> QED  BY <1>3, <3>1, <4>1, <4>2, SecondStep
    <3> QED  BY <3>2, <3>3
  <2> QED  BY <2>2, <2>3 DEF InOrder
<1> QED  BY <1>2, <1>3 DEF Next

LEMMA InitOrderInv == Init => OrderInv
<1> SUFFICES ASSUME Init PROVE OrderInv
  OBVIOUS
<1>1. TypeOK /\ Control
  BY InitRaceInv DEF RaceInv
<1>2. \A p \in Process : First(p) /\ pc[p] = "start"
  BY DEF Init, First, Seeding, Before
<1> QED  BY <1>1, <1>2 DEF OrderInv, InOrder

LEMMA NextOrderInv == OrderInv /\ [Next]_vars => OrderInv'
<1> SUFFICES ASSUME OrderInv, [Next]_vars PROVE OrderInv'
  OBVIOUS
<1>1. TypeOK /\ Control /\ TypeOK' /\ Control'
  BY TypeStep DEF OrderInv
<1>2. op' = op
  BY DEF Next, Step, Map, Scan, Seed, Load, Load2, Store, Store2, Return, vars
<1>3. CASE Next
  BY <1>1, <1>2, <1>3, InOrderStep DEF OrderInv
<1>4. CASE UNCHANGED vars
  <2>1. \A p, q \in Process : InOrder(p, q) => InOrder(p, q)'
    BY <1>4 DEF InOrder, First, Second, Seeding, Scanned, Finished, Walk, Made, I, J, Whose,
          vars, file, history
  <2> QED  BY <1>1, <1>2, <2>1 DEF OrderInv
<1> QED  BY <1>3, <1>4

(***************************************************************************)
(* A -s and a -u of the same file undo each other, without a lock, if one   *)
(* of them mapped it after the other had made its last store: it may scan   *)
(* before the other has returned (work.cpp 54-92, shuffle.hpp 11-52).       *)
(***************************************************************************)
THEOREM OrderTheorem == Spec => []OneAfterTheOther
<1>1. OrderInv => OneAfterTheOther
  <2> SUFFICES ASSUME OrderInv, NEW p \in Process, NEW q \in Process,
                      Process = {p, q}, op[p] # op[q], pc[p] = "done", pc[q] = "done", alone[q]
               PROVE  span = original
    BY DEF OneAfterTheOther
  <2>1. TypeOK /\ Control /\ InOrder(p, q)
    BY DEF OrderInv
  <2>2. swaps[p] = <<>> /\ swaps[q] = <<>>
    BY <2>1 DEF Control
  <2>3. Second(p, q)
    BY <2>1, <2>2 DEF InOrder, Finished
  <2> DEFINE d == gens[Whose]
             r == Way(op[p], d, original)
  <2>4. d \in Tape /\ Walk(q, Backward(r), Swaps(op[q], d))
    BY <2>1, <2>3 DEF Second, Before, TypeOK
  <2>5. Made(q) = N-1
    BY <2>2, SizeN DEF Made
  <2>6. original \in SpanOf(N, Item) /\ op[p] \in Ops /\ op[q] \in Ops
    BY <2>1 DEF TypeOK
  <2>7. IsWay(r, op[p], d, original)
    BY <2>4, <2>6, WayIs
  <2> HIDE DEF d, r
  <2>8. Backward(r)[N-1] = original
    BY <2>4, <2>6, <2>7, WayBack
  <2>9. span = Backward(r)[Made(q)]
    BY <2>4 DEF Walk
  <2> QED  BY <2>5, <2>8, <2>9
<1> QED
  BY <1>1, InitOrderInv, NextOrderInv, PTL DEF Spec

-----------------------------------------------------------------------------
\* The steps p has still to take: the objects to scan, four steps of each swap,
\* the turns from one to the other.
Left(p) ==
    CASE pc[p] = "start"  -> 5 * N - 1
      [] pc[p] = "scan"   -> 5 * N - 2 - k[p]
      [] pc[p] = "seed"   -> 4 * N - 2
      [] pc[p] = "load"   -> 4 * Len(swaps[p]) + 1
      [] pc[p] = "load2"  -> 4 * Len(swaps[p])
      [] pc[p] = "store"  -> 4 * Len(swaps[p]) - 1
      [] pc[p] = "store2" -> 4 * Len(swaps[p]) - 2
      [] OTHER            -> 0

StepsLeft == [p \in Process |-> Left(p)]

\* A process that has not returned has a step to take, whatever the others are
\* at: an object to scan, or a swap to make and what it has loaded of it.
StepToTake == \A p \in Process :
    /\ StepsLeft[p] \in Nat
    /\ StepsLeft[p] = 0 <=> pc[p] = "done"
    /\ pc[p] = "scan" => k[p] \in Indices
    /\ Swapping(p) => Now(p) \subseteq Indices
    /\ pc[p] \in {"store", "store2"} => Len(load[p]) = 2

\* Each step is one of one process's, which has one fewer to take; the others
\* have as many as before.
EachStepCounts == [][\E p \in Process : StepsLeft' = [StepsLeft EXCEPT ![p] = @ - 1]]_vars

LEMMA ControlCounts == TypeOK /\ Control => StepToTake
<1> SUFFICES ASSUME TypeOK, Control, NEW p \in Process
             PROVE  /\ StepsLeft[p] \in Nat
                    /\ StepsLeft[p] = 0 <=> pc[p] = "done"
                    /\ pc[p] = "scan" => k[p] \in Indices
                    /\ Swapping(p) => Now(p) \subseteq Indices
                    /\ pc[p] \in {"store", "store2"} => Len(load[p]) = 2
  BY DEF StepToTake
<1>1. /\ pc[p] \in {"start", "scan", "seed", "load", "load2", "store", "store2", "done"}
      /\ k[p] \in 0 .. N /\ Len(swaps[p]) \in Nat /\ swaps[p] \in Seq(Indices \X Indices)
  BY DEF TypeOK
<1>2. Swapping(p) => Len(swaps[p]) > 0
  BY <1>1 DEF Control
<1>3. pc[p] = "scan" => k[p] \in Indices
  BY <1>1, SizeN DEF Control
<1>4. Swapping(p) => Now(p) \subseteq Indices
  BY SwapIndices DEF Control, Now
<1>5. pc[p] \in {"store", "store2"} => Len(load[p]) = 2
  BY DEF Control
<1>6. StepsLeft[p] = Left(p)
  BY DEF StepsLeft
<1>7. Left(p) \in Nat /\ (Left(p) = 0 <=> pc[p] = "done")
  <2>1. CASE pc[p] = "scan"
    <3>1. Left(p) = 5 * N - 2 - k[p]
      BY <2>1 DEF Left
    <3> QED  BY <1>1, <2>1, <3>1, SizeN
  <2>2. CASE pc[p] = "start"
    <3>1. Left(p) = 5 * N - 1
      BY <2>2 DEF Left
    <3> QED  BY <2>2, <3>1, SizeN
  <2>3. CASE pc[p] \in {"seed", "load", "done"}
    BY <1>1, <2>3, SizeN DEF Left
  <2>4. CASE pc[p] \in {"load2", "store", "store2"}
    BY <1>1, <1>2, <2>4, SizeN, SMTT(30) DEF Left, Swapping
  <2> QED  BY <1>1, <2>1, <2>2, <2>3, <2>4
<1> QED  BY <1>3, <1>4, <1>5, <1>6, <1>7

\* What a step of p does to what p has left, and that it does nothing to what
\* the others have.
LEMMA OthersKeep ==
    ASSUME NEW p \in Process, NEW q \in Process \ {p}, Step(p), TypeOK
    PROVE  pc'[q] = pc[q] /\ k'[q] = k[q] /\ swaps'[q] = swaps[q]
BY DEF Step, Map, Scan, Seed, Load, Load2, Store, Store2, Return, At, TypeOK

LEMMA OneFewer ==
    ASSUME NEW p \in Process, Step(p), TypeOK, Control
    PROVE  Left(p)' = Left(p) - 1
<1> USE SizeN DEF At
<1>1. /\ pc \in [Process -> {"start", "scan", "seed", "load", "load2", "store", "store2", "done"}]
      /\ k[p] \in 0 .. N /\ k \in [Process -> 0 .. N]
      /\ swaps \in [Process -> Seq(Indices \X Indices)] /\ Len(swaps[p]) \in Nat
  BY DEF TypeOK
<1>2. CASE Map(p)
  <2>1. pc[p] = "start" /\ pc'[p] = "scan" /\ k'[p] = 0
    BY <1>1, <1>2 DEF Map, Control
  <2>2. Left(p) = 5 * N - 1 /\ Left(p)' = 5 * N - 2 - k'[p]
    BY <2>1 DEF Left
  <2> QED  BY <2>1, <2>2
<1>3. CASE Scan(p)
  <2>1. pc[p] = "scan" /\ k'[p] = k[p] + 1 /\ pc'[p] = IF k[p] = N - 1 THEN "seed" ELSE "scan"
    BY <1>1, <1>3 DEF Scan
  <2>2. Left(p) = 5 * N - 2 - k[p]
    BY <2>1 DEF Left
  <2>3. CASE k[p] = N - 1
    <3>1. Left(p)' = 4 * N - 2
      BY <2>1, <2>3 DEF Left
    <3> QED  BY <2>2, <2>3, <3>1
  <2>4. CASE k[p] # N - 1
    <3>1. Left(p)' = 5 * N - 2 - k'[p]
      BY <2>1, <2>4 DEF Left
    <3> QED  BY <1>1, <2>1, <2>2, <3>1
  <2> QED  BY <2>3, <2>4
<1>4. CASE Seed(p)
  <2>1. pc[p] = "seed" /\ pc'[p] = "load"
    BY <1>1, <1>4 DEF Seed
  <2>2. Len(swaps'[p]) = N - 1
    BY <1>4, SeedLists
  <2> QED  BY <2>1, <2>2 DEF Left
<1>5. CASE Load(p) \/ Load2(p) \/ Store(p)
  <2>1. /\ swaps'[p] = swaps[p]
        /\ \/ pc[p] = "load" /\ pc'[p] = "load2"
           \/ pc[p] = "load2" /\ pc'[p] = "store"
           \/ pc[p] = "store" /\ pc'[p] = "store2"
    BY <1>1, <1>5 DEF Load, Load2, Store
  <2> QED  BY <1>1, <2>1 DEF Left
<1>6. CASE Store2(p)
  <2>1. pc[p] = "store2" /\ pc'[p] = "load" /\ swaps'[p] = Tail(swaps[p])
    BY <1>1, <1>6 DEF Store2
  <2>2. Len(Tail(swaps[p])) = Len(swaps[p]) - 1
    BY <1>1, <2>1 DEF Control, Swapping
  <2>3. Left(p) = 4 * Len(swaps[p]) - 2
    BY <2>1 DEF Left
  <2>4. Left(p)' = 4 * Len(swaps'[p]) + 1
    BY <2>1 DEF Left
  <2>5. Left(p)' = 4 * (Len(swaps[p]) - 1) + 1 /\ Len(swaps[p]) \in Nat
    BY <1>1, <2>1, <2>2, <2>4
  <2> QED  BY <2>3, <2>5
<1>7. CASE Return(p)
  <2>1. pc[p] = "load" /\ pc'[p] = "done" /\ Len(swaps[p]) = 0
    BY <1>1, <1>7 DEF Return
  <2> QED  BY <2>1 DEF Left
<1> QED  BY <1>2, <1>3, <1>4, <1>5, <1>6, <1>7 DEF Step

(***************************************************************************)
(* What AllReturn rests on, for any number of processes: none waits for     *)
(* another, and none gives another anything more to do.  The steps each has *)
(* to take are known when it starts, and only its own count against them.   *)
(***************************************************************************)
THEOREM StepsTheorem == Spec => []StepToTake /\ EachStepCounts
<1>1. ASSUME TypeOK, Control, NEW p \in Process, Step(p)
      PROVE  StepsLeft' = [StepsLeft EXCEPT ![p] = @ - 1]
  <2>1. StepsLeft'[p] = StepsLeft[p] - 1
    BY <1>1, OneFewer DEF StepsLeft
  <2>2. \A q \in Process \ {p} : StepsLeft'[q] = StepsLeft[q]
    BY <1>1, OthersKeep DEF StepsLeft, Left
  <2>3. /\ StepsLeft' = [q \in Process |-> StepsLeft'[q]]
        /\ StepsLeft = [q \in Process |-> StepsLeft[q]]
    BY DEF StepsLeft
  <2> QED  BY <2>1, <2>2, <2>3
<1>2. TypeOK /\ Control /\ [Next]_vars
        => [\E p \in Process : StepsLeft' = [StepsLeft EXCEPT ![p] = @ - 1]]_vars
  BY <1>1 DEF Next
<1>3. RaceInv => TypeOK /\ Control
  BY DEF RaceInv
<1> QED  BY <1>2, <1>3, ControlCounts, InitRaceInv, NextRaceInv, PTL DEF Spec, EachStepCounts

=============================================================================
