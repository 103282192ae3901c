---------------------------- MODULE ShuffleProofs ----------------------------
(***************************************************************************)
(* Shuffle's invariants, for every span size, object type, filter, order,   *)
(* generator and bound on the depth.  They are proved in layers:            *)
(*   Basic      types, loop indices and the stack of draws;                 *)
(*   Objects    ObjectsConserved, on top of Basic;                          *)
(*   Seeds      SeedStable, on top of Objects: reordered files give the     *)
(*              same seed;                                                  *)
(*   Walk       Chain, Paths and OnPath, on top of Seeds: a call retraces   *)
(*              the path of the call it undoes.                             *)
(* From them follow the refinement of Reversible, the count of a call's     *)
(* steps and what a whole call makes of the span.                           *)
(***************************************************************************)
EXTENDS Shuffle, SpanTheorems

Basic == TypeOK /\ Control /\ DrawsAlign

\* A generator's answers are indices of the span.
LEMMA DrawBounds ==
    ASSUME TypeOK, NEW s \in DOMAIN tape, NEW k \in 1 .. size-1
    PROVE  tape[s][k] \in 0 .. size-1 /\ tape[s][k] \in 0 .. k
BY UpToAssumption, SizesAssumption DEF TypeOK, Tapes

\* The size is a natural number.
LEMMA SizeNat == TypeOK => size \in Nat
BY SizesAssumption DEF TypeOK

\* A span's seeds are pairs of integers.
LEMMA SeedsType == TypeOK =>
    SeedsOf(KeptKeys(span, Keep, Key), debug, Key[Zero], Range(Key)) \subseteq Seed
<1> SUFFICES ASSUME TypeOK
             PROVE  SeedsOf(KeptKeys(span, Keep, Key), debug, Key[Zero], Range(Key)) \subseteq Seed
  OBVIOUS
<1>1. KeptKeys(span, Keep, Key) \subseteq Int
  BY KeyAssumption, ItemAssumption DEF KeptKeys
<1>2. Key[Zero] \in Int /\ Range(Key) \subseteq Int
  BY KeyAssumption, ItemAssumption DEF Range
<1> QED
  BY <1>1, <1>2 DEF SeedsOf, Seed

\* Seeding keeps the types of the seed and of the tapes, forgets no tape and
\* leaves the seed with one.
LEMMA SeedGeneratorType ==
    ASSUME TypeOK, SeedGenerator
    PROVE  /\ seed' \in Seed
           /\ DOMAIN tape' \subseteq Seed
           /\ tape' \in [DOMAIN tape' -> Tapes(size, UpTo)]
           /\ seed' \in DOMAIN tape'
           /\ \A s \in DOMAIN tape : s \in DOMAIN tape' /\ tape'[s] = tape[s]
           /\ DOMAIN tape' = DOMAIN tape \cup {seed'}
<1>1. seed' \in Seed
  BY SeedsType DEF SeedGenerator
<1>2. PICK t \in Tapes(size, UpTo) :
          tape' = IF seed' \in DOMAIN tape THEN tape
                  ELSE [s \in DOMAIN tape \cup {seed'} |-> IF s = seed' THEN t ELSE tape[s]]
  BY DEF SeedGenerator
<1>3. DOMAIN tape \subseteq Seed /\ tape \in [DOMAIN tape -> Tapes(size, UpTo)]
  BY DEF TypeOK
<1>4. CASE seed' \in DOMAIN tape
  BY <1>1, <1>2, <1>3, <1>4
<1>5. CASE seed' \notin DOMAIN tape
  <2>1. tape' = [s \in DOMAIN tape \cup {seed'} |-> IF s = seed' THEN t ELSE tape[s]]
    BY <1>2, <1>5
  <2>2. DOMAIN tape' = DOMAIN tape \cup {seed'}
    BY <2>1
  <2>3. \A s \in DOMAIN tape : tape'[s] = tape[s]
    BY <2>1, <1>5
  <2>4. tape' \in [DOMAIN tape \cup {seed'} -> Tapes(size, UpTo)]
    BY <2>1, <1>3
  <2> QED
    BY <1>1, <1>3, <2>2, <2>3, <2>4
<1> QED
  BY <1>4, <1>5

\* The history of the depths reached keeps its type when a call returns.
LEMMA ArriveType ==
    ASSUME TypeOK, NEW d \in Depths, Arrive(d), UNCHANGED size
    PROVE  /\ depth' \in Depths
           /\ DOMAIN seen' \subseteq Depths
           /\ seen' \in [DOMAIN seen' -> Array']
           /\ pc' = "idle" /\ i' = 0 /\ j' = 0 /\ tmp' \in Item /\ rng_values' \in Seq(Nat)
<1>1. DOMAIN seen \subseteq Depths /\ seen \in [DOMAIN seen -> Array] /\ span \in Array
  BY DEF TypeOK
<1>2. Array' = Array
  BY DEF Array, SpanOf
<1>3. DOMAIN seen' \subseteq Depths /\ seen' \in [DOMAIN seen' -> Array']
  <2>1. CASE d \in DOMAIN seen
    BY <1>1, <1>2, <2>1 DEF Arrive
  <2>2. CASE d \notin DOMAIN seen
    <3>1. seen' = [e \in DOMAIN seen \cup {d} |-> IF e = d THEN span ELSE seen[e]]
      BY <2>2 DEF Arrive
    <3>2. DOMAIN seen' = DOMAIN seen \cup {d}
      BY <3>1
    <3>3. seen' \in [DOMAIN seen \cup {d} -> Array]
      BY <1>1, <3>1
    <3> QED
      BY <1>1, <1>2, <3>2, <3>3
  <2> QED
    BY <2>1, <2>2
<1> QED
  BY <1>3, ItemAssumption DEF Arrive

\* Entering a call keeps the types and sets up the loop.
LEMMA CallBasic ==
    ASSUME Basic, NEW e \in Int, e \in Depths, e + 1 \in Depths,
           NEW entry \in {"shuffle", "push"}, Call(e, entry),
           e = IF entry = "shuffle" THEN depth ELSE depth - 1
    PROVE  /\ Basic'
           /\ \A f \in DOMAIN path : f \in DOMAIN path' /\ path'[f] = path[f]
           /\ DOMAIN path' = DOMAIN path \cup {e}
           /\ e \notin DOMAIN path => path'[e] = [k \in 0 .. size-1 |-> span]
<1> USE SizeNat
<1>0. TypeOK /\ size \in Nat /\ size > 0 /\ SeedGenerator
  BY DEF Basic, Call
<1>1. Array' = Array
  BY DEF Call, Array, SpanOf
<1>2. /\ \A f \in DOMAIN path : f \in DOMAIN path' /\ path'[f] = path[f]
      /\ DOMAIN path' = DOMAIN path \cup {e}
      /\ e \notin DOMAIN path => path'[e] = [k \in 0 .. size-1 |-> span]
      /\ path' \in [DOMAIN path' -> [0 .. size-1 -> Array]]
  <2>1. path \in [DOMAIN path -> [0 .. size-1 -> Array]] /\ span \in Array
    BY <1>0 DEF TypeOK
  <2>2. CASE e \in DOMAIN path
    BY <2>1, <2>2 DEF Call
  <2>3. CASE e \notin DOMAIN path
    <3>1. path' = [f \in DOMAIN path \cup {e} |->
                      IF f = e THEN [k \in 0 .. size-1 |-> span] ELSE path[f]]
      BY <2>3 DEF Call
    <3>2. [k \in 0 .. size-1 |-> span] \in [0 .. size-1 -> Array]
      BY <2>1
    <3> QED
      BY <2>1, <2>3, <3>1, <3>2
  <2> QED
    BY <2>2, <2>3
<1>3. TypeOK'
  <2>1. /\ seed' \in Seed /\ DOMAIN tape' \subseteq Seed
        /\ tape' \in [DOMAIN tape' -> Tapes(size, UpTo)]
    BY <1>0, SeedGeneratorType
  <2>2. /\ debug' \in Builds /\ size' \in Sizes /\ span' \in Array' /\ tmp' \in Item /\ j' \in Nat
        /\ depth' \in Depths /\ DOMAIN seen' \subseteq Depths /\ seen' \in [DOMAIN seen' -> Array']
    BY <1>0, <1>1 DEF Call, TypeOK
  <2>3. i' \in Nat /\ rng_values' \in Seq(Nat) /\ pc' \in {"idle", "crashed"} \cup Running
    BY <1>0 DEF Call, Running
  <2>4. DOMAIN path' \subseteq Int
    BY <1>0, <1>2 DEF TypeOK
  <2> QED
    BY <1>1, <1>2, <2>1, <2>2, <2>3, <2>4 DEF TypeOK, Call
<1>4. Control'
  <2>1. seed' \in DOMAIN tape' /\ size' > 0 /\ i' = size' - 1
    BY <1>0, SeedGeneratorType DEF Call
  <2>2. Edge' = e
    BY DEF Edge, Call
  <2>3. pc' \in {"shuffle", "push"}
    BY DEF Call
  <2>4. Edge' \in DOMAIN path' /\ Edge' \in Depths /\ Edge' + 1 \in Depths
    BY <1>2, <2>2
  <2>5. i' <= size' - 1
    BY <1>0, <2>1 DEF Call
  <2> QED
    BY <2>1, <2>3, <2>4, <2>5 DEF Control
<1>5. DrawsAlign'
  BY <1>0 DEF DrawsAlign, Drawn, Call
<1> QED
  BY <1>2, <1>3, <1>4, <1>5 DEF Basic

\* The first store of a swap of two indices of the span.
LEMMA FirstStoreType ==
    ASSUME TypeOK, i \in 0 .. size-1, NEW other \in 0 .. size-1, FirstStore(other),
           pc' \in Stored
    PROVE  TypeOK'
<1>1. span' \in Array /\ tmp' \in Item /\ j' \in Nat
  BY SizeNat DEF FirstStore, TypeOK, Array, SpanOf
<1>2. Array' = Array
  BY DEF FirstStore, Array, SpanOf
<1> QED
  BY <1>1, <1>2 DEF TypeOK, FirstStore, Running, Stored

\* Recording the span on the path of the running call.
LEMMA PathType ==
    ASSUME TypeOK, NEW e \in DOMAIN path, NEW k \in 0 .. size-1, NEW a \in Array,
           path' = [path EXCEPT ![e] = [@ EXCEPT ![k] = a]]
    PROVE  /\ DOMAIN path' = DOMAIN path
           /\ path' \in [DOMAIN path -> [0 .. size-1 -> Array]]
           /\ \A f \in DOMAIN path : f # e => path'[f] = path[f]
           /\ path'[e] = [path[e] EXCEPT ![k] = a]
           /\ \A l \in 0 .. size-1 : path'[e][l] = IF l = k THEN a ELSE path[e][l]
<1>1. path \in [DOMAIN path -> [0 .. size-1 -> Array]]
  BY DEF TypeOK
<1>2. path[e] \in [0 .. size-1 -> Array]
  BY <1>1
<1>3. [path[e] EXCEPT ![k] = a] \in [0 .. size-1 -> Array]
  BY <1>2
<1> QED
  BY <1>1, <1>2, <1>3

\* The initial states.
LEMMA InitBasic == Init => Basic
<1> SUFFICES ASSUME Init PROVE Basic
  OBVIOUS
<1> USE ItemAssumption, SizesAssumption, DepthsAssumption DEF Init
<1>1. TypeOK
  <2>1. tape \in [DOMAIN tape -> Tapes(size, UpTo)] /\ DOMAIN tape \subseteq Seed
    OBVIOUS
  <2>2. path \in [DOMAIN path -> [0 .. size-1 -> Array]] /\ DOMAIN path \subseteq Int
    OBVIOUS
  <2>3. seen \in [DOMAIN seen -> Array] /\ DOMAIN seen \subseteq Depths
    OBVIOUS
  <2>4. seed \in Seed /\ rng_values \in Seq(Nat) /\ i \in Nat /\ j \in Nat
    BY DEF Seed
  <2> QED
    BY <2>1, <2>2, <2>3, <2>4 DEF TypeOK
<1>2. Control /\ DrawsAlign
  BY DEF Control, DrawsAlign, Running, Stored
<1> QED
  BY <1>1, <1>2 DEF Basic

\* One more draw on the stack.
LEMMA PushDraw ==
    ASSUME NEW n \in Nat, rng_values \in Seq(Nat), Drawn(n),
           n + 1 < size, size \in Nat, tape[seed][size-(n+1)] \in Nat,
           rng_values' = Append(rng_values, tape[seed][size-(n+1)]),
           UNCHANGED <<size, seed, tape>>
    PROVE  rng_values' \in Seq(Nat) /\ Drawn(n + 1)'
<1> DEFINE d == tape[seed][size-(n+1)]
<1>1. rng_values' \in Seq(Nat) /\ Len(rng_values') = n + 1
  BY DEF Drawn
<1>2. \A k \in 1 .. n : rng_values'[k] = rng_values[k]
  BY DEF Drawn
<1>3. rng_values'[n+1] = d
  BY DEF Drawn
<1>4. \A k \in 1 .. n+1 : rng_values'[k] = tape[seed][size-k]
  <2> TAKE k \in 1 .. n+1
  <2>1. CASE k = n + 1
    BY <1>3, <2>1, Zenon
  <2>2. CASE k \in 1 .. n
    BY <1>2, <2>2 DEF Drawn
  <2>3. k = n + 1 \/ k \in 1 .. n
    OBVIOUS
  <2> QED
    BY <2>1, <2>2, <2>3, Zenon
<1> QED
  BY <1>1, <1>4 DEF Drawn

\* One fewer; the top of the stack is the draw of the loop index reached.
LEMMA PopDraw ==
    ASSUME NEW n \in Nat, n > 0, rng_values \in Seq(Nat), Drawn(n)
    PROVE  /\ Last(rng_values) = tape[seed][size-n]
           /\ Front(rng_values) \in Seq(Nat)
           /\ Len(Front(rng_values)) = n - 1
           /\ \A k \in 1 .. n-1 : Front(rng_values)[k] = tape[seed][size-k]
<1>1. Last(rng_values) = tape[seed][size-n]
  BY DEF Last, Drawn
<1>2. Front(rng_values) = SubSeq(rng_values, 1, n - 1)
  BY DEF Front, Drawn
<1>3. SubSeq(rng_values, 1, n - 1) \in Seq(Nat) /\ Len(SubSeq(rng_values, 1, n - 1)) = n - 1
  BY DEF Drawn
<1>4. \A k \in 1 .. n-1 : SubSeq(rng_values, 1, n - 1)[k] = rng_values[k]
  BY DEF Drawn
<1> QED
  BY <1>1, <1>2, <1>3, <1>4 DEF Drawn

\* A call over the edge to depth + 1 or depth - 1.
LEMMA CallsAreCalls ==
    ASSUME TypeOK
    PROVE  /\ CallShuffle => /\ Call(depth, "shuffle")
                             /\ depth \in Int /\ depth \in Depths /\ depth + 1 \in Depths
           /\ CallUnshuffle => /\ Call(depth - 1, "push") /\ depth - 1 \in Int
                               /\ depth - 1 \in Depths /\ (depth - 1) + 1 \in Depths
<1>1. depth \in Int /\ depth \in Depths /\ (depth - 1) + 1 = depth
  BY DepthsAssumption DEF TypeOK
<1> QED
  BY <1>1 DEF CallShuffle, CallUnshuffle

\* The generator, the stack and the loop index of the running call.
LEMMA BasicNext == Basic /\ [Next]_vars => Basic'
<1> SUFFICES ASSUME Basic, [Next]_vars PROVE Basic'
  OBVIOUS
<1> USE SizeNat
<1>0. TypeOK /\ Control /\ DrawsAlign /\ size \in Nat /\ i \in Nat /\ depth \in Int
  BY DepthsAssumption DEF Basic, TypeOK
<1>1. CASE CallShuffle
  BY <1>0, <1>1, CallsAreCalls, CallBasic
<1>2. CASE CallUnshuffle
  BY <1>0, <1>2, CallsAreCalls, CallBasic
<1>3. CASE CallEmpty
  <2>1. PICK d \in Depths : Arrive(d)
    BY <1>3 DEF CallEmpty
  <2>2. UNCHANGED <<debug, size, span, path>> /\ SeedGenerator
    BY <1>3 DEF CallEmpty
  <2>3. TypeOK'
    BY <1>0, <2>1, <2>2, ArriveType, SeedGeneratorType DEF TypeOK, Array
  <2> QED
    BY <2>1, <2>3 DEF Basic, Arrive, Control, DrawsAlign, Running, Stored
<1>4. CASE ShuffleSwap
  <2>1. i \in 1 .. size-1 /\ seed \in DOMAIN tape /\ Edge = depth
    BY <1>0, <1>4 DEF ShuffleSwap, Control, Running, Edge
  <2>2. tape[seed][i] \in 0 .. size-1
    BY <1>0, <2>1, DrawBounds
  <2>3. TypeOK'
    BY <1>0, <1>4, <2>1, <2>2, FirstStoreType DEF ShuffleSwap, Stored
  <2>4. Control' /\ DrawsAlign'
    BY <1>0, <1>4, <2>1 DEF ShuffleSwap, FirstStore, Control, DrawsAlign, Running, Edge
  <2> QED
    BY <2>3, <2>4 DEF Basic
<1>5. CASE ShuffleStore
  <2>1. i \in 1 .. size-1 /\ seed \in DOMAIN tape /\ Edge = depth /\ depth \in DOMAIN path
    BY <1>0, <1>5 DEF ShuffleStore, Control, Running, Stored, Edge
  <2>2. span' \in Array
    BY <1>0, <1>5 DEF ShuffleStore, TypeOK, Array, SpanOf
  <2>3. i - 1 \in 0 .. size-1
    BY <1>0, <2>1
  <2>4. DOMAIN path' = DOMAIN path /\ path' \in [DOMAIN path -> [0 .. size-1 -> Array]]
    BY <1>0, <1>5, <2>1, <2>2, <2>3, PathType DEF ShuffleStore
  <2>5. TypeOK'
    BY <1>0, <1>5, <2>2, <2>3, <2>4 DEF ShuffleStore, TypeOK, Array, Running
  <2>6. Control' /\ DrawsAlign'
    BY <1>0, <1>5, <2>1, <2>3, <2>4 DEF ShuffleStore, Control, DrawsAlign, Running, Stored, Edge
  <2> QED
    BY <2>5, <2>6 DEF Basic
<1>6. CASE ShuffleReturn
  <2>1. depth + 1 \in Depths
    BY <1>0, <1>6 DEF ShuffleReturn, Control, Running, Edge
  <2>2. TypeOK'
    BY <1>0, <1>6, <2>1, ArriveType DEF ShuffleReturn, TypeOK, Array
  <2> QED
    BY <1>6, <2>2 DEF ShuffleReturn, Basic, Arrive, Control, DrawsAlign, Running, Stored
<1>7. CASE Push
  <2>1. i \in 1 .. size-1 /\ seed \in DOMAIN tape /\ Edge = depth - 1
    BY <1>0, <1>7 DEF Push, Control, Running, Edge
  <2>2. tape[seed][i] \in Nat
    BY <1>0, <2>1, DrawBounds
  <2>3. PICK n \in Nat : n = size - 1 - i /\ n + 1 < size /\ i = size - (n + 1)
    BY <1>0, <2>1
  <2>4. rng_values' \in Seq(Nat) /\ Drawn(n + 1)'
    <3>1. Drawn(n) /\ rng_values \in Seq(Nat)
      BY <1>0, <1>7, <2>3 DEF Push, DrawsAlign, TypeOK
    <3>2. rng_values' = Append(rng_values, tape[seed][size-(n+1)]) /\ UNCHANGED <<size, seed, tape>>
      BY <1>7, <2>3 DEF Push
    <3>3. tape[seed][size-(n+1)] \in Nat
      BY <2>2, <2>3
    <3> QED
      BY <1>0, <2>3, <3>1, <3>2, <3>3, PushDraw
  <2>5. TypeOK'
    BY <1>0, <1>7, <2>1, <2>4, SMTT(30) DEF Push, TypeOK, Array
  <2>6. Control'
    BY <1>0, <1>7, <2>1 DEF Push, Control, Running, Stored, Edge
  <2>7. n + 1 = size' - 1 - i'
    BY <1>0, <1>7, <2>1, <2>3 DEF Push
  <2>8. DrawsAlign'
    <3>1. Drawn(n + 1)' <=> Drawn(size - 1 - i)'
      BY <2>7 DEF Drawn
    <3> QED
      BY <1>7, <2>4, <3>1 DEF Push, DrawsAlign
  <2> QED
    BY <2>5, <2>6, <2>8 DEF Basic
<1>8. CASE Pushed
  <2>1. TypeOK'
    BY <1>0, <1>8 DEF Pushed, TypeOK, Array, Running
  <2>2. Control'
    BY <1>0, <1>8 DEF Pushed, Control, Running, Stored, Edge
  <2>3. DrawsAlign'
    BY <1>0, <1>8 DEF Pushed, DrawsAlign, Drawn
  <2> QED
    BY <2>1, <2>2, <2>3 DEF Basic
<1>9. CASE UnshuffleSwap
  <2>1. i \in 1 .. size-1 /\ seed \in DOMAIN tape /\ Edge = depth - 1
    BY <1>0, <1>9 DEF UnshuffleSwap, Control, Running, Edge
  <2>2. Last(rng_values) = tape[seed][i]
    <3>1. Drawn(size - i) /\ size - i \in Nat /\ size - i > 0 /\ size - (size - i) = i
      BY <1>0, <1>9, <2>1 DEF UnshuffleSwap, DrawsAlign
    <3> QED
      BY <1>0, <3>1, PopDraw DEF TypeOK
  <2>3. tape[seed][i] \in 0 .. size-1
    BY <1>0, <2>1, DrawBounds
  <2>4. FirstStore(tape[seed][i]) /\ pc' = "unshuffle_store"
    BY <1>9, <2>2 DEF UnshuffleSwap
  <2>5. TypeOK'
    BY <1>0, <2>1, <2>3, <2>4, FirstStoreType DEF Stored
  <2>6. Control'
    BY <1>0, <1>9, <2>1, <2>4 DEF UnshuffleSwap, FirstStore, Control, Running, Edge
  <2>7. DrawsAlign'
    BY <1>0, <1>9, <2>4 DEF UnshuffleSwap, FirstStore, DrawsAlign, Drawn
  <2> QED
    BY <2>5, <2>6, <2>7 DEF Basic
<1>10. CASE UnshuffleStore
  <2>1. i \in 1 .. size-1 /\ seed \in DOMAIN tape /\ Edge = depth - 1 /\ depth - 1 \in DOMAIN path
    BY <1>0, <1>10 DEF UnshuffleStore, Control, Running, Stored, Edge
  <2>2. span' \in Array
    BY <1>0, <1>10 DEF UnshuffleStore, TypeOK, Array, SpanOf
  <2>3. i \in 0 .. size-1
    BY <1>0, <2>1
  <2>4. DOMAIN path' = DOMAIN path /\ path' \in [DOMAIN path -> [0 .. size-1 -> Array]]
    BY <1>0, <1>10, <2>1, <2>2, <2>3, PathType DEF UnshuffleStore
  <2>5. /\ Drawn(size - i) /\ size - i \in Nat /\ size - i > 0
        /\ (size - i) - 1 = size - (i + 1) /\ rng_values \in Seq(Nat)
    BY <1>0, <1>10, <2>1 DEF UnshuffleStore, DrawsAlign, TypeOK
  <2>6. /\ rng_values' \in Seq(Nat) /\ Len(rng_values') = size - (i + 1)
        /\ \A k \in 1 .. size - (i + 1) : rng_values'[k] = tape[seed][size-k]
    BY <1>10, <2>5, PopDraw DEF UnshuffleStore
  <2>7. TypeOK'
    BY <1>0, <1>10, <2>2, <2>4, <2>6, SMTT(30) DEF UnshuffleStore, TypeOK, Array, Running
  <2>8. Control'
    BY <1>0, <1>10, <2>1, <2>4 DEF UnshuffleStore, Control, Running, Stored, Edge
  <2>9. DrawsAlign'
    BY <1>10, <2>6 DEF UnshuffleStore, DrawsAlign, Drawn
  <2> QED
    BY <2>7, <2>8, <2>9 DEF Basic
<1>11. CASE UnshuffleReturn
  <2>1. depth - 1 \in Depths
    BY <1>0, <1>11 DEF UnshuffleReturn, Control, Running, Edge
  <2>2. TypeOK'
    BY <1>0, <1>11, <2>1, ArriveType DEF UnshuffleReturn, TypeOK, Array
  <2> QED
    BY <1>11, <2>2 DEF UnshuffleReturn, Basic, Arrive, Control, DrawsAlign, Running, Stored
<1>12. CASE Crash
  <2>1. TypeOK'
    BY <1>0, <1>12 DEF Crash, TypeOK, Array
  <2> QED
    BY <1>0, <1>12, <2>1 DEF Crash, Basic, Control, DrawsAlign, Running, Stored
<1>13. CASE UNCHANGED vars
  BY <1>0, <1>13 DEF vars, Basic, TypeOK, Array, Control, DrawsAlign, Drawn, Edge
<1> QED
  BY <1>1, <1>2, <1>3, <1>4, <1>5, <1>6, <1>7, <1>8, <1>9, <1>10, <1>11, <1>12, <1>13
     DEF Next, Step

\* Types, loop indices and the stack of draws are right in every reachable
\* state: no index is out of the span, the stack is never popped empty and
\* always holds the draws still to be undone (shuffle.hpp 13-24, 35-75).
THEOREM BasicInvariant == Spec => []Basic
BY InitBasic, BasicNext, PTL DEF Spec

(***************************************************************************)
(* The draws stacked by unshuffle are those of the loop indices it has yet  *)
(* to undo, the next on top, on any file and with any generator in bounds   *)
(* (shuffle.hpp 27-52).                                                     *)
(***************************************************************************)
THEOREM DrawsTheorem == Spec => []DrawsAlign
<1>1. Basic => DrawsAlign
  BY DEF Basic
<1> QED  BY <1>1, BasicInvariant, PTL

-----------------------------------------------------------------------------
Objects == 0 \in DOMAIN seen /\ ObjectsConserved

\* The history of the first contents never changes.
LEMMA FirstContentsKept ==
    ASSUME 0 \in DOMAIN seen, [Next]_vars
    PROVE  0 \in DOMAIN seen' /\ seen'[0] = seen[0]
<1>1. ASSUME NEW d, Arrive(d) PROVE 0 \in DOMAIN seen' /\ seen'[0] = seen[0]
  <2>1. CASE d \in DOMAIN seen
    BY <1>1, <2>1 DEF Arrive
  <2>2. CASE d \notin DOMAIN seen
    <3>1. seen' = [e \in DOMAIN seen \cup {d} |-> IF e = d THEN span ELSE seen[e]]
      BY <1>1, <2>2 DEF Arrive
    <3> QED
      BY <3>1, <2>2
  <2> QED
    BY <2>1, <2>2
<1>2. \/ UNCHANGED seen
      \/ \E d \in Int : Arrive(d)
      \/ Arrive(depth + 1)
      \/ Arrive(depth - 1)
  BY DepthsAssumption
     DEF Next, Step, vars, CallShuffle, CallUnshuffle, Call, CallEmpty, ShuffleSwap, ShuffleStore,
         ShuffleReturn, Push, Pushed, UnshuffleSwap, UnshuffleStore, UnshuffleReturn, Crash,
         FirstStore
<1> QED
  BY <1>1, <1>2

\* The initial states.
LEMMA InitObjects == Init => Objects
<1> SUFFICES ASSUME Init PROVE Objects
  OBVIOUS
<1>1. size \in Nat /\ span \in SpanOf(size, Item)
  BY SizesAssumption DEF Init, Array
<1>2. SameObjects(span, span)
  BY <1>1, SameObjectsReflexive
<1>3. 0 \in DOMAIN seen /\ seen[0] = span
  BY DEF Init
<1>4. pc \notin Stored
  BY DEF Init, Stored
<1> QED
  BY <1>2, <1>3, <1>4 DEF Objects, ObjectsConserved

\* The first store of a swap leaves the temporary and the span one store away
\* from a reordering.
LEMMA FirstStoreObjects ==
    ASSUME Basic, Objects, pc \notin Stored \cup {"crashed"},
           i \in 0 .. size-1, NEW other \in 0 .. size-1, FirstStore(other)
    PROVE  j' = other /\ SameObjects(seen[0], [span' EXCEPT ![j'] = tmp'])
<1>1. size \in Nat /\ span \in SpanOf(size, Item) /\ seen[0] \in SpanOf(size, Item)
  BY SizeNat DEF Basic, TypeOK, Array, Objects
<1>2. SameObjects(seen[0], span)
  BY DEF Objects, ObjectsConserved
<1>3. [span' EXCEPT ![j'] = tmp'] = Swapped(span, i, other)
  BY <1>1, TwoStores DEF FirstStore
<1>4. SameObjects(seen[0], Swapped(span, i, other))
  BY <1>1, <1>2, SameObjectsSwap
<1> QED
  BY <1>3, <1>4 DEF FirstStore

\* No step loses an object, but for the one in the temporary.
LEMMA NextObjects == Basic /\ Objects /\ [Next]_vars => Objects'
<1> SUFFICES ASSUME Basic, Objects, [Next]_vars PROVE Objects'
  OBVIOUS
<1>0. 0 \in DOMAIN seen' /\ seen'[0] = seen[0]
  BY FirstContentsKept DEF Objects
<1>00. TypeOK /\ Control /\ DrawsAlign /\ size \in Nat /\ i \in Nat
  BY SizeNat DEF Basic, TypeOK
<1> DEFINE Kept == SameObjects(seen[0], span)
           Half == j \in 0 .. size-1 /\ SameObjects(seen[0], [span EXCEPT ![j] = tmp])
<1>1. ASSUME UNCHANGED span, pc \notin Stored \cup {"crashed"}, pc' \notin Stored
      PROVE  ObjectsConserved'
  <2>1. SameObjects(seen[0], span)
    BY <1>1 DEF Objects, ObjectsConserved
  <2>2. SameObjects(seen[0], span)'
    BY <1>0, <1>1, <2>1
  <2> QED
    BY <1>1, <2>2 DEF ObjectsConserved
<1>2. CASE CallShuffle
  BY <1>0, <1>1, <1>2 DEF CallShuffle, Call, Objects, Stored
<1>3. CASE CallUnshuffle
  BY <1>0, <1>1, <1>3 DEF CallUnshuffle, Call, Objects, Stored
<1>4. CASE CallEmpty
  BY <1>0, <1>1, <1>4 DEF CallEmpty, Arrive, Objects, Stored
<1>5. CASE ShuffleReturn \/ UnshuffleReturn
  BY <1>0, <1>1, <1>5 DEF ShuffleReturn, UnshuffleReturn, Arrive, Objects, Stored
<1>6. CASE Push \/ Pushed
  BY <1>0, <1>1, <1>6 DEF Push, Pushed, Objects, Stored
<1>7. ASSUME NEW o \in 0 .. size-1, i \in 0 .. size-1, FirstStore(o),
             pc \notin Stored \cup {"crashed"}, pc' \in Stored
      PROVE  ObjectsConserved'
  <2>1. j' = o /\ SameObjects(seen[0], [span' EXCEPT ![j'] = tmp'])
    BY <1>7, FirstStoreObjects
  <2>2. size' = size
    BY <1>7 DEF FirstStore
  <2> QED
    BY <1>0, <1>7, <2>1, <2>2 DEF ObjectsConserved
<1>8. CASE ShuffleSwap
  <2>1. i \in 1 .. size-1 /\ seed \in DOMAIN tape
    BY <1>00, <1>8 DEF ShuffleSwap, Control, Running
  <2>2. tape[seed][i] \in 0 .. size-1
    BY <1>00, <2>1, DrawBounds
  <2> QED
    BY <1>0, <1>7, <1>8, <2>1, <2>2 DEF ShuffleSwap, Objects, Stored
<1>9. CASE UnshuffleSwap
  <2>1. i \in 1 .. size-1 /\ seed \in DOMAIN tape
    BY <1>00, <1>9 DEF UnshuffleSwap, Control, Running
  <2>2. tape[seed][i] \in 0 .. size-1
    BY <1>00, <2>1, DrawBounds
  <2>3. Last(rng_values) = tape[seed][i]
    <3>1. Drawn(size - i) /\ size - i \in Nat /\ size - i > 0 /\ size - (size - i) = i
      BY <1>00, <1>9, <2>1 DEF UnshuffleSwap, DrawsAlign
    <3> QED
      BY <1>00, <3>1, PopDraw DEF TypeOK
  <2> QED
    BY <1>0, <1>7, <1>9, <2>1, <2>2, <2>3 DEF UnshuffleSwap, Objects, Stored
<1>10. CASE ShuffleStore \/ UnshuffleStore
  <2>1. SameObjects(seen[0], [span EXCEPT ![j] = tmp])
    BY <1>10 DEF ShuffleStore, UnshuffleStore, Objects, ObjectsConserved, Stored
  <2>2. span' = [span EXCEPT ![j] = tmp] /\ pc' \notin Stored
    BY <1>10 DEF ShuffleStore, UnshuffleStore, Stored
  <2>3. SameObjects(seen[0], span)'
    BY <1>0, <2>1, <2>2
  <2> QED
    BY <1>0, <2>2, <2>3 DEF Objects, ObjectsConserved
<1>11. CASE Crash
  <2>1. UNCHANGED <<span, j, tmp, size, seen>> /\ pc' = "crashed" /\ pc # "crashed"
    BY <1>11 DEF Crash, Running, Stored
  <2>2. CASE pc \in Stored
    <3>1. j \in 0 .. size-1 /\ SameObjects(seen[0], [span EXCEPT ![j] = tmp])
      BY <2>2 DEF Objects, ObjectsConserved
    <3>2. (j \in 0 .. size-1 /\ SameObjects(seen[0], [span EXCEPT ![j] = tmp]))'
      BY <2>1, <3>1
    <3> QED
      BY <1>0, <2>1, <3>2 DEF Objects, ObjectsConserved
  <2>3. CASE pc \notin Stored
    BY <1>0, <1>1, <2>1, <2>3 DEF Objects, Stored
  <2> QED
    BY <2>2, <2>3
<1>12. CASE UNCHANGED vars
  BY <1>12 DEF vars, Objects, ObjectsConserved
<1> QED
  BY <1>2, <1>3, <1>4, <1>5, <1>6, <1>8, <1>9, <1>10, <1>11, <1>12 DEF Next, Step

\* The file always holds the objects it started with, save at most the one in
\* std::swap's temporary, wherever the process is killed (shuffle.hpp 20, 71).
THEOREM ObjectsTheorem == Spec => []ObjectsConserved
<1>1. Spec => []Objects
  BY BasicInvariant, InitObjects, NextObjects, PTL DEF Spec
<1>2. Objects => ObjectsConserved
  BY DEF Objects
<1> QED
  BY <1>1, <1>2, PTL

-----------------------------------------------------------------------------
\* Seeds that do not depend on the uninitialised locals are unique.
LEMMA SeedsUnique ==
    ASSUME NEW keys \in SUBSET Int, NEW d \in BOOLEAN, NEW z, NEW any, keys # {} \/ d,
           NEW s \in SeedsOf(keys, d, z, any)
    PROVE  /\ s \in SeedsOf(keys, d, z, {})
           /\ \A t \in SeedsOf(keys, d, z, {}) : t = s
<1>1. CASE keys # {}
  <2>1. s \in SeedsOf(keys, d, z, {})
    BY <1>1 DEF SeedsOf
  <2>2. ASSUME NEW t \in SeedsOf(keys, d, z, {}) PROVE t = s
    <3>1. s \in keys \X keys /\ t \in keys \X keys
      BY <1>1 DEF SeedsOf
    <3>2. s[1] \in keys /\ s[2] \in keys /\ t[1] \in keys /\ t[2] \in keys
      BY <3>1
    <3>3. s[1] <= t[1] /\ t[1] <= s[1] /\ s[2] <= t[2] /\ t[2] <= s[2]
      BY <1>1, <3>2 DEF SeedsOf
    <3>4. \A x, y \in Int : x <= y /\ y <= x => x = y
      OBVIOUS
    <3>5. s[1] \in Int /\ s[2] \in Int /\ t[1] \in Int /\ t[2] \in Int
      BY <3>2
    <3>6. s[1] = t[1] /\ s[2] = t[2]
      BY <3>3, <3>4, <3>5, Zenon
    <3> QED
      BY <3>1, <3>6
  <2> QED
    BY <2>1, <2>2
<1>2. CASE keys = {}
  BY <1>2 DEF SeedsOf
<1> QED
  BY <1>1, <1>2

\* The keys of the first contents, which the seed is a function of.
FirstKeys == KeptKeys(seen[0], Keep, Key)

LEMMA FirstKeysDetermine ==
    ASSUME Basic, Determined, size > 1
    PROVE  FirstKeys \in SUBSET Int /\ debug \in BOOLEAN /\ (FirstKeys # {} \/ debug)
<1>1. FirstKeys \in SUBSET Int
  BY KeyAssumption, ItemAssumption DEF FirstKeys, KeptKeys
<1>2. debug \in BOOLEAN
  BY BuildsAssumption DEF Basic, TypeOK
<1>3. FirstKeys # {} \/ debug
  BY SizeNat DEF Determined, FirstKeys, KeptKeys, Basic
<1> QED
  BY <1>1, <1>2, <1>3

\* All the seeds drawn from are one.
LEMMA OneTape ==
    ASSUME Basic, SeedStable, Determined, size > 1,
           NEW s \in DOMAIN tape, NEW t \in DOMAIN tape
    PROVE  s = t
<1>1. s \in SeedsOf(FirstKeys, debug, Key[Zero], {}) /\ t \in SeedsOf(FirstKeys, debug, Key[Zero], {})
  BY DEF SeedStable, FirstKeys
<1> QED
  BY <1>1, FirstKeysDetermine, SeedsUnique

\* What minmax_t finds in a reordered file it would have found in the first.
LEMMA SeedOfReordered ==
    ASSUME Basic, Objects, pc = "idle", Determined, size > 1, SeedGenerator
    PROVE  seed' \in SeedsOf(FirstKeys, debug, Key[Zero], {})
<1>1. size \in Nat /\ span \in SpanOf(size, Item) /\ seen[0] \in SpanOf(size, Item)
  BY SizeNat DEF Basic, TypeOK, Array, Objects
<1>2. SameObjects(seen[0], span)
  BY DEF Objects, ObjectsConserved, Stored
<1>3. Range(span) = Range(seen[0])
  BY <1>1, <1>2, SameObjectsRange
<1>4. seed' \in SeedsOf(FirstKeys, debug, Key[Zero], Range(Key))
  BY <1>3 DEF SeedGenerator, FirstKeys, KeptKeys
<1> QED
  BY <1>4, FirstKeysDetermine, SeedsUnique

\* Determined speaks of what no step changes.
LEMMA DeterminedKept ==
    ASSUME Objects, [Next]_vars
    PROVE  Determined' <=> Determined
<1>1. UNCHANGED <<debug, size>>
  BY DEF Next, Step, vars, CallShuffle, CallUnshuffle, Call, CallEmpty, ShuffleSwap, ShuffleStore,
         ShuffleReturn, Push, Pushed, UnshuffleSwap, UnshuffleStore, UnshuffleReturn, Crash,
         FirstStore
<1>2. seen'[0] = seen[0]
  BY FirstContentsKept DEF Objects
<1> QED
  BY <1>1, <1>2 DEF Determined

\* A step changes the tapes only by seeding a generator between calls.
LEMMA TapeSteps ==
    ASSUME [Next]_vars
    PROVE  UNCHANGED tape \/ (pc = "idle" /\ SeedGenerator)
BY DEF Next, Step, vars, CallShuffle, CallUnshuffle, Call, CallEmpty, ShuffleSwap, ShuffleStore,
       ShuffleReturn, Push, Pushed, UnshuffleSwap, UnshuffleStore, UnshuffleReturn, Crash,
       FirstStore

\* No call ever draws from a second generator.
LEMMA NextSeeds == Basic /\ Objects /\ SeedStable /\ [Next]_vars => SeedStable'
<1> SUFFICES ASSUME Basic, Objects, SeedStable, [Next]_vars PROVE SeedStable'
  OBVIOUS
<1>1. /\ Determined' <=> Determined
      /\ seen'[0] = seen[0]
      /\ UNCHANGED <<debug, size>>
  BY DeterminedKept, FirstContentsKept
     DEF Objects, Next, Step, vars, CallShuffle, CallUnshuffle, Call, CallEmpty, ShuffleSwap,
         ShuffleStore, ShuffleReturn, Push, Pushed, UnshuffleSwap, UnshuffleStore,
         UnshuffleReturn, Crash, FirstStore
<1>2. FirstKeys' = FirstKeys
  BY <1>1 DEF FirstKeys
<1> SUFFICES ASSUME Determined, size > 1, NEW s \in DOMAIN tape'
             PROVE  s \in SeedsOf(FirstKeys, debug, Key[Zero], {})
  BY <1>1, <1>2 DEF SeedStable, FirstKeys
<1>3. CASE UNCHANGED tape
  BY <1>3 DEF SeedStable, FirstKeys
<1>4. CASE pc = "idle" /\ SeedGenerator
  <2>1. seed' \in SeedsOf(FirstKeys, debug, Key[Zero], {})
    BY <1>4, SeedOfReordered
  <2>2. DOMAIN tape' = DOMAIN tape \cup {seed'}
    BY <1>4, SeedGeneratorType DEF Basic
  <2> QED
    BY <2>1, <2>2 DEF SeedStable, FirstKeys
<1> QED
  BY <1>3, <1>4, TapeSteps

-----------------------------------------------------------------------------
Walk == Chain /\ (Determined => Paths /\ OnPath)

\* Arriving at the next depth up or down completes the edge walked, no other.
LEMMA ArriveChain ==
    ASSUME Basic, Chain, NEW d \in Depths, d = depth + 1 \/ d = depth - 1, Arrive(d)
    PROVE  /\ DOMAIN seen' = DOMAIN seen \cup {d}
           /\ \A e \in DOMAIN seen : seen'[e] = seen[e]
           /\ d \notin DOMAIN seen => seen'[d] = span
           /\ \A x \in DOMAIN seen' : \A c \in Depths :
                 (0 <= c /\ c <= x) \/ (x <= c /\ c <= 0) => c \in DOMAIN seen'
           /\ \A e \in DOMAIN seen' : Complete(e)' =>
                 Complete(e) \/ e = IF d = depth + 1 THEN depth ELSE depth - 1
<1>1. /\ DOMAIN seen' = DOMAIN seen \cup {d}
      /\ \A e \in DOMAIN seen : seen'[e] = seen[e]
      /\ d \notin DOMAIN seen => seen'[d] = span
  <2>1. CASE d \in DOMAIN seen
    BY <2>1 DEF Arrive
  <2>2. CASE d \notin DOMAIN seen
    <3>1. seen' = [e \in DOMAIN seen \cup {d} |-> IF e = d THEN span ELSE seen[e]]
      BY <2>2 DEF Arrive
    <3> QED
      BY <2>2, <3>1
  <2> QED
    BY <2>1, <2>2
<1> DEFINE D == DOMAIN seen
<1>2. /\ D \subseteq Depths /\ depth \in D /\ 0 \in D /\ Depths \subseteq Int
      /\ \A x \in D : \A c \in Depths : (0 <= c /\ c <= x) \/ (x <= c /\ c <= 0) => c \in D
  BY DepthsAssumption DEF Basic, TypeOK, Chain
<1> HIDE DEF D
<1>3. \A x \in D \cup {d} : \A c \in Depths :
         (0 <= c /\ c <= x) \/ (x <= c /\ c <= 0) => c \in D \cup {d}
  <2> TAKE x \in D \cup {d}
  <2> TAKE c \in Depths
  <2> HAVE (0 <= c /\ c <= x) \/ (x <= c /\ c <= 0)
  <2>1. c \in Int /\ x \in Int /\ depth \in Int /\ d \in Int
    BY <1>2
  <2>2. CASE x \in D
    BY <1>2, <2>2
  <2>3. CASE x = d /\ c # d
    <3>1. (0 <= c /\ c <= depth) \/ (depth <= c /\ c <= 0)
      BY <2>1, <2>3
    <3> QED
      BY <1>2, <3>1
  <2> QED
    BY <2>2, <2>3
<1>4. ASSUME NEW e \in D \cup {d}, e + 1 \in D \cup {d}
      PROVE  (e \in D /\ e + 1 \in D) \/ e = IF d = depth + 1 THEN depth ELSE depth - 1
  <2>1. e \in Int /\ depth \in Int /\ d \in Int
    BY <1>2
  <2>2. CASE e \in D /\ e + 1 = d /\ d \notin D
    <3>1. e \in Depths /\ depth \in Depths
      BY <1>2, <2>2
    <3>2. CASE d = depth + 1
      BY <2>1, <2>2, <3>2
    <3>3. CASE d = depth - 1
      <4>1. depth = d + 1 /\ e = d - 1 /\ d \in Depths
        BY <2>1, <2>2, <3>3
      <4>2. (0 <= d /\ d <= depth) \/ (e <= d /\ d <= 0)
        BY <2>1, <4>1
      <4> QED
        BY <1>2, <2>2, <4>1, <4>2
    <3> QED
      BY <3>2, <3>3
  <2>3. CASE e = d /\ e + 1 \in D /\ d \notin D
    <3>1. CASE d = depth - 1
      BY <2>1, <2>3, <3>1
    <3>2. CASE d = depth + 1
      <4>1. depth = d - 1 /\ d \in Depths
        BY <2>1, <3>2
      <4>2. (0 <= d /\ d <= e + 1) \/ (depth <= d /\ d <= 0)
        BY <2>1, <2>3, <4>1
      <4> QED
        BY <1>2, <2>3, <4>1, <4>2
    <3> QED
      BY <3>1, <3>2
  <2>4. e + 1 # d \/ e # d
    BY <2>1
  <2> QED
    BY <1>4, <2>2, <2>3, <2>4
<1> QED
  BY <1>1, <1>3, <1>4 DEF Complete, D

\* The histories before any call.
LEMMA InitWalk == Init => Walk /\ SeedStable
<1> SUFFICES ASSUME Init PROVE Walk /\ SeedStable
  OBVIOUS
<1>1. DOMAIN path = {} /\ DOMAIN tape = {} /\ DOMAIN seen = {0} /\ seen[0] = span /\ depth = 0
  BY DEF Init
<1>2. Chain
  BY <1>1, DepthsAssumption DEF Chain, Complete
<1>3. Paths /\ OnPath
  BY <1>1 DEF Init, Paths, OnPath
<1>4. SeedStable
  BY <1>1 DEF SeedStable
<1> QED
  BY <1>2, <1>3, <1>4 DEF Walk

\* The depths reached stay an interval, and every edge between two of them has
\* a path.
LEMMA NextChain == Basic /\ Chain /\ [Next]_vars => Chain'
<1> SUFFICES ASSUME Basic, Chain, [Next]_vars PROVE Chain'
  OBVIOUS
<1>0. TypeOK /\ Control /\ size \in Nat
  BY SizeNat DEF Basic
<1>1. ASSUME UNCHANGED <<size, depth, seen, Edge>>, DOMAIN tape' = DOMAIN tape,
             DOMAIN path' = DOMAIN path,
             pc \in Running, pc' \in Running
      PROVE  Chain'
  <2>1. \A e : Complete(e)' <=> Complete(e)
    BY <1>1 DEF Complete
  <2>2. \A e \in DOMAIN path : Complete(e) \/ e = Edge
    BY <1>1 DEF Chain, Running, Stored
  <2> QED
    BY <1>1, <2>1, <2>2 DEF Chain
<1>2. ASSUME NEW e \in Int, e \in Depths, e + 1 \in Depths,
             NEW entry \in {"shuffle", "push"}, Call(e, entry),
             e = IF entry = "shuffle" THEN depth ELSE depth - 1
      PROVE  Chain'
  <2>1. UNCHANGED <<size, depth, seen>> /\ size > 0 /\ pc' \in Running /\ pc = "idle"
    BY <1>2 DEF Call, Running
  <2>2. DOMAIN path' = DOMAIN path \cup {e}
    BY <1>2, CallBasic, ZenonT(40)
  <2>3. Edge' = e
    BY <1>2, <2>1 DEF Edge, Call
  <2>4. DOMAIN tape' # {}
    BY <1>0, <1>2, SeedGeneratorType DEF Call
  <2>5. \A f : Complete(f)' <=> Complete(f)
    BY <2>1 DEF Complete
  <2>6. \A f \in DOMAIN path : Complete(f)
    BY <2>1 DEF Chain, Running, Stored
  <2> QED
    BY <2>1, <2>2, <2>3, <2>4, <2>5, <2>6 DEF Chain
<1>3. CASE CallShuffle
  BY <1>0, <1>2, <1>3, CallsAreCalls
<1>4. CASE CallUnshuffle
  BY <1>0, <1>2, <1>4, CallsAreCalls
<1>5. CASE CallEmpty
  <2>1. PICK d \in Depths : (d = depth + 1 \/ d = depth - 1) /\ Arrive(d)
    BY <1>5 DEF CallEmpty
  <2>2. UNCHANGED <<size, path>> /\ size = 0 /\ DOMAIN path = {}
    BY <1>0, <1>5 DEF CallEmpty, Chain
  <2>3. depth' = d
    BY <2>1 DEF Arrive
  <2> QED
    BY <2>1, <2>2, <2>3, ArriveChain DEF Chain
<1>6. ASSUME NEW d \in Depths, d = depth + 1 \/ d = depth - 1, Arrive(d),
             UNCHANGED <<size, path, tape>>, pc \in Running,
             Edge = IF d = depth + 1 THEN depth ELSE depth - 1
      PROVE  Chain'
  <2>0. depth \in Int
    BY <1>0, DepthsAssumption DEF TypeOK
  <2>1. depth' = d /\ pc' = "idle"
    BY <1>6 DEF Arrive
  <2>2. PICK e \in Int : e = Edge
    BY <1>6, <2>0
  <2>3. e \in DOMAIN path /\ size > 0 /\ depth \in DOMAIN seen
    BY <1>0, <1>6, <2>2 DEF Control, Chain
  <2>4. DOMAIN seen' = DOMAIN seen \cup {d}
    BY <1>6, ArriveChain
  <2>5. Complete(e)'
    <3>1. (d = depth + 1 /\ e = depth) \/ (d = depth - 1 /\ e = d)
      BY <1>6, <2>0, <2>2
    <3>2. e \in DOMAIN seen' /\ e + 1 \in DOMAIN seen'
      BY <2>0, <2>3, <2>4, <3>1
    <3> QED
      BY <3>2 DEF Complete
  <2>6. \A f \in DOMAIN path : Complete(f)'
    <3> TAKE f \in DOMAIN path
    <3>1. Complete(f) \/ f = e
      BY <1>6, <2>2 DEF Chain, Running, Stored
    <3>2. CASE Complete(f)
      BY <2>4, <3>2 DEF Complete
    <3> QED
      BY <2>5, <3>1, <3>2
  <2>7. \A f \in DOMAIN seen' : Complete(f)' => f \in DOMAIN path
    <3> TAKE f \in DOMAIN seen'
    <3>1. SUFFICES ASSUME Complete(f)' PROVE f \in DOMAIN path
      OBVIOUS
    <3>2. Complete(f) \/ f = e
      BY <1>6, <2>2, <3>1, ArriveChain
    <3>3. CASE Complete(f)
      BY <2>3, <3>3 DEF Chain, Complete
    <3> QED
      BY <2>3, <3>2, <3>3
  <2>8. /\ d \in DOMAIN seen' /\ 0 \in DOMAIN seen'
        /\ \A x \in DOMAIN seen' : \A c \in Depths :
              (0 <= c /\ c <= x) \/ (x <= c /\ c <= 0) => c \in DOMAIN seen'
    BY <1>6, <2>4, ArriveChain DEF Chain
  <2> QED
    BY <1>6, <2>1, <2>3, <2>6, <2>7, <2>8 DEF Chain
<1>7. CASE ShuffleReturn
  <2>1. depth + 1 \in Depths /\ Edge = depth /\ pc \in Running
    BY <1>0, <1>7 DEF ShuffleReturn, Control, Running, Edge
  <2> QED
    BY <1>6, <1>7, <2>1 DEF ShuffleReturn
<1>8. CASE UnshuffleReturn
  <2>1. depth - 1 \in Depths /\ Edge = depth - 1 /\ pc \in Running /\ depth - 1 # depth + 1
    BY <1>0, <1>8, DepthsAssumption DEF UnshuffleReturn, Control, Running, Edge, TypeOK
  <2> QED
    BY <1>6, <1>8, <2>1 DEF UnshuffleReturn
<1>9. CASE ShuffleSwap \/ ShuffleStore
  <2>1. DOMAIN path' = DOMAIN path /\ DOMAIN tape' = DOMAIN tape
    BY <1>0, <1>9 DEF ShuffleSwap, ShuffleStore, FirstStore, TypeOK
  <2> QED
    BY <1>1, <1>9, <2>1 DEF ShuffleSwap, ShuffleStore, FirstStore, Running, Stored, Edge
<1>10. CASE UnshuffleSwap \/ UnshuffleStore
  <2>1. DOMAIN path' = DOMAIN path /\ DOMAIN tape' = DOMAIN tape
    BY <1>0, <1>10 DEF UnshuffleSwap, UnshuffleStore, FirstStore, TypeOK
  <2> QED
    BY <1>1, <1>10, <2>1 DEF UnshuffleSwap, UnshuffleStore, FirstStore, Running, Stored, Edge
<1>11. CASE Push \/ Pushed
  BY <1>1, <1>11 DEF Push, Pushed, Running, Edge
<1>12. CASE Crash
  <2>1. \A f : Complete(f)' <=> Complete(f)
    BY <1>12 DEF Crash, Complete
  <2> QED
    BY <1>12, <2>1 DEF Crash, Chain, Running, Stored
<1>13. CASE UNCHANGED vars
  <2>1. \A f : Complete(f)' <=> Complete(f)
    BY <1>13 DEF vars, Complete
  <2>2. Edge' = Edge
    BY <1>13 DEF vars, Edge
  <2> QED
    BY <1>13, <2>1, <2>2 DEF vars, Chain
<1> QED
  BY <1>3, <1>4, <1>5, <1>7, <1>8, <1>9, <1>10, <1>11, <1>12, <1>13 DEF Next, Step

\* Seeding a generator leaves the tape of every recorded path what it was.
LEMMA SeedingKeepsTapes ==
    ASSUME Basic, Objects, Chain, SeedStable, Determined, size > 1, DOMAIN path # {},
           pc = "idle", SeedGenerator
    PROVE  tape' = tape
<1>1. PICK s \in DOMAIN tape : TRUE
  BY DEF Chain
<1>2. seed' \in SeedsOf(FirstKeys, debug, Key[Zero], {})
  BY SeedOfReordered
<1>3. s \in SeedsOf(FirstKeys, debug, Key[Zero], {})
  BY DEF SeedStable, FirstKeys
<1>4. seed' = s
  BY <1>2, <1>3, FirstKeysDetermine, SeedsUnique
<1> QED
  BY <1>4 DEF SeedGenerator

\* The store that ends a swap of the running call moves the span one step
\* along the path.
LEMMA SwapDone ==
    ASSUME Basic, NEW a \in Array, i \in 0 .. size-1, j \in 0 .. size-1, HalfSwapped(a)
    PROVE  [span EXCEPT ![j] = tmp] = Swapped(a, i, j)
<1>1. size \in Nat /\ a \in SpanOf(size, Item)
  BY SizeNat DEF Basic, Array
<1>2. span = [a EXCEPT ![i] = a[j]] /\ tmp = a[i]
  BY DEF HalfSwapped
<1> QED
  BY <1>1, <1>2, TwoStores

\* A path's entries are spans.
LEMMA PathEntries ==
    ASSUME Basic, NEW e \in DOMAIN path, NEW k \in 0 .. size-1
    PROVE  path[e][k] \in Array
BY DEF Basic, TypeOK

\* A link names one swap, whatever seed of the tape it is read with.
LEMMA LinkIs ==
    ASSUME Basic, SeedStable, Determined, seed \in DOMAIN tape, NEW e, NEW k \in 1 .. size-1
    PROVE  Link(e, k) <=> path[e][k-1] = Swapped(path[e][k], k, tape[seed][k])
<1>1. size > 1
  BY SizeNat DEF Basic
<1>2. \A s \in DOMAIN tape : s = seed
  BY <1>1, OneTape
<1> QED
  BY <1>2 DEF Link

\* Entering a call leaves the recorded paths alone and starts at the end of
\* the edge's path the call starts from.
LEMMA CallPaths ==
    ASSUME Basic, Objects, Chain, SeedStable, Determined, Paths, OnPath,
           NEW e \in Int, e \in Depths, e + 1 \in Depths,
           NEW entry \in {"shuffle", "push"}, Call(e, entry),
           e = IF entry = "shuffle" THEN depth ELSE depth - 1
    PROVE  Paths' /\ OnPath'
<1>0. /\ size \in Nat /\ size > 0 /\ depth \in Int /\ pc = "idle" /\ pc' = entry
      /\ i' = size - 1 /\ SeedGenerator
      /\ UNCHANGED <<size, span, depth, seen>> /\ span = seen[depth] /\ span \in Array
  BY SizeNat, DepthsAssumption DEF Basic, TypeOK, Call, OnPath
<1>1. /\ \A f \in DOMAIN path : f \in DOMAIN path' /\ path'[f] = path[f]
      /\ DOMAIN path' = DOMAIN path \cup {e}
      /\ e \notin DOMAIN path => path'[e] = [k \in 0 .. size-1 |-> span]
  BY CallBasic, ZenonT(40)
<1>2. \A f : Complete(f)' <=> Complete(f)
  BY <1>0 DEF Complete
<1>3. \A f \in DOMAIN path : Complete(f)
  BY <1>0 DEF Chain, Running, Stored
<1>4. e \notin DOMAIN path => ~Complete(e)
  BY <1>0 DEF Chain, Complete
<1>5. Paths'
  <2> SUFFICES ASSUME NEW f \in DOMAIN path', Complete(f)
               PROVE  /\ path'[f][size-1] = seen[f]
                      /\ path'[f][0] = seen[f+1]
                      /\ \A k \in 1 .. size-1 : Link(f, k)'
    BY <1>0, <1>2 DEF Paths
  <2>1. f \in DOMAIN path /\ path'[f] = path[f]
    BY <1>1, <1>4
  <2>2. path[f][size-1] = seen[f] /\ path[f][0] = seen[f+1]
    BY <2>1 DEF Paths
  <2>3. ASSUME NEW k \in 1 .. size-1 PROVE Link(f, k)'
    <3>1. Link(f, k)
      BY <2>1 DEF Paths
    <3>2. tape' = tape
      <4>1. size > 1 /\ DOMAIN path # {}
        BY <1>0, <2>1
      <4> QED
        BY <1>0, <4>1, SeedingKeepsTapes
    <3> QED
      BY <2>1, <3>1, <3>2 DEF Link
  <2> QED
    BY <2>1, <2>2, <2>3
<1>6. path'[e][size-1] = IF e \in DOMAIN path THEN seen[e] ELSE span
  <2>1. CASE e \in DOMAIN path
    BY <1>1, <1>3, <2>1 DEF Paths
  <2>2. CASE e \notin DOMAIN path
    BY <1>0, <1>1, <2>2
  <2> QED
    BY <2>1, <2>2
<1>7. path'[e][0] = IF e \in DOMAIN path THEN seen[e+1] ELSE span
  <2>1. CASE e \in DOMAIN path
    BY <1>1, <1>3, <2>1 DEF Paths
  <2>2. CASE e \notin DOMAIN path
    BY <1>0, <1>1, <2>2
  <2> QED
    BY <2>1, <2>2
<1>8. CASE entry = "shuffle"
  <2>1. e = depth /\ path'[e][size-1] = seen[depth]
    BY <1>0, <1>6, <1>8
  <2>2. i' + 1 .. size - 1 = {}
    BY <1>0
  <2> QED
    BY <1>0, <1>5, <1>8, <2>1, <2>2 DEF OnPath
<1>9. CASE entry = "push"
  <2>1. e = depth - 1 /\ e + 1 = depth /\ path'[e][0] = seen[depth]
    BY <1>0, <1>7, <1>9
  <2> QED
    BY <1>0, <1>5, <1>9, <2>1 DEF OnPath
<1> QED
  BY <1>8, <1>9

\* Recording the span a swap has made on the path of edge e keeps the recorded
\* paths: on a complete path it was recorded before.  The swap is shuffle's
\* from loop index m (new = m-1) or unshuffle's back to it (new = m).
LEMMA RecordPaths ==
    ASSUME Basic, SeedStable, Determined, Paths,
           NEW e \in DOMAIN path, NEW m \in 1 .. size-1, NEW new \in {m-1, m},
           seed \in DOMAIN tape, NEW a \in Array,
           \/ new = m-1 /\ a = Swapped(path[e][m], m, tape[seed][m])
           \/ new = m /\ a = Swapped(path[e][m-1], m, tape[seed][m]),
           DOMAIN path' = DOMAIN path,
           \A f \in DOMAIN path : f # e => path'[f] = path[f],
           path'[e] = [path[e] EXCEPT ![new] = a],
           size' = size, tape' = tape, seed' = seed, seen' = seen
    PROVE  /\ Paths'
           /\ Link(e, m)'
           /\ Complete(e) => path'[e] = path[e]
<1>0. TypeOK /\ size \in Nat /\ new \in 0 .. size-1 /\ m - 1 \in 0 .. size-1 /\ m \in 0 .. size-1
  BY SizeNat DEF Basic
<1>1. tape[seed][m] \in 0 .. size-1
  BY <1>0, DrawBounds
<1>3. path[e] \in [0 .. size-1 -> Array]
  BY <1>0 DEF TypeOK
<1>2. \A l \in 0 .. size-1 : path'[e][l] = IF l = new THEN a ELSE path[e][l]
  BY <1>0, <1>3
<1>4. Swapped(Swapped(path[e][m-1], m, tape[seed][m]), m, tape[seed][m]) = path[e][m-1]
  <2>1. path[e][m-1] \in SpanOf(size, Item)
    BY <1>0, <1>3 DEF Array
  <2> QED
    BY <1>0, <1>1, <2>1, SwapInvolution
<1>5. path'[e][m-1] = Swapped(path'[e][m], m, tape[seed][m])
  <2>1. CASE new = m-1 /\ a = Swapped(path[e][m], m, tape[seed][m])
    BY <1>0, <1>2, <2>1
  <2>2. CASE new = m /\ a = Swapped(path[e][m-1], m, tape[seed][m])
    <3>1. path'[e][m] = a /\ path'[e][m-1] = path[e][m-1]
      BY <1>0, <1>2, <2>2
    <3> QED
      BY <1>4, <2>2, <3>1
  <2> QED
    BY <2>1, <2>2
<1>6. Link(e, m)'
  <2>1. \A s \in DOMAIN tape : s = seed
    <3>1. size > 1
      BY <1>0
    <3> QED
      BY <3>1, OneTape
  <2> QED
    BY <1>5, <2>1 DEF Link
<1>7. Complete(e) => path'[e] = path[e]
  <2> HAVE Complete(e)
  <2>1. path[e][m-1] = Swapped(path[e][m], m, tape[seed][m])
    BY DEF Paths, Link
  <2>2. Swapped(path[e][m-1], m, tape[seed][m]) = path[e][m]
    <3>1. path[e][m] \in SpanOf(size, Item)
      BY <1>0, <1>3 DEF Array
    <3> QED
      BY <1>0, <1>1, <2>1, <3>1, SwapInvolution
  <2>3. path[e][new] = a
    BY <2>1, <2>2
  <2> QED
    BY <1>2, <1>3, <2>3
<1>8. Paths'
  <2> SUFFICES ASSUME NEW f \in DOMAIN path, Complete(f)
               PROVE  /\ path'[f][size-1] = seen[f]
                      /\ path'[f][0] = seen[f+1]
                      /\ \A k \in 1 .. size-1 : Link(f, k)'
    BY <1>2 DEF Paths, Complete
  <2>1. path'[f] = path[f]
    BY <1>2, <1>7
  <2> QED
    BY <2>1 DEF Paths, Link
<1> QED
  BY <1>0, <1>2, <1>6, <1>7, <1>8

\* A link of a path whose two spans are not rewritten stays.
LEMMA LinkKept ==
    ASSUME NEW e, NEW k, Link(e, k), UNCHANGED tape,
           path'[e][k] = path[e][k], path'[e][k-1] = path[e][k-1]
    PROVE  Link(e, k)'
BY DEF Link

\* The second store of a swap of shuffle.
LEMMA ShuffleStorePaths ==
    ASSUME Basic, SeedStable, Determined, Paths, OnPath, ShuffleStore
    PROVE  Paths' /\ OnPath'
<1>0. TypeOK /\ Control /\ size \in Nat /\ i \in Nat /\ pc = "shuffle_store" /\ pc' = "shuffle"
  BY SizeNat DEF Basic, TypeOK, ShuffleStore
<1>1. i \in 1 .. size-1 /\ seed \in DOMAIN tape /\ depth \in DOMAIN path /\ j = tape[seed][i]
  BY <1>0 DEF Control, Running, Stored, Edge
<1>2. PICK m \in 1 .. size-1 : m = i
  BY <1>1
<1>3. PICK e \in DOMAIN path : e = depth
  BY <1>1
<1>4. m \in 0 .. size-1 /\ m - 1 \in 0 .. size-1 /\ tape[seed][m] \in 0 .. size-1
  BY <1>0, <1>1, DrawBounds
<1>5. span' = Swapped(path[e][m], m, tape[seed][m])
  <2>1. path[e][m] \in Array /\ HalfSwapped(path[e][m])
    BY <1>0, <1>2, <1>3, <1>4, PathEntries DEF OnPath
  <2>2. [span EXCEPT ![j] = tmp] = Swapped(path[e][m], i, j)
    BY <1>1, <1>2, <1>4, <2>1, SwapDone
  <2> QED
    BY <1>1, <1>2, <2>2 DEF ShuffleStore
<1>6. span' \in Array
  <2>1. path[e][m] \in SpanOf(size, Item)
    BY <1>4, PathEntries DEF Array
  <2> QED
    BY <1>0, <1>4, <1>5, <2>1, SwapType DEF Array
<1>7. PICK a \in Array : a = span'
  BY <1>6
<1>8. UNCHANGED <<size, tape, seed, seen, depth>> /\ i' = m - 1
      /\ path' = [path EXCEPT ![e] = [@ EXCEPT ![m-1] = a]]
  BY <1>2, <1>3, <1>7 DEF ShuffleStore
<1>9. Paths' /\ Link(e, m)'
  <2>1. m-1 \in {m-1, m} /\ seed \in DOMAIN tape
    BY <1>1
  <2>2. \/ m-1 = m-1 /\ a = Swapped(path[e][m], m, tape[seed][m])
        \/ m-1 = m /\ a = Swapped(path[e][m-1], m, tape[seed][m])
    BY <1>5, <1>7
  <2>3. size' = size /\ tape' = tape /\ seed' = seed /\ seen' = seen
    BY <1>8
  <2>4. /\ DOMAIN path' = DOMAIN path
        /\ \A f \in DOMAIN path : f # e => path'[f] = path[f]
        /\ path'[e] = [path[e] EXCEPT ![m-1] = a]
    BY <1>0, <1>4, <1>8, PathType
  <2> QED
    BY <2>1, <2>2, <2>3, <2>4, RecordPaths
<1>10. \A l \in 0 .. size-1 : path'[e][l] = IF l = m-1 THEN a ELSE path[e][l]
  BY <1>0, <1>4, <1>8, PathType
<1>11. OnPath'
  <2>1. path'[e][size-1] = seen[e]
    BY <1>0, <1>2, <1>3, <1>10 DEF OnPath
  <2>2. ASSUME NEW k \in m .. size-1 PROVE Link(e, k)'
    <3>1. CASE k = m
      BY <1>9, <3>1
    <3>2. CASE k > m
      <4>1. /\ k \in m+1 .. size-1 /\ k \in 0 .. size-1 /\ k - 1 \in 0 .. size-1
            /\ k # m-1 /\ k-1 # m-1
        BY <1>0, <3>2
      <4>2. Link(e, k)
        BY <1>0, <1>2, <1>3, <4>1 DEF OnPath
      <4> QED
        BY <1>8, <1>10, <4>1, <4>2, LinkKept
    <3> QED
      BY <1>0, <3>1, <3>2
  <2>3. span' = path'[e][m-1]
    BY <1>4, <1>7, <1>10
  <2>4. i' + 1 .. size' - 1 = m .. size - 1
    BY <1>0, <1>8
  <2>5. depth' = e /\ seen' = seen
    BY <1>3, <1>8
  <2> QED
    BY <1>0, <1>8, <2>1, <2>2, <2>3, <2>4, <2>5 DEF OnPath
<1> QED
  BY <1>9, <1>11

\* The second store of a swap of unshuffle.
LEMMA UnshuffleStorePaths ==
    ASSUME Basic, SeedStable, Determined, Paths, OnPath, UnshuffleStore
    PROVE  Paths' /\ OnPath'
<1>0. TypeOK /\ Control /\ size \in Nat /\ i \in Nat /\ pc = "unshuffle_store" /\ pc' = "unshuffle"
  BY SizeNat DEF Basic, TypeOK, UnshuffleStore
<1>1. i \in 1 .. size-1 /\ seed \in DOMAIN tape /\ depth - 1 \in DOMAIN path /\ j = tape[seed][i]
  BY <1>0 DEF Control, Running, Stored, Edge
<1>2. PICK m \in 1 .. size-1 : m = i
  BY <1>1
<1>3. PICK e \in DOMAIN path : e = depth - 1
  BY <1>1
<1>4. m \in 0 .. size-1 /\ m - 1 \in 0 .. size-1 /\ tape[seed][m] \in 0 .. size-1
  BY <1>0, <1>1, DrawBounds
<1>5. span' = Swapped(path[e][m-1], m, tape[seed][m])
  <2>1. path[e][m-1] \in Array /\ HalfSwapped(path[e][m-1])
    BY <1>0, <1>2, <1>3, <1>4, PathEntries DEF OnPath
  <2>2. [span EXCEPT ![j] = tmp] = Swapped(path[e][m-1], i, j)
    BY <1>1, <1>2, <1>4, <2>1, SwapDone
  <2> QED
    BY <1>1, <1>2, <2>2 DEF UnshuffleStore
<1>6. span' \in Array
  <2>1. path[e][m-1] \in SpanOf(size, Item)
    BY <1>4, PathEntries DEF Array
  <2> QED
    BY <1>0, <1>4, <1>5, <2>1, SwapType DEF Array
<1>7. PICK a \in Array : a = span'
  BY <1>6
<1>8. UNCHANGED <<size, tape, seed, seen, depth>> /\ i' = m + 1
      /\ path' = [path EXCEPT ![e] = [@ EXCEPT ![m] = a]]
  BY <1>2, <1>3, <1>7 DEF UnshuffleStore
<1>9. Paths' /\ Link(e, m)'
  <2>1. m \in {m-1, m} /\ seed \in DOMAIN tape
    BY <1>1
  <2>2. \/ m = m-1 /\ a = Swapped(path[e][m], m, tape[seed][m])
        \/ m = m /\ a = Swapped(path[e][m-1], m, tape[seed][m])
    BY <1>5, <1>7
  <2>3. size' = size /\ tape' = tape /\ seed' = seed /\ seen' = seen
    BY <1>8
  <2>4. /\ DOMAIN path' = DOMAIN path
        /\ \A f \in DOMAIN path : f # e => path'[f] = path[f]
        /\ path'[e] = [path[e] EXCEPT ![m] = a]
    BY <1>0, <1>4, <1>8, PathType
  <2> QED
    BY <2>1, <2>2, <2>3, <2>4, RecordPaths
<1>10. \A l \in 0 .. size-1 : path'[e][l] = IF l = m THEN a ELSE path[e][l]
  BY <1>0, <1>4, <1>8, PathType
<1>11. OnPath'
  <2>1. path'[e][0] = seen[depth]
    BY <1>0, <1>2, <1>3, <1>10 DEF OnPath
  <2>2. ASSUME NEW k \in 1 .. m PROVE Link(e, k)'
    <3>1. CASE k = m
      BY <1>9, <3>1
    <3>2. CASE k < m
      <4>1. k \in 1 .. m-1 /\ k \in 0 .. size-1 /\ k - 1 \in 0 .. size-1 /\ k # m /\ k-1 # m
        BY <1>0, <3>2
      <4>2. Link(e, k)
        BY <1>0, <1>2, <1>3, <4>1 DEF OnPath
      <4> QED
        BY <1>8, <1>10, <4>1, <4>2, LinkKept
    <3> QED
      BY <1>0, <3>1, <3>2
  <2>3. span' = path'[e][i'-1]
    BY <1>4, <1>7, <1>8, <1>10
  <2>4. i' - 1 = m
    BY <1>8
  <2>5. depth' - 1 = e /\ seen' = seen /\ depth' = depth
    BY <1>3, <1>8
  <2> QED
    BY <1>0, <1>8, <2>1, <2>2, <2>3, <2>4, <2>5 DEF OnPath
<1> QED
  BY <1>9, <1>11

\* A call that returns has walked its edge's path to the end; that is where
\* the depth's contents were, or are from now on.
LEMMA ArrivePaths ==
    ASSUME Basic, Chain, Determined, Paths, size > 0,
           NEW e \in DOMAIN path, NEW d \in Depths,
           (d = depth + 1 /\ e = depth) \/ (d = depth - 1 /\ e = d),
           path[e][size-1] = IF d = depth + 1 THEN seen[depth] ELSE span,
           path[e][0] = IF d = depth + 1 THEN span ELSE seen[depth],
           \A k \in 1 .. size-1 : Link(e, k),
           Arrive(d), UNCHANGED <<size, span, tape, path>>
    PROVE  Paths' /\ OnPath'
<1>0. depth \in Int /\ depth \in DOMAIN seen /\ d \in Int
  BY DepthsAssumption DEF Basic, TypeOK, Chain
<1>1. /\ DOMAIN seen' = DOMAIN seen \cup {d}
      /\ \A f \in DOMAIN seen : seen'[f] = seen[f]
      /\ d \notin DOMAIN seen => seen'[d] = span
      /\ \A f \in DOMAIN seen' : Complete(f)' =>
            Complete(f) \/ f = IF d = depth + 1 THEN depth ELSE depth - 1
  BY ArriveChain
<1>2. seen'[d] = span
  <2>1. CASE d \in DOMAIN seen
    <3>1. Complete(e)
      BY <1>0, <2>1 DEF Complete
    <3>2. path[e][size-1] = seen[e] /\ path[e][0] = seen[e+1]
      BY <3>1 DEF Paths
    <3> QED
      BY <1>0, <1>1, <2>1, <3>2
  <2> QED
    BY <1>1, <2>1
<1>3. path[e][size-1] = seen'[e] /\ path[e][0] = seen'[e+1]
  BY <1>0, <1>1, <1>2
<1>4. Paths'
  <2> SUFFICES ASSUME NEW f \in DOMAIN path, Complete(f)'
               PROVE  /\ path[f][size-1] = seen'[f]
                      /\ path[f][0] = seen'[f+1]
                      /\ \A k \in 1 .. size-1 : Link(f, k)
    BY DEF Paths, Link
  <2>1. f \in DOMAIN seen'
    BY DEF Complete
  <2>2. CASE f = e
    BY <1>3, <2>2
  <2>3. CASE f # e
    <3>1. Complete(f)
      BY <1>0, <1>1, <2>1, <2>3
    <3>2. seen'[f] = seen[f] /\ seen'[f+1] = seen[f+1]
      BY <1>1, <3>1 DEF Complete
    <3> QED
      BY <3>1, <3>2 DEF Paths
  <2> QED
    BY <2>2, <2>3
<1>5. OnPath'
  BY <1>2 DEF OnPath, Arrive
<1> QED
  BY <1>4, <1>5

\* No step leaves the path.
LEMMA NextPaths ==
    ASSUME Basic, Objects, Chain, SeedStable, Determined, Paths, OnPath, [Next]_vars
    PROVE  Paths' /\ OnPath'
<1>0. TypeOK /\ Control /\ DrawsAlign /\ size \in Nat /\ i \in Nat /\ depth \in Int
  BY SizeNat, DepthsAssumption DEF Basic, TypeOK
<1>1. CASE CallShuffle
  BY <1>0, <1>1, CallsAreCalls, CallPaths
<1>2. CASE CallUnshuffle
  BY <1>0, <1>2, CallsAreCalls, CallPaths
<1>3. CASE CallEmpty
  <2>1. PICK d \in Depths : (d = depth + 1 \/ d = depth - 1) /\ Arrive(d)
    BY <1>3 DEF CallEmpty
  <2>2. size = 0 /\ DOMAIN path = {} /\ UNCHANGED <<size, span, path>>
    BY <1>0, <1>3 DEF CallEmpty, Chain
  <2>3. Paths'
    BY <2>2 DEF Paths
  <2>4. seen'[d] = span
    <3>1. CASE d \in DOMAIN seen
      <4>1. span \in [0 .. -1 -> Item] /\ seen[d] \in [0 .. -1 -> Item]
        BY <1>0, <2>2, <3>1 DEF TypeOK, Array, SpanOf
      <4>2. span = seen[d]
        BY <4>1
      <4> QED
        BY <2>1, <3>1, <4>2, ArriveChain
    <3>2. CASE d \notin DOMAIN seen
      BY <2>1, <3>2, ArriveChain
    <3> QED
      BY <3>1, <3>2
  <2> QED
    BY <2>1, <2>2, <2>3, <2>4 DEF OnPath, Arrive
<1>4. ASSUME UNCHANGED <<debug, size, tape, seed, depth, seen, path>> PROVE Paths'
  BY <1>4 DEF Paths, Complete, Link
<1>5. CASE ShuffleSwap
  <2>1. Paths'
    BY <1>4, <1>5 DEF ShuffleSwap, FirstStore
  <2>2. OnPath'
    BY <1>5 DEF ShuffleSwap, FirstStore, OnPath, Link, HalfSwapped
  <2> QED
    BY <2>1, <2>2
<1>6. CASE UnshuffleSwap
  <2>1. Paths'
    BY <1>4, <1>6 DEF UnshuffleSwap, FirstStore
  <2>2. OnPath'
    BY <1>6 DEF UnshuffleSwap, FirstStore, OnPath, Link, HalfSwapped
  <2> QED
    BY <2>1, <2>2
<1>7. CASE ShuffleStore
  BY <1>7, ShuffleStorePaths
<1>8. CASE UnshuffleStore
  BY <1>8, UnshuffleStorePaths
<1>9. CASE ShuffleReturn
  <2>1. /\ depth \in DOMAIN path /\ size > 0 /\ i = 0 /\ depth + 1 \in Depths
        /\ path[depth][size-1] = seen[depth] /\ path[depth][0] = span
        /\ \A k \in 1 .. size-1 : Link(depth, k)
    BY <1>0, <1>9 DEF ShuffleReturn, Control, Running, Edge, OnPath
  <2>2. PICK d \in Depths : d = depth + 1
    BY <2>1
  <2>3. PICK e \in DOMAIN path : e = depth
    BY <2>1
  <2>4. Arrive(d) /\ UNCHANGED <<size, span, tape, path>>
    BY <1>9, <2>2 DEF ShuffleReturn
  <2> QED
    BY <2>1, <2>2, <2>3, <2>4, ArrivePaths
<1>10. CASE UnshuffleReturn
  <2>1. /\ depth - 1 \in DOMAIN path /\ size > 0 /\ i = size /\ depth - 1 \in Depths
        /\ path[depth-1][0] = seen[depth] /\ path[depth-1][size-1] = span
        /\ \A k \in 1 .. size-1 : Link(depth-1, k)
    BY <1>0, <1>10 DEF UnshuffleReturn, Control, Running, Edge, OnPath
  <2>2. PICK d \in Depths : d = depth - 1 /\ d # depth + 1
    BY <1>0, <2>1
  <2>3. PICK e \in DOMAIN path : e = depth - 1
    BY <2>1
  <2>4. Arrive(d) /\ UNCHANGED <<size, span, tape, path>>
    BY <1>10, <2>2 DEF UnshuffleReturn
  <2> QED
    BY <2>1, <2>2, <2>3, <2>4, ArrivePaths
<1>11. CASE Push
  BY <1>4, <1>11 DEF Push, OnPath
<1>12. CASE Pushed
  <2>1. span = path[depth-1][0]
    BY <1>12 DEF Pushed, OnPath
  <2>2. i' = 1 /\ i' - 1 = 0 /\ 1 .. i' - 1 = {}
    BY <1>12 DEF Pushed
  <2> QED
    BY <1>4, <1>12, <2>1, <2>2 DEF Pushed, OnPath
<1>13. CASE Crash
  BY <1>4, <1>13 DEF Crash, OnPath
<1>14. CASE UNCHANGED vars
  BY <1>4, <1>14 DEF vars, OnPath, Link, HalfSwapped
<1> QED
  BY <1>1, <1>2, <1>3, <1>5, <1>6, <1>7, <1>8, <1>9, <1>10, <1>11, <1>12, <1>13, <1>14
     DEF Next, Step

-----------------------------------------------------------------------------
\* The whole inductive invariant.
LEMMA InitIInv == Init => IInv
BY InitBasic, InitObjects, InitWalk DEF IInv, Basic, Objects, Walk

LEMMA NextIInv == IInv /\ [Next]_vars => IInv'
<1> SUFFICES ASSUME IInv, [Next]_vars PROVE IInv'
  OBVIOUS
<1>1. Basic /\ Objects /\ Chain /\ SeedStable /\ (Determined => Paths /\ OnPath)
  BY DEF IInv, Basic, Objects, Chain
<1>2. Basic' /\ Objects' /\ Chain' /\ SeedStable'
  BY <1>1, BasicNext, NextObjects, NextChain, NextSeeds
<1>3. Determined' => Paths' /\ OnPath'
  BY <1>1, DeterminedKept, NextPaths
<1> QED
  BY <1>2, <1>3 DEF IInv, Basic, Objects

\* The inductive invariant holds in every reachable state, for every size,
\* object type and in-bounds generator.
THEOREM InductiveInvariant == Spec => []IInv
BY InitIInv, NextIInv, PTL DEF Spec

\* unshuffle undoes shuffle and shuffle undoes unshuffle, in every sequence of
\* calls: between calls the file is what it was when its depth was first
\* reached (README.md 3; shuffle.hpp 13-75).
THEOREM RoundTripTheorem == Spec => []RoundTrip
<1>1. IInv => RoundTrip
  BY DEF IInv, RoundTrip, OnPath
<1> QED
  BY <1>1, InductiveInvariant, PTL

-----------------------------------------------------------------------------
(***************************************************************************)
(* A stage implements Reversible, for every size, object type, filter,      *)
(* generator and bound on the depth.  On top of the invariant above this    *)
(* needs that what is remembered of each depth is a reordering of the first *)
(* contents.                                                                *)
(***************************************************************************)

HistoryConserved == \A d \in DOMAIN seen : SameObjects(seen[0], seen[d])

Known == IInv /\ Determined /\ HistoryConserved

\* The types the lemmas below need.
LEMMA KnownTypes ==
    ASSUME Known
    PROVE  /\ size \in Nat /\ depth \in DOMAIN seen /\ 0 \in DOMAIN seen
           /\ span \in SpanOf(size, Item)
           /\ \A d \in DOMAIN seen : seen[d] \in SpanOf(size, Item)
BY SizeNat DEF Known, IInv, TypeOK, Chain, Array

\* Outside a swap the file is a reordering of what it was first.
LEMMA Reordered ==
    ASSUME Known, pc \in {"idle", "shuffle", "unshuffle"}
    PROVE  SameObjects(seen[0], span)
BY DEF Known, IInv, ObjectsConserved, Stored

\* The calls that complete arrive at a neighbouring depth; the other steps
\* leave the history alone.
LEMMA Arrivals ==
    ASSUME Known, [Next]_vars
    PROVE  \/ /\ pc \in {"idle", "shuffle", "unshuffle"}
              /\ UNCHANGED <<size, span>>
              /\ \E d \in Depths : (d = depth + 1 \/ d = depth - 1) /\ Arrive(d)
           \/ /\ UNCHANGED <<depth, seen>>
              /\ pc = "idle" => UNCHANGED span
<1> USE DEF Known
<1>0. TypeOK /\ Control
  BY DEF IInv
<1>1. CASE CallEmpty
  BY <1>1 DEF CallEmpty
<1>2. CASE ShuffleReturn
  <2>1. depth + 1 \in Depths
    BY <1>0, <1>2, DepthsAssumption DEF ShuffleReturn, Control, Running, Edge, TypeOK
  <2> QED
    BY <1>2, <2>1 DEF ShuffleReturn
<1>3. CASE UnshuffleReturn
  <2>1. depth - 1 \in Depths
    BY <1>0, <1>3, DepthsAssumption DEF UnshuffleReturn, Control, Running, Edge, TypeOK
  <2> QED
    BY <1>3, <2>1 DEF UnshuffleReturn
<1>4. CASE CallShuffle \/ CallUnshuffle
  BY <1>4 DEF CallShuffle, CallUnshuffle, Call
<1>5. CASE ShuffleSwap \/ ShuffleStore \/ UnshuffleSwap \/ UnshuffleStore
  BY <1>5 DEF ShuffleSwap, ShuffleStore, UnshuffleSwap, UnshuffleStore, FirstStore
<1>6. CASE Push \/ Pushed \/ Crash
  BY <1>6 DEF Push, Pushed, Crash, Running, Stored
<1>7. CASE UNCHANGED vars
  BY <1>7 DEF vars
<1> QED
  BY <1>1, <1>2, <1>3, <1>4, <1>5, <1>6, <1>7 DEF Next, Step

\* What an arrival does to the history.
LEMMA ArriveHistory ==
    ASSUME Known, NEW d \in Depths, Arrive(d)
    PROVE  \/ d \in DOMAIN seen /\ seen' = seen
           \/ /\ d \notin DOMAIN seen
              /\ DOMAIN seen' = DOMAIN seen \cup {d}
              /\ \A e \in DOMAIN seen : seen'[e] = seen[e]
              /\ seen'[d] = span
BY DEF Arrive

-----------------------------------------------------------------------------
LEMMA InitKnown == DeterminedInit => Known
<1> SUFFICES ASSUME DeterminedInit PROVE Known
  OBVIOUS
<1>1. Init /\ Determined /\ IInv
  BY InitIInv DEF DeterminedInit
<1>2. DOMAIN seen = {0} /\ seen[0] = span /\ span \in SpanOf(size, Item) /\ size \in Nat
  BY <1>1, SizesAssumption DEF Init, Array
<1>3. HistoryConserved
  BY <1>2, SameObjectsReflexive DEF HistoryConserved
<1> QED
  BY <1>1, <1>3 DEF Known

LEMMA NextKnown == Known /\ [Next]_vars => Known'
<1> SUFFICES ASSUME Known, [Next]_vars PROVE Known'
  OBVIOUS
<1>1. IInv'
  BY NextIInv DEF Known
<1>2. Determined'
  BY DeterminedKept DEF Known, IInv, Objects, Basic, Chain
<1>3. HistoryConserved'
  <2>1. CASE UNCHANGED seen
    BY <2>1 DEF HistoryConserved, Known
  <2>2. CASE pc \in {"idle", "shuffle", "unshuffle"} /\ \E d \in Depths : Arrive(d)
    <3>1. PICK d \in Depths : Arrive(d)
      BY <2>2
    <3>2. SameObjects(seen[0], span) /\ 0 \in DOMAIN seen
      BY <2>2, Reordered, KnownTypes
    <3>3. CASE d \notin DOMAIN seen
      BY <3>1, <3>2, <3>3, ArriveHistory DEF Known, HistoryConserved
    <3>4. CASE d \in DOMAIN seen
      BY <2>1, <3>1, <3>4, ArriveHistory
    <3> QED
      BY <3>3, <3>4
  <2> QED
    BY <2>1, <2>2, Arrivals
<1> QED
  BY <1>1, <1>2, <1>3 DEF Known

-----------------------------------------------------------------------------
\* On a file whose seeds are determined the invariant holds beside all others.
LEMMA AlwaysKnown == Spec => [](IInv /\ (Determined => Known))
<1>1. Init => IInv /\ (Determined => Known)
  BY InitIInv, InitKnown DEF DeterminedInit
<1>2. IInv /\ (Determined => Known) /\ [Next]_vars => IInv' /\ (Determined => Known)'
  <2> SUFFICES ASSUME IInv, Determined => Known, [Next]_vars
               PROVE  IInv' /\ (Determined' => Known')
    OBVIOUS
  <2>1. Determined' <=> Determined
    BY DeterminedKept DEF IInv, Objects, Basic, Chain
  <2> QED
    BY <2>1, NextIInv, NextKnown
<1> QED
  BY <1>1, <1>2, PTL DEF Spec

\* A complete edge is one run of Sattolo's algorithm, on objects that are all
\* different if those of the first file are.
LEMMA EdgeMovesAll ==
    ASSUME Known, BelowOne, size > 1, IsInjective(seen[0]),
           NEW e \in DOMAIN seen, Complete(e)
    PROVE  \A x \in 0 .. size-1 : seen[e][x] # seen[e+1][x]
<1>1. /\ size \in Nat /\ seen[0] \in SpanOf(size, Item) /\ seen[e] \in SpanOf(size, Item)
      /\ e \in DOMAIN path
  BY KnownTypes DEF Known, IInv, Chain
<1>2. PICK s \in DOMAIN tape : TRUE
  BY <1>1 DEF Known, IInv, Chain
<1> DEFINE r == tape[s]
<1>3. \A k \in 1 .. size-1 : r[k] \in 0 .. k-1
  <2> TAKE k \in 1 .. size-1
  <2>1. tape[s][k] \in 0 .. k
    BY DrawBounds DEF Known, IInv
  <2>2. DOMAIN tape[s] = 1 .. size-1
    BY DEF Known, IInv, TypeOK, Tapes
  <2>3. tape[s][k] < k
    BY <2>2 DEF BelowOne
  <2> QED
    BY <2>1, <2>3
<1>4. path[e] \in [0 .. size-1 -> SpanOf(size, Item)]
  BY <1>1 DEF Known, IInv, TypeOK, Array
<1>5. /\ path[e][size-1] = seen[e] /\ path[e][0] = seen[e+1]
      /\ \A k \in 1 .. size-1 : path[e][k-1] = Swapped(path[e][k], k, r[k])
  BY <1>1 DEF Known, IInv, Paths, Link
<1>6. \A x, y \in 0 .. size-1 : seen[e][x] = seen[e][y] => x = y
  BY <1>1, SameObjectsInjective DEF Known, HistoryConserved
<1> DEFINE a == path[e]
<1>7. a[size-1] = seen[e] /\ a[0] = seen[e+1]
  BY <1>5
<1>8. SattoloRun(size, Item, a, r)
  <2>1. \A k \in 1 .. size-1 : r[k] \in 0 .. k-1 /\ a[k-1] = Swapped(a[k], k, r[k])
    BY <1>3, <1>5
  <2>2. a \in [0 .. size-1 -> SpanOf(size, Item)]
    BY <1>4
  <2>3. \A x, y \in 0 .. size-1 : a[size-1][x] = a[size-1][y] => x = y
    BY <1>6, <1>7
  <2>4. size \in Nat /\ size > 1
    BY <1>1
  <2> HIDE DEF a, r
  <2> QED
    BY <2>1, <2>2, <2>3, <2>4 DEF SattoloRun
<1> HIDE DEF a, r
<1>9. \A x \in 0 .. size-1 : a[0][x] # a[size-1][x]
  BY <1>8, Sattolo
<1> QED
  BY <1>7, <1>9

\* A generator that stays below 1 moves every object, for every size and object
\* type, whichever way the edge was first walked (shuffle.hpp 18-22).
THEOREM EveryObjectMovesTheorem == Spec => []EveryObjectMoves
<1>1. IInv /\ (Determined => Known) => EveryObjectMoves
  BY EdgeMovesAll DEF EveryObjectMoves
<1> QED
  BY <1>1, AlwaysKnown, PTL

-----------------------------------------------------------------------------
\* Between calls and inside them the abstract contents are those remembered of
\* the present depth.
LEMMA Contents ==
    ASSUME Known
    PROVE  (IF pc = "idle" THEN span ELSE seen[depth]) = seen[depth]
BY DEF Known, IInv, OnPath

\* Reordering means the same to the abstract module.
LEMMA SameRanges == \A a : File!Range(a) = Range(a)
BY DEF File!Range, Range

LEMMA SameCardinality == \A S : File!Cardinality(S) = Cardinality(S)
BY DEF File!Cardinality, Cardinality, File!IsFiniteSet, IsFiniteSet

LEMMA SameCount == \A a, x : File!Count(a, x) = Count(a, x)
BY SameCardinality DEF File!Count, Count

LEMMA SameCounting == \A a, b : SameCounts(a, b) => File!SameCounts(a, b)
BY SameRanges, SameCount DEF SameCounts, File!SameCounts

\* An arrival is one run of the abstract program.
LEMMA ArriveMoves ==
    ASSUME Known, Known', UNCHANGED <<size, span>>, NEW d \in Depths, Arrive(d),
           pc \in {"idle", "shuffle", "unshuffle"}
    PROVE  File!Move(d)
<1> DEFINE old == IF pc = "idle" THEN span ELSE seen[depth]
<1>1. old = seen[depth]
  BY Contents
<1>2. pc' = "idle" /\ depth' = d /\ span' = span
  BY DEF Arrive
<1>3. span' = seen'[depth']
  BY <1>2 DEF Known, IInv, OnPath
<1>4. (IF pc = "idle" THEN span ELSE seen[depth])' = span
  BY <1>2
<1>5. CASE d \in DOMAIN seen
  <2>1. seen' = seen
    BY <1>5, ArriveHistory
  <2>2. span = seen[d]
    BY <1>2, <1>3, <2>1
  <2> QED
    BY <1>2, <1>4, <1>5, <2>1, <2>2 DEF File!Move
<1>6. CASE d \notin DOMAIN seen
  <2>1. /\ span \in SpanOf(size, Item) /\ seen[depth] \in SpanOf(size, Item)
        /\ seen[0] \in SpanOf(size, Item) /\ size \in Nat
    BY KnownTypes
  <2>2. SameObjects(seen[0], seen[depth]) /\ SameObjects(seen[0], span)
    BY KnownTypes, Reordered DEF Known, HistoryConserved
  <2>3. SameObjects(seen[depth], span)
    BY <2>1, <2>2, SameObjectsEuclidean
  <2>4. Range(seen[depth]) = Range(span)
    BY <2>1, <2>3, SameObjectsRange
  <2>counts. SameCounts(seen[depth], span)
    BY <2>1, <2>3, SameObjectsCounts
  <2>5. DOMAIN seen[depth] = DOMAIN span /\ span \in [DOMAIN span -> Range(span)]
    BY <2>1 DEF SpanOf, Range
  <2>6. seen' = [e \in DOMAIN seen \cup {d} |-> IF e = d THEN span ELSE seen[e]]
    BY <1>6 DEF Arrive
  <2>7. span \in [DOMAIN old -> Range(old)] /\ SameCounts(old, span)
    BY <1>1, <2>counts, <2>4, <2>5
  <2>8. /\ old' \in [DOMAIN old -> Range(old)]
        /\ SameCounts(old, old')
        /\ seen' = [e \in DOMAIN seen \cup {d} |-> IF e = d THEN old' ELSE seen[e]]
    BY <1>4, <2>6, <2>7
  <2> QED
    BY <1>2, <1>6, <2>8, SameCounting, SameRanges, Zenon DEF File!Move
<1> QED
  BY <1>5, <1>6

\* Every other step of the stage is invisible in the abstract file.
LEMMA StepRefines == Known /\ Known' /\ [Next]_vars => [File!Next]_(File!vars)
<1> SUFFICES ASSUME Known, Known', [Next]_vars PROVE [File!Next]_(File!vars)
  OBVIOUS
<1>1. CASE UNCHANGED <<depth, seen>>
  <2>1. (IF pc = "idle" THEN span ELSE seen[depth]) = seen[depth]
    BY Contents
  <2>2. (IF pc = "idle" THEN span ELSE seen[depth])' = seen'[depth']
    BY DEF Known, IInv, OnPath
  <2> QED
    BY <1>1, <2>1, <2>2 DEF File!vars
<1>2. CASE /\ pc \in {"idle", "shuffle", "unshuffle"}
           /\ UNCHANGED <<size, span>>
           /\ \E d \in Depths : (d = depth + 1 \/ d = depth - 1) /\ Arrive(d)
  <2>1. PICK d \in Depths : (d = depth + 1 \/ d = depth - 1) /\ Arrive(d)
    BY <1>2
  <2>2. File!Move(d)
    BY <1>2, <2>1, ArriveMoves
  <2> QED
    BY <2>1, <2>2 DEF File!Next
<1> QED
  BY <1>1, <1>2, Arrivals

LEMMA InitRefines == DeterminedInit => File!Init
<1> SUFFICES ASSUME DeterminedInit PROVE File!Init
  OBVIOUS
<1>1. Init
  BY DEF DeterminedInit
<1> QED
  BY <1>1 DEF Init, File!Init, Array

\* On a file whose seeds are determined every sequence of shuffles and
\* unshuffles, crashes included, walks up and down one chain of reorderings of
\* the file (README.md 3; shuffle.hpp 13-75).
THEOREM StageImplementsReversible == DeterminedSpec => ImplementsReversible
<1>1. DeterminedSpec => []Known
  BY InitKnown, NextKnown, PTL DEF DeterminedSpec
<1> QED
  BY <1>1, InitRefines, StepRefines, PTL DEF DeterminedSpec, ImplementsReversible, File!Spec

-----------------------------------------------------------------------------
\* The steps the running call has still to take: stores, draws, the turn from
\* the draws to the swaps, the return.
StepsLeft ==
    CASE pc = "shuffle"         -> 2 * i + 1
      [] pc = "shuffle_store"   -> 2 * i
      [] pc = "push"            -> i + 2 * size
      [] pc = "unshuffle"       -> 2 * (size - i) + 1
      [] pc = "unshuffle_store" -> 2 * (size - i)
      [] OTHER                  -> 0

\* A call that has not returned has a step to take, and the swaps undone find
\* their draw on the stack.
StepToTake ==
    /\ StepsLeft \in Nat
    /\ StepsLeft = 0 <=> pc \notin Running
    /\ pc = "unshuffle" /\ i < size => rng_values # <<>>

\* A step of the call makes it one step shorter; the only other is its death.
EachStepCounts == [][(pc \in Running => StepsLeft' = StepsLeft - 1 \/ pc' = "crashed")]_vars

LEMMA BasicCounts == Basic => StepToTake
<1> SUFFICES ASSUME Basic PROVE StepToTake
  OBVIOUS
<1>1. size \in Nat /\ i \in Nat /\ pc \in {"idle", "crashed"} \cup Running
  BY SizeNat DEF Basic, TypeOK
<1>2. Control /\ DrawsAlign
  BY DEF Basic
<1>3. pc \in Running => size > 0
  BY <1>2 DEF Control
<1>4. StepsLeft \in Nat /\ (StepsLeft = 0 <=> pc \notin Running)
  <2>1. CASE pc \in {"shuffle", "push"}
    BY <1>1, <1>3, <2>1 DEF StepsLeft, Running
  <2>2. CASE pc = "shuffle_store"
    BY <1>1, <1>2, <2>2 DEF StepsLeft, Running, Stored, Control
  <2>3. CASE pc = "unshuffle"
    BY <1>1, <1>2, <2>3 DEF StepsLeft, Running, Control
  <2>4. CASE pc = "unshuffle_store"
    BY <1>1, <1>2, <2>4 DEF StepsLeft, Running, Stored, Control
  <2>5. CASE pc \in {"idle", "crashed"}
    BY <2>5 DEF StepsLeft, Running, Stored
  <2> QED  BY <1>1, <2>1, <2>2, <2>3, <2>4, <2>5 DEF Running, Stored
<1>5. ASSUME pc = "unshuffle", i < size PROVE rng_values # <<>>
  <2>1. Len(rng_values) = size - i
    BY <1>2, <1>5 DEF DrawsAlign, Drawn
  <2> QED  BY <1>1, <1>5, <2>1
<1> QED  BY <1>4, <1>5 DEF StepToTake

LEMMA CountsDown ==
    ASSUME Basic, [Next]_vars, pc \in Running, ~UNCHANGED vars
    PROVE  StepsLeft' = StepsLeft - 1 \/ pc' = "crashed"
<1>1. size \in Nat /\ i \in Nat /\ Control
  BY SizeNat DEF Basic, TypeOK
<1>2. CASE ShuffleSwap
  BY <1>1, <1>2 DEF ShuffleSwap, FirstStore, StepsLeft
<1>3. CASE ShuffleStore
  BY <1>1, <1>3 DEF ShuffleStore, Control, StepsLeft
<1>4. CASE ShuffleReturn
  BY <1>1, <1>4 DEF ShuffleReturn, Arrive, StepsLeft
<1>5. CASE Push
  BY <1>1, <1>5 DEF Push, StepsLeft
<1>6. CASE Pushed
  BY <1>1, <1>6 DEF Pushed, StepsLeft
<1>7. CASE UnshuffleSwap
  BY <1>1, <1>7 DEF UnshuffleSwap, FirstStore, StepsLeft
<1>8. CASE UnshuffleStore
  BY <1>1, <1>8 DEF UnshuffleStore, Control, StepsLeft
<1>9. CASE UnshuffleReturn
  <2>1. i = size
    BY <1>1, <1>9 DEF UnshuffleReturn, Control
  <2> QED  BY <1>1, <1>9, <2>1 DEF UnshuffleReturn, Arrive, StepsLeft
<1>10. CASE Crash
  BY <1>10 DEF Crash
<1>11. ~(CallShuffle \/ CallUnshuffle \/ CallEmpty)
  BY DEF CallShuffle, CallUnshuffle, CallEmpty, Call, Running, Stored
<1> QED
  BY <1>2, <1>3, <1>4, <1>5, <1>6, <1>7, <1>8, <1>9, <1>10, <1>11 DEF Next, Step

(***************************************************************************)
(* What CallsReturn rests on, for every size: the loops of shuffle.hpp 18   *)
(* and 67-73 never run on.  A running call always has a step to take, its   *)
(* draw is there to be popped, and each step leaves one fewer of them.      *)
(***************************************************************************)
THEOREM StepsTheorem == Spec => []StepToTake /\ EachStepCounts
<1>1. ASSUME Basic, [Next]_vars
      PROVE  [(pc \in Running => StepsLeft' = StepsLeft - 1 \/ pc' = "crashed")]_vars
  BY <1>1, CountsDown
<1> QED  BY <1>1, BasicInvariant, BasicCounts, PTL DEF Spec, EachStepCounts

-----------------------------------------------------------------------------
\* The span is where the functions of a whole loop put it at this loop index.
StageIsOneStep ==
    Determined =>
        /\ pc = "shuffle" => span = ShuffleFrom(seen[depth], size, tape[seed])[i]
        /\ pc = "unshuffle" => span = UnshuffleFrom(seen[depth], size, tape[seed])[i-1]

\* What the two cases share: the generator's draws stay in the span.
LEMMA RunningDraws ==
    ASSUME IInv, pc \in Running
    PROVE  /\ size \in Nat \ {0} /\ depth \in DOMAIN seen /\ seen[depth] \in SpanOf(size, Item)
           /\ seed \in DOMAIN tape /\ InBounds(tape[seed], size)
           /\ Edge \in DOMAIN path /\ \A k \in 0 .. size-1 : path[Edge][k] \in SpanOf(size, Item)
<1>1. size \in Nat \ {0} /\ seed \in DOMAIN tape /\ Edge \in DOMAIN path
  BY SizeNat DEF IInv, Control
<1>2. depth \in DOMAIN seen /\ seen[depth] \in SpanOf(size, Item)
  BY DEF IInv, TypeOK, Chain, Array
<1>3. InBounds(tape[seed], size)
  BY <1>1, DrawBounds DEF IInv, InBounds
<1>4. \A k \in 0 .. size-1 : path[Edge][k] \in SpanOf(size, Item)
  BY <1>1, PathEntries DEF IInv, Basic, Array
<1> QED  BY <1>1, <1>2, <1>3, <1>4

\* Down from the last index, shuffle's path is ShuffleFrom's.
LEMMA ShuffleOnRungs ==
    ASSUME IInv, Determined, pc = "shuffle"
    PROVE  span = ShuffleFrom(seen[depth], size, tape[seed])[i]
<1> DEFINE a == ShuffleFrom(seen[depth], size, tape[seed])
           g == path[depth]
           Z == { m \in Nat : m <= size-1-i => g[size-1-m] = a[size-1-m] }
<1>1. /\ size \in Nat \ {0} /\ seen[depth] \in SpanOf(size, Item)
      /\ seed \in DOMAIN tape /\ InBounds(tape[seed], size)
  BY RunningDraws DEF Running
<1>2. Rungs(a, size, tape[seed], Item) /\ a[size-1] = seen[depth]
  BY <1>1, ShuffleRungs
<1>3. /\ g[size-1] = seen[depth] /\ span = g[i]
      /\ \A k \in i+1 .. size-1 : Link(depth, k)
  BY DEF IInv, OnPath
<1>4. i \in 0 .. size-1
  BY <1>1 DEF IInv, TypeOK, Control
<1>5. \A k \in i+1 .. size-1 : g[k-1] = Swapped(g[k], k, tape[seed][k])
  BY <1>1, <1>3, <1>4, LinkIs DEF IInv, Basic
<1>6. \A k \in 1 .. size-1 : a[k-1] = Swapped(a[k], k, tape[seed][k])
  BY <1>2 DEF Rungs
<1> HIDE DEF a, g
<1>7. Z = Nat
  <2>1. 0 \in Z
    BY <1>1, <1>2, <1>3
  <2>2. ASSUME NEW m \in Nat, m \in Z PROVE m + 1 \in Z
    <3> SUFFICES ASSUME m + 1 <= size-1-i PROVE g[size-1-(m+1)] = a[size-1-(m+1)]
      OBVIOUS
    <3> DEFINE k == size-1-m
    <3>1. g[k] = a[k] /\ k \in i+1 .. size-1 /\ k \in 1 .. size-1 /\ size-1-(m+1) = k-1
      BY <1>1, <1>4, <2>2
    <3> HIDE DEF k
    <3> QED  BY <1>5, <1>6, <3>1
  <2> HIDE DEF Z
  <2>3. Z \in SUBSET Nat
    BY DEF Z
  <2> QED  BY <2>1, <2>2, <2>3, AllNaturals
<1>8. g[i] = a[i]
  <2> DEFINE m == size-1-i
  <2>1. m \in Nat /\ m <= size-1-i /\ size-1-m = i
    BY <1>1, <1>4
  <2>2. m \in Z
    BY <1>7, <2>1
  <2> HIDE DEF m
  <2> QED  BY <2>1, <2>2
<1> QED  BY <1>3, <1>8 DEF a

\* Up from the first index, unshuffle's path is UnshuffleFrom's.
LEMMA UnshuffleOnRungs ==
    ASSUME IInv, Determined, pc = "unshuffle"
    PROVE  span = UnshuffleFrom(seen[depth], size, tape[seed])[i-1]
<1> DEFINE b == UnshuffleFrom(seen[depth], size, tape[seed])
           g == path[depth-1]
           Z == { m \in Nat : m <= i-1 => g[m] = b[m] }
<1>1. /\ size \in Nat \ {0} /\ seen[depth] \in SpanOf(size, Item)
      /\ seed \in DOMAIN tape /\ InBounds(tape[seed], size)
      /\ \A k \in 0 .. size-1 : g[k] \in SpanOf(size, Item)
  BY RunningDraws DEF Running, Edge
<1>2. Rungs(b, size, tape[seed], Item) /\ b[0] = seen[depth]
  BY <1>1, UnshuffleRungs
<1>3. /\ g[0] = seen[depth] /\ span = g[i-1]
      /\ \A k \in 1 .. i-1 : Link(depth-1, k)
  BY DEF IInv, OnPath
<1>4. i \in 1 .. size
  BY <1>1 DEF IInv, Control
<1>5. \A k \in 1 .. i-1 : g[k-1] = Swapped(g[k], k, tape[seed][k])
  BY <1>1, <1>3, <1>4, LinkIs DEF IInv, Basic
<1>6. \A k \in 1 .. size-1 : b[k-1] = Swapped(b[k], k, tape[seed][k]) /\ b[k] \in SpanOf(size, Item)
  BY <1>1, <1>2 DEF Rungs
<1> HIDE DEF b, g
<1>7. Z = Nat
  <2>1. 0 \in Z
    BY <1>1, <1>2, <1>3
  <2>2. ASSUME NEW m \in Nat, m \in Z PROVE m + 1 \in Z
    <3> SUFFICES ASSUME m + 1 <= i-1 PROVE g[m+1] = b[m+1]
      OBVIOUS
    <3> DEFINE k == m + 1
    <3>1. /\ g[k-1] = b[k-1]
          /\ k \in 1 .. i-1 /\ k \in 1 .. size-1 /\ k \in 0 .. size-1
      BY <1>1, <1>4, <2>2
    <3> HIDE DEF k
    <3>2. Swapped(g[k], k, tape[seed][k]) = Swapped(b[k], k, tape[seed][k])
      BY <1>5, <1>6, <3>1
    <3>3. g[k] \in SpanOf(size, Item) /\ b[k] \in SpanOf(size, Item)
      BY <1>1, <1>6, <3>1
    <3>4. g[k] = b[k]
      BY <1>1, <3>1, <3>2, <3>3, OneRung
    <3> QED  BY <3>4 DEF k
  <2> HIDE DEF Z
  <2>3. Z \in SUBSET Nat
    BY DEF Z
  <2> QED  BY <2>1, <2>2, <2>3, AllNaturals
<1>8. g[i-1] = b[i-1]
  BY <1>4, <1>7
<1> QED  BY <1>3, <1>8 DEF b

(***************************************************************************)
(* Why Work may take a stage as one step: on determined files the swaps of  *)
(* shuffle.hpp 18-22 and 67-73, store by store, go through the spans of     *)
(* ShuffleFrom and of UnshuffleFrom.  At the return the loop index is 0, or *)
(* size, and the span is what Work's Stage writes.                          *)
(***************************************************************************)
THEOREM StageTheorem == Spec => []StageIsOneStep
<1>1. IInv => StageIsOneStep
  BY ShuffleOnRungs, UnshuffleOnRungs DEF StageIsOneStep
<1> QED  BY <1>1, InductiveInvariant, PTL

=============================================================================
