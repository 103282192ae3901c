----------------------------- MODULE SpillProofs -----------------------------
(***************************************************************************)
(* Theorems about Spill: for every threshold, span size, build and way of   *)
(* stdio to buffer, the container unshuffle keeps its draws in never        *)
(* panics, keeps to its memory and is a stack.                              *)
(***************************************************************************)
EXTENDS Spill, SequenceTheorems, TLAPS

Content == Value \cup {Hole}

\* Writing nothing changes nothing.
LEMMA WrittenNothing ==
    ASSUME NEW f, NEW p
    PROVE  Written(f, p, <<>>) = f
  BY DEF Written

\* Writing at the end appends.
LEMMA WrittenAtEnd ==
    ASSUME NEW T, NEW f \in Seq(T), NEW s \in Seq(T)
    PROVE  Written(f, Len(f), s) = f \o s
<1>1. CASE s = <<>>
  BY <1>1, WrittenNothing, ConcatEmptySeq
<1>2. CASE s # <<>>
  <2> DEFINE n == Len(f) + Len(s)
             at(k) == IF k \in Len(f) + 1 .. n THEN s[k - Len(f)]
                      ELSE IF k <= Len(f) THEN f[k] ELSE Hole
  <2>1. Len(f) \in Nat /\ Len(s) \in Nat /\ Len(s) > 0
    BY <1>2
  <2>2. (IF Len(f) > Len(f) + Len(s) THEN Len(f) ELSE Len(f) + Len(s)) = n
    BY <2>1
  <2>3. Written(f, Len(f), s) = [k \in 1 .. n |-> at(k)]
    BY <1>2, <2>2 DEF Written
  <2>4. /\ f \o s \in Seq(T) /\ Len(f \o s) = n
        /\ \A k \in 1 .. n : (f \o s)[k] = IF k <= Len(f) THEN f[k] ELSE s[k - Len(f)]
    BY ConcatProperties
  <2>5. \A k \in 1 .. n : at(k) = (f \o s)[k]
    BY <2>1, <2>4
  <2>6. f \o s = [k \in 1 .. n |-> (f \o s)[k]]
    <3>1. f \o s \in [1 .. n -> T]
      BY <2>4, LenProperties
    <3> QED  BY <3>1
  <2> HIDE DEF n, at
  <2> QED  BY <2>3, <2>5, <2>6
<1> QED  BY <1>1, <1>2

\* ftruncate() by one value, when there is one.
LEMMA TruncatedByOne ==
    ASSUME NEW T, NEW f \in Seq(T), f # <<>>
    PROVE  /\ Truncated(f, Len(f) - 1) = Front(f)
           /\ Front(f) \in Seq(T) /\ Len(Front(f)) = Len(f) - 1
           /\ \A k \in 1 .. Len(f) - 1 : Front(f)[k] = f[k]
<1>1. Len(f) \in Nat \ {0} /\ \A k \in 1 .. Len(f) - 1 : f[k] \in T
  BY EmptySeq, ElementOfSeq
<1>2. Front(f) = SubSeq(f, 1, Len(f) - 1)
  BY DEF Front
<1>3. /\ SubSeq(f, 1, Len(f) - 1) \in Seq(T)
      /\ Len(SubSeq(f, 1, Len(f) - 1)) = Len(f) - 1
      /\ \A k \in 1 .. Len(f) - 1 : SubSeq(f, 1, Len(f) - 1)[k] = f[k]
  <2> DEFINE n == Len(f) - 1
  <2>1. n \in Nat /\ \A k \in 1 .. n : f[k] \in T
    BY <1>1
  <2> HIDE DEF n
  <2>2. /\ SubSeq(f, 1, n) \in Seq(T)
        /\ Len(SubSeq(f, 1, n)) = IF 1 <= n THEN n - 1 + 1 ELSE 0
        /\ \A k \in 1 .. n - 1 + 1 : SubSeq(f, 1, n)[k] = f[1 + k - 1]
    BY <2>1, SubSeqProperties
  <2>3. Len(SubSeq(f, 1, n)) = n /\ \A k \in 1 .. n : SubSeq(f, 1, n)[k] = f[k]
    BY <2>1, <2>2
  <2> QED  BY <2>2, <2>3 DEF n
<1>4. Truncated(f, Len(f) - 1) = [k \in 1 .. Len(f) - 1 |-> f[k]]
  BY <1>1 DEF Truncated
<1>5. Front(f) = [k \in 1 .. Len(f) - 1 |-> Front(f)[k]]
  BY <1>2, <1>3
<1> QED  BY <1>2, <1>3, <1>4, <1>5

\* What the stream and the file hold together.
LEMMA FlushedIs ==
    ASSUME SpillTypeOK, Stream
    PROVE  /\ Flushed = file \o pending
           /\ Flushed \in Seq(Value) /\ Len(Flushed) = len
           /\ pending = <<>> => Flushed = file
<1>1. file \in Seq(Value) /\ pending \in Seq(Value)
  BY DEF SpillTypeOK, TypeOK, Stream
<1>2. CASE pending = <<>>
  <2>1. Flushed = file
    BY <1>2, WrittenNothing DEF Flushed
  <2>2. Len(file) = len
    BY <1>1, <1>2 DEF Stream
  <2> QED  BY <1>1, <1>2, <2>1, <2>2, ConcatEmptySeq
<1>3. CASE pending # <<>>
  <2>1. Flushed = file \o pending
    BY <1>1, <1>3, WrittenAtEnd DEF Flushed, Stream
  <2> QED  BY <1>1, <1>3, <2>1, ConcatProperties DEF Stream
<1> QED  BY <1>2, <1>3

\* push_back() appends, however much of its buffer stdio writes out.
LEMMA PushBackAppends ==
    ASSUME SpillTypeOK, Stream, pc = "push", NEW v \in Value, PushBack(v)
    PROVE  /\ file' \in Seq(Value) /\ pending' \in Seq(Value)
           /\ pos' = Len(file') /\ len' = len + 1 /\ Len(file') + Len(pending') = len'
           /\ file' \o pending' = Append(file \o pending, v)
<1> DEFINE p == Append(pending, v)
<1>1. file \in Seq(Value) /\ pending \in Seq(Value) /\ pos = Len(file) /\ len \in Nat
      /\ Len(file) + Len(pending) = len
  BY DEF SpillTypeOK, TypeOK, Stream
<1>2. p \in Seq(Value) /\ Len(p) = Len(pending) + 1
  BY <1>1, AppendProperties
<1>3. PICK n \in 0 .. Len(pending) + 1 :
         /\ file' = Written(file, pos, SubSeq(p, 1, n))
         /\ pos' = pos + n
         /\ pending' = SubSeq(p, n + 1, Len(pending) + 1)
  BY DEF PushBack
<1> HIDE DEF p
<1>4. \A k \in 1 .. Len(p) : p[k] \in Value
  BY <1>2, ElementOfSeq
<1>5. SubSeq(p, 1, n) \in Seq(Value) /\ Len(SubSeq(p, 1, n)) = n
  BY <1>2, <1>3, <1>4
<1>6. pending' \in Seq(Value) /\ Len(pending') = Len(p) - n
  BY <1>2, <1>3, <1>4
<1>7. file' = file \o SubSeq(p, 1, n)
  BY <1>1, <1>3, <1>5, WrittenAtEnd
<1>8. file' \in Seq(Value) /\ Len(file') = Len(file) + n
  BY <1>1, <1>5, <1>7, ConcatProperties
<1> DEFINE a == SubSeq(p, 1, n)
           b == SubSeq(p, n + 1, Len(p))
<1>9. pending' = b
  BY <1>2, <1>3
<1>10. a \o b = p
  <2>1. 1 \in 1 .. Len(p) + 1 /\ n \in 1 - 1 .. Len(p) /\ Len(p) \in n .. Len(p)
    BY <1>1, <1>2
  <2>2. a \o b = SubSeq(p, 1, Len(p))
    BY <1>2, <2>1, ConcatAdjacentSubSeq
  <2> QED  BY <1>2, <2>2, SubSeqFull
<1>11. a \in Seq(Value) /\ b \in Seq(Value) /\ file' = file \o a
  BY <1>5, <1>6, <1>7, <1>9
<1> HIDE DEF a, b
<1>12. (file \o a) \o b = file \o (a \o b)
  <2>1. \A r, s, u \in Seq(Value) : (r \o s) \o u = r \o (s \o u)
    BY ConcatAssociative, SMTT(30)
  <2> QED  BY <1>1, <1>11, <2>1, Zenon
<1>13. p = pending \o <<v>>
  BY <1>1, AppendIsConcat DEF p
<1>14. file \o pending \in Seq(Value) /\ <<v>> \in Seq(Value)
  BY <1>1, ConcatProperties
<1>15. Append(file \o pending, v) = (file \o pending) \o <<v>>
  BY <1>14, AppendIsConcat
<1>16. (file \o pending) \o <<v>> = file \o (pending \o <<v>>)
  BY <1>1, <1>14, ConcatAssociative, SMTT(30)
<1>17. file' \o pending' = Append(file \o pending, v)
  BY <1>9, <1>10, <1>11, <1>12, <1>13, <1>15, <1>16, Zenon
<1>18. len' = len + 1
  BY DEF PushBack
<1>19. pos' = Len(file') /\ Len(file') + Len(pending') = len'
  <2>1. Len(file) \in Nat /\ Len(pending) \in Nat /\ n \in Nat
    BY <1>1, <1>3, LenProperties
  <2>2. pos' = Len(file) + n /\ Len(file') = Len(file) + n
    BY <1>1, <1>3, <1>8
  <2>3. Len(pending') = Len(pending) + 1 - n /\ len' = Len(file) + Len(pending) + 1
    BY <1>1, <1>2, <1>6, <1>18
  <2> QED  BY <2>1, <2>2, <2>3
<1> QED
  BY <1>6, <1>8, <1>17, <1>18, <1>19

-----------------------------------------------------------------------------
\* What the invariant says of the numbers.
LEMMA Numbers ==
    ASSUME SpillIInv
    PROVE  /\ mode \in {"none", "static", "dyn", "map"}
           /\ total \in Nat /\ total > 0 /\ SpillAt \in Nat /\ SpillAt > 0
           /\ Len(mem) \in Nat /\ len \in Nat /\ fill \in Nat /\ i \in Nat
           /\ FilSize = len + fill /\ Held = Len(mem) + len + fill
           /\ file \in Seq(Value) /\ pending \in Seq(Value) /\ mem \in Seq(Value)
           /\ Len(file) \in Nat /\ Len(pending) \in Nat /\ Len(file) + Len(pending) = len
           /\ len = 0 => file = <<>> /\ pending = <<>>
<1> USE DEF SpillIInv, SpillTypeOK, TypeOK
<1>1. /\ mode \in {"none", "static", "dyn", "map"}
      /\ total \in Nat /\ total > 0 /\ SpillAt \in Nat /\ SpillAt > 0
  BY ModesAssumption, TotalsAssumption, SpillAtAssumption
<1>2. /\ Len(mem) \in Nat /\ len \in Nat /\ fill \in Nat /\ i \in Nat
      /\ file \in Seq(Value) /\ pending \in Seq(Value) /\ mem \in Seq(Value)
      /\ Len(file) \in Nat /\ Len(pending) \in Nat /\ Len(file) + Len(pending) = len
  BY LenProperties DEF Stream
<1>3. FilSize = len + fill /\ Held = Len(mem) + len + fill
  <2>1. (mode = "map" => len = 0) /\ (mode # "map" => fill = 0)
    BY DEF Layers
  <2> HIDE DEF SpillIInv, SpillTypeOK, TypeOK
  <2>2. FilSize = len + fill
    BY <1>2, <2>1 DEF FilSize
  <2> QED  BY <1>2, <2>2 DEF Held
<1>4. len = 0 => file = <<>> /\ pending = <<>>
  BY <1>2, EmptySeq
<1> QED  BY <1>1, <1>2, <1>3, <1>4

\* The second container is empty when the memory is not full, and when back()
\* and pop_back() do not go to it.
LEMMA SecondEmpty ==
    ASSUME SpillIInv, ~Full \/ ~InFil
    PROVE  len = 0 /\ fill = 0 /\ file = <<>> /\ pending = <<>>
<1>1. CASE mode = "none"
  BY <1>1, Numbers DEF SpillIInv, Layers
<1>2. CASE mode # "none" /\ FilSize > 0
  <2>1. Len(mem) = SpillAt
    BY <1>2 DEF SpillIInv, Layers
  <2>2. Held >= SpillAt
    BY <2>1, Numbers
  <2> QED  BY <1>2, <2>1, <2>2, Numbers DEF Full, InFil
<1>3. CASE FilSize = 0
  BY <1>3, Numbers, SMTT(30)
<1> QED  BY <1>1, <1>2, <1>3, Numbers, SMTT(30)

\* A shunt over a mapping makes it at once if it will be needed.
LEMMA MapThere ==
    ASSUME SpillIInv, pc \in {"push", "back", "pop"}
    PROVE  ~SplPanics
<1>1. CASE mode = "map" /\ ~fil
  <2>1. total <= SpillAt
    BY <1>1, Numbers DEF SpillIInv, Layers, Running
  <2>2. Held < total
    <3>1. /\ pc = "push" => i <= total - 1 /\ Held = total - 1 - i
          /\ pc = "back" => i \in 1 .. total /\ Held = total - i
          /\ pc = "pop" => i \in 1 .. total - 1 /\ Held = total - i
      BY DEF SpillIInv, Phase
    <3>2. i \in Nat /\ total \in Nat
      BY Numbers
    <3> HIDE DEF Held
    <3>3. CASE pc = "push"
      BY <3>1, <3>2, <3>3
    <3>4. CASE pc \in {"back", "pop"}
      BY <3>1, <3>2, <3>4
    <3> QED  BY <3>3, <3>4
  <2> QED  BY <1>1, <2>1, <2>2, Numbers, SMTT(30) DEF SplPanics, Full
<1> QED  BY <1>1 DEF SplPanics

\* spl() leaves the invariant of the containers alone.
LEMMA SplKeeps ==
    ASSUME SpillIInv, pc \in {"push", "back", "pop"}, Spl
    PROVE  /\ fil' \in BOOLEAN /\ temp' \in BOOLEAN /\ temp' = fil'
           /\ fil => fil'
           /\ mode = "map" => fil' = fil
           /\ Full => fil'
<1>1. temp = fil /\ fil \in BOOLEAN /\ temp \in BOOLEAN
  BY DEF SpillIInv, SpillTypeOK, Layers, Running
<1>2. mode = "map" => ~(Full /\ ~fil)
  BY MapThere DEF SplPanics
<1> QED  BY <1>1, <1>2 DEF Spl

-----------------------------------------------------------------------------
\* The invariant holds at first, and every action keeps it.
LEMMA InitSpill == SpillInit => SpillIInv
<1> SUFFICES ASSUME SpillInit PROVE SpillIInv
  OBVIOUS
<1> USE DEF SpillInit, Init
<1>1. SpillTypeOK
  <2>1. \A S : <<>> \in Seq(S)
    OBVIOUS
  <2>2. fill \in 0 .. Len(map) /\ i \in Nat /\ pos \in Nat /\ len \in Nat
    OBVIOUS
  <2>3. answer \in Value \cup {Hole, NoAnswer} /\ fil \in BOOLEAN /\ temp \in BOOLEAN
    OBVIOUS
  <2> QED  BY <2>1, <2>2, <2>3 DEF SpillTypeOK, TypeOK, Running
<1>2. FilSize = 0 /\ Held = 0
  BY DEF FilSize, Held
<1>3. Phase
  BY <1>2 DEF Phase
<1>4. Layers
  <2>1. Len(mem) = 0 /\ len = 0 /\ fill = 0 /\ pc = "start" /\ temp = fil
    OBVIOUS
  <2> HIDE DEF SpillInit, Init
  <2> QED  BY <1>2, <2>1, SpillAtAssumption DEF Layers, Running
<1>5. Stream
  BY DEF Stream
<1> QED  BY <1>1, <1>3, <1>4, <1>5 DEF SpillIInv

LEMMA ConstructKeeps == ASSUME SpillIInv, Construct PROVE SpillIInv'
<1> USE DEF Construct
<1>1. /\ pc = "start" /\ pc' = "push" /\ i' = total - 1
      /\ UNCHANGED <<mode, total, mem, fill, answer, file, pending, pos, len>>
  BY DEF fixed, fvars
<1>2. Held = 0 /\ file = <<>> /\ pending = <<>> /\ pos = 0
  BY <1>1 DEF SpillIInv, Phase
<1>3. Len(mem) = 0 /\ len = 0 /\ fill = 0
  <2> HIDE DEF Construct
  <2>1. Len(mem) \in Nat /\ len \in Nat /\ fill \in Nat /\ Len(mem) + len + fill = 0
    BY <1>2, Numbers
  <2> QED  BY <2>1
<1>4. fil' \in BOOLEAN /\ temp' = fil'
      /\ fil' = (mode = "static" \/ (mode = "map" /\ total > SpillAt))
  OBVIOUS
<1>5. map' \in Seq(Content) /\ (mode = "map" /\ total > SpillAt => Len(map') = total - SpillAt)
  <2>1. CASE mode = "map" /\ total > SpillAt
    <3> DEFINE n == total - SpillAt
               holes == [k \in 1 .. n |-> Hole]
    <3>1. map' = holes
      BY <2>1 DEF MapSize
    <3>2. n \in Nat
      BY <2>1, Numbers, SMTT(30)
    <3>3. holes \in [1 .. n -> Content]
      BY DEF Content
    <3> HIDE DEF n
    <3>4. holes \in Seq(Content) /\ Len(holes) = n
      BY <3>2, <3>3
    <3> QED  BY <3>1, <3>4 DEF n
  <2>2. CASE ~(mode = "map" /\ total > SpillAt)
    <3>1. map' = map
      BY <2>2
    <3>2. map \in Seq(Content)
      BY DEF SpillIInv, SpillTypeOK, Content
    <3> QED  BY <2>2, <3>1, <3>2
  <2> QED  BY <2>1, <2>2
<1>6. SpillTypeOK'
  <2> HIDE DEF Construct
  <2>1. i' \in Nat /\ fill' \in 0 .. Len(map')
    <3>1. Len(map') \in Nat
      BY <1>5, LenProperties
    <3>2. total - 1 \in Nat
      BY Numbers, SMTT(30)
    <3> QED  BY <1>1, <1>3, <3>1, <3>2
  <2> QED  BY <1>1, <1>4, <1>5, <2>1 DEF SpillIInv, SpillTypeOK, TypeOK, Running, Content
<1>7. Held' = 0 /\ FilSize' = 0
  BY <1>1, <1>3, Numbers DEF Held, FilSize
<1>8. Phase'
  BY <1>1, <1>7, Numbers, SMTT(30) DEF Phase
<1>9. Layers'
  <2> HIDE DEF Construct
  <2>1. Len(mem') = 0 /\ len' = 0 /\ fill' = 0
    BY <1>1, <1>3
  <2>2. SpillAt > 0 /\ SpillAt \in Nat
    BY SpillAtAssumption
  <2>3. mode' = mode /\ total' = total /\ pc' = "push"
    BY <1>1
  <2>4. mode = "static" => fil'
    BY <1>4
  <2>5. mode = "map" => (fil' <=> total > SpillAt)
    BY <1>4
  <2>6. Len(mem') <= SpillAt
    BY <2>1, <2>2
  <2> QED  BY <1>4, <1>5, <1>7, <2>1, <2>3, <2>4, <2>5, <2>6 DEF Layers
<1>10. Stream'
  BY <1>1, <1>2, <1>3 DEF SpillIInv, Stream
<1> QED  BY <1>6, <1>8, <1>9, <1>10 DEF SpillIInv

LEMMA PushMemKeeps == ASSUME SpillIInv, Push, NEW v \in Value, PushMem(v) PROVE SpillIInv'
<1>1. /\ pc = "push" /\ i > 0 /\ i' = i - 1 /\ ~Full /\ mem' = Append(mem, v)
      /\ UNCHANGED <<mode, total, pc, answer, file, pending, pos, len, fil, map, fill, temp>>
  BY DEF Push, PushMem, fixed, overflow, fvars
<1>2. mem' \in Seq(Value) /\ Len(mem') = Len(mem) + 1
  BY <1>1, Numbers, AppendProperties
<1>3. len = 0 /\ fill = 0
  BY <1>1, SecondEmpty
<1>4. SpillTypeOK'
  BY <1>1, <1>2, Numbers DEF SpillIInv, SpillTypeOK, TypeOK
<1>5. Held' = Held + 1 /\ FilSize' = 0
  BY <1>1, <1>2, <1>3, Numbers DEF Held, FilSize
<1>6. Phase'
  <2>1. i <= total - 1 /\ Held = total - 1 - i
    BY <1>1 DEF SpillIInv, Phase
  <2>2. i \in Nat /\ total \in Nat
    BY Numbers
  <2>3. i' = i - 1 /\ Held' = Held + 1 /\ total' = total /\ pc' = "push"
    BY <1>1, <1>5
  <2>4. i' <= total' - 1 /\ Held' = total' - 1 - i'
    BY <2>1, <2>2, <2>3
  <2> QED  BY <2>3, <2>4 DEF Phase
<1>7. mode # "none" => Len(mem) < SpillAt
  BY <1>1, <1>3, Numbers DEF Full
<1>8. Layers'
  BY <1>1, <1>2, <1>3, <1>5, <1>7, Numbers DEF SpillIInv, Layers
<1>9. Stream'
  BY <1>1 DEF SpillIInv, Stream
<1> QED  BY <1>4, <1>6, <1>8, <1>9 DEF SpillIInv

LEMMA PushFileKeeps == ASSUME SpillIInv, Push, NEW v \in Value, PushFile(v) PROVE SpillIInv'
<1>1. /\ pc = "push" /\ i > 0 /\ i' = i - 1 /\ Full /\ mode # "map" /\ Spl /\ PushBack(v)
      /\ UNCHANGED <<mode, total, pc, answer, mem, map, fill>>
  BY DEF Push, PushFile, fixed
<1>2. /\ file' \in Seq(Value) /\ pending' \in Seq(Value)
      /\ pos' = Len(file') /\ len' = len + 1 /\ Len(file') + Len(pending') = len'
  BY <1>1, PushBackAppends DEF SpillIInv
<1>3. fil' \in BOOLEAN /\ temp' \in BOOLEAN /\ temp' = fil' /\ fil'
  BY <1>1, SplKeeps
<1>4. SpillTypeOK'
  <2>1. file' \in Seq(Value \cup {Hole}) /\ pos' \in Nat
    BY <1>2, SeqMonotonic, LenProperties
  <2> QED  BY <1>1, <1>2, <1>3, <2>1, Numbers DEF SpillIInv, SpillTypeOK, TypeOK
<1>5. fill = 0
  BY <1>1 DEF SpillIInv, Layers
<1>6. Held' = Held + 1 /\ FilSize' = len + 1
  BY <1>1, <1>2, <1>5, Numbers DEF Held, FilSize
<1>7. Phase'
  <2>1. i <= total - 1 /\ Held = total - 1 - i
    BY <1>1 DEF SpillIInv, Phase
  <2>2. i \in Nat /\ total \in Nat
    BY Numbers
  <2>3. i' = i - 1 /\ Held' = Held + 1 /\ total' = total /\ pc' = "push"
    BY <1>1, <1>6
  <2>4. i' <= total' - 1 /\ Held' = total' - 1 - i'
    BY <2>1, <2>2, <2>3
  <2> QED  BY <2>3, <2>4 DEF Phase
<1>8. mode # "none" /\ Len(mem) = SpillAt
  <2>1. mode # "none" /\ Len(mem) <= SpillAt
    BY <1>1, Numbers DEF Full, SpillIInv, Layers
  <2>2. FilSize > 0 => Len(mem) = SpillAt
    BY DEF SpillIInv, Layers
  <2> QED  BY <1>1, <2>1, <2>2, Numbers, SMTT(30) DEF Full
<1>9. Layers'
  BY <1>1, <1>2, <1>3, <1>5, <1>6, <1>8, Numbers DEF SpillIInv, Layers
<1>10. Stream'
  BY <1>1, <1>2 DEF SpillIInv, Stream
<1> QED  BY <1>4, <1>7, <1>9, <1>10 DEF SpillIInv

LEMMA PushMapKeeps == ASSUME SpillIInv, Push, NEW v \in Value, PushMap(v) PROVE SpillIInv'
<1>1. /\ pc = "push" /\ i > 0 /\ i' = i - 1 /\ Full /\ mode = "map" /\ fil
      /\ fill < Len(map) /\ map' = [map EXCEPT ![fill + 1] = v] /\ fill' = fill + 1
      /\ UNCHANGED <<mode, total, pc, answer, mem, fil, temp, file, pending, pos, len>>
  BY DEF Push, PushMap, fixed, fvars
<1>2. map \in Seq(Content) /\ Len(map) \in Nat /\ fill + 1 \in 1 .. Len(map)
  BY <1>1, Numbers, LenProperties DEF SpillIInv, SpillTypeOK, Content
<1>3. map' \in Seq(Content) /\ Len(map') = Len(map)
  BY <1>1, <1>2, ExceptSeq DEF Content
<1>4. SpillTypeOK'
  BY <1>1, <1>2, <1>3, Numbers DEF SpillIInv, SpillTypeOK, TypeOK, Content
<1>5. len = 0
  BY <1>1 DEF SpillIInv, Layers
<1>6. Held' = Held + 1 /\ FilSize' = fill + 1
  BY <1>1, <1>5, Numbers DEF Held, FilSize
<1>7. Phase'
  <2>1. i <= total - 1 /\ Held = total - 1 - i
    BY <1>1 DEF SpillIInv, Phase
  <2>2. i \in Nat /\ total \in Nat
    BY Numbers
  <2>3. i' = i - 1 /\ Held' = Held + 1 /\ total' = total /\ pc' = "push"
    BY <1>1, <1>6
  <2>4. i' <= total' - 1 /\ Held' = total' - 1 - i'
    BY <2>1, <2>2, <2>3
  <2> QED  BY <2>3, <2>4 DEF Phase
<1>8. Len(mem) = SpillAt
  <2>1. Len(mem) <= SpillAt /\ (FilSize > 0 => Len(mem) = SpillAt)
    BY <1>1 DEF SpillIInv, Layers
  <2> QED  BY <1>1, <2>1, Numbers, SMTT(30) DEF Full
<1>9. Layers'
  BY <1>1, <1>3, <1>5, <1>6, <1>8, Numbers DEF SpillIInv, Layers
<1>10. Stream'
  BY <1>1 DEF SpillIInv, Stream
<1> QED  BY <1>4, <1>7, <1>9, <1>10 DEF SpillIInv

LEMMA PushedKeeps == ASSUME SpillIInv, Pushed PROVE SpillIInv'
<1>1. /\ pc = "push" /\ i = 0 /\ pc' = "back" /\ i' = 1
      /\ UNCHANGED <<mode, total, mem, answer, file, pending, pos, len, fil, map, fill, temp>>
  BY DEF Pushed, fixed, overflow, fvars
<1>2. SpillTypeOK'
  BY <1>1 DEF SpillIInv, SpillTypeOK, TypeOK, Running
<1>3. Held' = Held /\ FilSize' = FilSize
  BY <1>1 DEF Held, FilSize
<1>4. Phase'
  <2>1. Held = total - 1 - i
    BY <1>1 DEF SpillIInv, Phase
  <2>2. total \in Nat /\ total > 0
    BY Numbers
  <2>3. 1 \in 1 .. total /\ Held = total - 1
    BY <1>1, <2>1, <2>2
  <2> QED  BY <1>1, <1>3, <2>3 DEF Phase
<1>5. Layers'
  BY <1>1, <1>3 DEF SpillIInv, Layers, Running
<1>6. Stream'
  BY <1>1 DEF SpillIInv, Stream
<1> QED  BY <1>2, <1>4, <1>5, <1>6 DEF SpillIInv

\* back() keeps what is held, so the phase of the loop only needs its guard.
LEMMA BackPhase ==
    ASSUME SpillIInv, Back, Held' = Held
    PROVE  Phase'
<1>1. pc = "back" /\ i < total /\ pc' = "pop" /\ i' = i /\ total' = total
  BY DEF Back, fixed
<1>2. i \in 1 .. total /\ Held = total - i
  BY <1>1 DEF SpillIInv, Phase
<1>3. i \in Nat /\ total \in Nat
  BY Numbers
<1>4. i' \in 1 .. total' - 1 /\ Held' = total' - i'
  BY <1>1, <1>2, <1>3
<1> QED  BY <1>1, <1>4 DEF Phase

LEMMA BackMemKeeps == ASSUME SpillIInv, Back, BackMem PROVE SpillIInv'
<1>1. /\ pc = "back" /\ pc' = "pop" /\ ~InFil /\ mem # <<>> /\ answer' = Last(mem) /\ Spl
      /\ UNCHANGED <<mode, total, i, mem, file, pending, pos, len, map, fill>>
  BY DEF Back, BackMem, fixed, fvars
<1>2. fil' \in BOOLEAN /\ temp' \in BOOLEAN /\ temp' = fil' /\ (fil => fil')
      /\ (mode = "map" => fil' = fil)
  BY <1>1, SplKeeps
<1>3. answer' \in Value
  <2>1. Len(mem) \in 1 .. Len(mem)
    BY <1>1, Numbers, EmptySeq
  <2> QED  BY <1>1, <2>1, Numbers, ElementOfSeq DEF Last
<1>4. SpillTypeOK'
  BY <1>1, <1>2, <1>3 DEF SpillIInv, SpillTypeOK, TypeOK, Running
<1>5. Held' = Held /\ FilSize' = FilSize
  BY <1>1 DEF Held, FilSize
<1>6. Phase'
  BY <1>5, BackPhase
<1>7. Layers'
  BY <1>1, <1>2, <1>5 DEF SpillIInv, Layers, Running
<1>8. Stream'
  BY <1>1, SecondEmpty DEF SpillIInv, Stream
<1> QED  BY <1>4, <1>6, <1>7, <1>8 DEF SpillIInv

LEMMA BackFileKeeps == ASSUME SpillIInv, Back, BackFile PROVE SpillIInv'
<1>1. /\ pc = "back" /\ pc' = "pop" /\ mode # "map" /\ BackIs(answer')
      /\ UNCHANGED <<mode, total, i, mem, fil, map, fill, temp>>
  BY DEF Back, BackFile, fixed
<1>2. /\ Flushed # <<>> /\ answer' = Last(Flushed) /\ file' = Flushed /\ pending' = <<>>
      /\ pos' = Len(Flushed) /\ len' = len
  BY <1>1 DEF BackIs, Readable
<1>3. Flushed \in Seq(Value) /\ Len(Flushed) = len /\ len \in Nat
  BY FlushedIs, Numbers DEF SpillIInv
<1>4. answer' \in Value
  <2>1. Len(Flushed) \in 1 .. Len(Flushed)
    BY <1>2, <1>3, EmptySeq
  <2> QED  BY <1>2, <1>3, <2>1, ElementOfSeq DEF Last
<1>5. SpillTypeOK'
  <2>1. file' \in Seq(Value \cup {Hole}) /\ pos' \in Nat /\ len' \in Nat
    BY <1>2, <1>3, SeqMonotonic
  <2>2. pending' \in Seq(Value)
    BY <1>2
  <2> QED  BY <1>1, <1>4, <2>1, <2>2 DEF SpillIInv, SpillTypeOK, TypeOK, Running
<1>6. Held' = Held /\ FilSize' = FilSize
  BY <1>1, <1>2 DEF Held, FilSize
<1>7. Phase'
  BY <1>6, BackPhase
<1>8. Layers'
  BY <1>1, <1>2, <1>6 DEF SpillIInv, Layers, Running
<1>9. Stream'
  <2>1. Len(file') + Len(pending') = len'
    BY <1>2, <1>3
  <2> QED  BY <1>1, <1>2, <1>3, <2>1 DEF Stream
<1> QED  BY <1>5, <1>7, <1>8, <1>9 DEF SpillIInv

LEMMA BackMapKeeps == ASSUME SpillIInv, Back, BackMap PROVE SpillIInv'
<1>1. /\ pc = "back" /\ pc' = "pop" /\ mode = "map" /\ InFil /\ answer' = map[fill]
      /\ UNCHANGED <<mode, total, i, mem, file, pending, pos, len, fil, map, fill, temp>>
  BY DEF Back, BackMap, fixed, overflow, fvars
<1>2. answer' \in Value \cup {Hole}
  <2>1. map \in Seq(Content) /\ fill \in 0 .. Len(map)
    BY DEF SpillIInv, SpillTypeOK, Content
  <2>2. fill > 0
    BY <1>1, Numbers DEF InFil, FilSize
  <2>3. fill \in 1 .. Len(map)
    BY <2>1, <2>2
  <2> QED  BY <1>1, <2>1, <2>3, ElementOfSeq DEF Content
<1>3. SpillTypeOK'
  BY <1>1, <1>2 DEF SpillIInv, SpillTypeOK, TypeOK, Running
<1>4. Held' = Held /\ FilSize' = FilSize
  BY <1>1 DEF Held, FilSize
<1>5. Phase'
  BY <1>4, BackPhase
<1>6. Layers'
  BY <1>1, <1>4 DEF SpillIInv, Layers, Running
<1>7. Stream'
  <2>1. len = 0
    BY <1>1 DEF SpillIInv, Layers
  <2> QED  BY <1>1, <2>1, Numbers DEF SpillIInv, Stream
<1> QED  BY <1>3, <1>5, <1>6, <1>7 DEF SpillIInv

\* pop_back() takes one value, as the loop index counts.
LEMMA PopPhase ==
    ASSUME SpillIInv, Pop, Held' = Held - 1
    PROVE  Phase'
<1>1. pc = "pop" /\ pc' = "back" /\ i' = i + 1 /\ total' = total
  BY DEF Pop, fixed
<1>2. i \in 1 .. total - 1 /\ Held = total - i
  BY <1>1 DEF SpillIInv, Phase
<1>3. i \in Nat /\ total \in Nat
  BY Numbers
<1>4. i' \in 1 .. total' /\ Held' = total' - i'
  BY <1>1, <1>2, <1>3
<1> QED  BY <1>1, <1>4 DEF Phase

LEMMA PopMemKeeps == ASSUME SpillIInv, Pop, PopMem PROVE SpillIInv'
<1>1. /\ pc = "pop" /\ pc' = "back" /\ i' = i + 1
      /\ ~InFil /\ mem # <<>> /\ mem' = Front(mem) /\ Spl
      /\ UNCHANGED <<mode, total, answer, file, pending, pos, len, map, fill>>
  BY DEF Pop, PopMem, fixed, fvars
<1>2. fil' \in BOOLEAN /\ temp' \in BOOLEAN /\ temp' = fil' /\ (fil => fil')
      /\ (mode = "map" => fil' = fil)
  BY <1>1, SplKeeps
<1>3. mem' \in Seq(Value) /\ Len(mem') = Len(mem) - 1
  BY <1>1, Numbers, TruncatedByOne
<1>4. len = 0 /\ fill = 0 /\ pending = <<>>
  BY <1>1, SecondEmpty
<1>5. i' \in Nat
  <2>1. i \in Nat /\ i' = i + 1
    BY <1>1, Numbers
  <2> QED  BY <2>1
<1>6. SpillTypeOK'
  BY <1>1, <1>2, <1>3, <1>5 DEF SpillIInv, SpillTypeOK, TypeOK, Running
<1>7. Held' = Held - 1 /\ FilSize' = 0
  BY <1>1, <1>3, <1>4, Numbers DEF Held, FilSize
<1>8. Phase'
  BY <1>7, PopPhase
<1>9. mode # "none" => Len(mem') <= SpillAt
  <2>1. mode # "none" => Len(mem) <= SpillAt
    BY DEF SpillIInv, Layers
  <2> QED  BY <1>3, <2>1, Numbers
<1>10. Layers'
  BY <1>1, <1>2, <1>4, <1>7, <1>9 DEF SpillIInv, Layers, Running
<1>11. Stream'
  BY <1>1, <1>4 DEF SpillIInv, Stream
<1> QED  BY <1>6, <1>8, <1>10, <1>11 DEF SpillIInv

LEMMA PopFileKeeps == ASSUME SpillIInv, Pop, PopFile PROVE SpillIInv'
<1>1. /\ pc = "pop" /\ pc' = "back" /\ i' = i + 1 /\ InFil /\ mode # "map" /\ PopBack
      /\ UNCHANGED <<mode, total, answer, mem, fil, map, fill, temp>>
  BY DEF Pop, PopFile, fixed
<1>2. len > 0 /\ FilSize = len
  BY <1>1, Numbers DEF InFil, FilSize
<1>3. file' = Truncated(file, len - 1) /\ len' = len - 1 /\ UNCHANGED <<pending, pos>>
  BY <1>1, <1>2 DEF PopBack
<1>4. pending = <<>>
  BY <1>1 DEF SpillIInv, Stream
<1>5. file \in Seq(Value) /\ Len(file) = len /\ len \in Nat /\ file # <<>>
  <2>1. Len(pending) = 0
    BY <1>4
  <2>2. file \in Seq(Value) /\ len \in Nat /\ Len(file) \in Nat /\ Len(file) + Len(pending) = len
    BY Numbers
  <2>3. Len(file) = len
    BY <2>1, <2>2
  <2> QED  BY <1>2, <2>2, <2>3, EmptySeq
<1>6. file' \in Seq(Value) /\ Len(file') = len - 1
  BY <1>3, <1>5, TruncatedByOne
<1>7. SpillTypeOK'
  <2>1. file' \in Seq(Value \cup {Hole})
    BY <1>6, SeqMonotonic
  <2>2. i' \in Nat
    <3>1. i \in Nat /\ i' = i + 1
      BY <1>1, Numbers
    <3> QED  BY <3>1
  <2>3. len' \in Nat
    BY <1>2, <1>3, <1>5
  <2> QED  BY <1>1, <1>3, <2>1, <2>2, <2>3 DEF SpillIInv, SpillTypeOK, TypeOK, Running
<1>8. FilSize' = FilSize - 1 /\ Held' = Held - 1
  BY <1>1, <1>2, <1>3, Numbers DEF Held, FilSize
<1>9. Phase'
  BY <1>8, PopPhase
<1>10. Layers'
  <2>1. FilSize > 0
    BY <1>2
  <2>2. mode # "none"
    BY <1>1 DEF InFil
  <2>3. fill = 0
    BY <1>1 DEF SpillIInv, Layers
  <2> QED  BY <1>1, <1>3, <2>1, <2>2, <2>3 DEF SpillIInv, Layers, Running
<1>11. Stream'
  <2>1. Len(file') + Len(pending') = len'
    BY <1>3, <1>4, <1>5, <1>6
  <2> QED  BY <1>1, <1>3, <1>4, <1>6, <2>1 DEF Stream
<1> QED  BY <1>7, <1>9, <1>10, <1>11 DEF SpillIInv

LEMMA PopMapKeeps == ASSUME SpillIInv, Pop, PopMap PROVE SpillIInv'
<1>1. /\ pc = "pop" /\ pc' = "back" /\ i' = i + 1 /\ InFil /\ mode = "map" /\ fill' = fill - 1
      /\ UNCHANGED <<mode, total, answer, mem, fil, map, temp, file, pending, pos, len>>
  BY DEF Pop, PopMap, fixed, fvars
<1>2. fill > 0 /\ FilSize = fill
  BY <1>1, Numbers DEF InFil, FilSize
<1>3. len = 0 /\ pending = <<>>
  <2>1. len = 0
    BY <1>1 DEF SpillIInv, Layers
  <2> QED  BY <2>1, Numbers
<1>4. SpillTypeOK'
  <2>1. map \in Seq(Content) /\ fill \in 0 .. Len(map) /\ Len(map) \in Nat
    BY LenProperties DEF SpillIInv, SpillTypeOK, Content
  <2>2. i' \in Nat
    <3>1. i \in Nat /\ i' = i + 1
      BY <1>1, Numbers
    <3> QED  BY <3>1
  <2>3. fill' \in 0 .. Len(map')
    BY <1>1, <1>2, <2>1
  <2> QED  BY <1>1, <2>1, <2>2, <2>3 DEF SpillIInv, SpillTypeOK, TypeOK, Running
<1>5. FilSize' = FilSize - 1 /\ Held' = Held - 1
  BY <1>1, <1>2, <1>3, Numbers DEF Held, FilSize
<1>6. Phase'
  BY <1>5, PopPhase
<1>7. Layers'
  <2>1. FilSize > 0
    BY <1>2
  <2> QED  BY <1>1, <1>3, <2>1 DEF SpillIInv, Layers, Running
<1>8. Stream'
  BY <1>1, <1>3 DEF SpillIInv, Stream
<1> QED  BY <1>4, <1>6, <1>7, <1>8 DEF SpillIInv

LEMMA ReturnKeeps == ASSUME SpillIInv, Return PROVE SpillIInv'
<1>1. /\ pc = "back" /\ i >= total /\ pc' = "done" /\ fil' = FALSE /\ temp' = FALSE
      /\ UNCHANGED <<mode, total, i, mem, map, fill, answer, file, pending, pos, len>>
  BY DEF Return, fixed, fvars
<1>2. Held = 0
  <2>1. i \in 1 .. total /\ Held = total - i /\ total \in Nat
    BY <1>1, Numbers DEF SpillIInv, Phase
  <2> QED  BY <1>1, <2>1
<1>3. FilSize = 0
  BY <1>2, Numbers, SMTT(30)
<1>4. Held' = Held /\ FilSize' = FilSize
  BY <1>1 DEF Held, FilSize
<1>5. SpillTypeOK'
  BY <1>1 DEF SpillIInv, SpillTypeOK, TypeOK, Running
<1>6. Phase' /\ Stream'
  BY <1>1, <1>2, <1>4 DEF SpillIInv, Phase, Stream
<1>7. Layers'
  BY <1>1, <1>3, <1>4 DEF SpillIInv, Layers, Running
<1> QED  BY <1>5, <1>6, <1>7 DEF SpillIInv

LEMMA DieKeeps == ASSUME SpillIInv, Die PROVE SpillIInv'
<1>1. /\ pc' = "killed"
      /\ UNCHANGED <<mode, total, i, mem, answer, file, pending, pos, len, fil, map, fill, temp>>
  BY DEF Die, fixed, overflow, fvars
<1>2. Held' = Held /\ FilSize' = FilSize
  BY <1>1 DEF Held, FilSize
<1> QED
  BY <1>1, <1>2 DEF SpillIInv, SpillTypeOK, TypeOK, Phase, Layers, Stream, Running

LEMMA NextSpill == SpillIInv /\ [SpillNext]_svars => SpillIInv'
<1> SUFFICES ASSUME SpillIInv, [SpillNext]_svars PROVE SpillIInv'
  OBVIOUS
<1>1. CASE Construct
  BY <1>1, ConstructKeeps
<1>2. CASE Push
  <2>1. PICK v \in Value : PushMem(v) \/ PushFile(v) \/ PushMap(v)
    BY <1>2 DEF Push
  <2> QED  BY <1>2, <2>1, PushMemKeeps, PushFileKeeps, PushMapKeeps
<1>3. CASE Pushed
  BY <1>3, PushedKeeps
<1>4. CASE Back
  <2>1. BackMem \/ BackFile \/ BackMap
    BY <1>4 DEF Back
  <2> QED  BY <1>4, <2>1, BackMemKeeps, BackFileKeeps, BackMapKeeps
<1>5. CASE Pop
  <2>1. PopMem \/ PopFile \/ PopMap
    BY <1>5 DEF Pop
  <2> QED  BY <1>5, <2>1, PopMemKeeps, PopFileKeeps, PopMapKeeps
<1>6. CASE Return
  BY <1>6, ReturnKeeps
<1>7. CASE Die
  BY <1>7, DieKeeps
<1>8. CASE UNCHANGED svars
  <2>1. UNCHANGED <<mode, total, pc, i, mem, answer, file, pending, pos, len, fil, map, fill, temp>>
    BY <1>8 DEF svars, fvars
  <2>2. Held' = Held /\ FilSize' = FilSize
    BY <2>1 DEF Held, FilSize
  <2> QED
    BY <2>1, <2>2 DEF SpillIInv, SpillTypeOK, TypeOK, Phase, Layers, Stream, Running
<1> QED
  BY <1>1, <1>2, <1>3, <1>4, <1>5, <1>6, <1>7, <1>8 DEF SpillNext, Step

\* What is held at each point of unshuffle, for every threshold, span size and
\* build (shuffle.hpp 42-73).
THEOREM SpillTheorem == SpillSpec => []SpillIInv
BY InitSpill, NextSpill, PTL DEF SpillSpec

-----------------------------------------------------------------------------
\* The invariant is as strong as the two properties need.
LEMMA NoPanicInside == SpillIInv => NeverPanics
<1> SUFFICES ASSUME SpillIInv, Panics PROVE FALSE
  BY DEF NeverPanics
<1>1. CASE pc = "start" /\ mode = "map" /\ total > SpillAt /\ MapSize <= 0
  BY <1>1, Numbers DEF MapSize
<1>2. CASE pc \in Running \ {"start"} /\ SplPanics
  BY <1>2, MapThere DEF Running
<1>3. CASE pc = "push" /\ i > 0 /\ mode = "map" /\ Full /\ fill >= Len(map)
  <2>1. ~SplPanics
    BY <1>3, MapThere
  <2>2. fil /\ Len(map) = total - SpillAt
    BY <1>3, <2>1 DEF SplPanics, SpillIInv, Layers, Running
  <2>3. Len(mem) = SpillAt
    <3>1. Len(mem) <= SpillAt /\ (FilSize > 0 => Len(mem) = SpillAt)
      BY <1>3 DEF SpillIInv, Layers
    <3>2. Held >= SpillAt
      BY <1>3 DEF Full
    <3> QED  BY <3>1, <3>2, Numbers
  <2>4. Held = total - 1 - i
    BY <1>3 DEF SpillIInv, Phase
  <2>5. len = 0
    BY <1>3 DEF SpillIInv, Layers
  <2>6. total \in Nat /\ SpillAt \in Nat /\ fill \in Nat /\ i \in Nat /\ Held = Len(mem) + len + fill
    BY Numbers
  <2>7. Held = SpillAt + fill /\ fill >= total - SpillAt /\ i > 0
    BY <1>3, <2>2, <2>3, <2>5, <2>6
  <2> QED  BY <2>4, <2>6, <2>7
<1>4. CASE pc = "back" /\ i < total /\ (Held = 0 \/ (InFil /\ mode # "map" /\ ~Readable))
  <2>1. Held = total - i
    BY <1>4 DEF SpillIInv, Phase
  <2>2. Held # 0
    BY <1>4, <2>1, Numbers
  <2>3. InFil /\ mode # "map" /\ ~Readable
    BY <1>4, <2>2
  <2>4. len > 0
    BY <2>3, Numbers DEF InFil, FilSize
  <2>5. Flushed # <<>>
    <3>1. Flushed \in Seq(Value) /\ Len(Flushed) = len
      BY FlushedIs DEF SpillIInv
    <3> QED  BY <2>4, <3>1
  <2> QED  BY <2>3, <2>4, <2>5 DEF Readable
<1>5. CASE pc = "pop" /\ Held = 0
  <2>1. i \in 1 .. total - 1 /\ Held = total - i
    BY <1>5 DEF SpillIInv, Phase
  <2>2. i \in Nat /\ total \in Nat
    BY Numbers
  <2> QED  BY <1>5, <2>1, <2>2
<1> QED
  BY <1>1, <1>2, <1>3, <1>4, <1>5 DEF Panics

\* unshuffle never meets a panic of its container: the mapping that is sized in
\* advance has room for every draw, and the file can always be read back
\* (shuffle.hpp 42-73, fsvec.hpp 72-213).
THEOREM NeverPanicsTheorem == SpillSpec => []NeverPanics
BY SpillTheorem, NoPanicInside, PTL

\* A spilling build holds at most FSV_DEFAULT_SPILL_AT values in memory
\* (fsvec.hpp 112-213).
THEOREM MemoryTheorem == SpillSpec => []MemoryBounded
<1>1. SpillIInv => MemoryBounded
  BY DEF SpillIInv, Layers, MemoryBounded
<1> QED  BY SpillTheorem, <1>1, PTL

-----------------------------------------------------------------------------
\* Appending, taking the last and dropping the last look at the second of two
\* sequences when it is not empty.
LEMMA SecondOfTwo ==
    ASSUME NEW T, NEW a \in Seq(T), NEW b \in Seq(T)
    PROVE  /\ \A v \in T : a \o Append(b, v) = Append(a \o b, v)
           /\ b # <<>> => /\ a \o b # <<>>
                          /\ Last(a \o b) = Last(b)
                          /\ Front(a \o b) = a \o Front(b)
<1>1. ASSUME NEW v \in T PROVE a \o Append(b, v) = Append(a \o b, v)
  <2>1. Append(b, v) = b \o <<v>> /\ Append(a \o b, v) = (a \o b) \o <<v>>
    BY ConcatProperties, AppendIsConcat
  <2>2. <<v>> \in Seq(T)
    OBVIOUS
  <2>3. (a \o b) \o <<v>> = a \o (b \o <<v>>)
    BY <2>2, ConcatAssociative
  <2> QED  BY <2>1, <2>3
<1>2. ASSUME b # <<>>
      PROVE  /\ a \o b # <<>> /\ Last(a \o b) = Last(b)
             /\ Front(a \o b) = a \o Front(b)
  <2> DEFINE c == a \o b
             d == a \o Front(b)
  <2>1. /\ c \in Seq(T) /\ Len(c) = Len(a) + Len(b)
        /\ \A k \in 1 .. Len(a) + Len(b) : c[k] = IF k <= Len(a) THEN a[k] ELSE b[k - Len(a)]
    BY ConcatProperties
  <2>2. Len(a) \in Nat /\ Len(b) \in Nat /\ Len(b) > 0
    BY <1>2, LenProperties, EmptySeq
  <2>3. Front(b) \in Seq(T) /\ Len(Front(b)) = Len(b) - 1
        /\ \A k \in 1 .. Len(b) - 1 : Front(b)[k] = b[k]
    BY <1>2, TruncatedByOne
  <2>4. /\ d \in Seq(T) /\ Len(d) = Len(a) + Len(Front(b))
        /\ \A k \in 1 .. Len(a) + Len(Front(b)) :
              d[k] = IF k <= Len(a) THEN a[k] ELSE Front(b)[k - Len(a)]
    BY <2>3, ConcatProperties
  <2> HIDE DEF c, d
  <2>5. c # <<>>
    BY <2>1, <2>2
  <2>6. Last(c) = Last(b)
    BY <2>1, <2>2, SMTT(30) DEF Last
  <2>7. /\ Front(c) \in Seq(T) /\ Len(Front(c)) = Len(c) - 1
        /\ \A k \in 1 .. Len(c) - 1 : Front(c)[k] = c[k]
    BY <2>1, <2>5, TruncatedByOne
  <2>8. Len(Front(c)) = Len(d)
    BY <2>1, <2>2, <2>3, <2>4, <2>7
  <2>9. \A k \in 1 .. Len(d) : Front(c)[k] = d[k]
    <3> TAKE k \in 1 .. Len(d)
    <3>1. k \in 1 .. Len(c) - 1 /\ k \in 1 .. Len(a) + Len(b) /\ k \in 1 .. Len(a) + Len(Front(b))
      BY <2>1, <2>2, <2>3, <2>4
    <3>2. Front(c)[k] = IF k <= Len(a) THEN a[k] ELSE b[k - Len(a)]
      BY <2>1, <2>7, <3>1
    <3>3. ~(k <= Len(a)) => Front(b)[k - Len(a)] = b[k - Len(a)]
      BY <2>2, <2>3, <3>1
    <3> QED  BY <2>4, <3>1, <3>2, <3>3
  <2>10. Front(c) = d
    BY <2>4, <2>7, <2>8, <2>9, SeqEqual
  <2> QED  BY <2>5, <2>6, <2>10 DEF c, d
<1> QED  BY <1>1, <1>2

\* A prefix of the mapped values grows and shrinks at its end.
LEMMA MapPrefix ==
    ASSUME NEW m \in Seq(Content), NEW n \in 0 .. Len(m)
    PROVE  /\ SubSeq(m, 1, n) \in Seq(Content) /\ Len(SubSeq(m, 1, n)) = n
           /\ \A k \in 1 .. n : SubSeq(m, 1, n)[k] = m[k]
<1>1. \A k \in 1 .. n : m[k] \in Content
  BY LenProperties, ElementOfSeq
<1>2. n \in Nat
  BY LenProperties
<1> QED  BY <1>1, <1>2, SubSeqProperties

LEMMA MapGrows ==
    ASSUME NEW m \in Seq(Content), NEW n \in 0 .. Len(m), n < Len(m), NEW v \in Content
    PROVE  SubSeq([m EXCEPT ![n + 1] = v], 1, n + 1) = Append(SubSeq(m, 1, n), v)
<1> DEFINE w == [m EXCEPT ![n + 1] = v]
           a == SubSeq(w, 1, n + 1)
           b == SubSeq(m, 1, n)
<1>1. Len(m) \in Nat /\ n \in Nat /\ n + 1 \in 1 .. Len(m)
  BY LenProperties
<1>2. w \in Seq(Content) /\ Len(w) = Len(m)
      /\ \A k \in 1 .. Len(m) : w[k] = IF k = n + 1 THEN v ELSE m[k]
  BY <1>1, ExceptSeq
<1> HIDE DEF w
<1>3. n + 1 \in 0 .. Len(w)
  BY <1>1, <1>2
<1>4. a \in Seq(Content) /\ Len(a) = n + 1 /\ \A k \in 1 .. n + 1 : a[k] = w[k]
  BY <1>2, <1>3, MapPrefix
<1>5. b \in Seq(Content) /\ Len(b) = n /\ \A k \in 1 .. n : b[k] = m[k]
  BY MapPrefix
<1> HIDE DEF a, b
<1>6. Append(b, v) \in Seq(Content) /\ Len(Append(b, v)) = n + 1
      /\ \A k \in 1 .. n : Append(b, v)[k] = b[k]
      /\ Append(b, v)[n + 1] = v
  BY <1>5, AppendProperties
<1>7. \A k \in 1 .. n + 1 : a[k] = Append(b, v)[k]
  <2> TAKE k \in 1 .. n + 1
  <2>1. k \in 1 .. Len(m)
    BY <1>1
  <2>2. CASE k = n + 1
    BY <1>2, <1>4, <1>6, <2>1, <2>2
  <2>3. CASE k # n + 1
    <3>1. k \in 1 .. n
      BY <1>1, <2>3
    <3> QED  BY <1>2, <1>4, <1>5, <1>6, <2>1, <2>3, <3>1
  <2> QED  BY <2>2, <2>3
<1>8. a = Append(b, v)
  BY <1>4, <1>6, <1>7, SeqEqual
<1> QED  BY <1>8 DEF a, b, w

LEMMA MapShrinks ==
    ASSUME NEW m \in Seq(Content), NEW n \in 1 .. Len(m)
    PROVE  /\ SubSeq(m, 1, n) # <<>>
           /\ Last(SubSeq(m, 1, n)) = m[n]
           /\ Front(SubSeq(m, 1, n)) = SubSeq(m, 1, n - 1)
<1>1. Len(m) \in Nat /\ n \in Nat /\ n > 0 /\ n \in 0 .. Len(m) /\ n - 1 \in 0 .. Len(m)
  BY LenProperties
<1> DEFINE a == SubSeq(m, 1, n)
           b == SubSeq(m, 1, n - 1)
<1>2. a \in Seq(Content) /\ Len(a) = n /\ \A k \in 1 .. n : a[k] = m[k]
  BY <1>1, MapPrefix
<1>3. b \in Seq(Content) /\ Len(b) = n - 1 /\ \A k \in 1 .. n - 1 : b[k] = m[k]
  BY <1>1, MapPrefix
<1> HIDE DEF a, b
<1>4. a # <<>> /\ Last(a) = m[n]
  BY <1>1, <1>2 DEF Last
<1>5. Front(a) \in Seq(Content) /\ Len(Front(a)) = n - 1
      /\ \A k \in 1 .. n - 1 : Front(a)[k] = a[k]
  BY <1>2, <1>4, TruncatedByOne
<1>6. \A k \in 1 .. n - 1 : Front(a)[k] = b[k]
  BY <1>1, <1>2, <1>3, <1>5
<1>7. Front(a) = b
  BY <1>3, <1>5, <1>6, SeqEqual
<1> QED  BY <1>4, <1>7 DEF a, b

-----------------------------------------------------------------------------
\* What the second container holds.
Second == IF mode = "map" THEN SubSeq(map, 1, fill) ELSE Flushed

LEMMA SecondIs ==
    ASSUME SpillIInv
    PROVE  /\ Items = mem \o Second /\ Second \in Seq(Content) /\ mem \in Seq(Content)
           /\ ~InFil => Second = <<>>
           /\ mode # "map" => Second = file \o pending
           /\ mode # "map" /\ pending = <<>> => Second = file
<1>1. mem \in Seq(Content)
  BY Numbers, SeqMonotonic DEF Content
<1>2. CASE mode = "map"
  <2>1. map \in Seq(Content) /\ fill \in 0 .. Len(map)
    BY DEF SpillIInv, SpillTypeOK, Content
  <2>2. Second = SubSeq(map, 1, fill) /\ Items = mem \o SubSeq(map, 1, fill)
    BY <1>2 DEF Second, Items
  <2>3. SubSeq(map, 1, fill) \in Seq(Content) /\ Len(SubSeq(map, 1, fill)) = fill
    BY <2>1, MapPrefix
  <2>4. ~InFil => fill = 0
    BY SecondEmpty
  <2> QED  BY <1>1, <1>2, <2>2, <2>3, <2>4, EmptySeq
<1>3. CASE mode # "map"
  <2>1. Second = Flushed /\ Items = mem \o Flushed
    BY <1>3 DEF Second, Items
  <2>2. Flushed = file \o pending /\ Flushed \in Seq(Value) /\ Len(Flushed) = len
        /\ (pending = <<>> => Flushed = file)
    BY FlushedIs DEF SpillIInv
  <2>3. Flushed \in Seq(Content)
    BY <2>2, SeqMonotonic DEF Content
  <2>4. ~InFil => len = 0
    BY SecondEmpty
  <2> QED  BY <1>1, <1>3, <2>1, <2>2, <2>3, <2>4, EmptySeq
<1> QED  BY <1>2, <1>3

LEMMA AbstractInit == SpillInit => Stk!Init
<1> SUFFICES ASSUME SpillInit PROVE Items = <<>> /\ answer = NoAnswer
  BY DEF Stk!Init
<1>1. SpillIInv
  BY InitSpill
<1>2. mem = <<>> /\ answer = NoAnswer
  BY DEF SpillInit
<1>3. Second = <<>>
  <2>1. len = 0 /\ fill = 0
    BY DEF SpillInit, Init
  <2>2. ~InFil
    BY <2>1, <1>1, Numbers DEF InFil
  <2> QED  BY <1>1, <2>2, SecondIs
<1>4. Items = mem \o Second /\ Second \in Seq(Content)
  BY <1>1, SecondIs
<1> QED  BY <1>2, <1>3, <1>4

\* push_back of unshuffle is a push, to whichever container it goes.
LEMMA PushIsPush ==
    ASSUME SpillIInv, SpillIInv', Push
    PROVE  Stk!Push
<1>1. PICK v \in Value : PushMem(v) \/ PushFile(v) \/ PushMap(v)
  BY DEF Push
<1>2. pc = "push" /\ UNCHANGED <<mode, answer>>
  BY DEF Push, fixed
<1>3. v \in Content
  BY DEF Content
<1>4. CASE PushMem(v)
  <2>1. ~Full /\ mem' = Append(mem, v) /\ UNCHANGED <<file, pending, pos, len, map, fill>>
    BY <1>4 DEF PushMem, overflow, fvars
  <2>2. len' = 0 /\ fill' = 0
    BY <2>1, SecondEmpty
  <2>3. ~InFil /\ ~InFil'
    <3>1. FilSize = 0 /\ FilSize' = 0
      BY <2>1, <2>2, <1>2 DEF FilSize
    <3>2. ~(0 > 0)
      OBVIOUS
    <3> QED  BY <3>1, <3>2 DEF InFil
  <2>4. Second = <<>> /\ Items = mem \o <<>>
    BY <2>3, SecondIs
  <2>5. Second' = <<>> /\ Items' = mem' \o <<>>
    <3>1. Items' = mem' \o Second'
      BY DEF Items, Second
    <3>2. Second' = Second
      BY <2>1, <1>2 DEF Second, Flushed
    <3> QED  BY <2>4, <3>1, <3>2
  <2>6. mem \in Seq(Content) /\ mem' \in Seq(Content)
    BY <1>3, <2>1, SecondIs, AppendProperties
  <2>7. Items' = Append(Items, v)
    BY <2>1, <2>4, <2>5, <2>6, ConcatEmptySeq
  <2> QED  BY <1>2, <2>7 DEF Stk!Push
<1>5. CASE PushFile(v)
  <2>1. mode # "map" /\ PushBack(v) /\ UNCHANGED <<mem, map, fill>>
    BY <1>5 DEF PushFile
  <2>2. file' \o pending' = Append(file \o pending, v)
    BY <1>2, <2>1, PushBackAppends DEF SpillIInv
  <2>3. Items = mem \o Second /\ Second = file \o pending /\ Second \in Seq(Content)
        /\ mem \in Seq(Content)
    BY <2>1, SecondIs
  <2>4. Items' = mem \o (file' \o pending')
    <3>1. Flushed' = file' \o pending'
      <4>1. SpillTypeOK' /\ Stream'
        BY DEF SpillIInv
      <4>2. file' \in Seq(Value) /\ pending' \in Seq(Value) /\ (pending' # <<>> => pos' = Len(file'))
        BY <4>1 DEF SpillTypeOK, TypeOK, Stream
      <4>3. CASE pending' = <<>>
        BY <4>2, <4>3, WrittenNothing, ConcatEmptySeq DEF Flushed
      <4>4. CASE pending' # <<>>
        BY <4>2, <4>4, WrittenAtEnd DEF Flushed
      <4> QED  BY <4>3, <4>4
    <3> QED  BY <1>2, <2>1, <3>1 DEF Items
  <2>5. mem \o Append(Second, v) = Append(mem \o Second, v)
    BY <1>3, <2>3, SecondOfTwo, SMTT(30)
  <2>6. Items' = Append(Items, v)
    BY <2>2, <2>3, <2>4, <2>5, Zenon
  <2> QED  BY <1>2, <2>6 DEF Stk!Push
<1>6. CASE PushMap(v)
  <2>1. /\ mode = "map" /\ fill < Len(map) /\ map' = [map EXCEPT ![fill + 1] = v]
        /\ fill' = fill + 1 /\ mem' = mem
    BY <1>6 DEF PushMap
  <2>2. map \in Seq(Content) /\ fill \in 0 .. Len(map)
    BY DEF SpillIInv, SpillTypeOK, Content
  <2>3. SubSeq(map', 1, fill') = Append(SubSeq(map, 1, fill), v)
    BY <1>3, <2>1, <2>2, MapGrows
  <2>4. Items = mem \o Second /\ Second = SubSeq(map, 1, fill) /\ Second \in Seq(Content)
        /\ mem \in Seq(Content)
    BY <2>1, SecondIs DEF Second
  <2>5. Items' = mem \o SubSeq(map', 1, fill')
    BY <1>2, <2>1 DEF Items
  <2>6. mem \o Append(Second, v) = Append(mem \o Second, v)
    BY <1>3, <2>4, SecondOfTwo
  <2>7. Items' = Append(Items, v)
    BY <2>3, <2>4, <2>5, <2>6, Zenon
  <2> QED  BY <1>2, <2>7 DEF Stk!Push
<1> QED  BY <1>1, <1>4, <1>5, <1>6

\* back() answers with the last of everything held and leaves it there.
LEMMA BackIsBack ==
    ASSUME SpillIInv, SpillIInv', Back
    PROVE  Stk!Back
<1>1. UNCHANGED <<mode, mem>>
  BY DEF Back, fixed
<1>2. \A s : Stk!Last(s) = Last(s)
  BY DEF Stk!Last, Last
<1>3. SUFFICES Items # <<>> /\ answer' = Last(Items) /\ Items' = Items
  BY <1>2 DEF Stk!Back
<1>4. CASE BackMem
  <2>1. ~InFil /\ mem # <<>> /\ answer' = Last(mem) /\ UNCHANGED <<file, pending, pos, len, map, fill>>
    BY <1>4 DEF BackMem, fvars
  <2>2. Items = mem
    BY <2>1, SecondIs, ConcatEmptySeq
  <2>3. Items' = Items
    BY <1>1, <2>1 DEF Items, Flushed
  <2> QED  BY <2>1, <2>2, <2>3
<1>5. CASE BackFile
  <2>1. mode # "map" /\ BackIs(answer')
    BY <1>5 DEF BackFile
  <2>2. Flushed # <<>> /\ answer' = Last(Flushed) /\ file' = Flushed /\ pending' = <<>>
    BY <2>1 DEF BackIs, Readable
  <2>3. Second = Flushed /\ Flushed' = Flushed
    BY <2>1, <2>2, WrittenNothing DEF Second, Flushed
  <2>4. Items = mem \o Flushed /\ Flushed \in Seq(Content) /\ mem \in Seq(Content)
    BY <2>3, SecondIs
  <2>5. Items' = Items
    BY <1>1, <2>1, <2>3 DEF Items
  <2> QED  BY <2>2, <2>4, <2>5, SecondOfTwo
<1>6. CASE BackMap
  <2>1. InFil /\ mode = "map" /\ answer' = map[fill]
        /\ UNCHANGED <<file, pending, pos, len, map, fill>>
    BY <1>6 DEF BackMap, overflow, fvars
  <2>2. map \in Seq(Content) /\ fill \in 0 .. Len(map) /\ fill > 0
    BY <2>1 DEF SpillIInv, SpillTypeOK, Content, InFil, FilSize
  <2>3. fill \in 1 .. Len(map)
    BY <2>2
  <2>4. Second # <<>> /\ Last(Second) = map[fill]
    BY <2>1, <2>2, <2>3, MapShrinks DEF Second
  <2>5. Items = mem \o Second /\ Second \in Seq(Content) /\ mem \in Seq(Content)
    BY SecondIs
  <2>6. Items' = Items
    BY <1>1, <2>1 DEF Items, Flushed
  <2> QED  BY <2>1, <2>4, <2>5, <2>6, SecondOfTwo
<1> QED  BY <1>4, <1>5, <1>6 DEF Back

\* pop_back() drops the value that back() answered with.
LEMMA PopIsPop ==
    ASSUME SpillIInv, SpillIInv', Pop
    PROVE  Stk!Pop
<1>1. pc = "pop" /\ UNCHANGED <<mode, answer>>
  BY DEF Pop, fixed
<1>2. \A s : Stk!Front(s) = Front(s)
  BY DEF Stk!Front, Front
<1>3. SUFFICES Items # <<>> /\ Items' = Front(Items)
  BY <1>1, <1>2 DEF Stk!Pop
<1>4. CASE PopMem
  <2>1. ~InFil /\ mem # <<>> /\ mem' = Front(mem) /\ UNCHANGED <<file, pending, pos, len, map, fill>>
    BY <1>4 DEF PopMem, fvars
  <2>2. Second = <<>> /\ mem \in Seq(Content) /\ Items = mem
    BY <2>1, SecondIs, ConcatEmptySeq
  <2>3. Items' = mem' \o Second
    BY <1>1, <2>1 DEF Items, Second, Flushed
  <2>4. mem' \in Seq(Content)
    BY <2>1, <2>2, TruncatedByOne
  <2> QED  BY <2>1, <2>2, <2>3, <2>4, ConcatEmptySeq
<1>5. CASE PopFile
  <2>1. InFil /\ mode # "map" /\ PopBack /\ mem' = mem
    BY <1>5 DEF PopFile
  <2>2. len > 0
    BY <2>1 DEF InFil, FilSize
  <2>3. file' = Truncated(file, len - 1) /\ pending' = pending
    BY <2>1, <2>2 DEF PopBack
  <2>4. pending = <<>>
    BY <1>1 DEF SpillIInv, Stream
  <2>5. file \in Seq(Value) /\ Len(file) = len /\ file # <<>>
    <3>1. Len(pending) = 0
      BY <2>4
    <3>2. file \in Seq(Value) /\ len \in Nat /\ Len(file) \in Nat /\ Len(file) + Len(pending) = len
      BY Numbers
    <3>3. Len(file) = len
      BY <3>1, <3>2
    <3> QED  BY <2>2, <3>2, <3>3, EmptySeq
  <2>6. file' = Front(file)
    BY <2>3, <2>5, TruncatedByOne
  <2>7. Items = mem \o file /\ mem \in Seq(Content) /\ file \in Seq(Content)
    BY <2>1, <2>4, SecondIs
  <2>8. Items' = mem \o file'
    <3>1. Flushed' = file'
      BY <2>3, <2>4, WrittenNothing DEF Flushed
    <3> QED  BY <1>1, <2>1, <3>1 DEF Items
  <2> QED  BY <2>5, <2>6, <2>7, <2>8, SecondOfTwo
<1>6. CASE PopMap
  <2>1. InFil /\ mode = "map" /\ fill' = fill - 1 /\ UNCHANGED <<mem, map>>
    BY <1>6 DEF PopMap
  <2>2. map \in Seq(Content) /\ fill \in 0 .. Len(map) /\ fill > 0
    BY <2>1 DEF SpillIInv, SpillTypeOK, Content, InFil, FilSize
  <2>3. fill \in 1 .. Len(map)
    BY <2>2
  <2>4. Second # <<>> /\ Front(Second) = SubSeq(map, 1, fill - 1)
    BY <2>1, <2>2, <2>3, MapShrinks DEF Second
  <2>5. Items = mem \o Second /\ Second \in Seq(Content) /\ mem \in Seq(Content)
    BY SecondIs
  <2>6. Items' = mem \o SubSeq(map, 1, fill - 1)
    BY <1>1, <2>1 DEF Items
  <2>7. mem \o Second # <<>> /\ Front(mem \o Second) = mem \o Front(Second)
    BY <2>4, <2>5, SecondOfTwo
  <2> QED  BY <2>4, <2>5, <2>6, <2>7, Zenon
<1> QED  BY <1>4, <1>5, <1>6 DEF Pop

\* The constructor, the end of the first loop, the destructors and a death
\* leave the abstract stack alone.
LEMMA OthersStutter ==
    ASSUME SpillIInv, SpillIInv', Construct \/ Pushed \/ Return \/ Die \/ UNCHANGED svars
    PROVE  UNCHANGED <<Items, answer>>
<1>1. CASE Construct
  <2>1. UNCHANGED <<mode, mem, fill, answer, file, pending, pos, len>> /\ pc = "start"
    BY <1>1 DEF Construct, fixed, fvars
  <2>2. fill = 0 /\ fill' = 0
    BY <2>1, Numbers DEF SpillIInv, Phase
  <2>3. map \in Seq(Content) /\ map' \in Seq(Content)
    BY DEF SpillIInv, SpillTypeOK, Content
  <2>4. SubSeq(map, 1, 0) = <<>> /\ SubSeq(map', 1, 0) = <<>>
    <3>1. 0 \in 0 .. Len(map) /\ 0 \in 0 .. Len(map')
      BY <2>3, LenProperties
    <3> QED  BY <2>3, <3>1, MapPrefix, EmptySeq
  <2> QED  BY <2>1, <2>2, <2>4 DEF Items, Flushed
<1>2. CASE Pushed \/ Return \/ Die \/ UNCHANGED svars
  <2>1. UNCHANGED <<mode, mem, fill, answer, file, pending, pos, len, map>>
    BY <1>2 DEF Pushed, Return, Die, fixed, overflow, svars, fvars
  <2> QED  BY <2>1 DEF Items, Flushed
<1> QED  BY <1>1, <1>2

LEMMA AbstractStep ==
    SpillIInv /\ SpillIInv' /\ [SpillNext]_svars => [Stk!Next]_<<Items, answer>>
<1> SUFFICES ASSUME SpillIInv, SpillIInv', [SpillNext]_svars
             PROVE  [Stk!Next]_<<Items, answer>>
  OBVIOUS
<1>1. CASE Push \/ Back \/ Pop
  BY <1>1, PushIsPush, BackIsBack, PopIsPop DEF Stk!Next
<1>2. CASE Construct \/ Pushed \/ Return \/ Die \/ UNCHANGED svars
  BY <1>2, OthersStutter
<1> QED  BY <1>1, <1>2 DEF SpillNext, Step

\* Each build's container is a stack, across the threshold and stdio's buffer,
\* for every threshold, span size and values (fsvec.hpp 17-29).
THEOREM StackTheorem == SpillSpec => ImplementsStack
<1>1. SpillSpec => []SpillIInv
  BY SpillTheorem
<1> QED
  BY <1>1, AbstractInit, AbstractStep, PTL DEF SpillSpec, ImplementsStack, Stk!Spec

-----------------------------------------------------------------------------
\* The steps unshuffle has still to take: the constructor, the draws to push,
\* two steps of each swap, the turn between them, the return.
StepsLeft ==
    CASE pc = "start" -> 3 * total
      [] pc = "push"  -> i + 2 * total
      [] pc = "back"  -> 2 * (total - i) + 1
      [] pc = "pop"   -> 2 * (total - i)
      [] OTHER        -> 0

\* Until it returns it has a step to take: room for the draw, one to read back
\* and to drop.  It returns with nothing held, nothing left in the file system.
StepToTake ==
    /\ StepsLeft \in Nat
    /\ StepsLeft = 0 <=> pc \notin Running
    /\ pc = "push" /\ i > 0 => ~Full \/ mode # "map" \/ (fil /\ fill < Len(map))
    /\ pc = "back" /\ i < total => IF InFil THEN mode = "map" \/ Readable
                                            ELSE mem # <<>> /\ ~SplPanics
    /\ pc = "pop" => InFil \/ (mem # <<>> /\ ~SplPanics)
    /\ pc = "done" => Held = 0 /\ ~temp

\* A step brings the return one step nearer, unless the process dies.
EachStepCounts == [][StepsLeft' = StepsLeft - 1 \/ pc' = "killed"]_svars

LEMMA InvCounts == SpillIInv /\ (pc = "done" => ~temp) => StepToTake
<1> SUFFICES ASSUME SpillIInv, pc = "done" => ~temp PROVE StepToTake
  OBVIOUS
<1>1. /\ total \in Nat /\ total > 0 /\ i \in Nat /\ Len(mem) \in Nat /\ len \in Nat /\ fill \in Nat
      /\ Held = Len(mem) + len + fill
  BY Numbers
<1>2. pc \in Running \cup {"done", "killed"} /\ Phase /\ ~Panics
  BY NoPanicInside DEF SpillIInv, SpillTypeOK, NeverPanics
<1>3. StepsLeft \in Nat /\ (StepsLeft = 0 <=> pc \notin Running)
  <2>1. CASE pc = "back"
    BY <1>1, <1>2, <2>1 DEF StepsLeft, Running, Phase
  <2>2. CASE pc = "pop"
    BY <1>1, <1>2, <2>2 DEF StepsLeft, Running, Phase
  <2>3. CASE pc \in {"start", "push", "done", "killed"}
    BY <1>1, <2>3 DEF StepsLeft, Running
  <2> QED  BY <1>2, <2>1, <2>2, <2>3 DEF Running
<1>4. ASSUME pc = "push", i > 0 PROVE ~Full \/ mode # "map" \/ (fil /\ fill < Len(map))
  <2>1. ~SplPanics /\ ~(mode = "map" /\ Full /\ fill >= Len(map))
    BY <1>2, <1>4 DEF Panics, Running
  <2>2. Len(map) \in Nat
    BY LenProperties DEF SpillIInv, SpillTypeOK
  <2> QED  BY <1>1, <2>1, <2>2 DEF SplPanics
<1>5. ASSUME pc \in {"back", "pop"}, i < total, ~InFil PROVE mem # <<>> /\ ~SplPanics
  <2>1. Held = total - i
    BY <1>2, <1>5 DEF Phase
  <2>2. len = 0 /\ fill = 0
    BY <1>5, SecondEmpty
  <2>3. Len(mem) > 0
    BY <1>1, <1>5, <2>1, <2>2
  <2> QED  BY <1>5, <2>3, MapThere
<1>6. ASSUME pc = "back", i < total, InFil PROVE mode = "map" \/ Readable
  BY <1>2, <1>6 DEF Panics
<1>7. pc = "pop" => i < total
  BY <1>1, <1>2 DEF Phase
<1>8. pc = "done" => Held = 0
  BY <1>2 DEF Phase
<1> QED  BY <1>3, <1>4, <1>5, <1>6, <1>7, <1>8 DEF StepToTake

LEMMA CountsDown ==
    ASSUME SpillIInv, SpillNext
    PROVE  StepsLeft' = StepsLeft - 1 \/ pc' = "killed"
<1>1. total \in Nat /\ i \in Nat /\ Phase
  BY Numbers DEF SpillIInv
<1> USE DEF fixed
<1>2. CASE Construct
  <2>1. pc = "start" /\ pc' = "push" /\ i' = total - 1 /\ total' = total
    BY <1>2 DEF Construct
  <2> QED  BY <1>1, <2>1 DEF StepsLeft
<1>3. CASE Push
  <2>1. pc = "push" /\ pc' = "push" /\ i' = i - 1 /\ total' = total
    BY <1>3 DEF Push
  <2> QED  BY <1>1, <2>1 DEF StepsLeft
<1>4. CASE Pushed
  <2>1. pc = "push" /\ i = 0 /\ pc' = "back" /\ i' = 1 /\ total' = total
    BY <1>4 DEF Pushed
  <2> QED  BY <1>1, <2>1 DEF StepsLeft
<1>5. CASE Back
  <2>1. pc = "back" /\ pc' = "pop" /\ i' = i /\ total' = total
    BY <1>5 DEF Back
  <2> QED  BY <1>1, <2>1 DEF StepsLeft
<1>6. CASE Pop
  <2>1. pc = "pop" /\ pc' = "back" /\ i' = i + 1 /\ total' = total
    BY <1>6 DEF Pop
  <2> QED  BY <1>1, <2>1 DEF StepsLeft
<1>7. CASE Return
  <2>1. pc = "back" /\ i = total /\ pc' = "done"
    BY <1>1, <1>7 DEF Return, Phase
  <2> QED  BY <1>1, <2>1 DEF StepsLeft
<1>8. CASE Die
  BY <1>8 DEF Die
<1> QED  BY <1>2, <1>3, <1>4, <1>5, <1>6, <1>7, <1>8 DEF SpillNext, Step

(***************************************************************************)
(* What Returns rests on, for every build, size and threshold (shuffle.hpp  *)
(* 67-73, fsvec.hpp 112-213): unshuffle cannot get stuck on its container,  *)
(* has 3 * size steps to take and no more, and a return leaves nothing.     *)
(***************************************************************************)
THEOREM StepsTheorem == SpillSpec => []StepToTake /\ EachStepCounts
<1> DEFINE Clean == pc = "done" => ~temp
<1>1. SpillInit => Clean
  BY DEF SpillInit
<1>2. Clean /\ [SpillNext]_svars => Clean'
  <2> SUFFICES ASSUME Clean, [SpillNext]_svars, pc' = "done" PROVE ~temp'
    OBVIOUS
  <2>1. CASE Return
    BY <2>1 DEF Return
  <2>2. CASE UNCHANGED svars
    BY <2>2 DEF svars
  <2>3. ~(Construct \/ Push \/ Pushed \/ Back \/ Pop \/ Die)
    BY DEF Construct, Push, Pushed, Back, Pop, Die
  <2> QED  BY <2>1, <2>2, <2>3 DEF SpillNext, Step
<1>3. SpillIInv /\ Clean => StepToTake
  BY InvCounts
<1>4. SpillIInv /\ [SpillNext]_svars => [StepsLeft' = StepsLeft - 1 \/ pc' = "killed"]_svars
  BY CountsDown
<1> QED  BY <1>1, <1>2, <1>3, <1>4, SpillTheorem, PTL DEF SpillSpec, EachStepCounts

=============================================================================
