--------------------------- MODULE GeneratorProofs ---------------------------
(***************************************************************************)
(* Theorems about what a stage gets its draws from: minmax_t returns the   *)
(* extremes of the kept objects, for every object type, filter, order and  *)
(* span size; next_long() answers an index, and each index, for every      *)
(* precision of the floating point it is computed in; next() of            *)
(* xoroshiro128plus is undone from every state and never gets from one     *)
(* that is not zero to the one that is; and its jumps, which the run works *)
(* out on 128 states, are as long on each of the 2^128.                    *)
(***************************************************************************)
EXTENDS MinMax, Sampling, Xoroshiro, SpanTheorems

-----------------------------------------------------------------------------
(***************************************************************************)
(* MinMax: the seeds.                                                      *)
(***************************************************************************)

\* Every variable keeps its type, and the locals describe the scanned prefix,
\* in the initial states.
LEMMA InitIInv == Init => IInv
<1> SUFFICES ASSUME Init PROVE IInv
  OBVIOUS
<1> USE ItemAssumption, SizesAssumption
<1>1. TypeOK
  <2>1. Uninitialised \subseteq Item
    BY DEF Uninitialised
  <2>2. i \in 0 .. size
    BY DEF Init
  <2> QED
    BY <2>1, <2>2, Zenon DEF Init, TypeOK
<1>2. Scanned = {}
  BY DEF Init, Scanned
<1>3. PrefixExtremes
  BY <1>2 DEF Init, PrefixExtremes
<1> QED
  BY <1>1, <1>3 DEF IInv

\* One iteration extends the scanned prefix by the object at i, if it is kept.
LEMMA ScannedGrows ==
    ASSUME i \in Nat, i' = i + 1, array' = array
    PROVE  Scanned' = IF array[i] \in Keep THEN Scanned \cup {i} ELSE Scanned
BY DEF Scanned

\* An iteration of the loop preserves both.
LEMMA NextIInv == IInv /\ [Next]_vars => IInv'
<1> SUFFICES ASSUME IInv, [Next]_vars PROVE IInv'
  OBVIOUS
<1> USE ItemAssumption, KeyAssumption, SizesAssumption, BuildsAssumption
<1>1. CASE Skip
  <2>1. TypeOK'
    BY <1>1 DEF Skip, IInv, TypeOK, SpanOf
  <2>2. Scanned' = Scanned
    BY <1>1, ScannedGrows DEF Skip, IInv, TypeOK
  <2>3. PrefixExtremes'
    BY <1>1, <2>2 DEF Skip, IInv, PrefixExtremes, Uninitialised
  <2> QED
    BY <2>1, <2>3 DEF IInv
<1>2. CASE First
  <2>1. TypeOK'
    BY <1>2 DEF First, IInv, TypeOK, SpanOf
  <2>2. Scanned' = {i}
    BY <1>2, ScannedGrows DEF First, IInv, TypeOK, PrefixExtremes
  <2>3. PrefixExtremes'
    BY <1>2, <2>2 DEF First, IInv, TypeOK, PrefixExtremes, SpanOf
  <2> QED
    BY <2>1, <2>3 DEF IInv
<1>3. CASE Later
  <2>0. array[i] \in Item
    BY <1>3 DEF Later, IInv, TypeOK, SpanOf
  <2>1. TypeOK'
    BY <1>3, <2>0 DEF Later, IInv, TypeOK, SpanOf
  <2>2. Scanned' = Scanned \cup {i}
    BY <1>3, ScannedGrows DEF Later, IInv, TypeOK
  <2>3. \A k \in Scanned : array[k] \in Item
    BY ItemAssumption DEF Scanned
  <2>4. PrefixExtremes'
    <3>1. init' /\ Scanned' # {} /\ array' = array
      BY <1>3, <2>2 DEF Later
    <3>2. (\E k \in Scanned' : array[k] = lowest') /\ (\E k \in Scanned' : array[k] = highest')
      BY <1>3, <2>2 DEF Later, IInv, PrefixExtremes
    <3>3. \A k \in Scanned' : Key[lowest'] <= Key[array[k]] /\ Key[array[k]] <= Key[highest']
      <4>1. Key[lowest] \in Int /\ Key[highest] \in Int /\ Key[array[i]] \in Int
        BY <2>0 DEF IInv, TypeOK
      <4>2. \A k \in Scanned : Key[array[k]] \in Int
        BY <2>3
      <4>3. Key[lowest] <= Key[highest]
        BY <1>3, <4>1, <4>2 DEF Later, IInv, PrefixExtremes
      <4>4. \A k \in Scanned : Key[lowest] <= Key[array[k]] /\ Key[array[k]] <= Key[highest]
        BY <1>3 DEF Later, IInv, PrefixExtremes
      <4> QED
        BY <1>3, <2>2, <4>1, <4>2, <4>3, <4>4 DEF Later
    <3> QED
      BY <3>1, <3>2, <3>3 DEF PrefixExtremes
  <2> QED
    BY <2>1, <2>4 DEF IInv
<1>4. CASE UNCHANGED vars
  BY <1>4 DEF vars, IInv, TypeOK, PrefixExtremes, Scanned, Uninitialised
<1> QED
  BY <1>1, <1>2, <1>3, <1>4 DEF Next

\* The prefix invariant holds throughout: minmax_t's locals are always the
\* extremes of the kept objects scanned so far (work.cpp 30-41).
THEOREM PrefixInvariant == Spec => []IInv
BY InitIInv, NextIInv, PTL DEF Spec

\* At the return the scanned prefix is the whole span.
LEMMA IInvSeeds == IInv => SeedsFromObjects
<1> SUFFICES ASSUME IInv, Returned
             PROVE  <<Key[lowest], Key[highest]>>
                      \in SeedsOf(KeptKeys(array, Keep, Key), debug, Key[Zero], Range(Key))
  BY DEF SeedsFromObjects
<1> USE ItemAssumption, KeyAssumption, SizesAssumption
<1> DEFINE keys == KeptKeys(array, Keep, Key)
<1>1. Scanned = { k \in 0 .. size-1 : array[k] \in Keep }
  BY DEF Returned, Scanned
<1>2. DOMAIN array = 0 .. size-1
  BY DEF IInv, TypeOK, SpanOf
<1>3. keys = { Key[array[k]] : k \in Scanned }
  BY <1>1, <1>2 DEF KeptKeys, Range
<1>4. keys \in SUBSET Int
  BY DEF KeptKeys
<1>5. CASE init
  <2>1. Key[lowest] \in keys /\ Key[highest] \in keys
    BY <1>3, <1>5 DEF IInv, PrefixExtremes
  <2>2. \A x \in keys : Key[lowest] <= x /\ x <= Key[highest]
    BY <1>3, <1>5 DEF IInv, PrefixExtremes
  <2> QED
    BY <2>1, <2>2 DEF SeedsOf
<1>6. CASE ~init
  <2>1. keys = {}
    BY <1>3, <1>6 DEF IInv, PrefixExtremes
  <2>2. lowest \in Uninitialised /\ highest \in Uninitialised
    BY <1>6 DEF IInv, PrefixExtremes
  <2>3. DOMAIN Key = Item
    OBVIOUS
  <2> QED
    BY <2>1, <2>2, <2>3 DEF SeedsOf, Uninitialised, Range
<1> QED
  BY <1>5, <1>6

\* minmax_t's results are a function of the kept objects alone (work.cpp 15-44),
\* for spans of every size: the seeds survive any reordering of the file.
THEOREM SeedsTheorem == Spec => []SeedsFromObjects
BY PrefixInvariant, IInvSeeds, PTL

-----------------------------------------------------------------------------
(***************************************************************************)
(* Sampling: next_long().                                                  *)
(***************************************************************************)

\* The powers of 2, which the provers know only as the sizes of power sets.
LEMMA PowStep ==
    ASSUME NEW n \in Nat
    PROVE  2^n \in Nat \ {0} /\ 2^(n+1) = 2 * 2^n
<1> DEFINE S == 1 .. n
           T == 1 .. n+1
           x == n + 1
           A == SUBSET S
           B == { s \cup {x} : s \in A }
<1>1. IsFiniteSet(S) /\ Cardinality(S) = n /\ IsFiniteSet(T) /\ Cardinality(T) = n + 1
  BY FS_Interval
<1>2. T = S \cup {x} /\ x \notin S
  OBVIOUS
<1> HIDE DEF S, T, x
<1>3. IsFiniteSet(A) /\ Cardinality(A) = 2^n /\ Cardinality(SUBSET T) = 2^(n+1)
  BY <1>1, FS_SUBSET
<1>4. SUBSET T = A \cup B
  <2>1. ASSUME NEW t \in SUBSET T PROVE t \in A \cup B
    <3>1. CASE x \in t
      <4>1. t \ {x} \in A /\ t = (t \ {x}) \cup {x}
        BY <1>2, <3>1
      <4> QED  BY <4>1
    <3>2. CASE x \notin t
      BY <1>2, <3>2
    <3> QED  BY <3>1, <3>2
  <2>2. A \cup B \subseteq SUBSET T
    BY <1>2
  <2> QED  BY <2>1, <2>2
<1>5. A \cap B = {}
  BY <1>2
<1>6. ExistsBijection(A, B)
  <2> DEFINE f == [s \in A |-> s \cup {x}]
  <2>1. f \in [A -> B]
    BY Zenon
  <2>2. ASSUME NEW s \in A, NEW t \in A, f[s] = f[t] PROVE s = t
    <3>1. s \cup {x} = t \cup {x} /\ x \notin s /\ x \notin t
      BY <1>2, <2>2
    <3> QED  BY <3>1
  <2>3. f \in Injection(A, B)
    BY <2>1, <2>2, Fun_IsInj, Zenon
  <2>4. f \in Surjection(A, B)
    BY <2>1, Zenon DEF Surjection
  <2> QED  BY <2>3, <2>4, Zenon DEF ExistsBijection, Bijection
<1> HIDE DEF A, B
<1>7. IsFiniteSet(B) /\ Cardinality(B) = 2^n
  BY <1>3, <1>6, FS_Bijection
<1>8. Cardinality(SUBSET T) = Cardinality(A) + Cardinality(B) - Cardinality({})
  BY <1>3, <1>4, <1>5, <1>7, FS_Union
<1>9. 2^n \in Nat
  BY <1>3, FS_CardinalityType
<1>10. {} \in A
  BY DEF A
<1>11. 2^n # 0
  BY <1>3, <1>10, FS_EmptySet
<1>12. Cardinality({}) = 0
  BY FS_EmptySet
<1> QED  BY <1>3, <1>7, <1>8, <1>9, <1>11, <1>12

LEMMA PowAdd ==
    ASSUME NEW a \in Nat, NEW b \in Nat
    PROVE  2^(a+b) = 2^a * 2^b
<1> DEFINE S == { m \in Nat : 2^(a+m) = 2^a * 2^m }
<1>1. 0 \in S
  <2>1. 2^0 = 1 /\ a + 0 = a /\ 2^a \in Nat
    BY PowStep
  <2> QED  BY <2>1
<1>2. ASSUME NEW m \in Nat, m \in S PROVE m + 1 \in S
  <2>1. a + m \in Nat /\ a + (m + 1) = (a + m) + 1
    OBVIOUS
  <2>2. 2^(a+(m+1)) = 2 * 2^(a+m) /\ 2^(m+1) = 2 * 2^m /\ 2^m \in Nat /\ 2^a \in Nat
    BY <2>1, PowStep
  <2>3. 2^(a+m) = 2^a * 2^m
    BY <1>2
  <2> QED  BY <2>2, <2>3
<1>3. S = Nat
  <2> HIDE DEF S
  <2>1. S \in SUBSET Nat
    BY DEF S
  <2> QED  BY <1>1, <1>2, <2>1, AllNaturals
<1>4. b \in S
  <2> HIDE DEF S
  <2> QED  BY <1>3
<1> QED  BY <1>4

\* What the provers need to be told of products.
LEMMA Times ==
    ASSUME NEW a \in Nat, NEW b \in Nat, NEW c \in Nat
    PROVE  /\ a <= b => c * a <= c * b /\ a * c <= b * c
           /\ a < b /\ c # 0 => c * a < c * b /\ a * c < b * c
<1>1. CASE a <= b
  <2>1. PICK e \in Nat : b = a + e
    <3>1. b - a \in Nat /\ b = a + (b - a)
      BY <1>1
    <3> QED  BY <3>1
  <2>2. c * b = c * a + c * e /\ c * e \in Nat
    BY <2>1
  <2>3. e # 0 /\ c # 0 => c * e # 0
    OBVIOUS
  <2>4. a * c = c * a /\ b * c = c * b /\ c * a \in Nat
    OBVIOUS
  <2> QED  BY <2>1, <2>2, <2>3, <2>4
<1>2. CASE b < a
  BY <1>2
<1> QED  BY <1>1, <1>2

LEMMA PowOrder ==
    ASSUME NEW a \in Nat, NEW b \in Nat
    PROVE  /\ a <= b => 2^a <= 2^b
           /\ a < b => 2 * 2^a <= 2^b
           /\ 2^a <= 2^b => a <= b
<1>1. ASSUME NEW c \in Nat, NEW d \in Nat, c <= d PROVE 2^c <= 2^d
  <2>1. d - c \in Nat /\ d = c + (d - c)
    BY <1>1
  <2>2. 2^d = 2^c * 2^(d-c) /\ 2^(d-c) \in Nat \ {0} /\ 2^c \in Nat
    BY <2>1, PowAdd, PowStep
  <2>3. 2^c * 1 <= 2^c * 2^(d-c)
    BY <2>2, Times
  <2> QED  BY <2>2, <2>3
<1>2. ASSUME NEW c \in Nat, NEW d \in Nat, c < d PROVE 2 * 2^c <= 2^d
  <2>1. c + 1 \in Nat /\ c + 1 <= d /\ 2^(c+1) = 2 * 2^c
    BY <1>2, PowStep
  <2> QED  BY <1>1, <2>1
<1>3. 2^a \in Nat \ {0} /\ 2^b \in Nat \ {0}
  BY PowStep
<1> QED  BY <1>1, <1>2, <1>3

\* Division by a unit.
LEMMA DivIs ==
    ASSUME NEW n \in Nat, NEW u \in Nat \ {0}
    PROVE  /\ n \div u \in Nat /\ n % u \in 0 .. u-1
           /\ n = u * (n \div u) + (n % u)
BY SMTT(30)

LEMMA DivLess ==
    ASSUME NEW n \in Nat, NEW u \in Nat \ {0}, NEW b \in Nat
    PROVE  n \div u < b <=> n < u * b
<1> DEFINE q == n \div u
           r == n % u
<1>1. q \in Nat /\ r \in 0 .. u-1 /\ n = u * q + r
  BY DivIs
<1> HIDE DEF q, r
<1>2. CASE q < b
  <2>1. u * (q + 1) <= u * b
    BY <1>1, <1>2, Times
  <2>2. u * (q + 1) = u * q + u
    BY <1>1
  <2> QED  BY <1>1, <1>2, <2>1, <2>2 DEF q
<1>3. CASE b <= q
  <2>1. u * b <= u * q
    BY <1>1, <1>3, Times
  <2>2. u * b \in Nat /\ u * q \in Nat
    BY <1>1
  <2> QED  BY <1>1, <1>3, <2>1, <2>2 DEF q
<1> QED  BY <1>1, <1>2, <1>3

-----------------------------------------------------------------------------
\* What Round(n, d) does: n/d lies in the unit 2^k, m of them and r/d more,
\* and q of them are the answer.
Rounds(n, d, k, m, r, q) ==
    /\ n < (d * 2^k) * 2^P /\ (k = 0 \/ (d * 2^(k-1)) * 2^P <= n)
    /\ n = (d * 2^k) * m + r /\ r < d * 2^k
    /\ q = m \/ q = m + 1
    /\ 2*r < d * 2^k => q = m
    /\ 2*r > d * 2^k => q = m + 1

LEMMA DoubleSizes ==
    /\ P \in Nat \ {0} /\ RandBits \in Nat \ {0} /\ U \in Nat /\ U = P + RandBits
    /\ One \in Nat \ {0} /\ One = 2^P * 2^RandBits /\ 2^P \in Nat \ {0} /\ 2^RandBits \in Nat \ {0}
<1>1. P \in Nat \ {0} /\ RandBits \in Nat \ {0} /\ U \in Nat /\ U = P + RandBits
  BY PAssumption DEF U
<1>2. One = 2^P * 2^RandBits
  BY <1>1, PowAdd DEF One
<1>3. One \in Nat \ {0} /\ 2^P \in Nat \ {0} /\ 2^RandBits \in Nat \ {0}
  BY <1>1, PowStep DEF One
<1> QED  BY <1>1, <1>2, <1>3

LEMMA RoundIs ==
    ASSUME NEW n \in Nat, NEW d \in Nat \ {0}, n < (d * 2^(U+P)) * 2^P
    PROVE  \E k \in Nat, m \in Nat, r \in Nat, q \in Nat :
              Rounds(n, d, k, m, r, q) /\ Round(n, d) = 2^k * q
<1> DEFINE S == { k \in 0 .. U + P : n \div (d * 2^k) < 2^P }
           Chosen(k) == /\ n \div (d * 2^k) < 2^P
                        /\ k = 0 \/ n \div (d * 2^(k-1)) >= 2^P
           u(k) == d * 2^k
<1>1. U + P \in Nat /\ 2^P \in Nat
  BY DoubleSizes
<1>2. \A k \in Nat : u(k) \in Nat \ {0}
  <2> TAKE k \in Nat
  <2>1. 2^k \in Nat \ {0}
    BY PowStep
  <2> QED  BY <2>1
<1>3. \A k \in Nat : n \div u(k) < 2^P <=> n < u(k) * 2^P
  <2> TAKE k \in Nat
  <2>1. u(k) \in Nat \ {0}
    BY <1>2
  <2> HIDE DEF u
  <2> QED  BY <1>1, <2>1, DivLess
<1>d. \A k \in Nat : n \div u(k) \in Nat
  <2> TAKE k \in Nat
  <2>1. u(k) \in Nat \ {0}
    BY <1>2
  <2> HIDE DEF u
  <2> QED  BY <2>1, DivIs
<1>4. U + P \in S
  BY <1>1, <1>3
<1>5. PICK j \in S : \A l \in S : j <= l
  <2>1. S \in SUBSET Nat
    BY <1>1
  <2> HIDE DEF S
  <2> QED  BY <1>4, <2>1, LeastOf
<1>6. Chosen(j)
  <2>1. n \div u(j) < 2^P
    OBVIOUS
  <2>2. ASSUME j # 0 PROVE n \div u(j-1) >= 2^P
    <3>1. j - 1 \in 0 .. U + P /\ ~(j <= j - 1)
      BY <1>1, <2>2
    <3>2. j - 1 \notin S
      BY <1>5, <3>1
    <3>3. ~(n \div u(j-1) < 2^P)
      BY <3>1, <3>2
    <3>4. n \div u(j-1) \in Nat
      BY <1>1, <1>d, <3>1
    <3> QED  BY <1>1, <3>3, <3>4
  <2> QED  BY <2>1, <2>2
<1>7. PICK k \in 0 .. U + P : Chosen(k) /\ Round(n, d) = RoundedOff(n, d, k)
  <2> DEFINE c == CHOOSE k \in 0 .. U + P : Chosen(k)
  <2>1. Round(n, d) = RoundedOff(n, d, c)
    BY DEF Round
  <2>2. j \in 0 .. U + P
    OBVIOUS
  <2> HIDE DEF Chosen
  <2>3. c \in 0 .. U + P /\ Chosen(c)
    BY <1>6, <2>2
  <2> HIDE DEF c
  <2> QED  BY <2>1, <2>3
<1>8. k \in Nat /\ (k # 0 => k-1 \in Nat)
  BY <1>1
<1> DEFINE m == n \div u(k)
           r == n % u(k)
           q == IF 2*r > u(k) \/ (2*r = u(k) /\ m % 2 = 1) THEN m + 1 ELSE m
<1>9. Round(n, d) = 2^k * q
  BY <1>7 DEF RoundedOff
<1>10. m \in Nat /\ r \in 0 .. u(k)-1 /\ n = u(k) * m + r
  <2>1. u(k) \in Nat \ {0}
    BY <1>2, <1>8
  <2> HIDE DEF u
  <2> QED  BY <2>1, DivIs
<1>11. n < u(k) * 2^P /\ (k = 0 \/ u(k-1) * 2^P <= n)
  <2>1. n < u(k) * 2^P
    BY <1>3, <1>7, <1>8
  <2>2. ASSUME k # 0 PROVE u(k-1) * 2^P <= n
    <3>1. n \div u(k-1) >= 2^P /\ n \div u(k-1) \in Nat
      BY <1>d, <1>7, <1>8, <2>2
    <3>2. ~(n < u(k-1) * 2^P)
      <4>1. ~(n \div u(k-1) < 2^P)
        BY <1>1, <3>1
      <4> QED  BY <1>3, <1>8, <2>2, <4>1
    <3>3. u(k-1) * 2^P \in Nat
      BY <1>1, <1>2, <1>8, <2>2
    <3> QED  BY <3>2, <3>3
  <2> QED  BY <2>1, <2>2
<1>12. u(k) \in Nat
  BY <1>2, <1>8
<1> HIDE DEF m, r
<1>13. q \in Nat /\ r \in Nat
  BY <1>10, <1>12
<1>14. Rounds(n, d, k, m, r, q)
  <2>1. q = m \/ q = m + 1
    OBVIOUS
  <2>2. 2*r < u(k) => q = m
    <3> HIDE DEF u
    <3> QED  BY <1>10, <1>12
  <2>3. 2*r > u(k) => q = m + 1
    <3> HIDE DEF u
    <3> QED  BY <1>10, <1>12
  <2>4. r < u(k)
    <3> HIDE DEF u
    <3> QED  BY <1>10, <1>12
  <2> HIDE DEF q
  <2> QED  BY <1>10, <1>11, <2>1, <2>2, <2>3, <2>4 DEF Rounds
<1> HIDE DEF q
<1> QED  BY <1>8, <1>9, <1>10, <1>13, <1>14

LEMMA DivUnique ==
    ASSUME NEW u \in Nat \ {0}, NEW m \in Nat, NEW r \in Nat, NEW t \in Nat, r < u,
           u * m + r = u * t
    PROVE  m = t /\ r = 0
<1>1. u * m \in Nat /\ u * t \in Nat
  OBVIOUS
<1>2. CASE m < t
  <2>1. u * (m + 1) <= u * t /\ u * (m + 1) = u * m + u
    BY <1>2, Times
  <2> QED  BY <1>1, <2>1
<1>3. CASE t < m
  <2>1. u * t < u * m
    BY <1>3, Times
  <2> QED  BY <1>1, <2>1
<1> QED  BY <1>1, <1>2, <1>3

\* There is room for whatever occurs.
LEMMA RoundRoom ==
    ASSUME NEW n \in Nat, NEW d \in Nat \ {0}, n <= d * (One * 2^P)
    PROVE  n < (d * 2^(U+P)) * 2^P
<1> DEFINE T == 2^P
           B == 2^(U+P)
<1>1. T \in Nat \ {0} /\ One \in Nat \ {0} /\ B = One * T /\ 2 <= T
  <2>0. 2^0 = 1
    OBVIOUS
  <2>1. 2 * 2^0 <= 2^P
    <3>1. 0 \in Nat /\ P \in Nat /\ 0 < P
      BY DoubleSizes
    <3> QED  BY <3>1, PowOrder
  <2> QED  BY <2>0, <2>1, DoubleSizes, PowAdd DEF One
<1> HIDE DEF T, B
<1>2. B \in Nat \ {0}
  BY <1>1
<1>3. d * B \in Nat \ {0}
  BY <1>2
<1>4. (d * B) * 1 < (d * B) * T
  BY <1>1, <1>3, Times
<1>5. n <= d * B
  BY <1>1 DEF T
<1>6. n < (d * B) * T
  <2>1. (d * B) * 1 = d * B /\ (d * B) * T \in Nat
    BY <1>1, <1>3
  <2> QED  BY <1>3, <1>4, <1>5, <2>1
<1> QED  BY <1>6 DEF T, B

LEMMA CountBelow ==
    ASSUME NEW n \in Nat, NEW d \in Nat \ {0}, NEW k \in Nat, NEW m \in Nat, NEW r \in Nat,
           NEW q \in Nat, Rounds(n, d, k, m, r, q)
    PROVE  m < 2^P /\ q <= 2^P
<1> DEFINE u == d * 2^k
<1>1. u \in Nat \ {0} /\ 2^P \in Nat
  <2>1. 2^k \in Nat \ {0} /\ 2^P \in Nat
    BY PowStep, DoubleSizes
  <2> QED  BY <2>1
<1>2. n < u * 2^P /\ n = u * m + r /\ (q = m \/ q = m + 1)
  BY DEF Rounds
<1> HIDE DEF u
<1>3. ASSUME 2^P <= m PROVE FALSE
  <2>1. u * 2^P <= u * m
    BY <1>1, <1>3, Times
  <2>2. u * m \in Nat /\ u * 2^P \in Nat
    BY <1>1
  <2> QED  BY <1>2, <2>1, <2>2
<1> QED  BY <1>1, <1>2, <1>3

\* A number of at most P bits is a double.
LEMMA RoundKeeps ==
    ASSUME NEW e \in 0 .. U, NEW b \in 0 .. 2^P
    PROVE  Round(2^e * b, 1) = 2^e * b
<1> DEFINE E == 2^e
           T == 2^P
           n == E * b
<1>1. /\ E \in Nat \ {0} /\ T \in Nat \ {0} /\ One \in Nat \ {0} /\ E <= One
      /\ e \in Nat /\ b \in Nat /\ b <= T
  BY DoubleSizes, PowStep, PowOrder DEF One
<1> HIDE DEF E, T
<1>2. n \in Nat /\ n <= E * T /\ E * T <= One * T
  BY <1>1, Times
<1>3. n < (1 * 2^(U+P)) * 2^P
  <2>1. n <= 1 * (One * 2^P)
    BY <1>1, <1>2 DEF T
  <2> HIDE DEF n
  <2> QED  BY <1>2, <2>1, RoundRoom
<1>4. PICK k \in Nat, m \in Nat, r \in Nat, q \in Nat :
          Rounds(n, 1, k, m, r, q) /\ Round(n, 1) = 2^k * q
  <2> HIDE DEF n
  <2> QED  BY <1>2, <1>3, RoundIs
<1> DEFINE p == 2^k
<1>5. p \in Nat \ {0}
  BY PowStep
<1>6. /\ k = 0 \/ 2^(k-1) * T <= n
      /\ n = p * m + r /\ r < p /\ (2*r < p => q = m)
  <2>1. 1 * p = p /\ (k # 0 => 1 * 2^(k-1) = 2^(k-1))
    <3>1. k # 0 => 2^(k-1) \in Nat
      BY PowStep
    <3> QED  BY <1>5, <3>1
  <2> HIDE DEF n
  <2> QED  BY <1>4, <2>1 DEF Rounds, T
<1>7. \E t \in Nat : n = p * t
  <2>1. CASE k <= e
    <3>1. 2^e = p * 2^(e-k) /\ 2^(e-k) \in Nat
      <4>1. e - k \in Nat /\ e = k + (e - k)
        BY <1>1, <2>1
      <4> QED  BY <4>1, PowAdd, PowStep
    <3> DEFINE x == 2^(e-k)
    <3>2. E = p * x /\ x \in Nat
      BY <3>1 DEF E
    <3> HIDE DEF x, p
    <3>3. n = p * (x * b) /\ x * b \in Nat
      BY <1>1, <1>5, <3>2
    <3> QED  BY <3>3
  <2>2. CASE e < k
    <3> DEFINE h == 2^(k-1)
    <3>1. h \in Nat \ {0} /\ p = 2 * h /\ h * T <= n /\ k - 1 \in Nat
      <4>1. k - 1 \in Nat /\ (k - 1) + 1 = k
        BY <1>1, <2>2
      <4> QED  BY <1>1, <1>6, <2>2, <4>1, PowStep
    <3>2. E <= h
      BY <1>1, <2>2, <3>1, PowOrder DEF E
    <3> HIDE DEF h, p
    <3>3. h * T <= E * T
      BY <1>1, <1>2, <3>1
    <3>4. h = E
      <4>1. ASSUME E < h PROVE FALSE
        <5>1. E * T < h * T
          BY <1>1, <3>1, <4>1, Times
        <5>2. E * T \in Nat /\ h * T \in Nat
          BY <1>1, <3>1
        <5> QED  BY <3>3, <5>1, <5>2
      <4> QED  BY <1>1, <3>1, <3>2, <4>1
    <3>5. b = T
      <4>1. ASSUME b < T PROVE FALSE
        <5>1. E * b < E * T
          BY <1>1, <4>1, Times
        <5>2. E * b \in Nat /\ E * T \in Nat
          BY <1>1
        <5> QED  BY <3>1, <3>4, <5>1, <5>2
      <4> QED  BY <1>1, <4>1
    <3>6. PICK t \in Nat : T = 2 * t
      <4>1. P - 1 \in Nat /\ (P - 1) + 1 = P
        BY DoubleSizes
      <4>2. 2^P = 2 * 2^(P-1) /\ 2^(P-1) \in Nat
        BY <4>1, PowStep
      <4> QED  BY <4>2 DEF T
    <3>7. E * (2 * t) = (2 * E) * t
      BY <1>1
    <3> QED  BY <3>1, <3>4, <3>5, <3>6, <3>7
  <2> QED  BY <1>1, <2>1, <2>2
<1>8. PICK t \in Nat : n = p * t
  BY <1>7
<1> HIDE DEF n, p
<1>9. m = t /\ r = 0
  BY <1>5, <1>6, <1>8, DivUnique
<1>10. q = m
  BY <1>5, <1>6, <1>9
<1>11. Round(n, 1) = n
  BY <1>4, <1>8, <1>9, <1>10 DEF p
<1> QED  BY <1>11 DEF n, E

\* A sample is at most 1; and if less, by a unit of the numbers up to 1.
LEMMA SampleIs ==
    ASSUME NEW n \in Nat, NEW d \in Nat \ {0}, n <= d * One
    PROVE  /\ Round(n, d) \in Nat
           /\ Round(n, d) = One \/ Round(n, d) + 2^RandBits <= One
<1> DEFINE R == 2^RandBits
           T == 2^P
           H == 2^(P-1)
<1>1. /\ R \in Nat \ {0} /\ T \in Nat \ {0} /\ One = T * R /\ H \in Nat \ {0} /\ T = 2 * H
      /\ RandBits \in Nat
  <2>1. P - 1 \in Nat /\ (P - 1) + 1 = P
    BY DoubleSizes
  <2> QED  BY <2>1, DoubleSizes, PowStep
<1>2. n < (d * 2^(U+P)) * 2^P
  <2>1. One * 1 <= One * 2^P /\ One \in Nat /\ One * 2^P \in Nat
    BY DoubleSizes, Times
  <2>2. d * One <= d * (One * 2^P) /\ d * One \in Nat /\ d * (One * 2^P) \in Nat
    <3> DEFINE x == One * 2^P
    <3>1. One <= x /\ x \in Nat /\ One \in Nat
      BY <2>1
    <3> HIDE DEF x
    <3>2. d * One <= d * x /\ d * One \in Nat /\ d * x \in Nat
      BY <3>1, Times
    <3> QED  BY <3>2 DEF x
  <2> QED  BY <2>2, RoundRoom
<1>3. PICK k \in Nat, m \in Nat, r \in Nat, q \in Nat :
          Rounds(n, d, k, m, r, q) /\ Round(n, d) = 2^k * q
  BY <1>2, RoundIs
<1>4. m < T /\ q <= T
  BY <1>3, CountBelow
<1> DEFINE p == 2^k
<1>5. p \in Nat \ {0}
  BY PowStep
<1> HIDE DEF R, T, H
<1>6. CASE k < RandBits
  <2>1. 2 * p <= R
    BY <1>1, <1>6, PowOrder DEF R
  <2> HIDE DEF p
  <2>2. p * q <= p * T /\ (2 * p) * T <= R * T /\ (2 * p) * T = 2 * (p * T)
    BY <1>1, <1>4, <1>5, <2>1, Times
  <2>3. 2 * R <= T * R
    BY <1>1, Times
  <2>4. p * q \in Nat /\ p * T \in Nat /\ R * T = One /\ T * R = One /\ One \in Nat
    BY <1>1, <1>5
  <2>5. p * q + R <= One
    BY <1>1, <2>2, <2>3, <2>4
  <2> QED  BY <1>3, <2>4, <2>5 DEF p, R
<1>7. CASE k = RandBits
  <2>1. p = R
    BY <1>7 DEF R
  <2> HIDE DEF p
  <2>2. q = T => p * q = One
    BY <1>1, <2>1
  <2>3. q # T => p * q + R <= One
    <3>1. ASSUME q # T PROVE p * q + R <= One
      <4>1. q + 1 <= T
        BY <1>1, <1>4, <3>1
      <4>2. R * (q + 1) <= R * T /\ R * (q + 1) = R * q + R
        BY <1>1, <4>1, Times
      <4> QED  BY <1>1, <2>1, <4>2
    <3> QED  BY <3>1
  <2>4. p * q \in Nat
    BY <1>5
  <2> QED  BY <1>3, <2>2, <2>3, <2>4 DEF p, R
<1>8. CASE RandBits < k
  <2> DEFINE h == 2^(k-1)
  <2>1. h \in Nat \ {0} /\ p = 2 * h /\ k - 1 \in Nat /\ RandBits <= k - 1
    <3>1. k - 1 \in Nat /\ (k - 1) + 1 = k /\ RandBits <= k - 1
      BY <1>1, <1>8
    <3> QED  BY <3>1, PowStep
  <2>2. R <= h
    BY <1>1, <2>1, PowOrder DEF R
  <2>3. (d * h) * T <= n /\ n = (d * p) * m + r /\ r < d * p /\ (2*r < d * p => q = m)
    BY <1>1, <1>3, <1>8 DEF Rounds, T
  <2> HIDE DEF h, p
  <2>4. h = R
    <3>1. ASSUME R < h PROVE FALSE
      <4>1. (d * R) * T < (d * h) * T
        <5>1. d * R < d * h /\ d * R \in Nat /\ d * h \in Nat
          BY <1>1, <2>1, <3>1, Times
        <5> QED  BY <1>1, <5>1, Times
      <4>2. (d * R) * T = d * One /\ d * One \in Nat /\ (d * h) * T \in Nat
        BY <1>1, <2>1
      <4> QED  BY <2>3, <4>1, <4>2
    <3> QED  BY <1>1, <2>1, <2>2, <3>1
  <2>5. n = (d * p) * H
    <3>1. (d * R) * T = d * One /\ d * One \in Nat
      BY <1>1
    <3>2. n = d * One
      BY <2>3, <2>4, <3>1
    <3>3. (d * p) * H = d * One
      <4>1. (d * (2 * R)) * H = (d * R) * (2 * H)
        BY <1>1
      <4> QED  BY <1>1, <2>1, <2>4, <3>1, <4>1
    <3> QED  BY <3>2, <3>3
  <2>6. d * p \in Nat \ {0}
    BY <1>5
  <2>7. m = H /\ r = 0
    <3> DEFINE u == d * p
    <3>1. u \in Nat \ {0} /\ u * m + r = u * H /\ r < u
      BY <2>3, <2>5, <2>6
    <3> HIDE DEF u
    <3> QED  BY <1>1, <3>1, DivUnique
  <2>8. q = H
    BY <2>3, <2>6, <2>7
  <2>9. p * q = One
    <3>1. (2 * R) * H = (2 * H) * R
      BY <1>1
    <3> QED  BY <1>1, <2>1, <2>4, <2>8, <3>1
  <2> QED  BY <1>3, <2>9, DoubleSizes DEF p
<1> QED  BY <1>1, <1>6, <1>7, <1>8

\* A sample below 1 times an index rounds to less than the index.
LEMMA ProductBelow ==
    ASSUME NEW s \in Nat, s + 2^RandBits <= One, NEW b \in 1 .. 2^P
    PROVE  Round(s * b, 1) \in Nat /\ Round(s * b, 1) < One * b
<1> DEFINE R == 2^RandBits
           T == 2^P
           n == s * b
<1>1. /\ R \in Nat \ {0} /\ T \in Nat \ {0} /\ One \in Nat \ {0} /\ One = T * R
      /\ b \in Nat \ {0} /\ b <= T /\ s + R <= One
  BY DoubleSizes
<1> HIDE DEF R, T
<1>2. n \in Nat /\ n + R * b <= One * b /\ One * b <= One * T
  <2>1. (s + R) * b <= One * b /\ (s + R) * b = s * b + R * b
    BY <1>1, Times
  <2>2. One * b <= One * T
    BY <1>1, Times
  <2> QED  BY <1>1, <2>1, <2>2
<1>3. R * b \in Nat \ {0} /\ One * b \in Nat /\ One * T \in Nat
  BY <1>1
<1> HIDE DEF n
<1>4. n < (1 * 2^(U+P)) * 2^P
  <2>1. n <= 1 * (One * 2^P)
    BY <1>2, <1>3 DEF T
  <2> QED  BY <1>2, <2>1, RoundRoom
<1>5. PICK k \in Nat, m \in Nat, r \in Nat, q \in Nat :
          Rounds(n, 1, k, m, r, q) /\ Round(n, 1) = 2^k * q
  BY <1>2, <1>4, RoundIs
<1> DEFINE p == 2^k
<1>6. p \in Nat \ {0}
  BY PowStep
<1>7. /\ k = 0 \/ 2^(k-1) * T <= n
      /\ n = p * m + r /\ r < p /\ (2*r < p => q = m) /\ (q = m \/ q = m + 1)
  <2>1. 1 * p = p /\ (k # 0 => 1 * 2^(k-1) = 2^(k-1))
    <3>1. k # 0 => 2^(k-1) \in Nat
      BY PowStep
    <3> QED  BY <1>6, <3>1
  <2> QED  BY <1>5, <2>1 DEF Rounds, T
<1>8. p * q < One * b
  <2>1. CASE q = m
    <3>1. p * q \in Nat /\ n = p * q + r
      BY <1>6, <1>7, <2>1
    <3> QED  BY <1>2, <1>3, <3>1
  <2>2. CASE q # m
    <3>1. k # 0
      <4>1. ASSUME k = 0 PROVE FALSE
        <5>1. p = 1
          BY <4>1
        <5> HIDE DEF p
        <5> QED  BY <1>7, <2>2, <5>1
      <4> QED  BY <4>1
    <3> DEFINE h == 2^(k-1)
    <3>2. h \in Nat \ {0} /\ p = 2 * h
      <4>1. k - 1 \in Nat /\ (k - 1) + 1 = k
        BY <3>1
      <4> QED  BY <4>1, PowStep
    <3>3. h * T <= n
      BY <1>7, <3>1
    <3> HIDE DEF h, p
    <3>4. h < R * b
      <4>1. ASSUME R * b <= h PROVE FALSE
        <5> DEFINE x == R * b
        <5>1. x * T <= h * T
          BY <1>1, <1>3, <3>2, <4>1, Times
        <5>2. x * T = One * b /\ h * T \in Nat
          BY <1>1, <3>2
        <5> QED  BY <1>2, <1>3, <3>3, <5>1, <5>2
      <4> QED  BY <1>3, <3>2, <4>1
    <3>5. h <= r /\ q = m + 1
      BY <1>7, <2>2, <3>2
    <3>6. p * q = p * m + p /\ p * m \in Nat
      BY <1>6, <3>5
    <3> QED  BY <1>2, <1>3, <1>7, <3>2, <3>4, <3>5, <3>6
  <2> QED  BY <2>1, <2>2
<1>9. p * q \in Nat
  BY <1>6
<1> QED  BY <1>5, <1>8, <1>9 DEF n, p

\* An index is a double, so that next_long() rounds the product alone.
LEMMA NextLongRounds ==
    ASSUME NEW s \in Nat, NEW b \in 1 .. 2^P
    PROVE  NextLong(s, b) = Round(s * b, 1) \div One
<1>1. 2^P \in Nat /\ b \in 0 .. 2^P /\ U \in Nat /\ b \in Nat
  BY DoubleSizes
<1>2. Round(b, 1) = b
  <2>1. 2^0 = 1
    OBVIOUS
  <2>2. PICK e \in 0 .. U : e = 0
    BY <1>1
  <2>3. Round(2^e * b, 1) = 2^e * b
    BY <1>1, RoundKeeps
  <2>4. 1 * b = b
    BY <1>1
  <2> QED  BY <2>1, <2>2, <2>3, <2>4
<1> QED  BY <1>2 DEF NextLong

\* The two roundings of next_long() together.
LEMMA NextLongIs ==
    ASSUME NEW s \in Nat, s = One \/ s + 2^RandBits <= One, NEW b \in 1 .. 2^P
    PROVE  /\ NextLong(s, b) \in 0 .. b
           /\ s # One => NextLong(s, b) < b
<1>1. One \in Nat \ {0} /\ 2^P \in Nat /\ b \in 0 .. 2^P /\ U \in Nat /\ b \in Nat
  BY DoubleSizes
<1>3. NextLong(s, b) = Round(s * b, 1) \div One
  BY <1>1, NextLongRounds
<1>4. CASE s = One
  <2>1. Round(One * b, 1) = One * b
    BY <1>1, RoundKeeps DEF One
  <2>2. (One * b) \div One = b
    <3> DEFINE n == One * b
    <3>1. n \in Nat /\ n \div One \in Nat /\ n % One \in 0 .. One - 1
          /\ n = One * (n \div One) + (n % One)
      <4>1. n \in Nat
        BY <1>1
      <4> HIDE DEF n
      <4> QED  BY <1>1, <4>1, DivIs
    <3> DEFINE q == n \div One
               r == n % One
    <3>2. q \in Nat /\ r \in Nat /\ r < One /\ One * q + r = One * b
      BY <1>1, <3>1
    <3> HIDE DEF q, r
    <3>3. q = b
      BY <1>1, <3>2, DivUnique
    <3> QED  BY <3>3 DEF q
  <2> QED  BY <1>1, <1>3, <1>4, <2>1, <2>2
<1>5. CASE s + 2^RandBits <= One
  <2> DEFINE n == Round(s * b, 1)
  <2>1. n \in Nat /\ n < One * b
    BY <1>5, ProductBelow
  <2> HIDE DEF n
  <2>2. n \div One \in Nat /\ n \div One < b
    BY <1>1, <2>1, DivIs, DivLess
  <2> QED  BY <1>1, <1>3, <2>2 DEF n
<1> QED  BY <1>4, <1>5

-----------------------------------------------------------------------------
\* The samples of the three generators.
IsSample(s) == s \in Nat /\ (s = One \/ s + 2^RandBits <= One)

LEMMA XoroshiroSampled ==
    ASSUME NEW s \in XoroshiroSamples
    PROVE  s \in Nat /\ s + 2^RandBits <= One
<1> DEFINE R == 2^RandBits
           T == 2^P
<1>1. PICK m \in 0 .. T - 1 : s = m * R
  BY DEF XoroshiroSamples
<1>2. R \in Nat \ {0} /\ T \in Nat \ {0} /\ One = T * R
  BY DoubleSizes
<1> HIDE DEF R, T
<1>3. m \in Nat /\ m + 1 \in Nat /\ m + 1 <= T
  BY <1>2
<1>4. (m + 1) * R <= T * R /\ (m + 1) * R = m * R + R /\ m * R \in Nat
  BY <1>2, <1>3, Times
<1> QED  BY <1>1, <1>2, <1>4 DEF R

LEMMA DrngSampled ==
    ASSUME NEW s \in DrngSamples
    PROVE  IsSample(s)
<1> DEFINE R == 2^RandBits
<1>1. PICK v \in 0 .. R - 1 : s = Round(v * One, R - 1)
  BY DEF DrngSamples
<1>2. R \in Nat /\ 2 <= R /\ One \in Nat
  <2>1. RandBits - 1 \in Nat /\ (RandBits - 1) + 1 = RandBits
    BY DoubleSizes
  <2>2. R = 2 * 2^(RandBits-1) /\ 2^(RandBits-1) \in Nat \ {0}
    BY <2>1, PowStep
  <2> QED  BY <2>2, DoubleSizes
<1> HIDE DEF R
<1>3. v \in Nat /\ R - 1 \in Nat \ {0} /\ v <= R - 1
  BY <1>2
<1>4. v * One \in Nat /\ v * One <= (R - 1) * One
  BY <1>2, <1>3, Times
<1> QED  BY <1>1, <1>3, <1>4, SampleIs DEF IsSample

LEMMA FrngSampled ==
    ASSUME NEW s \in FrngSamples
    PROVE  IsSample(s)
<1>1. PICK x \in Int : s = Fract(x)
  BY DoubleSizes, MaxAssumption DEF FrngSamples
<1> DEFINE y == x - One * (x \div One)
<1>2. y \in Nat /\ y <= 1 * One
  <2>1. One \in Nat \ {0}
    BY DoubleSizes
  <2>2. y = x % One /\ x % One \in 0 .. One - 1
    BY <2>1, SMTT(30)
  <2> QED  BY <2>1, <2>2
<1> HIDE DEF y
<1>3. IsSample(Round(y, 1))
  BY <1>2, SampleIs DEF IsSample
<1> QED  BY <1>1, <1>3 DEF Fract, y

\* Samples, and what next_long() makes of one.
SamplingInv ==
    /\ rng \in DOMAIN Samples /\ max \in 1 .. 2^P /\ sample \in Samples[rng]
    /\ draw # None => draw = NextLong(sample, max)

LEMMA SamplingKeeps == SamplingSpec => []SamplingInv
<1>1. SamplingInit => SamplingInv
  <2> SUFFICES ASSUME SamplingInit PROVE SamplingInv
    OBVIOUS
  <2>1. max \in 1 .. 2^P
    BY MaxAssumption, DoubleSizes DEF SamplingInit
  <2> QED  BY <2>1 DEF SamplingInit, SamplingInv
<1>2. SamplingInv /\ [Draw]_samplingVars => SamplingInv'
  BY Zenon DEF SamplingInv, Draw, samplingVars
<1> QED  BY <1>1, <1>2, PTL DEF SamplingSpec

\* An answer is at most the index, and the index only for a sample of 1, which
\* xoroshiro128plus does not give.
LEMMA AnswerIs ==
    ASSUME SamplingInv, Drawn
    PROVE  /\ max \in Nat \ {0} /\ draw \in 0 .. max /\ (sample # One => draw < max)
           /\ rng = "xoroshiro128plus" => sample # One
<1>1. max \in 1 .. 2^P /\ 2^P \in Nat /\ draw = NextLong(sample, max)
  BY DoubleSizes DEF SamplingInv, Drawn
<1>2. IsSample(sample) /\ (rng = "xoroshiro128plus" => sample # One)
  <2>1. CASE rng = "xoroshiro128plus"
    <3>1. sample \in XoroshiroSamples
      BY <2>1 DEF SamplingInv, Samples
    <3>2. sample \in Nat /\ sample + 2^RandBits <= One
      BY <3>1, XoroshiroSampled
    <3> QED  BY <3>2, DoubleSizes DEF IsSample
  <2>2. CASE rng = "drng"
    <3>1. sample \in DrngSamples
      BY <2>2 DEF SamplingInv, Samples
    <3> QED  BY <2>2, <3>1, DrngSampled
  <2>3. CASE rng = "frng"
    <3>1. sample \in FrngSamples
      BY <2>3 DEF SamplingInv, Samples
    <3> QED  BY <2>3, <3>1, FrngSampled
  <2> QED  BY <2>1, <2>2, <2>3 DEF SamplingInv, Samples
<1>3. NextLong(sample, max) \in 0 .. max /\ (sample # One => NextLong(sample, max) < max)
  BY <1>1, <1>2, NextLongIs DEF IsSample
<1> QED  BY <1>1, <1>2, <1>3

-----------------------------------------------------------------------------
\* A rounding of a quotient below 2^e * 2^P moves it by at most half of 2^e.
LEMMA RoundNear ==
    ASSUME NEW n \in Nat, NEW d \in Nat \ {0}, NEW e \in 0 .. U, n < (d * 2^e) * 2^P
    PROVE  /\ Round(n, d) \in Nat
           /\ 2 * (d * Round(n, d)) <= 2 * n + d * 2^e
           /\ 2 * n <= 2 * (d * Round(n, d)) + d * 2^e
<1> DEFINE T == 2^P
           E == 2^e
<1>1. /\ T \in Nat \ {0} /\ E \in Nat \ {0} /\ One \in Nat \ {0} /\ E <= One /\ e \in Nat
  BY DoubleSizes, PowStep, PowOrder DEF One
<1>2. n < (d * E) * T
  OBVIOUS
<1> HIDE DEF T, E
<1>3. n < (d * 2^(U+P)) * 2^P
  <2>1. d * E <= d * One /\ d * E \in Nat /\ d * One \in Nat
    BY <1>1, Times
  <2>2. (d * E) * T <= (d * One) * T
    BY <1>1, <2>1, Times
  <2>3. (d * One) * T = d * (One * T) /\ (d * E) * T \in Nat /\ (d * One) * T \in Nat
    BY <1>1
  <2>4. n <= d * (One * 2^P)
    BY <1>2, <2>2, <2>3 DEF T
  <2> QED  BY <2>4, RoundRoom
<1>4. PICK k \in Nat, m \in Nat, r \in Nat, q \in Nat :
          Rounds(n, d, k, m, r, q) /\ Round(n, d) = 2^k * q
  BY <1>3, RoundIs
<1> DEFINE p == 2^k
           u == d * p
<1>5. p \in Nat \ {0} /\ u \in Nat \ {0}
  <2>1. p \in Nat \ {0}
    BY PowStep
  <2> HIDE DEF p
  <2> QED  BY <2>1
<1>6. /\ k = 0 \/ (d * 2^(k-1)) * T <= n
      /\ n = u * m + r /\ r < u /\ (q = m \/ q = m + 1)
      /\ 2*r < u => q = m
      /\ 2*r > u => q = m + 1
  BY <1>4 DEF Rounds, T
<1>7. p <= E
  <2>1. CASE k <= e
    BY <1>1, <2>1, PowOrder DEF E
  <2>2. CASE e < k
    <3> DEFINE h == 2^(k-1)
    <3>1. k - 1 \in Nat /\ e <= k - 1
      BY <1>1, <2>2
    <3>2. h \in Nat /\ E <= h
      BY <1>1, <3>1, PowStep, PowOrder DEF E
    <3>3. (d * h) * T <= n
      BY <1>1, <1>6, <2>2
    <3> HIDE DEF h
    <3>4. d * E <= d * h /\ d * E \in Nat /\ d * h \in Nat
      BY <1>1, <3>2, Times
    <3>5. (d * E) * T <= (d * h) * T /\ (d * E) * T \in Nat /\ (d * h) * T \in Nat
      BY <1>1, <3>4, Times
    <3> QED  BY <1>2, <3>3, <3>5
  <2> QED  BY <1>1, <2>1, <2>2
<1>8. u <= d * E /\ d * E \in Nat
  <2> HIDE DEF p
  <2> QED  BY <1>1, <1>5, <1>7, Times
<1>9. Round(n, d) \in Nat /\ d * Round(n, d) = u * q /\ u * m \in Nat
  <2>1. Round(n, d) = p * q
    BY <1>4
  <2> HIDE DEF p
  <2> QED  BY <1>5, <2>1
<1> HIDE DEF u
<1>10. CASE q = m
  <2>1. 2 * r <= u
    BY <1>5, <1>6, <1>10
  <2> QED  BY <1>5, <1>6, <1>8, <1>9, <1>10, <2>1 DEF E
<1>11. CASE q = m + 1
  <2>1. u <= 2 * r
    BY <1>5, <1>6, <1>11
  <2>2. u * q = u * m + u
    BY <1>5, <1>11
  <2> QED  BY <1>5, <1>6, <1>8, <1>9, <2>1, <2>2 DEF E
<1> QED  BY <1>6, <1>10, <1>11

\* A product half a unit within the numbers from j up to j + 1 answers j.
LEMMA AnswersWithin ==
    ASSUME NEW s \in Nat, NEW b \in 1 .. 2^P, NEW j \in Nat, NEW e \in 0 .. U,
           s * b < 2^e * 2^P,
           2 * (j * One) + 2^e <= 2 * (s * b),
           2 * (s * b) + 2^e < 2 * ((j + 1) * One)
    PROVE  NextLong(s, b) = j
<1> DEFINE E == 2^e
           n == s * b
           y == Round(n, 1)
<1>1. One \in Nat \ {0} /\ E \in Nat \ {0} /\ b \in Nat /\ e \in Nat
  BY DoubleSizes, PowStep
<1>2. n \in Nat /\ j * One \in Nat /\ (j + 1) * One \in Nat
  BY <1>1
<1>3. 1 * E = E
  <2> HIDE DEF E
  <2> QED  BY <1>1
<1>4. NextLong(s, b) = y \div One
  BY NextLongRounds
<1>5. n < (1 * E) * 2^P /\ 2 * (j * One) + E <= 2 * n /\ 2 * n + E < 2 * ((j + 1) * One)
  BY <1>3
<1> HIDE DEF n
<1>6. y \in Nat /\ 2 * (1 * y) <= 2 * n + 1 * E /\ 2 * n <= 2 * (1 * y) + 1 * E
  BY <1>2, <1>5, RoundNear
<1> HIDE DEF y, E
<1>7. j * One <= y /\ y < (j + 1) * One
  BY <1>1, <1>2, <1>3, <1>5, <1>6
<1>8. y < One * (j + 1) /\ ~(y < One * j)
  BY <1>1, <1>2, <1>6, <1>7
<1>9. y \div One < j + 1 /\ ~(y \div One < j) /\ y \div One \in Nat
  <2>1. y \div One < j + 1
    <3>1. j + 1 \in Nat
      OBVIOUS
    <3> QED  BY <1>1, <1>6, <1>8, <3>1, DivLess
  <2>2. ~(y \div One < j)
    BY <1>1, <1>6, <1>8, DivLess
  <2>3. y \div One \in Nat
    BY <1>1, <1>6, DivIs
  <2> QED  BY <2>1, <2>2, <2>3
<1> QED  BY <1>4, <1>9

\* Steps of b leave a multiple of b from a quarter of d above j * d to a step
\* beyond that.
LEMMA StepWithin ==
    ASSUME NEW d \in Nat \ {0}, NEW b \in Nat \ {0}, NEW j \in Nat
    PROVE  \E v \in Nat : /\ 4 * (j * d) + d <= 4 * (v * b)
                          /\ 4 * (v * b) < 4 * (j * d) + d + 4 * b
<1> DEFINE S == { v \in Nat : 4 * (j * d) + d <= 4 * (v * b) }
<1>1. (j + 1) * d \in S
  <2> DEFINE x == (j + 1) * d
  <2>1. x \in Nat /\ x = j * d + d /\ j * d \in Nat
    OBVIOUS
  <2> HIDE DEF x
  <2>2. x * 1 <= x * b /\ x * b \in Nat
    BY <2>1, Times
  <2> QED  BY <2>1, <2>2 DEF x
<1>2. PICK v \in S : \A w \in S : v <= w
  <2>1. S \in SUBSET Nat
    OBVIOUS
  <2> HIDE DEF S
  <2> QED  BY <1>1, <2>1, LeastOf
<1>3. j * d \in Nat /\ v \in Nat /\ v * b \in Nat /\ 4 * (j * d) + d <= 4 * (v * b)
  OBVIOUS
<1>4. v # 0
  <2>1. 0 * b = 0
    OBVIOUS
  <2> QED  BY <1>3, <2>1
<1>5. v - 1 \in Nat /\ (v - 1) * b \in Nat /\ v * b = (v - 1) * b + b
  BY <1>3, <1>4
<1>6. 4 * ((v - 1) * b) < 4 * (j * d) + d
  <2>1. ASSUME 4 * (j * d) + d <= 4 * ((v - 1) * b) PROVE FALSE
    <3>1. v - 1 \in S
      BY <1>5, <2>1
    <3>2. v <= v - 1
      BY <1>2, <3>1
    <3> QED  BY <1>3, <3>2
  <2> QED  BY <1>3, <1>5, <2>1
<1> QED  BY <1>3, <1>5, <1>6

\* Such a multiple is below j + 1 times d, and its factor below d.
LEMMA StepBelow ==
    ASSUME NEW d \in Nat, NEW b \in Nat \ {0}, NEW j \in Nat, j < b, NEW v \in Nat,
           v * b < (j + 1) * d
    PROVE  v < d
<1>1. CASE d <= v
  <2>1. d * b <= v * b
    BY <1>1, Times
  <2>2. (j + 1) * d <= b * d
    BY Times
  <2>3. d * b = b * d /\ v * b \in Nat /\ (j + 1) * d \in Nat /\ d * b \in Nat
    OBVIOUS
  <2> QED  BY <2>1, <2>2, <2>3
<1> QED  BY <1>1

\* Up to half as many objects as there are doubles to a unit, xoroshiro128plus
\* has a sample for each index.
LEMMA XoroshiroReaches ==
    ASSUME NEW b \in Nat \ {0}, b <= 2^(P-1), NEW j \in 0 .. b-1
    PROVE  \E s \in XoroshiroSamples : NextLong(s, b) = j
<1> DEFINE K == 2^RandBits
           T == 2^P
           H == 2^(P-1)
           e == RandBits + (P - 1)
<1>1. /\ K \in Nat \ {0} /\ T \in Nat \ {0} /\ H \in Nat \ {0} /\ T = 2 * H
      /\ One = T * K /\ One \in Nat /\ b <= H
      /\ e \in 0 .. U /\ 2^e = K * H
  <2>1. P - 1 \in Nat /\ (P - 1) + 1 = P /\ RandBits \in Nat /\ U = P + RandBits
    BY DoubleSizes
  <2>2. 2^e = K * H
    BY <2>1, PowAdd
  <2> QED  BY <2>1, <2>2, DoubleSizes, PowStep
<1>2. b \in 1 .. T /\ j \in Nat /\ j < b /\ j + 1 <= b
  BY <1>1
<1>3. PICK v \in Nat : /\ 4 * (j * T) + T <= 4 * (v * b)
                       /\ 4 * (v * b) < 4 * (j * T) + T + 4 * b
  BY <1>1, <1>2, StepWithin
<1> DEFINE s == v * K
           x == v * b
<1> HIDE DEF K, T, H, e
<1>4. x \in Nat /\ j * T \in Nat /\ (j + 1) * T = j * T + T
  BY <1>1, <1>2
<1>5. x < (j + 1) * T /\ 2 * (j * T) + H <= 2 * x /\ 2 * x + H < 2 * ((j + 1) * T)
  BY <1>1, <1>2, <1>3, <1>4
<1>6. v < T
  BY <1>1, <1>2, <1>5, StepBelow
<1>7. s \in XoroshiroSamples /\ s \in Nat
  <2>1. v \in 0 .. T - 1
    BY <1>1, <1>6
  <2>2. v * 2^RandBits \in XoroshiroSamples
    BY <2>1 DEF XoroshiroSamples, T
  <2>3. s = v * 2^RandBits /\ s \in Nat
    BY <1>1 DEF K
  <2> QED  BY <2>2, <2>3
<1>8. s * b = K * x
  BY <1>1, <1>2
<1>9. s * b < (K * H) * T
  <2>1. (j + 1) * T <= H * T
    BY <1>1, <1>2, Times
  <2>2. x < H * T /\ H * T \in Nat
    BY <1>1, <1>2, <1>4, <1>5, <2>1
  <2>3. K * x < K * (H * T)
    <3> DEFINE z == H * T
    <3> HIDE DEF z, x
    <3>1. x < z /\ z \in Nat /\ x \in Nat
      BY <1>4, <2>2 DEF z
    <3>2. K * x < K * z
      BY <1>1, <3>1, Times
    <3> QED  BY <3>2 DEF z
  <2>4. K * (H * T) = (K * H) * T
    BY <1>1
  <2> QED  BY <1>8, <2>3, <2>4
<1>10. 2 * (j * One) + K * H <= 2 * (s * b)
  <2>1. K * (2 * (j * T) + H) <= K * (2 * x)
    <3> DEFINE z == 2 * (j * T) + H
               y == 2 * x
    <3>1. z \in Nat /\ y \in Nat /\ z <= y
      BY <1>1, <1>4, <1>5
    <3> HIDE DEF z, x, y
    <3>2. K * z <= K * y
      BY <1>1, <3>1, Times
    <3> QED  BY <3>2 DEF y, z
  <2>2. K * (2 * (j * T) + H) = 2 * (j * (T * K)) + K * H
    BY <1>1, <1>2
  <2>3. K * (2 * x) = 2 * (K * x)
    BY <1>1, <1>4
  <2> QED  BY <1>1, <1>8, <2>1, <2>2, <2>3
<1>11. 2 * (s * b) + K * H < 2 * ((j + 1) * One)
  <2>1. K * (2 * x + H) < K * (2 * ((j + 1) * T))
    <3> DEFINE z == 2 * ((j + 1) * T)
               y == 2 * x + H
    <3>1. z \in Nat /\ y \in Nat /\ y < z
      BY <1>1, <1>4, <1>5
    <3> HIDE DEF z, x, y
    <3>2. K * y < K * z
      BY <1>1, <3>1, Times
    <3> QED  BY <3>2 DEF y, z
  <2>2. K * (2 * ((j + 1) * T)) = 2 * ((j + 1) * (T * K))
    BY <1>1, <1>2
  <2>3. K * (2 * x + H) = 2 * (K * x) + K * H
    BY <1>1, <1>4
  <2> QED  BY <1>1, <1>8, <2>1, <2>2, <2>3
<1> HIDE DEF s
<1>12. NextLong(s, b) = j
  BY <1>1, <1>2, <1>7, <1>9, <1>10, <1>11, AnswersWithin DEF T
<1> QED  BY <1>7, <1>12

\* Every one of its samples is one of frng's too.
LEMMA XoroshiroAmongFrng == XoroshiroSamples \subseteq FrngSamples
<1> SUFFICES ASSUME NEW s \in XoroshiroSamples PROVE s \in FrngSamples
  OBVIOUS
<1>1. PICK m \in 0 .. 2^P - 1 : s = m * 2^RandBits
  BY DEF XoroshiroSamples
<1>2. s \in Nat /\ s < One /\ One \in Nat \ {0} /\ 2^RandBits \in Nat \ {0} /\ 2^P \in Nat
      /\ RandBits \in 0 .. U
  <2>1. s \in Nat /\ s + 2^RandBits <= One
    BY XoroshiroSampled
  <2> QED  BY <2>1, DoubleSizes
<1>3. Fract(s) = s
  <2>1. s \div One < 1 /\ s \div One \in Nat
    <3>1. 1 \in Nat /\ s < One * 1
      BY <1>2
    <3>2. s \div One < 1
      BY <1>2, <3>1, DivLess
    <3> QED  BY <1>2, <3>2, DivIs
  <2>2. s \div One = 0 /\ s - One * 0 = s
    BY <1>2, <2>1
  <2>3. Round(2^RandBits * m, 1) = 2^RandBits * m
    <3>1. m \in 0 .. 2^P
      BY <1>2
    <3> QED  BY <1>2, <3>1, RoundKeeps
  <2>4. s = 2^RandBits * m
    BY <1>1, <1>2
  <2> QED  BY <2>2, <2>3, <2>4 DEF Fract
<1>4. s \in -MaxArgument * One .. MaxArgument * One
  <2>1. MaxArgument \in Nat /\ 1 <= MaxArgument
    BY MaxAssumption, SamplesAssumption
  <2>2. 1 * One <= MaxArgument * One
    BY <1>2, <2>1, Times
  <2>3. -MaxArgument * One <= 0 /\ -MaxArgument * One \in Int /\ MaxArgument * One \in Int
    BY <1>2, <2>1
  <2> QED  BY <1>2, <2>2, <2>3
<1> DEFINE Doubles == { sign * mm * 2^e : sign \in {1, -1}, mm \in 0 .. 2^P - 1, e \in 0 .. U }
<1>5. s \in Doubles
  <2>1. s = 1 * m * 2^RandBits
    BY <1>1, <1>2
  <2>2. RandBits \in 0 .. U /\ m \in 0 .. 2^P - 1
    BY <1>2
  <2> DEFINE A == {1, -1}
             B == 0 .. 2^P - 1
             C == 0 .. U
             x(sign, mm, e) == sign * mm * 2^e
  <2>3. s = x(1, m, RandBits) /\ 1 \in A /\ m \in B /\ RandBits \in C
    BY <2>1, <2>2
  <2>4. Doubles = { x(sign, mm, e) : sign \in A, mm \in B, e \in C }
    OBVIOUS
  <2> HIDE DEF A, B, C, x, Doubles
  <2> QED  BY <2>3, <2>4
<1>6. s \in Doubles \cap (-MaxArgument * One .. MaxArgument * One)
  BY <1>4, <1>5
<1> HIDE DEF Doubles
<1>7. s \in { Fract(x) : x \in Doubles \cap (-MaxArgument * One .. MaxArgument * One) }
  BY <1>3, <1>6
<1> QED  BY <1>7 DEF FrngSamples, Doubles

\* Up to half as many objects as rand_r() has answers, and with a quarter as many
\* of these as there are doubles to a unit, drng has a sample for each index.
LEMMA DrngReaches ==
    ASSUME NEW b \in Nat \ {0}, b <= 2^(RandBits-1), NEW j \in 0 .. b-1
    PROVE  \E s \in DrngSamples : NextLong(s, b) = j
<1> DEFINE K == 2^RandBits
           T == 2^P
           h == 2^(RandBits-1)
           e == RandBits + (RandBits - 1)
           D == K - 1
<1>1. /\ K \in Nat \ {0} /\ T \in Nat \ {0} /\ h \in Nat \ {0} /\ K = 2 * h
      /\ One = T * K /\ One \in Nat \ {0} /\ b <= h /\ RandBits \in 0 .. U
      /\ e \in 0 .. U /\ 2^e = K * h /\ 2 <= h /\ 4 * K <= T
  <2>1. /\ RandBits - 1 \in Nat /\ (RandBits - 1) + 1 = RandBits /\ RandBits \in Nat
        /\ P \in Nat /\ U = P + RandBits /\ RandBits + 2 \in Nat
        /\ 2 <= RandBits /\ RandBits + 2 <= P
    BY DoubleSizes, SamplesAssumption
  <2>2. 2^e = K * h
    BY <2>1, PowAdd
  <2>3. 2^2 = 2 * 2^1 /\ 2^1 = 2 * 2^0 /\ 2^0 = 1
    <3>1. 0 + 1 = 1 /\ 1 + 1 = 2
      OBVIOUS
    <3>2. 2^(0+1) = 2 * 2^0 /\ 2^(1+1) = 2 * 2^1
      BY PowStep
    <3>3. 2^0 = 1
      OBVIOUS
    <3> QED  BY <3>1, <3>2, <3>3
  <2>4. 2^1 <= h
    <3>1. 1 \in Nat /\ 1 <= RandBits - 1
      BY <2>1
    <3> QED  BY <2>1, <3>1, PowOrder
  <2>5. 2^(RandBits+2) = K * 2^2 /\ 2^(RandBits+2) <= T
    BY <2>1, PowAdd, PowOrder
  <2> QED  BY <2>1, <2>2, <2>3, <2>4, <2>5, DoubleSizes, PowStep
<1>2. D \in Nat \ {0} /\ 3 <= D /\ D = 2 * h - 1 /\ j \in Nat /\ j < b /\ j + 1 <= b
  BY <1>1
<1>3. b \in 1 .. T
  BY <1>1
<1>4. PICK v \in Nat : /\ 4 * (j * D) + D <= 4 * (v * b)
                       /\ 4 * (v * b) < 4 * (j * D) + D + 4 * b
  BY <1>2, StepWithin
<1> DEFINE x == v * b
           w == v * One
           s == Round(w, D)
           n == s * b
<1> HIDE DEF K, T, h, e, D
<1>5. x \in Nat /\ j * D \in Nat /\ (j + 1) * D = j * D + D
  BY <1>1, <1>2
\* The quotient v * b / D is a quarter within j and j + 1, but for 1/4D.
<1>6. 4 * (j * D) + D <= 4 * x /\ 4 * x <= 4 * (j * D) + 3 * D + 1
  BY <1>1, <1>2, <1>4, <1>5
<1>7. v < D
  <2>1. x < (j + 1) * D
    BY <1>2, <1>5, <1>6
  <2> QED  BY <1>2, <2>1, StepBelow
<1>8. w \in Nat /\ w < D * One /\ w * b = x * One
  <2>1. v * One < D * One
    BY <1>1, <1>2, <1>7, Times
  <2> QED  BY <1>1, <1>2, <2>1
<1>9. s \in Nat /\ 2 * (D * s) <= 2 * w + D * K /\ 2 * w <= 2 * (D * s) + D * K
  <2>1. D * One = (D * K) * T
    BY <1>1, <1>2
  <2>2. w < (D * 2^RandBits) * 2^P
    BY <1>8, <2>1 DEF K, T
  <2> HIDE DEF w
  <2> QED  BY <1>1, <1>2, <1>8, <2>2, RoundNear DEF K
<1>10. s \in DrngSamples
  <2>1. v \in 0 .. K - 1
    BY <1>1, <1>2, <1>7 DEF D
  <2> QED  BY <2>1 DEF DrngSamples, K, D
<1> HIDE DEF s, w
<1> DEFINE G == D * (K * h)
\* What the rounding of the sample moves the product by.
<1>11. n \in Nat /\ G \in Nat /\ 2 * (D * n) <= 2 * (x * One) + G /\ 2 * (x * One) <= 2 * (D * n) + G
  <2>1. n \in Nat /\ G \in Nat /\ D * K \in Nat /\ D * s \in Nat
    BY <1>1, <1>2, <1>9
  <2>2. (D * K) * b <= G
    <3>1. (D * K) * b <= (D * K) * h
      BY <1>1, <2>1, Times
    <3> QED  BY <1>1, <1>2, <3>1
  <2>3. (2 * (D * s)) * b <= (2 * w + D * K) * b
    <3> DEFINE y == 2 * (D * s)
               z == 2 * w + D * K
    <3>1. y \in Nat /\ z \in Nat /\ y <= z
      BY <1>8, <1>9, <2>1
    <3> HIDE DEF y, z
    <3>2. y * b <= z * b
      BY <3>1, Times
    <3> QED  BY <3>2 DEF y, z
  <2>4. (2 * w) * b <= (2 * (D * s) + D * K) * b
    <3> DEFINE y == 2 * (D * s) + D * K
               z == 2 * w
    <3>1. y \in Nat /\ z \in Nat /\ z <= y
      BY <1>8, <1>9, <2>1
    <3> HIDE DEF y, z
    <3>2. z * b <= y * b
      BY <3>1, Times
    <3> QED  BY <3>2 DEF y, z
  <2>5. (2 * (D * s)) * b = 2 * (D * n) /\ (2 * (D * s) + D * K) * b = 2 * (D * n) + (D * K) * b
    BY <1>1, <1>2, <1>9, <2>1
  <2>6. (2 * w) * b = 2 * (x * One) /\ (2 * w + D * K) * b = 2 * (x * One) + (D * K) * b
    BY <1>1, <1>2, <1>8, <2>1
  <2>7. D * n \in Nat /\ x * One \in Nat /\ (D * K) * b \in Nat
    BY <1>1, <1>2, <1>5, <2>1
  <2> QED  BY <2>1, <2>2, <2>3, <2>4, <2>5, <2>6, <2>7
\* And this is small beside a unit.
<1>12. 4 * G + One < D * One /\ 4 * G <= D * One
  <2>1. (4 * K) * (D * K) <= T * (D * K)
    <3> DEFINE y == D * K
               z == 4 * K
    <3>1. y \in Nat /\ z \in Nat /\ z <= T
      BY <1>1, <1>2
    <3> HIDE DEF y, z
    <3>2. z * y <= T * y
      BY <1>1, <3>1, Times
    <3> QED  BY <3>2 DEF y, z
  <2>2. T * (D * K) = D * One
    BY <1>1, <1>2
  <2>3. (4 * K) * (D * K) = 8 * G
    <3>1. (4 * K) * (D * (2 * h)) = 8 * (D * (K * h))
      BY <1>1, <1>2
    <3> QED  BY <1>1, <3>1
  <2>4. 3 * One <= D * One /\ D * One \in Nat
    BY <1>1, <1>2, Times
  <2> QED  BY <1>1, <1>11, <2>1, <2>2, <2>3, <2>4
<1> DEFINE X == x * One
           J == j * One
<1>13. X \in Nat /\ J \in Nat /\ D * One \in Nat /\ D * J \in Nat /\ D * n \in Nat
  BY <1>1, <1>2, <1>5, <1>11
<1>14. 4 * (D * J) + D * One <= 4 * X /\ 4 * X <= 4 * (D * J) + 3 * (D * One) + One
  <2>1. (4 * (j * D) + D) * One <= (4 * x) * One
    <3> DEFINE y == 4 * (j * D) + D
               z == 4 * x
    <3>1. y \in Nat /\ z \in Nat /\ y <= z
      BY <1>2, <1>5, <1>6
    <3> HIDE DEF y, z
    <3>2. y * One <= z * One
      BY <1>1, <3>1, Times
    <3> QED  BY <3>2 DEF y, z
  <2>2. (4 * x) * One <= (4 * (j * D) + 3 * D + 1) * One
    <3> DEFINE y == 4 * (j * D) + 3 * D + 1
               z == 4 * x
    <3>1. y \in Nat /\ z \in Nat /\ z <= y
      BY <1>2, <1>5, <1>6
    <3> HIDE DEF y, z
    <3>2. z * One <= y * One
      BY <1>1, <3>1, Times
    <3> QED  BY <3>2 DEF y, z
  <2>3. (4 * (j * D) + D) * One = 4 * (D * J) + D * One
    BY <1>1, <1>2, <1>5
  <2>4. (4 * (j * D) + 3 * D + 1) * One = 4 * (D * J) + 3 * (D * One) + One
    BY <1>1, <1>2, <1>5
  <2>5. (4 * x) * One = 4 * X
    BY <1>1, <1>5
  <2> QED  BY <2>1, <2>2, <2>3, <2>4, <2>5
<1> HIDE DEF X
<1> DEFINE E == K * h
<1>15. E \in Nat /\ G = D * E /\ 2 * (D * n) <= 2 * X + G /\ 2 * X <= 2 * (D * n) + G
  BY <1>1, <1>11 DEF X
<1> HIDE DEF G, E, n, J
<1>16. 4 * (D * J) + 2 * G <= 4 * (D * n) /\ 4 * (D * n) + 2 * G < 4 * (D * J) + 4 * (D * One)
  BY <1>1, <1>11, <1>12, <1>13, <1>14, <1>15
<1>17. J \in Nat /\ n \in Nat
  BY <1>11, <1>13
<1>18. 2 * J + E <= 2 * n /\ 2 * n + E < 2 * (J + One)
  <2> DEFINE y == 2 * J + E
             z == 2 * n
             u == 2 * n + E
             t == 2 * (J + One)
  <2>1. y \in Nat /\ z \in Nat /\ u \in Nat /\ t \in Nat
    BY <1>1, <1>15, <1>17
  <2>2. D * y = 2 * (D * J) + G /\ D * z = 2 * (D * n)
    BY <1>2, <1>15, <1>17
  <2>3. D * u = 2 * (D * n) + G /\ D * t = 2 * (D * J) + 2 * (D * One)
    BY <1>1, <1>2, <1>15, <1>17
  <2>4. D * y <= D * z /\ D * u < D * t
    BY <1>11, <1>13, <1>16, <2>2, <2>3
  <2> HIDE DEF y, z, u, t
  <2>5. D * y \in Nat /\ D * z \in Nat /\ D * u \in Nat /\ D * t \in Nat
    BY <1>2, <2>1
  <2>6. z < y => D * z < D * y
    BY <1>2, <2>1, Times
  <2>7. t <= u => D * t <= D * u
    BY <1>2, <2>1, Times
  <2>8. y <= z /\ u < t
    BY <2>1, <2>4, <2>5, <2>6, <2>7
  <2> QED  BY <2>8 DEF y, z, u, t
<1>19. J = j * One /\ J + One = (j + 1) * One
  BY <1>1, <1>2 DEF J
<1>20. n < E * T
  <2>1. (j + 1) * One <= h * One
    BY <1>1, <1>2, Times
  <2>2. h * One = E * T
    BY <1>1 DEF E
  <2> QED  BY <1>1, <1>15, <1>17, <1>18, <1>19, <2>1, <2>2
<1>21. NextLong(s, b) = j
  <2>1. n = s * b /\ E = 2^e
    BY <1>1 DEF n, E
  <2>2. s * b < 2^e * 2^P
    BY <1>20, <2>1 DEF T
  <2>3. 2 * (j * One) + 2^e <= 2 * (s * b) /\ 2 * (s * b) + 2^e < 2 * ((j + 1) * One)
    BY <1>18, <1>19, <2>1
  <2>4. b \in 1 .. 2^P
    BY <1>3 DEF T
  <2> QED  BY <1>1, <1>2, <1>9, <2>2, <2>3, <2>4, AnswersWithin
<1> QED  BY <1>10, <1>21

(***************************************************************************)
(* Whatever the precision, next_long() answers an index of the span, below  *)
(* the loop index for xoroshiro128plus (rng.cpp 85-88, xoroshiro128plus.cpp *)
(* 82-85, shuffle.hpp 18-21).                                               *)
(***************************************************************************)
THEOREM OnTapeTheorem == SamplingSpec => []OnTape
<1>1. ASSUME SamplingInv PROVE OnTape
  <2> SUFFICES ASSUME Drawn
               PROVE  [k \in 1 .. max |-> IF k = max THEN draw ELSE 0]
                          \in Tapes(max + 1, rng # "xoroshiro128plus")
    BY DEF OnTape
  <2>1. /\ max \in Nat \ {0} /\ draw \in 0 .. max
        /\ rng = "xoroshiro128plus" => draw < max
    BY <1>1, AnswerIs
  <2>2. (max + 1) - 1 = max
    BY <2>1
  <2> DEFINE t == [k \in 1 .. max |-> IF k = max THEN draw ELSE 0]
  <2>3. t \in [1 .. max -> 0 .. max]
    BY <2>1
  <2>4. \A k \in 1 .. max : t[k] <= k /\ (rng = "xoroshiro128plus" => t[k] < k)
    BY <2>1
  <2> HIDE DEF t
  <2>5. t \in Tapes(max + 1, rng # "xoroshiro128plus")
    BY <2>2, <2>3, <2>4 DEF Tapes
  <2> QED  BY <2>5 DEF t
<1> QED  BY <1>1, SamplingKeeps, PTL

(***************************************************************************)
(* The loop index itself is drawn only by a sample of exactly 1 (drng.cpp   *)
(* 16-19, frng.hpp 22-30, rng.cpp 85-88).                                   *)
(***************************************************************************)
THEOREM BoundOnlyAtOneTheorem == SamplingSpec => []BoundOnlyAtOne
<1>1. ASSUME SamplingInv PROVE BoundOnlyAtOne
  BY <1>1, AnswerIs DEF BoundOnlyAtOne
<1> QED  BY <1>1, SamplingKeeps, PTL

(***************************************************************************)
(* No index is out of reach of a generator: each below the loop index is    *)
(* the answer to some sample (rng.cpp 85-88, drng.cpp 16-19, frng.hpp       *)
(* 22-30, xoroshiro128plus.cpp 82-85).                                      *)
(***************************************************************************)
THEOREM ReachTheorem == SamplingSpec => []EveryIndexReached
<1>1. ASSUME SamplingInv PROVE EveryIndexReached
  <2> SUFFICES ASSUME max <= 2^(P-1), rng = "drng" => max <= 2^(RandBits-1), NEW j \in 0 .. max-1
               PROVE  \E s \in Samples[rng] : NextLong(s, max) = j
    BY DEF EveryIndexReached
  <2>1. max \in Nat \ {0} /\ rng \in {"xoroshiro128plus", "drng", "frng"}
    BY <1>1, DoubleSizes DEF SamplingInv, Samples
  <2>2. CASE rng = "xoroshiro128plus"
    <3>1. Samples[rng] = XoroshiroSamples
      BY <2>2 DEF Samples
    <3> QED  BY <2>1, <3>1, XoroshiroReaches
  <2>3. CASE rng = "frng"
    <3>1. Samples[rng] = FrngSamples
      BY <2>3 DEF Samples
    <3> QED  BY <2>1, <3>1, XoroshiroReaches, XoroshiroAmongFrng
  <2>4. CASE rng = "drng"
    <3>1. Samples[rng] = DrngSamples
      BY <2>4 DEF Samples
    <3> QED  BY <2>1, <2>4, <3>1, DrngReaches
  <2> QED  BY <2>1, <2>2, <2>3, <2>4
<1> QED  BY <1>1, SamplingKeeps, PTL

-----------------------------------------------------------------------------
(***************************************************************************)
(* Xoroshiro: next().                                                      *)
(***************************************************************************)

\* A rotation to the left by k and one by the rest make a whole turn.
LEMMA RotatedBack ==
    ASSUME NEW x \in SUBSET Bits, NEW k \in 1 .. 63
    PROVE  Rotl(x, k) \in SUBSET Bits /\ Rotl(Rotl(x, k), 64 - k) = x
<1>1. \A b \in Bits : (b + k) % 64 \in Bits /\ (((b + k) % 64) + (64 - k)) % 64 = b
  <2> SUFFICES ASSUME NEW b \in Bits
               PROVE  (b + k) % 64 \in Bits /\ (((b + k) % 64) + (64 - k)) % 64 = b
    OBVIOUS
  <2>1. CASE b + k < 64
    <3>1. (b + k) % 64 = b + k /\ (b + 64) % 64 = b
      BY <2>1 DEF Bits
    <3>2. b + k + (64 - k) = b + 64
      BY DEF Bits
    <3> QED  BY <2>1, <3>1, <3>2 DEF Bits
  <2>2. CASE 64 <= b + k
    <3>1. (b + k) % 64 = b + k - 64 /\ b % 64 = b
      BY <2>2 DEF Bits
    <3>2. b + k - 64 + (64 - k) = b
      BY DEF Bits
    <3> QED  BY <2>2, <3>1, <3>2 DEF Bits
  <2> QED  BY <2>1, <2>2 DEF Bits
<1>2. Rotl(x, k) \in SUBSET Bits
  BY <1>1 DEF Rotl
<1>3. Rotl(Rotl(x, k), 64 - k) = { (((b + k) % 64) + (64 - k)) % 64 : b \in x }
  BY DEF Rotl
<1>4. { (((b + k) % 64) + (64 - k)) % 64 : b \in x } = x
  BY <1>1
<1> QED  BY <1>2, <1>3, <1>4

LEMMA ShiftedIn ==
    ASSUME NEW x \in SUBSET Bits
    PROVE  Shl(x, 16) \in SUBSET Bits
BY DEF Shl, Bits

LEMMA DiffIn ==
    ASSUME NEW x \in SUBSET Bits, NEW y \in SUBSET Bits
    PROVE  SymDiff(x, y) \in SUBSET Bits
BY DEF SymDiff

\* What was added is taken away by adding it again.
LEMMA DiffTwice ==
    ASSUME NEW x \in SUBSET Bits, NEW y \in SUBSET Bits
    PROVE  SymDiff(SymDiff(x, y), y) = x
BY DEF SymDiff

LEMMA DiffTwoTwice ==
    ASSUME NEW x \in SUBSET Bits, NEW y \in SUBSET Bits, NEW z \in SUBSET Bits
    PROVE  SymDiff(SymDiff(SymDiff(SymDiff(x, y), z), y), z) = x
BY DEF SymDiff

\* A state and its two words.
LEMMA WordsOfState ==
    /\ \A s \in SUBSET StateBits :
          Lower(s) \in SUBSET Bits /\ Upper(s) \in SUBSET Bits /\ State(Lower(s), Upper(s)) = s
    /\ \A x, y \in SUBSET Bits :
          State(x, y) \in SUBSET StateBits /\ Lower(State(x, y)) = x /\ Upper(State(x, y)) = y
<1>1. ASSUME NEW s \in SUBSET StateBits
      PROVE  Lower(s) \in SUBSET Bits /\ Upper(s) \in SUBSET Bits /\ State(Lower(s), Upper(s)) = s
  <2>1. Lower(s) \in SUBSET Bits /\ Upper(s) \in SUBSET Bits
    BY DEF Lower, Upper, Bits, StateBits
  <2>2. \A b \in s \ Bits : (b - 64) + 64 = b
    BY DEF Bits, StateBits
  <2>3. { b + 64 : b \in Upper(s) } = s \ Bits
    BY <2>2 DEF Upper
  <2> QED  BY <2>1, <2>3 DEF State, Lower
<1>2. ASSUME NEW x \in SUBSET Bits, NEW y \in SUBSET Bits
      PROVE  State(x, y) \in SUBSET StateBits /\ Lower(State(x, y)) = x /\ Upper(State(x, y)) = y
  <2> DEFINE up == { b + 64 : b \in y }
  <2>1. \A b \in y : b + 64 \in StateBits \ Bits /\ (b + 64) - 64 = b
    BY DEF Bits, StateBits
  <2>2. up \subseteq StateBits \ Bits /\ x \subseteq StateBits
    BY <2>1 DEF Bits, StateBits
  <2>3. State(x, y) = x \cup up
    BY DEF State
  <2>4. { b - 64 : b \in up } = y
    BY <2>1
  <2> HIDE DEF up
  <2>5. (x \cup up) \cap Bits = x /\ (x \cup up) \ Bits = up
    BY <2>2
  <2> QED  BY <2>2, <2>3, <2>4, <2>5 DEF Lower, Upper
<1> QED  BY <1>1, <1>2

\* next() is undone by Previous, whatever the state.
LEMMA NextUndone ==
    ASSUME NEW s \in SUBSET StateBits
    PROVE  NextState(s) \in SUBSET StateBits /\ Previous(NextState(s)) = s
<1> DEFINE s0 == Lower(s)
           s1 == SymDiff(Upper(s), s0)
           r == Rotl(s0, 24)
           h == Shl(s1, 16)
           t0 == SymDiff(SymDiff(r, s1), h)
           t1 == Rotl(s1, 37)
<1>1. s0 \in SUBSET Bits /\ Upper(s) \in SUBSET Bits /\ s1 \in SUBSET Bits
  BY WordsOfState, DiffIn
<1>2. NextState(s) = State(t0, t1)
  BY DEF NextState
<1>3. SymDiff(s1, s0) = Upper(s)
  BY <1>1, DiffTwice
<1> HIDE DEF s0, s1
<1>4. h \in SUBSET Bits
  BY <1>1, ShiftedIn
<1>5. r \in SUBSET Bits /\ Rotl(r, 40) = s0
  <2>1. 24 \in 1 .. 63 /\ 64 - 24 = 40
    OBVIOUS
  <2>2. r \in SUBSET Bits /\ Rotl(r, 64 - 24) = s0
    BY <1>1, <2>1, RotatedBack
  <2> QED  BY <2>1, <2>2
<1>6. t1 \in SUBSET Bits /\ Rotl(t1, 27) = s1
  <2>1. 37 \in 1 .. 63 /\ 64 - 37 = 27
    OBVIOUS
  <2>2. t1 \in SUBSET Bits /\ Rotl(t1, 64 - 37) = s1
    BY <1>1, <2>1, RotatedBack
  <2> QED  BY <2>1, <2>2
<1>7. t0 \in SUBSET Bits
  <2> HIDE DEF r, h
  <2>1. SymDiff(r, s1) \in SUBSET Bits
    BY <1>1, <1>5, DiffIn
  <2> QED  BY <1>4, <2>1, DiffIn
<1>8. SymDiff(SymDiff(t0, s1), h) = r
  <2> HIDE DEF r, h
  <2> QED  BY <1>1, <1>4, <1>5, DiffTwoTwice
<1> HIDE DEF t0, t1
<1>9. NextState(s) \in SUBSET StateBits /\ Lower(NextState(s)) = t0 /\ Upper(NextState(s)) = t1
  BY <1>2, <1>6, <1>7, WordsOfState
<1>10. Previous(NextState(s)) = State(s0, SymDiff(s1, s0))
  <2>1. 64 - 37 = 27 /\ 64 - 24 = 40
    OBVIOUS
  <2>2. Previous(NextState(s)) =
           LET u1 == Rotl(t1, 27)
               u0 == Rotl(SymDiff(SymDiff(t0, u1), Shl(u1, 16)), 40)
           IN  State(u0, SymDiff(u1, u0))
    BY <1>9, <2>1 DEF Previous
  <2>3. Rotl(SymDiff(SymDiff(t0, s1), Shl(s1, 16)), 40) = s0
    BY <1>5, <1>8 DEF h
  <2> QED  BY <1>6, <2>2, <2>3
<1>11. State(s0, Upper(s)) = s
  BY WordsOfState DEF s0
<1> QED  BY <1>3, <1>9, <1>10, <1>11

\* So the state of two zeros, in which nothing but zeros is drawn, comes from no
\* other state.
LEMMA ZeroFromZero ==
    ASSUME NEW s \in SUBSET StateBits, NextState(s) = {}
    PROVE  s = {}
<1>1. Previous({}) = s
  BY NextUndone
<1>2. Lower({}) = {} /\ Upper({}) = {}
  BY DEF Lower, Upper
<1>3. \A k \in Int : Rotl({}, k) = {}
  BY DEF Rotl
<1>4. Shl({}, 16) = {} /\ SymDiff({}, {}) = {} /\ State({}, {}) = {}
  BY DEF Shl, SymDiff, State
<1>5. Rotl({}, 64 - 37) = {} /\ Rotl({}, 64 - 24) = {}
  BY <1>3
<1> QED  BY <1>1, <1>2, <1>4, <1>5 DEF Previous

\* The calls lead from states to states.
AfterInv == after \in [StateBits -> SUBSET StateBits]

LEMMA AfterKept == XoSpec => []AfterInv
<1>1. XoInit => AfterInv
  BY DEF XoInit, Itself, AfterInv
<1>2. AfterInv /\ [XoNext]_xoVars => AfterInv'
  <2> SUFFICES ASSUME AfterInv, [XoNext]_xoVars
               PROVE  AfterInv'
    OBVIOUS
  <2>1. CASE XoRound
    <3>1. \A b \in StateBits : NextState(after[b]) \in SUBSET StateBits
      BY NextUndone DEF AfterInv
    <3> QED  BY <2>1, <3>1 DEF XoRound, AfterInv
  <2>2. CASE Double \/ UNCHANGED xoVars
    BY <2>2 DEF Double, xoVars, AfterInv
  <2> QED  BY <2>1, <2>2 DEF XoNext
<1> QED  BY <1>1, <1>2, PTL DEF XoSpec

(***************************************************************************)
(* A call of next() loses nothing of any of the 2^128 states                *)
(* (xoroshiro128plus.cpp 15-26).                                            *)
(***************************************************************************)
THEOREM StepTheorem == XoSpec => StepInvertible
<1>1. ASSUME AfterInv, [XoNext]_xoVars
      PROVE  [at' # at => \A b \in StateBits : Previous(after'[b]) = after[b]]_xoVars
  <2>1. CASE XoRound
    <3>1. \A b \in StateBits : Previous(NextState(after[b])) = after[b]
      BY <1>1, NextUndone DEF AfterInv
    <3> QED  BY <2>1, <3>1 DEF XoRound
  <2>2. CASE Double \/ UNCHANGED xoVars
    BY <2>2 DEF Double, xoVars
  <2> QED  BY <1>1, <2>1, <2>2 DEF XoNext
<1> QED  BY <1>1, AfterKept, PTL DEF XoSpec, StepInvertible

-----------------------------------------------------------------------------
(***************************************************************************)
(* Xoroshiro: what the run follows on the 128 states of one bit, on every  *)
(* state.                                                                  *)
(***************************************************************************)
States == SUBSET StateBits

\* Linear over exclusive or.
Additive(F) == \A s, t \in States : F[SymDiff(s, t)] = SymDiff(F[s], F[t])

LEMMA DiffSwap ==
    ASSUME NEW a, NEW b, NEW c, NEW d
    PROVE  SymDiff(SymDiff(a, b), SymDiff(c, d)) = SymDiff(SymDiff(a, c), SymDiff(b, d))
BY DEF SymDiff

\* Two linear maps that agree on the states of one bit agree.
LEMMA AdditiveSame ==
    ASSUME NEW F \in [States -> States], NEW G \in [States -> States],
           Additive(F), Additive(G), \A b \in StateBits : F[{b}] = G[{b}]
    PROVE  \A s \in States : F[s] = G[s]
<1> DEFINE S == { n \in Nat : \A s \in States : s \subseteq 0 .. n-1 => F[s] = G[s] }
<1>1. 0 \in S
  <2>1. F[{}] = {} /\ G[{}] = {}
    <3>1. {} \in States /\ SymDiff({}, {}) = {}
      BY DEF States, SymDiff
    <3>2. F[{}] = SymDiff(F[{}], F[{}]) /\ G[{}] = SymDiff(G[{}], G[{}])
      BY <3>1 DEF Additive
    <3> QED  BY <3>2 DEF SymDiff
  <2>2. \A s : s \subseteq 0 .. 0-1 => s = {}
    OBVIOUS
  <2> QED  BY <2>1, <2>2
<1>2. ASSUME NEW n \in Nat, n \in S PROVE n + 1 \in S
  <2> SUFFICES ASSUME NEW s \in States, s \subseteq 0 .. n PROVE F[s] = G[s]
    OBVIOUS
  <2>1. CASE n \in s
    <3> DEFINE t == s \ {n}
    <3>1. t \in States /\ t \subseteq 0 .. n-1 /\ n \in StateBits /\ {n} \in States
      BY <2>1 DEF States
    <3>2. s = SymDiff(t, {n})
      BY <2>1 DEF SymDiff
    <3>3. F[t] = G[t] /\ F[{n}] = G[{n}]
      BY <1>2, <3>1
    <3> HIDE DEF t
    <3> QED  BY <3>1, <3>2, <3>3 DEF Additive
  <2>2. CASE n \notin s
    <3>1. s \subseteq 0 .. n-1
      BY <2>2
    <3> QED  BY <1>2, <3>1
  <2> QED  BY <2>1, <2>2
<1>3. S = Nat
  <2> HIDE DEF S
  <2>1. S \in SUBSET Nat
    BY DEF S
  <2> QED  BY <1>1, <1>2, <2>1, AllNaturals
<1>4. 128 \in S
  <2> HIDE DEF S
  <2> QED  BY <1>3
<1>5. \A s \in States : s \subseteq 0 .. 128-1 => F[s] = G[s]
  BY <1>4
<1>6. \A s \in States : s \subseteq 0 .. 128-1
  BY DEF States, StateBits
<1> QED  BY <1>5, <1>6

LEMMA RotationAdds ==
    ASSUME NEW x \in SUBSET Bits, NEW y \in SUBSET Bits, NEW k \in 1 .. 63
    PROVE  Rotl(SymDiff(x, y), k) = SymDiff(Rotl(x, k), Rotl(y, k))
<1> DEFINE r(b) == (b + k) % 64
<1>1. \A b \in Bits : (((b + k) % 64) + (64 - k)) % 64 = b
  <2> SUFFICES ASSUME NEW b \in Bits PROVE (((b + k) % 64) + (64 - k)) % 64 = b
    OBVIOUS
  <2>1. {b} \in SUBSET Bits
    OBVIOUS
  <2>2. Rotl(Rotl({b}, k), 64 - k) = {b}
    BY <2>1, RotatedBack
  <2>3. Rotl(Rotl({b}, k), 64 - k) = { (((b + k) % 64) + (64 - k)) % 64 }
    BY DEF Rotl
  <2> QED  BY <2>2, <2>3
<1>2. \A a, b \in Bits : r(a) = r(b) => a = b
  BY <1>1
<1>3. \A z : Rotl(z, k) = { r(b) : b \in z }
  BY DEF Rotl
<1> HIDE DEF r
<1> QED  BY <1>2, <1>3 DEF SymDiff

LEMMA ShiftAdds ==
    ASSUME NEW x \in SUBSET Bits, NEW y \in SUBSET Bits
    PROVE  Shl(SymDiff(x, y), 16) = SymDiff(Shl(x, 16), Shl(y, 16))
<1>1. \A z \in SUBSET Bits : \A c : c \in Shl(z, 16) <=> c \in 16 .. 63 /\ c - 16 \in z
  <2> SUFFICES ASSUME NEW z \in SUBSET Bits, NEW c
               PROVE  c \in Shl(z, 16) <=> c \in 16 .. 63 /\ c - 16 \in z
    OBVIOUS
  <2>1. ASSUME c \in Shl(z, 16) PROVE c \in 16 .. 63 /\ c - 16 \in z
    BY <2>1 DEF Shl, Bits
  <2>2. ASSUME c \in 16 .. 63, c - 16 \in z PROVE c \in Shl(z, 16)
    <3>1. c - 16 + 16 = c /\ c < 64
      BY <2>2
    <3> QED  BY <2>2, <3>1 DEF Shl
  <2> QED  BY <2>1, <2>2
<1>2. SymDiff(x, y) \in SUBSET Bits
  BY DiffIn
<1> QED  BY <1>1, <1>2 DEF SymDiff

LEMMA WordsAdd ==
    /\ \A s, t \in States : /\ Lower(SymDiff(s, t)) = SymDiff(Lower(s), Lower(t))
                            /\ Upper(SymDiff(s, t)) = SymDiff(Upper(s), Upper(t))
    /\ \A a, b, c, d \in SUBSET Bits :
          State(SymDiff(a, b), SymDiff(c, d)) = SymDiff(State(a, c), State(b, d))
<1>1. ASSUME NEW s \in States, NEW t \in States
      PROVE  /\ Lower(SymDiff(s, t)) = SymDiff(Lower(s), Lower(t))
             /\ Upper(SymDiff(s, t)) = SymDiff(Upper(s), Upper(t))
  <2>1. \A z \in States : \A c : c \in Upper(z) <=> c \in Bits /\ c + 64 \in z
    <3> SUFFICES ASSUME NEW z \in States, NEW c
                 PROVE  c \in Upper(z) <=> c \in Bits /\ c + 64 \in z
      OBVIOUS
    <3>1. ASSUME c \in Upper(z) PROVE c \in Bits /\ c + 64 \in z
      BY <3>1 DEF Upper, Bits, States, StateBits
    <3>2. ASSUME c \in Bits, c + 64 \in z PROVE c \in Upper(z)
      <4>1. (c + 64) - 64 = c /\ c + 64 \notin Bits
        BY <3>2 DEF Bits
      <4> QED  BY <3>2, <4>1 DEF Upper
    <3> QED  BY <3>1, <3>2
  <2>2. SymDiff(s, t) \in States
    BY DEF States, SymDiff
  <2>3. Upper(SymDiff(s, t)) = SymDiff(Upper(s), Upper(t))
    BY <2>1, <2>2 DEF SymDiff
  <2>4. Lower(SymDiff(s, t)) = SymDiff(Lower(s), Lower(t))
    BY DEF Lower, SymDiff
  <2> QED  BY <2>3, <2>4
<1>2. ASSUME NEW a \in SUBSET Bits, NEW b \in SUBSET Bits, NEW c \in SUBSET Bits, NEW d \in SUBSET Bits
      PROVE  State(SymDiff(a, b), SymDiff(c, d)) = SymDiff(State(a, c), State(b, d))
  <2> DEFINE up(z) == { e + 64 : e \in z }
  <2>1. \A x, y \in Bits : x + 64 = y + 64 => x = y
    BY DEF Bits
  <2>2. up(SymDiff(c, d)) = SymDiff(up(c), up(d))
    BY <2>1 DEF SymDiff
  <2>3. \A z \in SUBSET Bits : up(z) \cap Bits = {}
    BY DEF Bits
  <2>4. \A x, y : State(x, y) = x \cup up(y)
    BY DEF State
  <2> HIDE DEF up
  <2> QED  BY <2>2, <2>3, <2>4 DEF SymDiff
<1> QED  BY <1>1, <1>2

\* next() is linear.
LEMMA NextAdds ==
    ASSUME NEW s \in States, NEW t \in States
    PROVE  NextState(SymDiff(s, t)) = SymDiff(NextState(s), NextState(t))
<1> DEFINE word1(z) == SymDiff(Upper(z), Lower(z))
           word0(z) == SymDiff(SymDiff(Rotl(Lower(z), 24), word1(z)), Shl(word1(z), 16))
           z == SymDiff(s, t)
<1>1. z \in States
  BY DEF States, SymDiff
<1>2. \A x : NextState(x) = State(word0(x), Rotl(word1(x), 37))
  BY DEF NextState
<1>3. \A x \in States : Lower(x) \in SUBSET Bits /\ Upper(x) \in SUBSET Bits
  BY WordsOfState DEF States
<1>4. \A x \in States : word1(x) \in SUBSET Bits
  BY <1>3, DiffIn
<1>5. word1(z) = SymDiff(word1(s), word1(t))
  BY WordsAdd, DiffSwap
<1>6. 24 \in 1 .. 63 /\ 37 \in 1 .. 63
  OBVIOUS
<1> HIDE DEF word1
<1>7. Rotl(Lower(z), 24) = SymDiff(Rotl(Lower(s), 24), Rotl(Lower(t), 24))
  BY <1>3, <1>6, WordsAdd, RotationAdds
<1>8. Shl(word1(z), 16) = SymDiff(Shl(word1(s), 16), Shl(word1(t), 16))
  BY <1>4, <1>5, ShiftAdds
<1>9. word0(z) = SymDiff(word0(s), word0(t))
  BY <1>5, <1>7, <1>8, DiffSwap
<1>10. \A x \in States : word0(x) \in SUBSET Bits /\ Rotl(word1(x), 37) \in SUBSET Bits
  <2> SUFFICES ASSUME NEW x \in States
               PROVE  word0(x) \in SUBSET Bits /\ Rotl(word1(x), 37) \in SUBSET Bits
    OBVIOUS
  <2>1. Rotl(Lower(x), 24) \in SUBSET Bits /\ Rotl(word1(x), 37) \in SUBSET Bits
    BY <1>3, <1>4, <1>6, RotatedBack
  <2>2. Shl(word1(x), 16) \in SUBSET Bits
    BY <1>4, ShiftedIn
  <2>3. SymDiff(Rotl(Lower(x), 24), word1(x)) \in SUBSET Bits
    BY <1>4, <2>1, DiffIn
  <2> QED  BY <2>1, <2>2, <2>3, DiffIn
<1>11. Rotl(word1(z), 37) = SymDiff(Rotl(word1(s), 37), Rotl(word1(t), 37))
  BY <1>4, <1>5, <1>6, RotationAdds
<1> HIDE DEF word0
<1> QED  BY <1>1, <1>2, <1>9, <1>10, <1>11, WordsAdd

LEMMA ParityAdds ==
    ASSUME NEW A, NEW B, IsFiniteSet(A), IsFiniteSet(B)
    PROVE  Cardinality(SymDiff(A, B)) % 2 = 1
             <=> ~(Cardinality(A) % 2 = 1 <=> Cardinality(B) % 2 = 1)
<1> DEFINE a == Cardinality(A)
           b == Cardinality(B)
           both == Cardinality(A \cap B)
<1>1. B \cap A = A \cap B /\ (A \ B) \cap (B \ A) = {}
  OBVIOUS
<1>2. /\ IsFiniteSet(A \ B) /\ Cardinality(A \ B) = a - both
      /\ IsFiniteSet(B \ A) /\ Cardinality(B \ A) = b - both
  <2>1. IsFiniteSet(A \ B) /\ Cardinality(A \ B) = Cardinality(A) - Cardinality(A \cap B)
    BY FS_Difference, Zenon
  <2>2. IsFiniteSet(B \ A) /\ Cardinality(B \ A) = Cardinality(B) - Cardinality(B \cap A)
    BY FS_Difference, Zenon
  <2>3. Cardinality(B \cap A) = Cardinality(A \cap B)
    BY <1>1, Zenon
  <2> QED  BY <2>1, <2>2, <2>3, Zenon DEF a, b, both
<1>3. Cardinality(SymDiff(A, B)) = (a - both) + (b - both) - Cardinality({})
  BY <1>1, <1>2, FS_Union DEF SymDiff
<1>4. Cardinality({}) = 0 /\ a \in Nat /\ b \in Nat /\ both \in Nat
  BY FS_EmptySet, FS_CardinalityType, FS_Intersection
<1> HIDE DEF a, b, both
<1>5. Cardinality(SymDiff(A, B)) = a + b - 2 * both
  BY <1>3, <1>4
<1>6. (a + b - 2 * both) % 2 = 1 <=> ~(a % 2 = 1 <=> b % 2 = 1)
  BY <1>4
<1> QED  BY <1>5, <1>6 DEF a, b

\* Bit c of what m does to s is the parity of these.
Odd(m, s, c) == Cardinality({ b \in s : c \in m[b] }) % 2 = 1

LEMMA ImageIs ==
    ASSUME NEW m, NEW s
    PROVE  /\ Image(m, s) \in States
           /\ \A c : c \in Image(m, s) <=> c \in StateBits /\ Odd(m, s, c)
BY DEF Image, Odd, States

LEMMA SupportFinite ==
    ASSUME NEW m, NEW s \in States, NEW c
    PROVE  IsFiniteSet({ b \in s : c \in m[b] })
<1>1. IsFiniteSet(StateBits)
  <2>1. 0 \in Int /\ 127 \in Int
    OBVIOUS
  <2>2. IsFiniteSet(0 .. 127)
    BY <2>1, FS_Interval
  <2> QED  BY <2>2 DEF StateBits
<1>2. { b \in s : c \in m[b] } \in SUBSET StateBits
  BY DEF States
<1> QED  BY <1>1, <1>2, FS_Subset

LEMMA ImageAdds ==
    ASSUME NEW m, NEW s \in States, NEW t \in States
    PROVE  Image(m, SymDiff(s, t)) = SymDiff(Image(m, s), Image(m, t))
<1>1. ASSUME NEW c PROVE Odd(m, SymDiff(s, t), c) <=> ~(Odd(m, s, c) <=> Odd(m, t, c))
  <2> DEFINE S(z) == { b \in z : c \in m[b] }
  <2>1. S(SymDiff(s, t)) = SymDiff(S(s), S(t))
    BY DEF SymDiff
  <2>2. \A z : Odd(m, z, c) <=> Cardinality(S(z)) % 2 = 1
    BY DEF Odd
  <2>3. IsFiniteSet(S(s)) /\ IsFiniteSet(S(t))
    BY SupportFinite
  <2> HIDE DEF S
  <2> QED  BY <2>1, <2>2, <2>3, ParityAdds
<1> QED  BY <1>1, ImageIs DEF SymDiff

LEMMA MapsAdd ==
    ASSUME NEW x \in [StateBits -> States], NEW y \in [StateBits -> States], NEW s \in States
    PROVE  Image([b \in StateBits |-> SymDiff(x[b], y[b])], s) = SymDiff(Image(x, s), Image(y, s))
<1> DEFINE z == [b \in StateBits |-> SymDiff(x[b], y[b])]
<1>1. ASSUME NEW c PROVE Odd(z, s, c) <=> ~(Odd(x, s, c) <=> Odd(y, s, c))
  <2>1. \A b \in s : z[b] = SymDiff(x[b], y[b])
    BY DEF States
  <2> HIDE DEF z
  <2> DEFINE S(m) == { b \in s : c \in m[b] }
  <2>2. S(z) = SymDiff(S(x), S(y))
    BY <2>1 DEF SymDiff
  <2>3. \A m : Odd(m, s, c) <=> Cardinality(S(m)) % 2 = 1
    BY DEF Odd
  <2>4. IsFiniteSet(S(x)) /\ IsFiniteSet(S(y))
    BY SupportFinite
  <2> HIDE DEF S
  <2> QED  BY <2>2, <2>3, <2>4, ParityAdds
<1> HIDE DEF z
<1>2. Image(z, s) = SymDiff(Image(x, s), Image(y, s))
  BY <1>1, ImageIs DEF SymDiff
<1> QED  BY <1>2 DEF z

LEMMA ImageOfBit ==
    ASSUME NEW m \in [StateBits -> States], NEW b \in StateBits
    PROVE  Image(m, {b}) = m[b]
<1>1. m[b] \in States
  OBVIOUS
<1>2. ASSUME NEW c PROVE Odd(m, {b}, c) <=> c \in m[b]
  <2>1. CASE c \in m[b]
    <3>1. { a \in {b} : c \in m[a] } = {b} /\ Cardinality({b}) = 1 /\ 1 % 2 = 1
      BY <2>1, FS_Singleton, SMTT(30)
    <3> QED  BY <2>1, <3>1 DEF Odd
  <2>2. CASE c \notin m[b]
    <3>1. { a \in {b} : c \in m[a] } = {} /\ Cardinality({}) = 0 /\ 0 % 2 = 0
      BY <2>2, FS_EmptySet
    <3> QED  BY <2>2, <3>1 DEF Odd
  <2> QED  BY <2>1, <2>2
<1> QED  BY <1>1, <1>2, ImageIs DEF States

LEMMA BitIn ==
    ASSUME NEW b \in StateBits
    PROVE  {b} \in States
BY DEF States

\* Doing nothing, adding nothing, one call more, and one map after the other.
LEMMA ImageOfItself ==
    ASSUME NEW s \in States
    PROVE  Image(Itself, s) = s /\ Image(Nowhere, s) = {}
<1>1. ASSUME NEW c PROVE Odd(Itself, s, c) <=> c \in s
  <2>1. { b \in s : c \in Itself[b] } = { b \in s : c = b }
    BY DEF Itself, States
  <2>2. CASE c \in s
    <3>1. { b \in s : c = b } = {c} /\ Cardinality({c}) = 1 /\ 1 % 2 = 1
      BY <2>2, FS_Singleton
    <3> QED  BY <2>1, <2>2, <3>1 DEF Odd
  <2>3. CASE c \notin s
    <3>1. { b \in s : c = b } = {} /\ Cardinality({}) = 0 /\ 0 % 2 = 0
      BY <2>3, FS_EmptySet
    <3> QED  BY <2>1, <2>3, <3>1 DEF Odd
  <2> QED  BY <2>2, <2>3
<1>2. ASSUME NEW c PROVE ~ Odd(Nowhere, s, c)
  <2>1. { b \in s : c \in Nowhere[b] } = {} /\ Cardinality({}) = 0 /\ 0 % 2 = 0
    BY FS_EmptySet DEF Nowhere, States
  <2> QED  BY <2>1, SMTT(30) DEF Odd
<1> QED  BY <1>1, <1>2, ImageIs DEF States

LEMMA ImageOfNext ==
    ASSUME NEW m \in [StateBits -> States], NEW s \in States
    PROVE  Image([b \in StateBits |-> NextState(m[b])], s) = NextState(Image(m, s))
<1> DEFINE n == [b \in StateBits |-> NextState(m[b])]
           F == [t \in States |-> Image(n, t)]
           G == [t \in States |-> NextState(Image(m, t))]
<1>1. \A t \in States : NextState(t) \in States
  BY NextUndone DEF States
<1>2. n \in [StateBits -> States] /\ \A b \in StateBits : n[b] = NextState(m[b])
  BY <1>1
<1> HIDE DEF n
<1>3. F \in [States -> States] /\ G \in [States -> States]
  BY <1>1, ImageIs
<1>4. \A t \in States : F[t] = Image(n, t) /\ G[t] = NextState(Image(m, t))
  OBVIOUS
<1>5. \A t, u \in States : SymDiff(t, u) \in States
  BY DEF States, SymDiff
<1> HIDE DEF F, G
<1>6. Additive(F) /\ Additive(G)
  <2>1. ASSUME NEW t \in States, NEW u \in States
        PROVE  F[SymDiff(t, u)] = SymDiff(F[t], F[u]) /\ G[SymDiff(t, u)] = SymDiff(G[t], G[u])
    <3>1. Image(n, SymDiff(t, u)) = SymDiff(Image(n, t), Image(n, u))
      BY ImageAdds
    <3>2. Image(m, SymDiff(t, u)) = SymDiff(Image(m, t), Image(m, u))
      BY ImageAdds
    <3>3. Image(m, t) \in States /\ Image(m, u) \in States
      BY ImageIs
    <3>4. NextState(SymDiff(Image(m, t), Image(m, u)))
             = SymDiff(NextState(Image(m, t)), NextState(Image(m, u)))
      BY <3>3, NextAdds
    <3> QED  BY <1>4, <1>5, <3>1, <3>2, <3>4
  <2> QED  BY <2>1 DEF Additive
<1>7. ASSUME NEW b \in StateBits PROVE F[{b}] = G[{b}]
  <2>1. {b} \in States /\ Image(n, {b}) = n[b] /\ Image(m, {b}) = m[b]
    BY <1>2, BitIn, ImageOfBit
  <2> QED  BY <1>2, <1>4, <2>1
<1>8. \A t \in States : F[t] = G[t]
  BY <1>3, <1>6, <1>7, AdditiveSame
<1> QED  BY <1>4, <1>8 DEF n

LEMMA ImageOfTwice ==
    ASSUME NEW m \in [StateBits -> States], NEW s \in States
    PROVE  Image([b \in StateBits |-> Image(m, m[b])], s) = Image(m, Image(m, s))
<1> DEFINE n == [b \in StateBits |-> Image(m, m[b])]
           F == [t \in States |-> Image(n, t)]
           G == [t \in States |-> Image(m, Image(m, t))]
<1>2. n \in [StateBits -> States] /\ \A b \in StateBits : n[b] = Image(m, m[b])
  BY ImageIs
<1> HIDE DEF n
<1>3. F \in [States -> States] /\ G \in [States -> States]
  BY ImageIs
<1>4. \A t \in States : F[t] = Image(n, t) /\ G[t] = Image(m, Image(m, t))
  OBVIOUS
<1>5. \A t, u \in States : SymDiff(t, u) \in States
  BY DEF States, SymDiff
<1> HIDE DEF F, G
<1>6. Additive(F) /\ Additive(G)
  <2>1. ASSUME NEW t \in States, NEW u \in States
        PROVE  F[SymDiff(t, u)] = SymDiff(F[t], F[u]) /\ G[SymDiff(t, u)] = SymDiff(G[t], G[u])
    <3>1. Image(n, SymDiff(t, u)) = SymDiff(Image(n, t), Image(n, u))
      BY ImageAdds
    <3>2. Image(m, SymDiff(t, u)) = SymDiff(Image(m, t), Image(m, u))
      BY ImageAdds
    <3>3. Image(m, t) \in States /\ Image(m, u) \in States
      BY ImageIs
    <3>4. Image(m, SymDiff(Image(m, t), Image(m, u)))
             = SymDiff(Image(m, Image(m, t)), Image(m, Image(m, u)))
      BY <3>3, ImageAdds
    <3> QED  BY <1>4, <1>5, <3>1, <3>2, <3>4
  <2> QED  BY <2>1 DEF Additive
<1>7. ASSUME NEW b \in StateBits PROVE F[{b}] = G[{b}]
  <2>1. {b} \in States /\ Image(n, {b}) = n[b] /\ Image(m, {b}) = m[b]
    BY <1>2, BitIn, ImageOfBit
  <2> QED  BY <1>2, <1>4, <2>1
<1>8. \A t \in States : F[t] = G[t]
  BY <1>3, <1>6, <1>7, AdditiveSame
<1> QED  BY <1>4, <1>8 DEF n

\* The states next() goes through from o[0], and what a loop that adds those of
\* bits has before each of its rounds.
Orbit(o) ==
    /\ o \in [Nat -> States]
    /\ \A n \in Nat : o[n+1] = NextState(o[n])

SumOf(acc, o, bits) ==
    /\ acc \in [Nat -> States]
    /\ acc[0] = {}
    /\ \A n \in Nat : acc[n+1] = IF n \in bits THEN SymDiff(acc[n], o[n]) ELSE acc[n]

\* The states of one bit say what comes of every state.
JumpInv ==
    /\ {after, jumped, longJumped, power} \subseteq [StateBits -> States]
    /\ at \in 0 .. 128 /\ exponent \in 0 .. 96
    /\ \A o : Orbit(o) =>
          /\ Image(after, o[0]) = o[at]
          /\ Image(power, o[0]) = o[2^exponent]
          /\ \A acc : SumOf(acc, o, JumpBits) => Image(jumped, o[0]) = acc[at]
          /\ \A acc : SumOf(acc, o, LongJumpBits) => Image(longJumped, o[0]) = acc[at]

\* A round of either loop adds to what it has from every state.
LEMMA AddedEverywhere ==
    ASSUME NEW sum \in [StateBits -> States], after \in [StateBits -> States], at \in Nat,
           NEW bits, NEW o, Orbit(o), Image(after, o[0]) = o[at],
           NEW acc, SumOf(acc, o, bits), Image(sum, o[0]) = acc[at]
    PROVE  Image(Added(sum, bits), o[0]) = acc[at + 1]
<1>1. o[0] \in States
  BY DEF Orbit
<1>2. CASE at \in bits
  <2>1. Image(Added(sum, bits), o[0]) = SymDiff(Image(sum, o[0]), Image(after, o[0]))
    BY <1>1, <1>2, MapsAdd DEF Added
  <2> QED  BY <1>2, <2>1 DEF SumOf
<1>3. CASE at \notin bits
  BY <1>3 DEF Added, SumOf
<1> QED  BY <1>2, <1>3

LEMMA AddedIn ==
    ASSUME NEW sum \in [StateBits -> States], after \in [StateBits -> States], NEW bits
    PROVE  Added(sum, bits) \in [StateBits -> States]
<1>1. \A s, t \in States : SymDiff(s, t) \in States
  BY DEF States, SymDiff
<1> QED  BY <1>1 DEF Added

\* What is left of an orbit is an orbit.
LEMMA OrbitFrom ==
    ASSUME NEW o, Orbit(o), NEW k \in Nat
    PROVE  Orbit([n \in Nat |-> o[k + n]])
<1> DEFINE p == [n \in Nat |-> o[k + n]]
<1>1. p \in [Nat -> States]
  BY DEF Orbit
<1>2. ASSUME NEW n \in Nat PROVE p[n+1] = NextState(p[n])
  <2>1. k + n \in Nat /\ k + (n + 1) = (k + n) + 1
    OBVIOUS
  <2> QED  BY <2>1 DEF Orbit
<1> HIDE DEF p
<1>3. Orbit(p)
  BY <1>1, <1>2 DEF Orbit
<1> QED  BY <1>3 DEF p

LEMMA JumpKept == XoSpec => []JumpInv
<1>1. XoInit => JumpInv
  <2> SUFFICES ASSUME XoInit PROVE JumpInv
    OBVIOUS
  <2>1. Itself \in [StateBits -> States] /\ Nowhere \in [StateBits -> States]
    BY BitIn DEF Itself, Nowhere, States
  <2>2. \A b \in StateBits : NextState({b}) \in States
    BY NextUndone DEF States
  <2>3. power = [b \in StateBits |-> NextState(Itself[b])]
    BY DEF XoInit, Itself
  <2>4. {after, jumped, longJumped, power} \subseteq [StateBits -> States]
    BY <2>1, <2>2 DEF XoInit
  <2>5. at \in 0 .. 128 /\ exponent \in 0 .. 96 /\ at = 0 /\ exponent = 0
    BY DEF XoInit
  <2>6. ASSUME NEW o, Orbit(o)
        PROVE  /\ Image(after, o[0]) = o[at]
               /\ Image(power, o[0]) = o[2^exponent]
               /\ \A acc : SumOf(acc, o, JumpBits) => Image(jumped, o[0]) = acc[at]
               /\ \A acc : SumOf(acc, o, LongJumpBits) => Image(longJumped, o[0]) = acc[at]
    <3>1. o[0] \in States /\ o[1] = NextState(o[0])
      BY <2>6 DEF Orbit
    <3>2. Image(Itself, o[0]) = o[0] /\ Image(Nowhere, o[0]) = {}
      BY <3>1, ImageOfItself
    <3>3. Image(power, o[0]) = o[1]
      BY <2>1, <2>3, <3>1, <3>2, ImageOfNext
    <3>4. 2^exponent = 1
      BY <2>5
    <3> QED  BY <2>5, <3>2, <3>3, <3>4 DEF XoInit, SumOf
  <2> QED  BY <2>4, <2>5, <2>6 DEF JumpInv
<1>2. ASSUME JumpInv, XoRound PROVE JumpInv'
  <2>1. /\ after \in [StateBits -> States] /\ jumped \in [StateBits -> States]
        /\ longJumped \in [StateBits -> States] /\ power \in [StateBits -> States]
        /\ at \in 0 .. 127 /\ at' = at + 1 /\ exponent \in 0 .. 96
    BY <1>2 DEF JumpInv, XoRound
  <2>2. after' \in [StateBits -> States]
    <3>1. \A s \in States : NextState(s) \in States
      BY NextUndone DEF States
    <3> QED  BY <1>2, <2>1, <3>1 DEF XoRound
  <2>3. jumped' \in [StateBits -> States] /\ longJumped' \in [StateBits -> States]
    BY <1>2, <2>1, AddedIn DEF XoRound
  <2>4. ASSUME NEW o, Orbit(o)
        PROVE  /\ Image(after', o[0]) = o[at']
               /\ Image(power', o[0]) = o[2^(exponent')]
               /\ \A acc : SumOf(acc, o, JumpBits) => Image(jumped', o[0]) = acc[at']
               /\ \A acc : SumOf(acc, o, LongJumpBits) => Image(longJumped', o[0]) = acc[at']
    <3>1. /\ Image(after, o[0]) = o[at]
          /\ Image(power, o[0]) = o[2^exponent]
          /\ \A acc : SumOf(acc, o, JumpBits) => Image(jumped, o[0]) = acc[at]
          /\ \A acc : SumOf(acc, o, LongJumpBits) => Image(longJumped, o[0]) = acc[at]
      BY <1>2, <2>4 DEF JumpInv
    <3>2. o[0] \in States /\ o[at + 1] = NextState(o[at])
      BY <2>1, <2>4 DEF Orbit
    <3>3. Image(after', o[0]) = o[at']
      BY <1>2, <2>1, <3>1, <3>2, ImageOfNext DEF XoRound
    <3>4. Image(power', o[0]) = o[2^(exponent')]
      BY <1>2, <3>1 DEF XoRound
    <3>5. ASSUME NEW acc, SumOf(acc, o, JumpBits) PROVE Image(jumped', o[0]) = acc[at']
      BY <1>2, <2>1, <2>4, <3>1, <3>5, AddedEverywhere DEF XoRound
    <3>6. ASSUME NEW acc, SumOf(acc, o, LongJumpBits) PROVE Image(longJumped', o[0]) = acc[at']
      BY <1>2, <2>1, <2>4, <3>1, <3>6, AddedEverywhere DEF XoRound
    <3> QED  BY <3>3, <3>4, <3>5, <3>6
  <2>5. power' \in [StateBits -> States] /\ at' \in 0 .. 128 /\ exponent' \in 0 .. 96
    BY <1>2, <2>1 DEF XoRound
  <2> QED  BY <2>2, <2>3, <2>4, <2>5 DEF JumpInv
<1>3. ASSUME JumpInv, Double PROVE JumpInv'
  <2>1. /\ power \in [StateBits -> States] /\ exponent \in 0 .. 95 /\ exponent' = exponent + 1
        /\ power' = [b \in StateBits |-> Image(power, power[b])]
        /\ after' = after /\ at' = at /\ jumped' = jumped /\ longJumped' = longJumped
    BY <1>3 DEF JumpInv, Double
  <2>2. power' \in [StateBits -> States]
    BY <2>1, ImageIs
  <2>3. ASSUME NEW o, Orbit(o) PROVE Image(power', o[0]) = o[2^(exponent')]
    <3> DEFINE k == 2^exponent
               p == [n \in Nat |-> o[k + n]]
    <3>1. k \in Nat /\ 2^(exponent') = 2 * k
      BY <2>1, PowStep
    <3> HIDE DEF k
    <3>2. Orbit(p) /\ p[0] = o[k] /\ p[k] = o[2 * k]
      <4>1. k + 0 = k /\ k + k = 2 * k
        BY <3>1
      <4> QED  BY <2>3, <3>1, <4>1, OrbitFrom
    <3> HIDE DEF p
    <3>3. Image(power, o[0]) = o[k] /\ Image(power, p[0]) = p[k]
      BY <1>3, <2>3, <3>2 DEF JumpInv, k
    <3>4. o[0] \in States
      BY <2>3 DEF Orbit
    <3> QED  BY <2>1, <3>1, <3>2, <3>3, <3>4, ImageOfTwice
  <2> QED  BY <1>3, <2>1, <2>2, <2>3 DEF JumpInv
<1>4. ASSUME JumpInv, UNCHANGED xoVars PROVE JumpInv'
  <2>1. /\ after' = after /\ at' = at /\ jumped' = jumped /\ longJumped' = longJumped
        /\ power' = power /\ exponent' = exponent
    BY <1>4 DEF xoVars
  <2> QED  BY <1>4, <2>1, Zenon DEF JumpInv
<1>5. JumpInv /\ [XoNext]_xoVars => JumpInv'
  BY <1>2, <1>3, <1>4 DEF XoNext
<1> QED  BY <1>1, <1>5, PTL DEF XoSpec

\* From every state, xo_jump gets to the state 2^64 calls away, and xo_long_jump
\* to the one 2^96 away.
EveryStateJumps ==
    \A o, acc : Orbit(o) =>
       /\ at = 128 /\ exponent = 64 /\ SumOf(acc, o, JumpBits) => acc[128] = o[2^64]
       /\ at = 128 /\ exponent = 96 /\ SumOf(acc, o, LongJumpBits) => acc[128] = o[2^96]

\* A first value and what comes after each make an infinite sequence.
Steps(f, S) == f \in [Nat -> [S -> S]]

Follows(g, a, f, S) ==
    /\ g \in [Nat -> S]
    /\ g[0] = a
    /\ \A n \in Nat : g[n+1] = f[n][g[n]]

LEMMA SequenceExists ==
    ASSUME NEW S, NEW a \in S, NEW f, Steps(f, S)
    PROVE  \E g : Follows(g, a, f, S)
<1> DEFINE Prefix(g, n) == /\ g \in [0 .. n -> S] /\ g[0] = a
                           /\ \A k \in 0 .. n-1 : g[k+1] = f[k][g[k]]
           Has == { n \in Nat : \E g : Prefix(g, n) }
<1>1. Has = Nat
  <2>1. 0 \in Has
    <3>1. Prefix([k \in 0 .. 0 |-> a], 0)
      OBVIOUS
    <3> HIDE DEF Prefix
    <3> QED  BY <3>1
  <2>2. ASSUME NEW n \in Nat, n \in Has PROVE n + 1 \in Has
    <3>1. PICK g : Prefix(g, n)
      BY <2>2
    <3> DEFINE h == [k \in 0 .. n+1 |-> IF k = n+1 THEN f[n][g[n]] ELSE g[k]]
    <3>2. g[n] \in S /\ f[n][g[n]] \in S
      BY <3>1 DEF Steps
    <3>3. h \in [0 .. n+1 -> S] /\ h[0] = a
      BY <3>1, <3>2
    <3>4. ASSUME NEW k \in 0 .. n PROVE h[k+1] = f[k][h[k]]
      <4>1. h[k] = g[k] /\ h[k+1] = IF k = n THEN f[n][g[n]] ELSE g[k+1]
        OBVIOUS
      <4>2. k # n => g[k+1] = f[k][g[k]]
        BY <3>1
      <4> HIDE DEF h
      <4> QED  BY <4>1, <4>2
    <3>5. Prefix(h, n+1)
      <4> HIDE DEF h
      <4> QED  BY <3>3, <3>4
    <3> HIDE DEF Prefix
    <3> QED  BY <3>5
  <2> HIDE DEF Has
  <2>3. Has \in SUBSET Nat
    BY DEF Has
  <2> QED  BY <2>1, <2>2, <2>3, AllNaturals
<1>2. ASSUME NEW n \in Nat, NEW g, NEW h, Prefix(g, n), Prefix(h, n+1) PROVE g[n] = h[n]
  <2> DEFINE Z == { k \in Nat : k <= n => g[k] = h[k] }
  <2>1. 0 \in Z
    BY <1>2
  <2>2. ASSUME NEW k \in Nat, k \in Z PROVE k + 1 \in Z
    <3> SUFFICES ASSUME k + 1 <= n PROVE g[k+1] = h[k+1]
      OBVIOUS
    <3>1. k \in 0 .. n-1 /\ k \in 0 .. n /\ g[k] = h[k]
      BY <2>2
    <3> QED  BY <1>2, <3>1
  <2> HIDE DEF Z
  <2>3. Z \in SUBSET Nat
    BY DEF Z
  <2>4. Z = Nat
    BY <2>1, <2>2, <2>3, AllNaturals
  <2> QED  BY <2>4 DEF Z
<1> DEFINE G(n) == CHOOSE g : Prefix(g, n)
           r == [n \in Nat |-> G(n)[n]]
<1>3. ASSUME NEW n \in Nat PROVE Prefix(G(n), n)
  <2>1. \E g : Prefix(g, n)
    BY <1>1
  <2> HIDE DEF Prefix
  <2> QED  BY <2>1
<1> HIDE DEF G
<1>4. r \in [Nat -> S] /\ r[0] = a
  BY <1>3
<1>5. ASSUME NEW n \in Nat PROVE r[n+1] = f[n][r[n]]
  <2>1. G(n)[n] = G(n+1)[n]
    <3> HIDE DEF Prefix
    <3> QED  BY <1>2, <1>3
  <2>2. G(n+1)[n+1] = f[n][G(n+1)[n]]
    BY <1>3
  <2> QED  BY <2>1, <2>2
<1> HIDE DEF r
<1> QED  BY <1>4, <1>5 DEF Follows

\* Every state has calls to come, and a sum over them: what is said of each
\* orbit is said of every state.
LEMMA OrbitExists ==
    ASSUME NEW s \in States, NEW bits
    PROVE  \E o, acc : Orbit(o) /\ o[0] = s /\ SumOf(acc, o, bits)
<1> DEFINE f == [n \in Nat |-> [t \in States |-> NextState(t)]]
<1>1. ASSUME NEW t \in States PROVE NextState(t) \in States
  BY <1>1, NextUndone DEF States
<1>2. f \in [Nat -> [States -> States]] /\ \A n \in Nat : \A t \in States : f[n][t] = NextState(t)
  BY <1>1
<1> HIDE DEF f
<1>2a. Steps(f, States)
  BY <1>2 DEF Steps
<1>3a. PICK o : Follows(o, s, f, States)
  BY <1>2a, SequenceExists
<1>3. o \in [Nat -> States] /\ o[0] = s /\ \A n \in Nat : o[n+1] = f[n][o[n]]
  BY <1>3a DEF Follows
<1>4. Orbit(o)
  BY <1>2, <1>3 DEF Orbit
<1> DEFINE h == [n \in Nat |-> [t \in States |-> IF n \in bits THEN SymDiff(t, o[n]) ELSE t]]
<1>5. ASSUME NEW n \in Nat, NEW t \in States PROVE SymDiff(t, o[n]) \in States
  <2>1. o[n] \in SUBSET StateBits /\ t \in SUBSET StateBits
    BY <1>3 DEF States
  <2> QED  BY <2>1 DEF SymDiff, States
<1>6. /\ h \in [Nat -> [States -> States]]
      /\ \A n \in Nat : \A t \in States : h[n][t] = IF n \in bits THEN SymDiff(t, o[n]) ELSE t
  BY <1>5
<1> HIDE DEF h
<1>7. {} \in States
  BY DEF States
<1>7a. Steps(h, States)
  BY <1>6 DEF Steps
<1>8a. PICK acc : Follows(acc, {}, h, States)
  BY <1>7, <1>7a, SequenceExists
<1>8. acc \in [Nat -> States] /\ acc[0] = {} /\ \A n \in Nat : acc[n+1] = h[n][acc[n]]
  BY <1>8a DEF Follows
<1>9. SumOf(acc, o, bits)
  BY <1>6, <1>8 DEF SumOf
<1> QED  BY <1>3, <1>4, <1>9

(***************************************************************************)
(* The 128 states of one bit are enough to know jump() and long_jump() by   *)
(* (xoroshiro128plus.cpp 26-64): when what the loops make of them is 2^64   *)
(* and 2^96 calls of next(), the loops make that of every state.            *)
(***************************************************************************)
THEOREM JumpTheorem == XoSpec => [](JumpsAhead => EveryStateJumps)
<1>1. JumpInv /\ JumpsAhead => EveryStateJumps
  <2> SUFFICES ASSUME JumpInv, JumpsAhead, NEW o, NEW acc, Orbit(o)
               PROVE  /\ at = 128 /\ exponent = 64 /\ SumOf(acc, o, JumpBits) => acc[128] = o[2^64]
                      /\ at = 128 /\ exponent = 96 /\ SumOf(acc, o, LongJumpBits) => acc[128] = o[2^96]
    BY DEF EveryStateJumps
  <2>1. /\ Image(power, o[0]) = o[2^exponent]
        /\ SumOf(acc, o, JumpBits) => Image(jumped, o[0]) = acc[at]
        /\ SumOf(acc, o, LongJumpBits) => Image(longJumped, o[0]) = acc[at]
    BY DEF JumpInv
  <2>2. ASSUME at = 128, exponent = 64, SumOf(acc, o, JumpBits) PROVE acc[128] = o[2^64]
    <3>1. jumped = power
      BY <2>2 DEF JumpsAhead
    <3>2. acc[at] = o[2^exponent]
      BY <2>1, <2>2, <3>1
    <3> QED  BY <2>2, <3>2, Zenon
  <2>3. ASSUME at = 128, exponent = 96, SumOf(acc, o, LongJumpBits) PROVE acc[128] = o[2^96]
    <3>1. longJumped = power
      BY <2>3 DEF JumpsAhead
    <3>2. acc[at] = o[2^exponent]
      BY <2>1, <2>3, <3>1
    <3> QED  BY <2>3, <3>2, Zenon
  <2> QED  BY <2>2, <2>3
<1> QED  BY <1>1, JumpKept, PTL

(***************************************************************************)
(* A generator whose state is not zero never gets to the state of two       *)
(* zeros, where every sample would be the same (xoroshiro128plus.cpp 15-26).*)
(***************************************************************************)
THEOREM NeverZeroTheorem ==
    ASSUME NEW o, Orbit(o), o[0] # {}
    PROVE  \A n \in Nat : o[n] # {}
<1> DEFINE Z == { n \in Nat : o[n] # {} }
<1>1. 0 \in Z
  OBVIOUS
<1>2. ASSUME NEW n \in Nat, n \in Z PROVE n + 1 \in Z
  <2>1. o[n] \in SUBSET StateBits /\ o[n+1] = NextState(o[n])
    BY DEF Orbit, States
  <2> QED  BY <1>2, <2>1, ZeroFromZero
<1> HIDE DEF Z
<1>3. Z = Nat
  <2>1. Z \in SUBSET Nat
    BY DEF Z
  <2> QED  BY <1>1, <1>2, <2>1, AllNaturals
<1> QED  BY <1>3 DEF Z

=============================================================================
