------------------------------- MODULE Spans -------------------------------
(***************************************************************************)
(* The data every stage of shuffle3 works on.  A span is the array of       *)
(* objects a mapped file is viewed as: a function from 0 .. n-1, indexed    *)
(* as in the code.  A tape is what one freshly seeded generator answers to  *)
(* the calls next_long(n-1), ..., next_long(1) of one loop over a span of   *)
(* n objects: tape[i] is the answer to next_long(i).                        *)
(***************************************************************************)
EXTENDS Integers, FiniteSets, Functions

\* The objects a span of n objects can hold.
SpanOf(n, T) == [0 .. n-1 -> T]

\* std::swap(span[x], span[y]) once both of its stores are done.
Swapped(a, x, y) == [a EXCEPT ![x] = a[y], ![y] = a[x]]

(***************************************************************************)
(* The tapes of a span of n objects.  next_long(i) is floor(sample * i):    *)
(* the xoroshiro sampler stays below 1, so it answers less than i; drng     *)
(* (rand_r / RAND_MAX) and frng (a rounded fract) can sample exactly 1.0    *)
(* and answer i itself.  upTo says which of the two.                        *)
(***************************************************************************)
Tapes(n, upTo) ==
    { t \in [1 .. n-1 -> 0 .. n-1] :
        \A i \in 1 .. n-1 : IF upTo THEN t[i] <= i ELSE t[i] < i }

\* The kept objects of a span, by their keys: what minmax_t compares.
KeptKeys(a, keep, key) == { key[x] : x \in Range(a) \cap keep }

\* The seeds a stage computes from a span: the least and the greatest of the kept keys; with
\* nothing kept they are what the uninitialised locals held, which is 0 and 0
\* in a DEBUG build and anything at all in a release build.
SeedsOf(keys, debug, zero, any) ==
    IF keys # {} THEN { s \in keys \X keys : \A k \in keys : s[1] <= k /\ k <= s[2] }
    ELSE IF debug THEN {<<zero, zero>>}
    ELSE any \X any

\* Mutant: the second store of the swap is lost.
ShuffleFromLossy(a, n, draw) ==
    LET at[k \in 0 .. n-1] ==
            IF k = n-1 THEN a ELSE [at[k+1] EXCEPT ![k+1] = at[k+1][draw[k+1]]]
    IN  at

\* The spans shuffle and unshuffle go through from a, by loop index.
ShuffleFrom(a, n, draw) ==
    LET at[k \in 0 .. n-1] == IF k = n-1 THEN a ELSE Swapped(at[k+1], k+1, draw[k+1])
    IN  at

UnshuffleFrom(a, n, draw) ==
    LET at[k \in 0 .. n-1] == IF k = 0 THEN a ELSE Swapped(at[k-1], k, draw[k])
    IN  at

\* b holds the objects of a, in some order.
SameObjects(a, b) ==
    /\ DOMAIN a = DOMAIN b
    /\ \E p \in Bijection(DOMAIN a, DOMAIN a) :
          \A x \in DOMAIN a : b[x] = a[p[x]]

\* The same of finite spans, by counting: what TLC evaluates on long ones.
Count(a, x) == Cardinality({ k \in DOMAIN a : a[k] = x })

SameCounts(a, b) ==
    /\ DOMAIN a = DOMAIN b
    /\ \A x \in Range(a) \cup Range(b) : Count(a, x) = Count(b, x)

=============================================================================
