------------------------------ MODULE Sampling ------------------------------
(***************************************************************************)
(* RNG::next_long(max) in floating point: floor(sample() * (double)max),    *)
(* for the samplers of the three generators.  A double has P significant    *)
(* bits and rounds to nearest, ties to even; exponents do not matter here.  *)
(* A number is kept as its multiple of 2^-U, U large enough for every value *)
(* that occurs to be whole.                                                 *)
(***************************************************************************)
EXTENDS Spans

CONSTANTS
    P,          \* significant bits of a double: 53
    RandBits,   \* RAND_MAX is 2^RandBits - 1: 31
    MaxArgument,\* bound: |x| of fract(x), 43758.5453 times a sine
    MaxObjects  \* bound: the spans considered

ASSUME PAssumption == P \in Nat \ {0} /\ RandBits \in Nat \ {0}
\* An index is exact as a double: no memory has 2^53 bytes.
ASSUME MaxAssumption == MaxArgument \in Nat /\ MaxObjects \in Nat /\ MaxObjects - 1 <= 2^P
\* The answers of rand_r are far fewer than the doubles below 1, and a sine
\* times 43758.5453 exceeds 1.
ASSUME SamplesAssumption == 2 <= RandBits /\ RandBits + 2 <= P /\ 1 <= MaxArgument

VARIABLES
    rng,        \* the class of the generator
    max,        \* next_long's argument, the loop index of its caller
    sample,     \* what sample() returned
    draw        \* what next_long() returned, None before it does

samplingVars == <<rng, max, sample, draw>>

None == -1

U == P + RandBits
One == 2^U

\* n/d with the last k bits rounded off, half to even.
RoundedOff(n, d, k) ==
    LET unit == d * 2^k
        q == n \div unit
        r == n % unit
    IN  2^k * (IF 2*r > unit \/ (2*r = unit /\ q % 2 = 1) THEN q + 1 ELSE q)

\* Mutant: rounds up.
RoundUp(n, d) ==
    LET k == CHOOSE k \in 0 .. U + P : /\ n \div (d * 2^k) < 2^P
                                       /\ k = 0 \/ n \div (d * 2^(k-1)) >= 2^P
        up == RoundedOff(n, d, k)
    IN  IF up * d < n THEN up + 2^k ELSE up

\* n/d as a double.
Round(n, d) ==
    RoundedOff(n, d, CHOOSE k \in 0 .. U + P : /\ n \div (d * 2^k) < 2^P
                                               /\ k = 0 \/ n \div (d * 2^(k-1)) >= 2^P)

-----------------------------------------------------------------------------
\* Mutant: the mask is a bit short.
XoroshiroSamplesHalf == { m * 2^RandBits : m \in 0 .. 2^(P-1) - 1 }

\* (next(state) & (2^53 - 1)) * 2^-53
XoroshiroSamples == { m * 2^RandBits : m \in 0 .. 2^P - 1 }

\* (double)rand_r(&state) / (double)RAND_MAX
DrngSamples == { Round(v * One, 2^RandBits - 1) : v \in 0 .. 2^RandBits - 1 }

\* x - floor(x), of a double x that is a sine times 43758.5453.
Fract(x) == Round(x - One * (x \div One), 1)
FrngSamples ==
    { Fract(x) : x \in { sign * m * 2^e : sign \in {1, -1}, m \in 0 .. 2^P - 1, e \in 0 .. U }
                       \cap (-MaxArgument * One .. MaxArgument * One) }

Samples == [xoroshiro128plus |-> XoroshiroSamples, drng |-> DrngSamples, frng |-> FrngSamples]

\* Mutant: the product is rounded to an integer, not down.
NextLongNearest(s, bound) == (Round(s * Round(bound, 1), 1) + One \div 2) \div One

\* (int64_t)floor(sample() * (double)max)
NextLong(s, bound) == Round(s * Round(bound, 1), 1) \div One

-----------------------------------------------------------------------------
SamplingInit ==
    /\ rng \in DOMAIN Samples
    /\ max \in 1 .. MaxObjects - 1
    /\ sample \in Samples[rng]
    /\ draw = None

Draw ==
    /\ draw = None
    /\ draw' = NextLong(sample, max)
    /\ UNCHANGED <<rng, max, sample>>

SamplingSpec == SamplingInit /\ [][Draw]_samplingVars

-----------------------------------------------------------------------------
Drawn == draw # None

(***************************************************************************)
(* Despite two roundings an answer is one the stages count on (Spans!Tapes, *)
(* shuffle.hpp 18-21): an index of the span, and below the loop index for   *)
(* the generator that samples below 1.                                      *)
(***************************************************************************)
OnTape == Drawn =>
    [k \in 1 .. max |-> IF k = max THEN draw ELSE 0]
        \in Tapes(max + 1, rng # "xoroshiro128plus")

(***************************************************************************)
(* The loop index itself is drawn only by a sample of exactly 1.            *)
(***************************************************************************)
BoundOnlyAtOne == Drawn /\ draw = max => sample = One

(***************************************************************************)
(* No object is out of reach: each index below the loop index is the answer *)
(* to some sample (up to 2^52 objects, and for drng 2^30: the samples are   *)
(* then dense enough for two roundings to leave one for every index).       *)
(***************************************************************************)
EveryIndexReached ==
    max <= 2^(P-1) /\ (rng = "drng" => max <= 2^(RandBits-1)) /\ sample = 0 =>
        0 .. max-1 \subseteq { NextLong(s, max) : s \in Samples[rng] }

=============================================================================
