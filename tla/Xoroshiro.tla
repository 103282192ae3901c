------------------------------ MODULE Xoroshiro ------------------------------
(***************************************************************************)
(* xoroshiro128plus at its full width.  A word is the set of its bits, so   *)
(* exclusive or is symmetric difference; a state of two words is the set of *)
(* its 128 bits, the second word's from 64 up.  next() is linear in the     *)
(* state: what it does to every state is what it does to the 128 states of  *)
(* one bit each, so the calls are followed on all of these at once.         *)
(*                                                                         *)
(* jump() and long_jump() are loops of 128 calls of next(), some of whose   *)
(* states are added up.  What they promise is to be 2^64 and 2^96 calls.    *)
(***************************************************************************)
EXTENDS Integers, FiniteSets, FiniteSetsExt

Bits == 0 .. 63
StateBits == 0 .. 127

VARIABLES
    after,      \* after[b]: the state `at` calls of next() after the state {b}
    at,
    jumped,     \* jumped[b]: xo_jump's s0 and s1 so far, from the state {b}
    longJumped, \* the same for xo_long_jump
    power,      \* power[b]: the state 2^exponent calls after {b}
    exponent

xoVars == <<after, at, jumped, longJumped, power, exponent>>

Rotl(x, k) == { (b + k) % 64 : b \in x }
Shl(x, k) == { b + k : b \in { c \in x : c + k < 64 } }

Lower(s) == s \cap Bits
Upper(s) == { b - 64 : b \in s \ Bits }
State(s0, s1) == s0 \cup { b + 64 : b \in s1 }

\* Mutant: s1 is rotated before it is mixed in.
NextRotatedFirst(s) ==
    LET s0 == Lower(s)
        s1 == Rotl(SymDiff(Upper(s), s0), 37)
    IN  State(SymDiff(SymDiff(Rotl(s0, 24), s1), Shl(s1, 16)), s1)

\* next(s): the two words after a call.
NextState(s) ==
    LET s0 == Lower(s)
        s1 == SymDiff(Upper(s), s0)
    IN  State(SymDiff(SymDiff(Rotl(s0, 24), s1), Shl(s1, 16)), Rotl(s1, 37))

\* The state before it.
Previous(s) ==
    LET s1 == Rotl(Upper(s), 64 - 37)
        s0 == Rotl(SymDiff(SymDiff(Lower(s), s1), Shl(s1, 16)), 64 - 24)
    IN  State(s0, SymDiff(s1, s0))

\* Bits of JUMP and LONG_JUMP, the least significant word first.
BitsOf(hex) == { b \in StateBits : (hex[32 - b \div 4] \div 2^(b % 4)) % 2 = 1 }

JumpBits == BitsOf(<<1,7,0,8,6,5,13,15,4,11,3,2,0,1,15,12,
                     13,15,9,0,0,2,9,4,13,8,15,5,5,4,10,5>>)
LongJumpBits == BitsOf(<<13,13,13,15,9,11,1,0,9,0,10,10,7,10,12,1,
                         13,2,10,9,8,11,2,6,6,2,5,14,14,14,7,11>>)

Nowhere == [b \in StateBits |-> {}]
Itself == [b \in StateBits |-> {b}]

XoInit ==
    /\ after = Itself
    /\ at = 0
    /\ jumped = Nowhere
    /\ longJumped = Nowhere
    /\ power = [b \in StateBits |-> NextState({b})]
    /\ exponent = 0

\* Mutant: the state is added after the call.
AddedAfter(sum, bits) ==
    IF at \in bits THEN [b \in StateBits |-> SymDiff(sum[b], NextState(after[b]))] ELSE sum

\* if(JUMP[i] & UINT64_C(1) << b) { s0 ^= s[0]; s1 ^= s[1]; }
Added(sum, bits) ==
    IF at \in bits THEN [b \in StateBits |-> SymDiff(sum[b], after[b])] ELSE sum

\* One round of the loops of xo_jump and xo_long_jump.
XoRound ==
    /\ at < 128
    /\ jumped' = Added(jumped, JumpBits)
    /\ longJumped' = Added(longJumped, LongJumpBits)
    /\ after' = [b \in StateBits |-> NextState(after[b])]
    /\ at' = at + 1
    /\ UNCHANGED <<power, exponent>>

\* What the linear map m does to the state s.
Image(m, s) == { c \in StateBits : Cardinality({ b \in s : c \in m[b] }) % 2 = 1 }

\* Twice as many calls.
Double ==
    /\ at = 128
    /\ exponent < 96
    /\ power' = [b \in StateBits |-> Image(power, power[b])]
    /\ exponent' = exponent + 1
    /\ UNCHANGED <<after, at, jumped, longJumped>>

XoNext == XoRound \/ Double

XoSpec == XoInit /\ [][XoNext]_xoVars

-----------------------------------------------------------------------------
(***************************************************************************)
(* next() loses nothing of the state: Previous undoes it.  So a generator   *)
(* seeded with anything but two zeros never gets to the state of two zeros, *)
(* where it would stay and draw nothing but the least index.                *)
(***************************************************************************)
StepInvertible ==
    [][ at' # at => \A b \in StateBits : Previous(after'[b]) = after[b] ]_xoVars

(***************************************************************************)
(* jump() is 2^64 calls of next() and long_jump() 2^96 (xoroshiro128plus.   *)
(* cpp 26-64): one wrong digit of the tables and they are some other state. *)
(***************************************************************************)
JumpsAhead ==
    /\ at = 128 /\ exponent = 64 => jumped = power
    /\ at = 128 /\ exponent = 96 => longJumped = power

=============================================================================
