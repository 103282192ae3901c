----------------------------- MODULE MCGenerators -----------------------------
(***************************************************************************)
(* What a stage gets its draws from, for TLC: the seed scan, next_long in   *)
(* floating point, xoroshiro128plus.  The three share no state, so they are *)
(* put side by side: a behaviour runs one of them while the others stay at  *)
(* one of their initial states.                                             *)
(*                                                                         *)
(* minmax_t has five floats: -0.0 and +0.0, which compare equal, a finite   *)
(* negative and a finite positive one, and a NaN the filter drops.          *)
(***************************************************************************)
EXTENDS MinMax, Sampling, Xoroshiro, TLC

FloatItem == {"neg", "minus0", "plus0", "pos", "nan"}
FloatKeep == FloatItem \ {"nan"}
FloatKey  == ("neg" :> -1) @@ ("minus0" :> 0) @@ ("plus0" :> 0) @@ ("pos" :> 1) @@ ("nan" :> 9)

ScanRests == size = 0 /\ debug = TRUE /\ Init
SamplingRests == rng = "drng" /\ max = 1 /\ sample = 0 /\ SamplingInit
XoRests == XoInit

GeneratorsInit ==
    \/ Init /\ SamplingRests /\ XoRests
    \/ SamplingInit /\ ScanRests /\ XoRests

GeneratorsNext ==
    \/ Next /\ SamplingRests /\ XoRests /\ UNCHANGED <<samplingVars, xoVars>>
    \/ Draw /\ ScanRests /\ XoRests /\ UNCHANGED <<vars, xoVars>>
    \/ XoNext /\ ScanRests /\ SamplingRests /\ UNCHANGED <<vars, samplingVars>>

GeneratorsSpec == GeneratorsInit /\ [][GeneratorsNext]_<<vars, samplingVars, xoVars>>

=============================================================================
