------------------------------ MODULE MCShuffle ------------------------------
(***************************************************************************)
(* Instances of Shuffle for TLC.  The objects are floats: a zero and a      *)
(* negative one, and a NaN the filter drops.                                *)
(***************************************************************************)
EXTENDS Shuffle, TLC

FloatItem == {"neg", "zero", "nan"}
FloatKeep == {"neg", "zero"}
FloatKey  == ("neg" :> -1) @@ ("zero" :> 0) @@ ("nan" :> 1)

\* A file of NaNs with at most a few kept objects among them.
NanItem == {"zero", "nan"}
NanKey  == ("zero" :> 0) @@ ("nan" :> 1)

FewDepths == -1 .. 1
OneDepth  == 0 .. 1

=============================================================================
