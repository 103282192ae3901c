------------------------------ MODULE MCSpill ------------------------------
(***************************************************************************)
(* Instances of Spill for TLC: span sizes below, at and above SpillAt.      *)
(***************************************************************************)
EXTENDS Spill

AllModes == {"none", "static", "dyn", "map"}

=============================================================================
