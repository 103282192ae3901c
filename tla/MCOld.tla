-------------------------------- MODULE MCOld --------------------------------
(***************************************************************************)
(* v1 on words for TLC.                                                     *)
(***************************************************************************)
EXTENDS Old, MCWords

=============================================================================
