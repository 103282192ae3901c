------------------------------- MODULE MCWork -------------------------------
(***************************************************************************)
(* The program on words for TLC.                                            *)
(***************************************************************************)
EXTENDS Work, MCWords

=============================================================================
