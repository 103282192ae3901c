------------------------------ MODULE MCTwoRuns ------------------------------
(***************************************************************************)
(* Two processes on three objects, with every tape of a generator.          *)
(***************************************************************************)
EXTENDS TwoRuns

AllTapes == Tapes(N, TRUE)

=============================================================================
