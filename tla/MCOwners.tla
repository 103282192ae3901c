------------------------------- MODULE MCOwners -------------------------------
(***************************************************************************)
(* The three components that own something through copies, moves and calls  *)
(* in any order, for TLC: the RAII classes around descriptors, mappings and *)
(* files, the ptr_store of v1, the progress bar.  They share no state: a    *)
(* behaviour runs one of them while the others stay at their initial state. *)
(***************************************************************************)
EXTENDS Ownership, PtrStore, Progress, TLC

OwnersInit == Init /\ StoreInit /\ BarInit

OwnersNext ==
    \/ Next /\ StoreInit /\ BarInit /\ UNCHANGED <<storeVars, barVars>>
    \/ StoreNext /\ Init /\ BarInit /\ UNCHANGED <<vars, barVars>>
    \/ BarNext /\ Init /\ StoreInit /\ UNCHANGED <<vars, storeVars>>

OwnersSpec == OwnersInit /\ [][OwnersNext]_<<vars, storeVars, barVars>>

\* Which block is which does not matter; nor do the others, but a group of
\* all their permutations costs more than it saves.
Interchangeable == Permutations(Block)

=============================================================================
