------------------------------- MODULE Stack -------------------------------
(***************************************************************************)
(* What i_back_inserter promises (include/fsvec.hpp 17-29): push_back,      *)
(* back and pop_back on the last of the values it holds.                    *)
(***************************************************************************)
EXTENDS Sequences, SequencesExt

CONSTANTS
    Value,      \* the values pushed
    NoAnswer    \* no call of back() yet

VARIABLES
    items,      \* the values held
    answer      \* what the last call of back() returned

Init == items = <<>> /\ answer = NoAnswer

Push == /\ \E v \in Value : items' = Append(items, v)
        /\ UNCHANGED answer

Back == /\ items # <<>>
        /\ answer' = Last(items)
        /\ UNCHANGED items

Pop == /\ items # <<>>
       /\ items' = Front(items)
       /\ UNCHANGED answer

Next == Push \/ Back \/ Pop

Spec == Init /\ [][Next]_<<items, answer>>

=============================================================================
