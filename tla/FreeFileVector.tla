--------------------------- MODULE FreeFileVector ---------------------------
(***************************************************************************)
(* A file_vector whose owner calls its operations in any order, as the      *)
(* i_back_inserter interface lets it.  (unshuffle does not: it pushes       *)
(* everything first and calls back before each pop_back; see Spill.)        *)
(***************************************************************************)
EXTENDS FileVector

CONSTANT MaxLen         \* bound: the values held at once

VARIABLES
    items,      \* history: the values pushed and not yet popped
    returned    \* what the last call returned: back()'s value, if it was back()

Free == <<file, pending, pos, len, items, returned>>

FreeInit == Init /\ items = <<>> /\ returned = <<>>

FreePush == \E v \in Value :
    /\ Len(items) < MaxLen
    /\ PushBack(v)
    /\ items' = Append(items, v)
    /\ returned' = <<>>

FreeBack == \E v \in Value \cup {Hole} :
    /\ BackIs(v)
    /\ returned' = <<v>>
    /\ UNCHANGED items

FreePop ==
    /\ items # <<>>
    /\ PopBack
    /\ items' = Front(items)
    /\ returned' = <<>>

FreeSpec == FreeInit /\ [][FreePush \/ FreeBack \/ FreePop]_Free

(***************************************************************************)
(* "A simple file-backed back inserter" (include/fsvec.h 13): back returns  *)
(* the last value pushed and not yet popped.                                *)
(***************************************************************************)
BackIsLastPushed == returned # <<>> => returned = <<Last(items)>>

=============================================================================
