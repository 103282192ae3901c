----------------------------- MODULE Reversible -----------------------------
(***************************************************************************)
(* What shuffle3 promises ("Deterministically and reversably shuffle a      *)
(* file's bytes around", README.md): running shuffle and unshuffle on a     *)
(* file is moving up and down a chain of orderings of the same objects.     *)
(* The depth counts shuffles minus unshuffles; whatever sequence of runs    *)
(* leads back to a depth, the file holds what it held there before.         *)
(***************************************************************************)
EXTENDS Spans

CONSTANTS
    Item,       \* the objects a file can hold
    Sizes,      \* the numbers of objects considered
    Depths      \* bound: the depths considered, 0 among them

VARIABLES
    contents,   \* the file between two runs
    depth,      \* shuffles minus unshuffles
    seen        \* seen[d]: what the file held when depth d was first reached

vars == <<contents, depth, seen>>

TypeOK ==
    /\ contents \in UNION { SpanOf(n, Item) : n \in Sizes }
    /\ depth \in Depths
    /\ depth \in DOMAIN seen

Init ==
    /\ contents \in UNION { SpanOf(n, Item) : n \in Sizes }
    /\ depth = 0
    /\ seen = [d \in {0} |-> contents]

\* One run of the program that completes: a depth seen before brings back what
\* was there, a new one any reordering.
Move(d) ==
    /\ d \in Depths
    /\ depth' = d
    /\ IF d \in DOMAIN seen
       THEN contents' = seen[d] /\ UNCHANGED seen
       ELSE /\ contents' \in [DOMAIN contents -> Range(contents)]
            /\ SameCounts(contents, contents')
            /\ seen' = [e \in DOMAIN seen \cup {d} |-> IF e = d THEN contents' ELSE seen[e]]

Next == Move(depth + 1) \/ Move(depth - 1)

Spec == Init /\ [][Next]_vars

(***************************************************************************)
(* Coming back to a depth brings back its contents: shuffle then unshuffle, *)
(* unshuffle then shuffle, and every longer sequence of runs.               *)
(***************************************************************************)
ContentsReturn == contents = seen[depth]

=============================================================================
