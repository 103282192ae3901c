------------------------------- MODULE TwoRuns -------------------------------
(***************************************************************************)
(* Several processes on one file at once (work.cpp 54-92, shuffle.hpp).     *)
(* Their mappings are MAP_SHARED and nothing locks: each reads its seeds    *)
(* object by object, and swaps load by load and store by store, while the   *)
(* others do.  One stage of each process is modelled, on a file of one      *)
(* width.                                                                   *)
(***************************************************************************)
EXTENDS Spans, SequencesExt

CONSTANTS
    Process,
    N,          \* the objects of the file
    Item,       \* the objects considered: integers, all of them kept
    Tape        \* the tapes of the generator

ASSUME TwoRunsAssumption ==
    N \in Nat /\ N > 1 /\ Item \subseteq Int /\ Tape \subseteq Tapes(N, TRUE)

VARIABLES
    span,       \* the file
    op,         \* op[p]: what process p is for
    pc,         \* pc[p]: where it is
    k,          \* k[p]: the object it scans
    seen,       \* seen[p]: the objects it has scanned
    swaps,      \* swaps[p]: the swaps it has left
    load,       \* load[p]: what it has loaded of the current one
    gens,       \* what the generator draws for each seed
    original,   \* history: the file at first
    alone,      \* history: alone[p]: since p started no swap of another was
                \* being stored
    raced       \* history: two swaps on a common object were under way at once

file == <<span, original>>
history == <<alone, raced>>
vars == <<file, op, pc, k, seen, swaps, load, gens, history>>

Ops == {"shuffle", "unshuffle"}
Indices == 0 .. N - 1

TypeOK ==
    /\ span \in SpanOf(N, Item) /\ original \in SpanOf(N, Item)
    /\ op \in [Process -> Ops]
    /\ pc \in [Process -> {"start", "scan", "seed", "load", "load2", "store", "store2", "done"}]
    /\ k \in [Process -> 0 .. N]
    /\ seen \in [Process -> SUBSET Item]
    /\ swaps \in [Process -> Seq(Indices \X Indices)]
    /\ load \in [Process -> Seq(Item)] /\ \A p \in Process : Len(load[p]) <= 2
    /\ \A s \in DOMAIN gens : gens[s] \in Tape
    /\ alone \in [Process -> BOOLEAN] /\ raced \in BOOLEAN

Init ==
    /\ span \in SpanOf(N, Item) /\ original = span
    /\ op \in [Process -> Ops]
    /\ pc = [p \in Process |-> "start"]
    /\ k = [p \in Process |-> 0]
    /\ seen = [p \in Process |-> {}]
    /\ swaps = [p \in Process |-> <<>>]
    /\ load = [p \in Process |-> <<>>]
    /\ gens = [s \in {} |-> <<>>]
    /\ alone = [p \in Process |-> TRUE]
    /\ raced = FALSE

-----------------------------------------------------------------------------
At(p, from, to) == pc[p] = from /\ pc' = [pc EXCEPT ![p] = to]

\* The process is there, its file mapped.
Map(p) ==
    /\ At(p, "start", "scan")
    /\ alone' = [alone EXCEPT ![p] = \A q \in Process : pc[q] # "store2"]
    /\ UNCHANGED <<file, op, k, seen, swaps, load, gens, raced>>

\* Mutant: the last object is not looked at.
ScanShort(p) ==
    /\ At(p, "scan", IF k[p] >= N - 2 THEN "seed" ELSE "scan")
    /\ k' = [k EXCEPT ![p] = @ + 1]
    /\ seen' = [seen EXCEPT ![p] = @ \cup {span[k[p]]}]
    /\ UNCHANGED <<file, op, swaps, load, gens, history>>

\* One turn of minmax_t's loop.
Scan(p) ==
    /\ At(p, "scan", IF k[p] = N - 1 THEN "seed" ELSE "scan")
    /\ k' = [k EXCEPT ![p] = @ + 1]
    /\ seen' = [seen EXCEPT ![p] = @ \cup {span[k[p]]}]
    /\ UNCHANGED <<file, op, swaps, load, gens, history>>

SeedOf(objects) == <<Min(objects), Max(objects)>>

\* Mutant: unshuffle takes its draws in the order it makes them.
SeedInOrder(p) ==
    /\ At(p, "seed", "load")
    /\ LET seed == SeedOf(seen[p])
       IN  \E draw \in IF seed \in DOMAIN gens THEN {gens[seed]} ELSE Tape :
              /\ gens' = [s \in DOMAIN gens \cup {seed} |->
                             IF s = seed THEN draw ELSE gens[s]]
              /\ swaps' = [swaps EXCEPT ![p] = [x \in 1 .. N - 1 |->
                     IF op[p] = "shuffle" THEN <<N - x, draw[N - x]>> ELSE <<x, draw[N - x]>>]]
    /\ UNCHANGED <<file, op, k, seen, load, history>>

\* The generator, and the swaps it gives shuffle or unshuffle.
Seed(p) ==
    /\ At(p, "seed", "load")
    /\ LET seed == SeedOf(seen[p])
       IN  \E draw \in IF seed \in DOMAIN gens THEN {gens[seed]} ELSE Tape :
              /\ gens' = [s \in DOMAIN gens \cup {seed} |->
                             IF s = seed THEN draw ELSE gens[s]]
              /\ swaps' = [swaps EXCEPT ![p] = [x \in 1 .. N - 1 |->
                     IF op[p] = "shuffle" THEN <<N - x, draw[N - x]>> ELSE <<x, draw[x]>>]]
    /\ UNCHANGED <<file, op, k, seen, load, history>>

\* The indices of the swap process p is at.
I(p) == Head(swaps[p])[1]
J(p) == Head(swaps[p])[2]
Now(p) == {I(p), J(p)}
Swapping(p) == pc[p] \in {"load2", "store", "store2"}

\* Mutant: what the last swap loaded is kept.
LoadMore(p) ==
    /\ swaps[p] # <<>>
    /\ At(p, "load", "load2")
    /\ load' = [load EXCEPT ![p] = Append(@, span[I(p)])]
    /\ raced' = (raced \/ \E q \in Process \ {p} : Swapping(q) /\ Now(p) \cap Now(q) # {})
    /\ UNCHANGED <<file, op, k, seen, swaps, gens, alone>>

\* std::swap loads both objects;
Load(p) ==
    /\ swaps[p] # <<>>
    /\ At(p, "load", "load2")
    /\ load' = [load EXCEPT ![p] = <<span[I(p)]>>]
    /\ raced' = (raced \/ \E q \in Process \ {p} : Swapping(q) /\ Now(p) \cap Now(q) # {})
    /\ UNCHANGED <<file, op, k, seen, swaps, gens, alone>>

Load2(p) ==
    /\ At(p, "load2", "store")
    /\ load' = [load EXCEPT ![p] = Append(@, span[J(p)])]
    /\ UNCHANGED <<file, op, k, seen, swaps, gens, history>>

Others(p) == [q \in Process |-> alone[q] /\ q = p]

\* and stores them the other way round.
Store(p) ==
    /\ At(p, "store", "store2")
    /\ span' = [span EXCEPT ![I(p)] = load[p][2]]
    /\ alone' = Others(p)
    /\ UNCHANGED <<original, op, k, seen, swaps, load, gens, raced>>

\* Mutant: span[j] = span[i], as loaded after the first store.
Store2Late(p) ==
    /\ At(p, "store2", "load")
    /\ span' = [span EXCEPT ![J(p)] = span[I(p)]]
    /\ swaps' = [swaps EXCEPT ![p] = Tail(@)]
    /\ alone' = Others(p)
    /\ UNCHANGED <<original, op, k, seen, load, gens, raced>>

\* Mutant: the loop index is not decremented.
Store2Stuck(p) ==
    /\ At(p, "store2", "load")
    /\ span' = [span EXCEPT ![J(p)] = load[p][1]]
    /\ alone' = Others(p)
    /\ UNCHANGED <<original, op, k, seen, swaps, load, gens, raced>>

Store2(p) ==
    /\ At(p, "store2", "load")
    /\ span' = [span EXCEPT ![J(p)] = load[p][1]]
    /\ swaps' = [swaps EXCEPT ![p] = Tail(@)]
    /\ alone' = Others(p)
    /\ UNCHANGED <<original, op, k, seen, load, gens, raced>>

Return(p) ==
    /\ swaps[p] = <<>>
    /\ At(p, "load", "done")
    /\ UNCHANGED <<file, op, k, seen, swaps, load, gens, history>>

Step(p) == Map(p) \/ Scan(p) \/ Seed(p) \/ Load(p) \/ Load2(p) \/ Store(p) \/ Store2(p)
           \/ Return(p)

Next == \E p \in Process : Step(p)

\* The system runs every process that can run.
Spec == Init /\ [][Next]_vars /\ \A p \in Process : WF_vars(Step(p))

-----------------------------------------------------------------------------
Midway == \E p \in Process : pc[p] = "store2"

(***************************************************************************)
(* Without a lock, an object is lost only if two swaps on it were under way *)
(* at once: interleaved swaps elsewhere, and seeds torn by them, only make  *)
(* another order of the same objects.                                       *)
(***************************************************************************)
LostOnlyInRace == raced \/ Midway \/ SameCounts(original, span)

(***************************************************************************)
(* A process that no store of another came between seeds itself with the    *)
(* bounds of the objects of the whole file, although its own stores are to  *)
(* come.                                                                    *)
(***************************************************************************)
SeedsOfWhole == \A p \in Process : pc[p] \in {"seed", "load"} /\ alone[p] /\ ~raced =>
    SeedOf(seen[p]) = SeedOf(Range(original))

(***************************************************************************)
(* A -s and a -u undo each other if one of them started after the last      *)
(* store of the other, though perhaps before the other had returned.        *)
(***************************************************************************)
OneAfterTheOther == \A p, q \in Process :
    Process = {p, q} /\ op[p] # op[q] /\ pc[p] = "done" /\ pc[q] = "done" /\ alone[q]
    => span = original

(***************************************************************************)
(* Whatever they do to each other's objects, all of them return.            *)
(***************************************************************************)
AllReturn == <>(\A p \in Process : pc[p] = "done")

=============================================================================
