------------------------------- MODULE Shuffle -------------------------------
(***************************************************************************)
(* One stage of shuffle3 over and over on the same file: the two templates  *)
(* of include/shuffle.hpp, run on a mapped span of `size` objects with a    *)
(* generator freshly seeded from the span itself, as each stage of          *)
(* xshuffle_ip does (work.cpp 61-92).  Swaps are two stores to the shared   *)
(* mapping, and the process may die between any two of them.                *)
(*                                                                         *)
(* A generator is a function of its seed: the tape of a seed (Spans) is     *)
(* chosen when the seed is first used and is the same ever after, so the    *)
(* behaviours range over every generator whose answers are in bounds.       *)
(***************************************************************************)
EXTENDS Spans, Sequences, SequencesExt

CONSTANTS
    Item,       \* the values an object can have
    Keep,       \* the objects minmax_t's filter keeps
    Key,        \* the order of the object type
    Zero,       \* T{}
    Builds,     \* the builds considered: TRUE is a DEBUG build
    UpTo,       \* can the generator sample exactly 1.0 (drng, frng)?
    Sizes,      \* the span sizes considered
    Depths      \* bound: shuffles minus unshuffles

ASSUME ItemAssumption == Keep \subseteq Item /\ Zero \in Item
ASSUME KeyAssumption == Key \in [Item -> Int]
ASSUME BuildsAssumption == Builds \subseteq BOOLEAN
ASSUME UpToAssumption == UpTo \in BOOLEAN
ASSUME SizesAssumption == Sizes \subseteq Nat
ASSUME DepthsAssumption == Depths \subseteq Int /\ 0 \in Depths

VARIABLES
    debug,      \* is DEBUG defined? fixed
    size,       \* span.size(), fixed: the file's length never changes
    span,       \* the objects in the shared mapping, that is, in the file
    pc,         \* where the process is
    seed,       \* the generator's seed
    tape,       \* tape[s]: the generator seeded with s
    i,          \* the loop index
    j, tmp,     \* the swap in progress: the other index, std::swap's temporary
    rng_values, \* unshuffle's draws, a stack
    depth,      \* history: shuffles minus unshuffles completed
    seen,       \* history: seen[d] is the span when depth d was first reached
    path        \* history: path[e][k] is the span a shuffle from depth e to
                \* e+1 has when its loop index is k

vars == <<debug, size, span, pc, seed, tape, i, j, tmp, rng_values, depth, seen, path>>

Array == SpanOf(size, Item)
Seed == Int \X Int

Stored == {"shuffle_store", "unshuffle_store"}      \* between a swap's two stores
Running == {"shuffle", "push", "unshuffle"} \cup Stored

TypeOK ==
    /\ debug \in Builds
    /\ size \in Sizes
    /\ span \in Array
    /\ pc \in {"idle", "crashed"} \cup Running
    /\ seed \in Seed
    /\ DOMAIN tape \subseteq Seed
    /\ tape \in [DOMAIN tape -> Tapes(size, UpTo)]
    /\ i \in Nat
    /\ j \in Nat
    /\ tmp \in Item
    /\ rng_values \in Seq(Nat)
    /\ depth \in Depths
    /\ DOMAIN seen \subseteq Depths
    /\ seen \in [DOMAIN seen -> Array]
    /\ DOMAIN path \subseteq Int
    /\ path \in [DOMAIN path -> [0 .. size-1 -> Array]]

Init ==
    /\ debug \in Builds
    /\ size \in Sizes
    /\ span \in Array
    /\ pc = "idle"
    /\ seed = <<0, 0>>
    /\ tape = [s \in {} |-> {}]
    /\ i = 0
    /\ j = 0
    /\ tmp = Zero
    /\ rng_values = <<>>
    /\ depth = 0
    /\ seen = [d \in {0} |-> span]
    /\ path = [e \in {} |-> {}]

-----------------------------------------------------------------------------
\* Mutant: the generator is seeded with something else besides (a clock, global
\* state), so that one seed gives different draws.
SeedGeneratorAfresh ==
    /\ seed' \in SeedsOf(KeptKeys(span, Keep, Key), debug, Key[Zero], Range(Key))
    /\ \E t \in Tapes(size, UpTo) :
          tape' = [s \in DOMAIN tape \cup {seed'} |-> IF s = seed' THEN t ELSE tape[s]]

\* minmax_t on the span, then the generator's constructor.
SeedGenerator ==
    /\ seed' \in SeedsOf(KeptKeys(span, Keep, Key), debug, Key[Zero], Range(Key))
    /\ \E t \in Tapes(size, UpTo) :
          tape' = IF seed' \in DOMAIN tape THEN tape
                  ELSE [s \in DOMAIN tape \cup {seed'} |-> IF s = seed' THEN t ELSE tape[s]]

\* A call from the program, over the edge e of the chain of depths.
Call(e, entry) ==
    /\ pc = "idle"
    /\ size > 0
    /\ SeedGenerator
    /\ pc' = entry
    /\ i' = size - 1
    /\ rng_values' = <<>>
    /\ path' = IF e \in DOMAIN path THEN path
               ELSE [f \in DOMAIN path \cup {e} |->
                        IF f = e THEN [k \in 0 .. size-1 |-> span] ELSE path[f]]
    /\ UNCHANGED <<debug, size, span, j, tmp, depth, seen>>

CallShuffle == depth + 1 \in Depths /\ Call(depth, "shuffle")
CallUnshuffle == depth - 1 \in Depths /\ Call(depth - 1, "push")

\* The call is over and the file is at depth d; the locals are gone.
Arrive(d) ==
    /\ pc' = "idle"
    /\ i' = 0
    /\ j' = 0
    /\ tmp' = Zero
    /\ rng_values' = <<>>
    /\ depth' = d
    /\ seen' = IF d \in DOMAIN seen THEN seen
               ELSE [e \in DOMAIN seen \cup {d} |-> IF e = d THEN span ELSE seen[e]]

\* if(!span.size()) return;
CallEmpty ==
    /\ pc = "idle"
    /\ size = 0
    /\ SeedGenerator
    /\ \E d \in {depth - 1, depth + 1} \cap Depths : Arrive(d)
    /\ UNCHANGED <<debug, size, span, path>>

\* The first store of std::swap(span[i], span[other]).
FirstStore(other) ==
    /\ j' = other
    /\ tmp' = span[i]
    /\ span' = [span EXCEPT ![i] = span[other]]
    /\ UNCHANGED <<debug, size, seed, tape, i, rng_values, depth, seen, path>>

-----------------------------------------------------------------------------
\* shuffle: for(i = size-1; i > 0; i--) swap(span[i], span[next_long(i)])
ShuffleSwap ==
    /\ pc = "shuffle"
    /\ i > 0
    /\ FirstStore(tape[seed][i])
    /\ pc' = "shuffle_store"

\* Mutant: the swap's second store is dropped.
ShuffleStoreLost ==
    /\ pc = "shuffle_store"
    /\ pc' = "shuffle"
    /\ i' = i - 1
    /\ path' = [path EXCEPT ![depth] = [@ EXCEPT ![i-1] = span]]
    /\ UNCHANGED <<debug, size, span, seed, tape, j, tmp, rng_values, depth, seen>>

\* Mutant: the loop index is not decremented.
ShuffleStoreStuck ==
    /\ pc = "shuffle_store"
    /\ span' = [span EXCEPT ![j] = tmp]
    /\ pc' = "shuffle"
    /\ path' = [path EXCEPT ![depth] = [@ EXCEPT ![i-1] = span']]
    /\ UNCHANGED <<debug, size, seed, tape, i, j, tmp, rng_values, depth, seen>>

\* and the second store.
ShuffleStore ==
    /\ pc = "shuffle_store"
    /\ span' = [span EXCEPT ![j] = tmp]
    /\ pc' = "shuffle"
    /\ i' = i - 1
    /\ path' = [path EXCEPT ![depth] = [@ EXCEPT ![i-1] = span']]
    /\ UNCHANGED <<debug, size, seed, tape, j, tmp, rng_values, depth, seen>>

\* Mutant: the loop stops at 1.
ShuffleReturnEarly ==
    /\ pc = "shuffle"
    /\ i <= 1
    /\ Arrive(depth + 1)
    /\ UNCHANGED <<debug, size, span, seed, tape, path>>

ShuffleReturn ==
    /\ pc = "shuffle"
    /\ i = 0
    /\ Arrive(depth + 1)
    /\ UNCHANGED <<debug, size, span, seed, tape, path>>

-----------------------------------------------------------------------------
\* unshuffle: the draws of the same loop are made first and stacked,
Push ==
    /\ pc = "push"
    /\ i > 0
    /\ rng_values' = Append(rng_values, tape[seed][i])
    /\ i' = i - 1
    /\ UNCHANGED <<debug, size, span, pc, seed, tape, j, tmp, depth, seen, path>>

Pushed ==
    /\ pc = "push"
    /\ i = 0
    /\ pc' = "unshuffle"
    /\ i' = 1
    /\ UNCHANGED <<debug, size, span, seed, tape, j, tmp, rng_values, depth, seen, path>>

\* Mutant: the first draw is taken first.
UnshuffleSwapFirstDraw ==
    /\ pc = "unshuffle"
    /\ i < size
    /\ FirstStore(Head(rng_values))
    /\ pc' = "unshuffle_store"

\* then the swaps are undone, the last draw first.
UnshuffleSwap ==
    /\ pc = "unshuffle"
    /\ i < size
    /\ FirstStore(Last(rng_values))
    /\ pc' = "unshuffle_store"

\* Mutant: back() without pop_back().
UnshuffleStoreNoPop ==
    /\ pc = "unshuffle_store"
    /\ span' = [span EXCEPT ![j] = tmp]
    /\ pc' = "unshuffle"
    /\ i' = i + 1
    /\ path' = [path EXCEPT ![depth - 1] = [@ EXCEPT ![i] = span']]
    /\ UNCHANGED <<debug, size, seed, tape, j, tmp, rng_values, depth, seen>>

UnshuffleStore ==
    /\ pc = "unshuffle_store"
    /\ span' = [span EXCEPT ![j] = tmp]
    /\ rng_values' = Front(rng_values)
    /\ pc' = "unshuffle"
    /\ i' = i + 1
    /\ path' = [path EXCEPT ![depth - 1] = [@ EXCEPT ![i] = span']]
    /\ UNCHANGED <<debug, size, seed, tape, j, tmp, depth, seen>>

UnshuffleReturn ==
    /\ pc = "unshuffle"
    /\ i >= size
    /\ Arrive(depth - 1)
    /\ UNCHANGED <<debug, size, span, seed, tape, path>>

\* The process is killed, or a panic aborts it: the stores made so far are in
\* the shared mapping and reach the file, no destructor runs.
Crash ==
    /\ pc \in Running
    /\ pc' = "crashed"
    /\ UNCHANGED <<debug, size, span, seed, tape, i, j, tmp, rng_values, depth, seen, path>>

-----------------------------------------------------------------------------
Step == ShuffleSwap \/ ShuffleStore \/ ShuffleReturn
        \/ Push \/ Pushed \/ UnshuffleSwap \/ UnshuffleStore \/ UnshuffleReturn

Next == CallShuffle \/ CallUnshuffle \/ CallEmpty \/ Step \/ Crash

Spec == Init /\ [][Next]_vars

\* The loops run on the only thread: a step that can be taken is taken, unless
\* the process dies.  Nothing obliges a user to start another run.
FairSpec == Spec /\ WF_vars(Step)

-----------------------------------------------------------------------------
\* The seeds are a function of the objects: in a DEBUG build, on a file with a
\* kept object, and where no draw is made anyway.
Determined == debug \/ size <= 1 \/ Range(seen[0]) \cap Keep # {}

\* Both ends of an edge have been reached: its path is complete.
Complete(e) == e \in DOMAIN seen /\ e + 1 \in DOMAIN seen

\* The edge the running call walks.
Edge == IF pc \in {"shuffle", "shuffle_store"} THEN depth ELSE depth - 1

-----------------------------------------------------------------------------
(***************************************************************************)
(* No object is invented or lost: outside a swap the file holds exactly the *)
(* objects it had at first; between the stores of a swap, and in a file a   *)
(* killed process left behind, at most the one object in std::swap's        *)
(* temporary is missing and one other is there twice.                       *)
(***************************************************************************)
ObjectsConserved ==
    \/ pc \notin Stored /\ SameObjects(seen[0], span)
    \/ /\ pc \in Stored \cup {"crashed"}
       /\ j \in 0 .. size-1
       /\ SameObjects(seen[0], [span EXCEPT ![j] = tmp])

\* The stack holds the first n draws of the loop.
Drawn(n) == /\ Len(rng_values) = n
            /\ \A k \in 1 .. n : rng_values[k] = tape[seed][size-k]

(***************************************************************************)
(* unshuffle pops the draws in the reverse of the order it pushed them, and *)
(* has exactly as many as it makes swaps: at loop index i the top of the    *)
(* stack is what the shuffle drew at loop index i (shuffle.hpp 67-73).      *)
(***************************************************************************)
DrawsAlign ==
    /\ pc = "push" => Drawn(size - 1 - i)
    /\ pc \in {"unshuffle", "unshuffle_store"} => Drawn(size - i)

(***************************************************************************)
(* Between calls the file holds what it held when its depth was first       *)
(* reached: unshuffle undoes shuffle, shuffle undoes unshuffle, in every    *)
(* sequence of calls, as long as the seeds are determined.                  *)
(***************************************************************************)
RoundTrip == Determined /\ pc = "idle" => span = seen[depth]

\* Every draw so far was of a generator that stays below 1.
BelowOne == \A s \in DOMAIN tape : \A k \in DOMAIN tape[s] : tape[s][k] < k

(***************************************************************************)
(* A generator below 1 makes shuffle one cycle (Sattolo's algorithm): if    *)
(* the objects are all different, not one is where it was.                  *)
(***************************************************************************)
EveryObjectMoves ==
    Determined /\ BelowOne /\ size > 1 /\ IsInjective(seen[0]) =>
        \A e \in DOMAIN seen : Complete(e) =>
            \A x \in 0 .. size-1 : seen[e][x] # seen[e+1][x]

\* The abstract file changes when a call returns.
File == INSTANCE Reversible
            WITH contents <- IF pc = "idle" THEN span ELSE seen[depth]

\* The files whose seeds are determined.
DeterminedInit == Init /\ Determined
DeterminedSpec == DeterminedInit /\ [][Next]_vars

(***************************************************************************)
(* Every sequence of calls is a walk up and down one chain of orderings of  *)
(* the file (README.md 3): the stage implements Reversible.                 *)
(***************************************************************************)
ImplementsReversible == File!Spec

(***************************************************************************)
(* A call that has started returns, unless the process dies.                *)
(***************************************************************************)
CallsReturn == pc \in Running ~> pc \in {"idle", "crashed"}

-----------------------------------------------------------------------------
(* The inductive invariant behind RoundTrip.                                *)

\* Where each program point leaves the loop index, the generator and the swap.
Control ==
    /\ pc \in Running => /\ size > 0
                         /\ seed \in DOMAIN tape
                         /\ Edge \in DOMAIN path
                         /\ Edge \in Depths /\ Edge + 1 \in Depths
    /\ pc \in {"shuffle", "push"} => i <= size - 1
    /\ pc = "shuffle_store" => i \in 1 .. size-1 /\ j = tape[seed][i]
    /\ pc = "unshuffle" => i \in 1 .. size
    /\ pc = "unshuffle_store" => i \in 1 .. size-1 /\ j = tape[seed][i]
    /\ pc = "crashed" => size > 0

\* Recomputing the seed of a reordered file gives the seed of the first file.
SeedStable ==
    Determined /\ size > 1 =>
        \A s \in DOMAIN tape :
            s \in SeedsOf(KeptKeys(seen[0], Keep, Key), debug, Key[Zero], {})

\* The depths reached are an interval around 0; paths belong to its edges and
\* to the edge the running call walks.
Chain ==
    /\ depth \in DOMAIN seen
    /\ 0 \in DOMAIN seen
    /\ \A d \in DOMAIN seen : \A c \in Depths :
          (0 <= c /\ c <= d) \/ (d <= c /\ c <= 0) => c \in DOMAIN seen
    /\ size > 0 => \A e \in DOMAIN seen : Complete(e) => e \in DOMAIN path
    /\ DOMAIN path # {} => DOMAIN tape # {} /\ size > 0
    /\ \A e \in DOMAIN path : Complete(e) \/ pc = "crashed" \/ (pc \in Running /\ e = Edge)

\* The steps of edge e from loop index k down are the generator's swaps.
Link(e, k) == \A s \in DOMAIN tape :
    path[e][k-1] = Swapped(path[e][k], k, tape[s][k])

Paths ==
    \A e \in DOMAIN path : Complete(e) =>
        /\ path[e][size-1] = seen[e]
        /\ path[e][0] = seen[e+1]
        /\ \A k \in 1 .. size-1 : Link(e, k)

\* The span is where the path of the running call says it is.
HalfSwapped(a) == /\ tmp = a[i]
                  /\ span = [a EXCEPT ![i] = a[j]]

OnPath ==
    /\ pc = "idle" => span = seen[depth]
    /\ pc \in {"shuffle", "shuffle_store"} =>
          /\ path[depth][size-1] = seen[depth]
          /\ \A k \in i+1 .. size-1 : Link(depth, k)
          /\ pc = "shuffle" => span = path[depth][i]
          /\ pc = "shuffle_store" => HalfSwapped(path[depth][i])
    /\ pc \in {"push", "unshuffle", "unshuffle_store"} =>
          path[depth-1][0] = seen[depth]
    /\ pc = "push" => span = seen[depth]
    /\ pc \in {"unshuffle", "unshuffle_store"} =>
          /\ \A k \in 1 .. i-1 : Link(depth-1, k)
          /\ pc = "unshuffle" => span = path[depth-1][i-1]
          /\ pc = "unshuffle_store" => HalfSwapped(path[depth-1][i-1])

IInv ==
    /\ TypeOK
    /\ Control
    /\ ObjectsConserved
    /\ DrawsAlign
    /\ Chain
    /\ SeedStable
    /\ Determined => Paths /\ OnPath

=============================================================================
