-------------------------------- MODULE Work --------------------------------
(***************************************************************************)
(* The program: runs of shuffle3 -s and -u on one file (main.c, work.cpp).  *)
(* A run maps the file, takes it through three stages, each on the file as  *)
(* it then is seen as words of another width, and unmaps it.  One stage is  *)
(* one step here, unless the process dies in it; Shuffle has its inside     *)
(* (StageTheorem of ShuffleProofs says that the two agree).  Bytes past the *)
(* last whole word of a width are left alone.                               *)
(***************************************************************************)
EXTENDS Words, Sequences

CONSTANTS
    Byte,       \* the bytes considered
    Width,      \* Width[s]: sizeof the words of stage s
    Keep,       \* Keep[s]: the words the stage's filter keeps
    Key,        \* Key[s]: the order of its words
    Zero,       \* Zero[s]: T{}
    Draws,      \* Draws[s]: the tapes of its generator, for any number of words
    Builds,     \* the builds considered: TRUE is a DEBUG build
    Lengths,    \* the file lengths considered
    Depths      \* bound: shuffles minus unshuffles

ASSUME WidthAssumption == Width \in [Stages -> Nat \ {0}]
ASSUME WorkBuildsAssumption == Builds \subseteq BOOLEAN
ASSUME LengthsAssumption == Lengths \subseteq Nat
ASSUME WorkKeyAssumption ==
    \A s \in Stages : /\ Key[s] \in [[0 .. Width[s]-1 -> Byte] -> Int]
                       /\ Zero[s] \in [0 .. Width[s]-1 -> Byte]

\* Only the float stage has a filter, and a long is so many whole floats.
ASSUME WorkKeepAssumption == \A s \in Stages \ {"float"} : [0 .. Width[s]-1 -> Byte] \subseteq Keep[s]
ASSUME NestedAssumption == Width["long"] % Width["float"] = 0

\* The generators answer in bounds.
ASSUME WorkDrawsAssumption ==
    \A s \in Stages : \A draw \in Draws[s] :
        \A n \in Lengths : \A k \in 1 .. WordCount(n, Width[s]) - 1 : draw[k] \in 0 .. k

ASSUME WorkDepthsAssumption == Depths \subseteq Int /\ 0 \in Depths

VARIABLES
    debug,      \* is DEBUG defined? fixed
    file,       \* the bytes of the file, which the mapping shares
    op,         \* what the running process does, or "none", or "dead" if a
                \* process died with the file mapped
    todo,       \* the stages it has left
    gens,       \* gens[s, seed]: what the generator of stage s draws for seed
    status,     \* how the last process ended; "none" while one runs
    depth,      \* history: shuffles minus unshuffles completed
    seen        \* history: seen[d] is the file when depth d was first reached

vars == <<debug, file, op, todo, gens, status, depth, seen>>

FileSize == Cardinality(DOMAIN file)

TypeOK ==
    /\ debug \in Builds
    /\ file \in UNION { SpanOf(n, Byte) : n \in Lengths }
    /\ op \in {"none", "shuffle", "unshuffle", "dead"}
    /\ todo \in Seq(Stages) /\ Len(todo) <= 3
    /\ \A g \in DOMAIN gens : gens[g] \in Draws[g[1]]
    /\ status \in {"none", "0", "1", "abort", "killed"}
    /\ depth \in Depths
    /\ depth \in DOMAIN seen /\ DOMAIN seen \subseteq Depths

Init ==
    /\ debug \in Builds
    /\ file \in UNION { SpanOf(n, Byte) : n \in Lengths }
    /\ op = "none"
    /\ todo = <<>>
    /\ gens = [g \in {} |-> {}]
    /\ status = "none"
    /\ depth = 0
    /\ seen = [d \in {0} |-> file]

-----------------------------------------------------------------------------
\* Mutant: unshuffle takes the stages in the order of shuffle.
SameOrder(o) == <<"long", "float", "byte">>

\* The stages of xshuffle_ip<unshuffle>.
Order(o) == IF o = "unshuffle" THEN <<"byte", "float", "long">>
            ELSE <<"long", "float", "byte">>

-----------------------------------------------------------------------------
\* main() without a run: -h, or an argument error.
Help ==
    /\ op = "none"
    /\ status' \in {"0", "1"}
    /\ UNCHANGED <<debug, file, op, todo, gens, depth, seen>>

\* mm::mmap map(file): open, fstat or mmap fails and the constructor panics; the
\* mmap of an empty file always does.
MapFails ==
    /\ op = "none"
    /\ status' = "abort"
    /\ UNCHANGED <<debug, file, op, todo, gens, depth, seen>>

\* map.access(...) is advice, its failure is ignored.
Map(o, d) ==
    /\ op = "none"
    /\ DOMAIN file # {}
    /\ d \in Depths
    /\ op' = o
    /\ todo' = Order(o)
    /\ status' = "none"
    /\ UNCHANGED <<debug, file, gens, depth, seen>>

MapShuffle == Map("shuffle", depth + 1)
MapUnshuffle == Map("unshuffle", depth - 1)

\* The seeds of stage s on a file.
Seeds(s, f) == SeedsOf(KeptKeys(Reinterpret(f, Width[s]), Keep[s], Key[s]),
                       debug, Key[s][Zero[s]], Range(Key[s]))

\* What a generator can draw: a seed's draws are chosen when it is first used,
\* and kept.
DrawsOf(s, seed) == IF <<s, seed>> \in DOMAIN gens THEN {gens[<<s, seed>>]} ELSE Draws[s]

\* The words as a call of o leaves them at each of its loop indices.
Loop(o, words, n, draw) ==
    IF o = "shuffle" THEN ShuffleFrom(words, n, draw) ELSE UnshuffleFrom(words, n, draw)

\* How many words the next stage has.
Objects == WordCount(FileSize, Width[Head(todo)])

\* minmax_t, the generator, and shuffle or unshuffle down or up to loop index k.
RunTo(k) ==
    LET s == Head(todo)
        words == Reinterpret(file, Width[s])
    IN  \E seed \in Seeds(s, file) : \E draw \in DrawsOf(s, seed) :
           /\ gens' = [g \in DOMAIN gens \cup {<<s, seed>>} |->
                          IF g = <<s, seed>> THEN draw ELSE gens[g]]
           /\ file' = WithWords(file, Width[s], Loop(op, words, Objects, draw)[k])

\* A span of at most one word draws nothing.
StageSkipped ==
    /\ todo # <<>>
    /\ Objects <= 1
    /\ todo' = Tail(todo)
    /\ UNCHANGED <<debug, file, op, gens, status, depth, seen>>

Stage ==
    /\ todo # <<>>
    /\ Objects > 1
    /\ RunTo(IF op = "shuffle" THEN 0 ELSE Objects - 1)
    /\ todo' = Tail(todo)
    /\ UNCHANGED <<debug, op, status, depth, seen>>

\* The process ends with the file mapped.
Dies(how) ==
    /\ op' = "dead"
    /\ todo' = <<>>
    /\ status' = how
    /\ UNCHANGED <<debug, depth, seen>>

\* It ends inside a stage, with some of the swaps made.
Inside == todo # <<>> /\ Objects > 1 /\ \E k \in 0 .. Objects - 1 : RunTo(k)

\* With nothing kept a release build's float seeds are uninitialised; if one is
\* a NaN so are the draws, and the first span[j] panics.
SeedNaN ==
    /\ ~debug
    /\ todo # <<>> /\ Head(todo) = "float"
    /\ WordCount(FileSize, Width["float"]) > 1
    /\ Range(Reinterpret(file, Width["float"])) \cap Keep["float"] = {}
    /\ Dies("abort")
    /\ UNCHANGED <<file, gens>>

\* Mutant: back() is called again for the second store of the swap, and panics.
ContainerPanicsInSwap ==
    /\ op = "unshuffle" /\ todo # <<>> /\ Objects > 1
    /\ LET s == Head(todo)
           words == Reinterpret(file, Width[s])
       IN  \E seed \in Seeds(s, file) : \E draw \in DrawsOf(s, seed) :
              /\ gens' = [g \in DOMAIN gens \cup {<<s, seed>>} |->
                             IF g = <<s, seed>> THEN draw ELSE gens[g]]
              /\ file' = WithWords(file, Width[s], [words EXCEPT ![1] = words[draw[1]]])
    /\ Dies("abort")

\* unshuffle panics in the container of its draws: making it, reserving or mapping
\* room for them or pushing one, before a swap is made; or reading or popping
\* one, between two swaps.  The stages before it are in the file.
ContainerPanics ==
    /\ op = "unshuffle" /\ todo # <<>> /\ Objects > 0
    /\ UNCHANGED <<file, gens>> \/ Inside
    /\ Dies("abort")

\* ~mmap() unmaps the file, whatever msync, munmap and close say, and main
\* returns 0.
Unmap ==
    /\ op \in {"shuffle", "unshuffle"}
    /\ todo = <<>>
    /\ LET d == IF op = "shuffle" THEN depth + 1 ELSE depth - 1
       IN  /\ depth' = d
           /\ seen' = IF d \in DOMAIN seen THEN seen
                      ELSE [e \in DOMAIN seen \cup {d} |-> IF e = d THEN file ELSE seen[e]]
    /\ op' = "none"
    /\ status' = "0"
    /\ UNCHANGED <<debug, file, todo, gens>>

\* Killed between two stages or, in one, between two swaps.  (What a kill between
\* the two stores of a swap leaves is in Shuffle.)
Kill ==
    /\ op \in {"shuffle", "unshuffle"}
    /\ UNCHANGED <<file, gens>> \/ Inside
    /\ Dies("killed")

-----------------------------------------------------------------------------
Next == Help \/ MapFails \/ MapShuffle \/ MapUnshuffle \/ StageSkipped \/ Stage
        \/ SeedNaN \/ ContainerPanics \/ Unmap \/ Kill

Spec == Init /\ [][Next]_vars

-----------------------------------------------------------------------------
\* The float stage of the edge from depth e up has a seed of its own: its words
\* are those of the file at depth e, the long stage only reorders them.
FloatDetermined(e) ==
    LET words == Reinterpret(seen[e], Width["float"])
    IN  debug \/ Cardinality(DOMAIN words) <= 1 \/ Range(words) \cap Keep["float"] # {}

Determined == \A e \in DOMAIN seen : e + 1 \in DOMAIN seen => FloatDetermined(e)

(***************************************************************************)
(* "Deterministically and reversably shuffle a file's bytes around"         *)
(* (README.md 3): between runs the file holds what it held when its depth   *)
(* was first reached.  As the README has it, of every file in every build:  *)
(***************************************************************************)
Reversable == op = "none" => file = seen[depth]

(***************************************************************************)
(* and of the files on which no float stage, at any depth reached, has to   *)
(* make do with uninitialised seeds: although each stage reads its seeds    *)
(* from what the stages of the other widths made of the file.               *)
(***************************************************************************)
RoundTrip == Determined => Reversable

(***************************************************************************)
(* No stage and no sequence of runs changes how often a byte occurs, nor    *)
(* does a process that dies between two swaps.                              *)
(***************************************************************************)
BytesConserved == SameCounts(seen[0], file)

-----------------------------------------------------------------------------
\* draw, with a swap of an object with itself for each index outside of lo .. hi.
Only(draw, n, lo, hi) ==
    [i \in 1 .. n-1 |-> IF lo <= i /\ i <= hi THEN draw[i] ELSE i]

\* The other loop over the swaps of the first d rounds that o made of n words.
LoopBack(o, words, n, draw, d) ==
    IF o = "shuffle" THEN UnshuffleFrom(words, n, Only(draw, n, n-d, n-1))[n-1]
    ELSE ShuffleFrom(words, n, Only(draw, n, 1, d))[0]

\* The files that taking back d rounds of stage s of o makes of f, seeding the
\* generator from f itself.
Back(o, s, f, d) ==
    LET w == Width[s]
        n == WordCount(Cardinality(DOMAIN f), w)
    IN  IF n <= 1 THEN {f}
        ELSE { WithWords(f, w, LoopBack(o, Reinterpret(f, w), n, gens[<<s, seed>>], d)) :
                 seed \in { x \in Seeds(s, f) : <<s, x>> \in DOMAIN gens } }

\* Of each of the files fs, the whole stage s of o.
WholeBack(o, s, fs) == UNION { Back(o, s, f, FileSize) : f \in fs }

\* The files o may have begun with if it died in its m-th stage, d rounds done.
BegunWith(o, m, d) ==
    LET s == Order(o)
    IN  CASE m = 1 -> Back(o, s[1], file, d)
          [] m = 2 -> WholeBack(o, s[1], Back(o, s[2], file, d))
          [] m = 3 -> WholeBack(o, s[1], WholeBack(o, s[2], Back(o, s[3], file, d)))

(***************************************************************************)
(* A process that dies, panicking or killed between two swaps, with earlier *)
(* stages and part of one in the file, has lost nothing: for some run,      *)
(* stage and count of rounds, taking those back, each stage with the seeds  *)
(* the file has then, brings back the file the run began with.  (The        *)
(* program writes down none of the three, and has no command that does it.) *)
(***************************************************************************)
Recoverable ==
    Determined /\ op = "dead" =>
        \/ file = seen[depth]
        \/ \E o \in {"shuffle", "unshuffle"}, m \in 1 .. 3 :
              \E d \in 0 .. WordCount(FileSize, Width[Order(o)[m]]) :
                 seen[depth] \in BegunWith(o, m, d)

\* The promise of the README, for the files without undetermined stages.
DeterminedSpec == Init /\ [][Next /\ Determined']_vars

File == INSTANCE Reversible
            WITH contents <- IF op = "none" THEN file ELSE seen[depth],
                 Item <- Byte, Sizes <- Lengths

(***************************************************************************)
(* The three stages together implement Reversible, as each of them does.    *)
(***************************************************************************)
ImplementsReversible == File!Spec

=============================================================================
