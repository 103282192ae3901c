--------------------------------- MODULE Old ---------------------------------
(***************************************************************************)
(* shuffle3 v1 (old/src/main.c, array.c): the stages of the program on an   *)
(* array_t, which is the file itself through stdio, or a copy in memory.    *)
(* A run of -s/-u works in place; -bs/-bu reads the file and writes another *)
(* one, here to the same name; -S/-U takes a string and prints one, here    *)
(* from and to the file.  Store by store: of an array in a file, the disk   *)
(* is one fwrite() behind, until the next fseek() flushes it.               *)
(***************************************************************************)
EXTENDS Words, Sequences

CONSTANTS
    Byte,       \* the bytes considered
    NUL,        \* the byte malloc'ed memory is cleared with
    Width,      \* Width[s]: sizeof the words of stage s
    Keep,       \* Keep[s]: the words that are valid
    Key,        \* Key[s]: the order of its words
    Draws,      \* Draws[s]: the tapes of its generator, for any number of words
    Lengths,    \* the file lengths considered
    Modes,      \* the modes considered
    Stacks,     \* the rng_values a stack may have room for
    Depths      \* bound: shuffles minus unshuffles

ASSUME OldAssumption ==
    /\ NUL \in Byte
    /\ Width \in [Stages -> Nat \ {0}]
    /\ Lengths \subseteq Nat /\ Stacks \subseteq Nat
    /\ Modes \subseteq {"inplace", "buffered", "string"}
    /\ Depths \subseteq Int /\ 0 \in Depths

\* Bytes are the narrowest words.
ASSUME OldWidthAssumption == \A s \in Stages : Width["byte"] <= Width[s]

ASSUME OldKeyAssumption == \A s \in Stages : Key[s] \in [[0 .. Width[s]-1 -> Byte] -> Int]

\* The generators answer in bounds.
ASSUME OldDrawsAssumption ==
    \A s \in Stages : \A draw \in Draws[s] :
        \A n \in Lengths : \A k \in 1 .. WordCount(n, Width[s]) - 1 : draw[k] \in 0 .. k

VARIABLES
    disk,       \* the bytes of the file
    arr,        \* the bytes of the array, as the program sees them
    element,    \* ar_type(array)
    mode,       \* of the running process
    op,         \* what it does, or "none", or "dead" if it died
    stack,      \* the rng_values its stack has room for
    todo,       \* the stages it has left, the current one included
    swaps,      \* the swaps the current stage has left, or <<>>
    temp,       \* the word ar_swap holds between its two ar_sets, or <<>>
    gens,       \* gens[s, seed]: what the generator of stage s draws for seed
    status,     \* how the last process ended; "none" while one runs
    depth,      \* history: shuffles minus unshuffles completed
    seen,       \* history: seen[d] is the file when depth d was first reached
    tailLost    \* history: a buffered run cut off bytes

process == <<mode, op, stack>>
stage == <<element, todo, swaps, temp>>
history == <<depth, seen, tailLost>>
vars == <<disk, arr, process, stage, gens, status, history>>

Words(w) == [0 .. w-1 -> Byte]
Size == Cardinality(DOMAIN arr)

OldTypeOK ==
    /\ disk \in UNION { SpanOf(n, Byte) : n \in 0 .. Size }
    /\ arr \in UNION { SpanOf(n, Byte) : n \in Lengths }
    /\ mode \in Modes /\ stack \in Stacks /\ element \in {1} \cup Range(Width)
    /\ op \in {"none", "shuffle", "unshuffle", "dead"}
    /\ todo \in Seq(Stages) /\ Len(todo) <= 3
    /\ \A k \in DOMAIN swaps : swaps[k] \in (1 .. Size - 1) \X (0 .. Size - 1)
    /\ temp # <<>> => temp \in Words(element) /\ swaps # <<>>
    /\ \A g \in DOMAIN gens : gens[g] \in Draws[g[1]]
    /\ status \in {"none", "0", "1", "segv", "overflow", "killed"}
    /\ depth \in DOMAIN seen /\ DOMAIN seen \subseteq Depths /\ tailLost \in BOOLEAN

Init ==
    /\ disk \in UNION { SpanOf(n, Byte) : n \in Lengths }
    /\ arr = disk
    /\ element = 1
    /\ mode \in Modes /\ stack \in Stacks
    /\ op = "none" /\ status = "none"
    /\ todo = <<>> /\ swaps = <<>> /\ temp = <<>>
    /\ gens = [g \in {} |-> {}]
    /\ depth = 0 /\ seen = [d \in {0} |-> disk]
    /\ tailLost = FALSE

-----------------------------------------------------------------------------
\* The stages of shuffle3 and unshuffle3.
Order(o) == IF o = "unshuffle" THEN <<"byte", "float", "long">>
            ELSE <<"long", "float", "byte">>

\* A process takes the bytes of the file into an array of bytes.
Begin(m, o) ==
    /\ op = "none"
    /\ (IF o = "shuffle" THEN depth + 1 ELSE depth - 1) \in Depths
    /\ mode' = m /\ op' = o /\ stack' \in Stacks
    /\ arr' = disk
    /\ element' = 1
    /\ todo' = Order(o)
    /\ status' = "none"
    /\ UNCHANGED <<disk, swaps, temp, gens, history>>

\* fopen("r+b") and ar_create_file
OpenInPlace == "inplace" \in Modes /\ \E o \in {"shuffle", "unshuffle"} : Begin("inplace", o)

\* -b: read_whole_file, ar_create_memory_from
ReadWholeFile == "buffered" \in Modes /\ \E o \in {"shuffle", "unshuffle"} : Begin("buffered", o)

\* string_shuffle: the array is as long as the string.
StringShuffle == "string" \in Modes /\ \E o \in {"shuffle", "unshuffle"} : Begin("string", o)

\* print_usage, -b without an outfile, a file that cannot be opened.
Refused ==
    /\ op = "none"
    /\ status' = "1"
    /\ UNCHANGED <<disk, arr, process, stage, gens, history>>

-----------------------------------------------------------------------------
\* fseek: what was written before is now in the file.
Flush == disk' = IF mode = "inplace" THEN arr ELSE disk

\* minmax_int64_ts, minmax_floats, minmax_sbytes: strict comparisons from the
\* far ends of the type, so with nothing kept the two stay there.
MinMax(keys) == { s \in keys \X keys : \A k \in keys : s[1] <= k /\ k <= s[2] }

\* A seed's draws are chosen when it is first used, and kept.
DrawsOf(s, seed) == IF <<s, seed>> \in DOMAIN gens THEN {gens[<<s, seed>>]} ELSE Draws[s]

\* Mutant: unshuffle leaves rng_values in the order they were drawn.
SwapsInOrder(n, draw) ==
    [k \in 1 .. n-1 |-> IF op = "shuffle" THEN <<n-k, draw[n-k]>> ELSE <<k, draw[n-k]>>]

\* Mutant: the loops start one late.
SwapsFromSize(n, draw) ==
    [k \in 1 .. n-1 |-> IF op = "shuffle" THEN <<n-k+1, draw[n-k]>> ELSE <<k+1, draw[k]>>]

\* The swaps of shuffle, and of unshuffle, which draws all of them first.
Swaps(n, draw) ==
    [k \in 1 .. n-1 |-> IF op = "shuffle" THEN <<n-k, draw[n-k]>> ELSE <<k, draw[k]>>]

Running == op \in {"shuffle", "unshuffle"}

\* The current stage: its width, words, and the keys of those that are valid.
Starts(s) == Running /\ todo # <<>> /\ s = Head(todo) /\ swaps = <<>>
NWords(s) == WordCount(Size, Width[s])
Keys(s) == KeptKeys(Reinterpret(arr, Width[s]), Keep[s], Key[s])

\* rng_values[n-1] does not fit.
StackOverflow ==
    /\ \E s \in Stages : Starts(s) /\ op = "unshuffle" /\ NWords(s) - 1 > stack
    /\ op' = "dead" /\ status' = "overflow"
    /\ Flush
    /\ UNCHANGED <<arr, mode, stack, stage, gens, history>>

Fits(s) == op = "unshuffle" => NWords(s) - 1 <= stack

\* ar_reinterpret, minmax and rng_seed, and the draws.
Stage(s) ==
    /\ Starts(s) /\ Fits(s)
    /\ element' = Width[s]
    /\ IF NWords(s) <= 1 THEN swaps' = <<>> /\ todo' = Tail(todo) /\ UNCHANGED gens
       ELSE /\ \E seed \in MinMax(Keys(s)) : \E draw \in DrawsOf(s, seed) :
                 /\ swaps' = Swaps(NWords(s), draw)
                 /\ gens' = [g \in DOMAIN gens \cup {<<s, seed>>} |->
                                IF g = <<s, seed>> THEN draw ELSE gens[g]]
            /\ UNCHANGED todo
    /\ IF NWords(s) > 0 THEN Flush ELSE UNCHANGED disk
    /\ UNCHANGED <<arr, process, temp, status, history>>

\* The seeds of no valid float are inf and -inf, whose sine is a NaN, so the
\* first index is INT_MIN, of which ar_get returns NULL.
NaNCrash ==
    /\ Starts("float") /\ Fits("float")
    /\ NWords("float") > 1 /\ Keys("float") = {}
    /\ op' = "dead" /\ status' = "segv"
    /\ element' = Width["float"]
    /\ Flush
    /\ UNCHANGED <<arr, mode, stack, todo, swaps, temp, gens, history>>

\* ar_set(array, i, word)
ArSet(i, word) ==
    /\ arr' = WithWords(arr, element, [k \in 0 .. WordCount(Size, element) - 1 |->
                  IF k = i THEN word ELSE Reinterpret(arr, element)[k]])
    /\ Flush

\* ar_swap: ar_get_into(i, temp); ar_set(i, ar_get(j)).
SwapFirst ==
    /\ Running /\ swaps # <<>> /\ temp = <<>>
    /\ LET words == Reinterpret(arr, element)
           i == Head(swaps)[1]
           j == Head(swaps)[2]
       IN  ArSet(i, words[j]) /\ temp' = words[i]
    /\ UNCHANGED <<process, element, todo, swaps, gens, status, history>>

\* Mutant: ar_set(j, ar_get(j)).
SwapSecondLost ==
    /\ Running /\ temp # <<>>
    /\ ArSet(Head(swaps)[2], Reinterpret(arr, element)[Head(swaps)[2]])
    /\ temp' = <<>>
    /\ swaps' = Tail(swaps)
    /\ todo' = IF Len(swaps) = 1 THEN Tail(todo) ELSE todo
    /\ UNCHANGED <<process, element, gens, status, history>>

\* ar_set(j, temp); after its last swap the stage is over.
SwapSecond ==
    /\ Running /\ temp # <<>>
    /\ ArSet(Head(swaps)[2], temp)
    /\ temp' = <<>>
    /\ swaps' = Tail(swaps)
    /\ todo' = IF Len(swaps) = 1 THEN Tail(todo) ELSE todo
    /\ UNCHANGED <<process, element, gens, status, history>>

-----------------------------------------------------------------------------
Done == Running /\ todo = <<>>

\* main returns 0 and leaves f in the file.
End(f) ==
    /\ Done
    /\ LET d == IF op = "shuffle" THEN depth + 1 ELSE depth - 1
       IN  /\ depth' = d
           /\ seen' = IF d \in DOMAIN seen THEN seen
                      ELSE [e \in DOMAIN seen \cup {d} |-> IF e = d THEN f ELSE seen[e]]
    /\ disk' = f
    /\ op' = "none" /\ status' = "0"
    /\ tailLost' = (tailLost \/ f # arr)
    /\ UNCHANGED <<arr, mode, stack, stage, gens>>

\* _ar_file_destructor: fclose.
CloseInPlace == mode = "inplace" /\ End(arr)

\* ar_ndump into a cleared buffer: ar_size(array) words of the width that
\* happens to be the array's.
Dumped == [x \in DOMAIN arr |-> IF x < WordCount(Size, element) * element THEN arr[x] ELSE NUL]

WriteOut == mode = "buffered" /\ End(Dumped)

\* ar_reinterpret(ar, sizeof(char)), and every byte is printed.
PrintString == mode = "string" /\ End(arr)

\* The outfile cannot be opened.
OutfileFails ==
    /\ Done /\ mode = "buffered"
    /\ op' = "none" /\ status' = "1"
    /\ UNCHANGED <<disk, arr, mode, stack, stage, gens, history>>

\* Killed anywhere: what stdio has not written is gone; and from fopen("wb") to
\* fclose, all but a part of what is being written.
Kill ==
    /\ Running
    /\ op' = "dead" /\ status' = "killed"
    /\ \/ UNCHANGED disk
       \/ /\ Done /\ mode = "buffered"
          /\ \E n \in 0 .. Size : disk' = [x \in 0 .. n-1 |-> Dumped[x]]
    /\ UNCHANGED <<arr, mode, stack, stage, gens, history>>

-----------------------------------------------------------------------------
Next == OpenInPlace \/ ReadWholeFile \/ StringShuffle \/ Refused
        \/ StackOverflow \/ (\E s \in Stages : Stage(s)) \/ NaNCrash
        \/ SwapFirst \/ SwapSecond
        \/ CloseInPlace \/ WriteOut \/ PrintString \/ OutfileFails \/ Kill

Spec == Init /\ [][Next]_vars

-----------------------------------------------------------------------------
(***************************************************************************)
(* "u: Reverse shuffle" (main.c 183): between runs the file holds what it   *)
(* held when its depth was first reached, as the usage has it, of every     *)
(* file, in every mode;                                                     *)
(***************************************************************************)
OldReverses == op = "none" => disk = seen[depth]

(***************************************************************************)
(* and until a buffered run has cut off a tail.  Seeds that are no function *)
(* of the words do not spoil it, as they do in the current version: a run   *)
(* that would have them crashes.                                            *)
(***************************************************************************)
OldRoundTrip == ~tailLost => OldReverses

(***************************************************************************)
(* A run that crashes, halfway through its stages, has lost no byte; and    *)
(* one whose rng_values do not fit on the stack has not touched the file:   *)
(* bytes come first, of which there are most.                               *)
(***************************************************************************)
CrashKeepsBytes ==
    ~tailLost => /\ status = "segv" => SameCounts(seen[depth], disk)
                 /\ status = "overflow" => disk = seen[depth]

\* All but at most n bytes of a are in b.
MissesAtMost(n, a, b) ==
    \E lost \in SUBSET DOMAIN a :
        /\ Cardinality(lost) <= n
        /\ \A x \in Range(a) : Cardinality({ k \in DOMAIN a \ lost : a[k] = x }) <= Count(b, x)

(***************************************************************************)
(* A run in place that is killed at any point has lost at most one word of  *)
(* the width it was shuffling, although stdio is a store behind.            *)
(***************************************************************************)
KilledLosesAWord ==
    ~tailLost /\ status = "killed" /\ mode = "inplace" =>
        MissesAtMost(element, seen[depth], disk)

=============================================================================
