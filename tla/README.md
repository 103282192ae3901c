# A verification of shuffle3

`shuffle3 -s file` reorders the bytes of a file in place and `shuffle3 -u file`
puts them back. No key is kept: each of the three stages seeds a generator from
the file itself (the least and the greatest word in it), and `-u` recomputes the
same seeds from the reordered file. This directory holds TLA+ models of the
program, the TLC runs that check them on small instances, and theorems about
them that TLAPS proves for every instance. `PROJECT.json` lists the runs, the
mutants that show each property can fail, the source lines of each definition,
the hazards and the findings.

## 1. The system

| component | state | operations | talks to |
|---|---|---|---|
| command line (`src/main.c`) | parsed arguments | `-s`, `-u`, `-h`, usage errors | calls `do_work` |
| pipeline (`src/work.cpp`) | the mapped file, three generators | `xshuffle_ip<unshuffle>`: map, three stages, unmap | mapping, `minmax_t`, generators, stage templates |
| seed scan (`minmax_t`, `src/work.cpp`) | `lowest`, `highest`, `init`, index | one scan of a span through a filter | span |
| stages (`include/shuffle.hpp`) | the span, the loop index, the stack of draws | `shuffle`, `unshuffle` | generator, span, spill container |
| spill containers (`include/fsvec.hpp`) | memory part, file part, fill pointers | `push_back`, `back`, `pop_back`, `size` | temporary file, `fvec_t`, mapping |
| file vector (`src/fsvec.c`) | a `FILE*`, its buffer and position, a length | push, read last, truncate | stdio, the kernel |
| generators (`include/rng`, `src/rng`) | a few words of state | `next_long` and other draws | none |
| mapping (`src/map.c`, `include/map.h`, `src/map.cpp`) | descriptor, address, length | open, allocate, duplicate, unmap; moves | the kernel |
| temporary files (`include/tempfile.hpp`) | a name | create name, unlink, moves | file system |
| panic (`src/panic.*`) | none | `abort()` | everybody |
| progress bar (`src/perc.cpp`, `include/perc.h`) | a handle on a fraction, a width and a tag, which a copy assignment shares | `spin`, `render`, setters, copies, moves, `Carrier`s | an output line; nobody uses it yet |
| v1 program and arrays (`old/src/main.c`, `array.c`) | an `array_t`: the file through stdio, or a copy in memory, seen as words of one width at a time | `-s`, `-u`, `-bs`, `-bu`, `-S`, `-U`; get, set, swap, reinterpret, dump | stdio, ptr_store, v1 generators |
| v1 `ptr_store` (`old/src/ptr_store.c`) | a chain of nodes that own heap blocks | allocate, adopt, free, collect, clone, destroy | the heap, destructors of objects |
| v1 generators (`old/src/rng.c` and the others) | as the generators above | as above | none |

How they interact: everything is one thread and one call tree; `main` calls
`do_work`, which calls `xshuffle_ip`, which constructs the mapping, and for each
stage scans, constructs a generator and calls a template. What is *shared* is
the file: the mapping is `MAP_SHARED`, so each store of each swap is in the file
when the process dies and seen at once by every other process that maps it, and
the three stages look at the same bytes as words of 1, 4 and 8 bytes. There is
no lock. What carries information from one run to the next is only the file. v1
is a program of its own with the same purpose; it goes through stdio, or buffers
the whole file, where the current version maps it.

What is hard, and what would have to be true:

* **Seeds are recomputed** from a file that stages of other widths, and any
  number of earlier runs, have reordered. They have to depend on the *set* of
  words of the stage only. In a release build `lowest` and `highest` are
  uninitialised until the first kept word, so for a file with no finite float
  they depend on nothing that is in the file.
* **Order**: stages undone in reverse, swaps undone in reverse, draws consumed
  last first and exactly as many as were made.
* **Interruption**: a kill between the two stores of a swap, between swaps,
  between stages; a panic in a later stage when an earlier one has changed the file.
* **Boundaries**: files of 0 or 1 bytes, shorter than a word, not a multiple of
  a word; a generator that samples exactly 1.0; a span of `SPILL` and
  `SPILL + 1` objects.
* **Buffering**: `file_vector` truncates a file behind the back of the stdio
  stream that writes it.
* **Ownership**: descriptors, mappings and temporary files that move between
  C++ objects and are released by destructors, or not at all after `abort()`;
  blocks that v1's `ptr_store` frees, or has forgotten it freed; the line a
  progress bar has to end, with states that are copied here and shared there.
* **Concurrency**: two processes on one file, whose swaps are two loads and two
  stores each and whose seeds are read while the other stores.
* **v1**: stdio a store behind; draws on the stack; a dump in whatever width the
  array happens to have; no float kept, so that the draws are no numbers.

## 2. Modules

| module | models | abstract specification |
|---|---|---|
| `Spans` | the view of a file as objects, the draws of a generator, what `minmax_t` returns, the loops of a stage as functions, rearrangement | – |
| `Words` | a file seen as words of a width, and with words put back | – |
| `MinMax` | `minmax_t` step by step | `SeedsOf` in `Spans` |
| `Sampling` | `next_long(max)` in rounded arithmetic, for the samples of each generator | `Tapes` in `Spans` |
| `Xoroshiro` | `next`, `jump` and `long_jump` of xoroshiro128plus, 128 bits wide | 2^64 and 2^96 calls of `next` |
| `Shuffle` | one stage, store by store, over and over on one file | `Reversible` |
| `Work` | the program: argument errors, mapping, three stages, unmapping, run after run | `Reversible` |
| `Reversible` | what the README promises: runs walk up and down one chain of orderings | – |
| `TwoRuns` | several processes on one file, load by load and store by store | – |
| `FileVector`, `FreeFileVector` | `file_vector` and `fvec_t` with the stdio stream between them and the file | – |
| `Spill` | the four containers `unshuffle` can be built with, in its protocol | `Stack` |
| `Stack` | what `i_back_inserter` promises | – |
| `Ownership` | which C++ object closes which descriptor, mapping and temporary file | – |
| `Progress` | `pr::Progress`: handles, states, the line, what `render` draws | – |
| `Old` | v1: its three modes, its stages, an array behind stdio | – |
| `ReadStdin` | `read_stdin` of v1 | – |
| `PtrStore` | v1's `ptr_store` and the heap | – |
| `MCGenerators`, `MCShuffle`, `MCWords`, `MCWork`, `MCTwoRuns`, `MCSpill`, `MCOwners`, `MCOld` | instances for TLC; `MCWords` has the constants of those on words, `MCGenerators` and `MCOwners` put components side by side that share nothing | – |
| `SpanTheorems`, `GeneratorProofs`, `ShuffleProofs`, `WorkProofs`, `OwnersProofs`, `SpillProofs`, `TwoRunsProofs`, `OldProofs` | theorems; `GeneratorProofs` is about `MinMax`, `Sampling` and `Xoroshiro`, `OwnersProofs` about `Ownership`, `PtrStore` and `Progress` | – |

### MinMax

`array`, `i`, `init`, `lowest`, `highest` are the locals of `minmax_t`. The loop
body has three ways through, which are the actions `Skip` (the filter drops the
object), `First` and `Later` (whose disjuncts are the two tests and neither). A
release build's uninitialised locals are any value of the type; a `DEBUG`
build's are `T{}`. Objects have a key, their place in the order of the type: two
objects may have the same key, as +0.0 and -0.0 do, and then either may be
returned.

### Shuffle

`span` is the shared mapping. A call computes the seeds from the span as it is
(`SeedsOf`, which is what `MinMax` is shown to return) and constructs a
generator (`SeedGenerator`). A generator is a function of its seed; the model
does not fix which, it picks the *tape* of a seed, its answers to
`next_long(size-1) .. next_long(1)`, when the seed is first used, and keeps it.
So what is checked holds of every generator whose answers are in bounds. `UpTo`
says whether an answer may be the bound itself: `rand_r()/RAND_MAX` (drng) can
be exactly 1.0 and so can a rounded `fract()` (frng); xoroshiro's sample is at
most 1 - 2^-53.

A swap is two stores, `ShuffleSwap` and `ShuffleStore` (`UnshuffleSwap` and
`UnshuffleStore`), with `tmp` between them. `Push` stacks the draws of
`unshuffle`. `Crash` ends the process anywhere. `depth`, `seen` and `path` are
history: how many shuffles more than unshuffles have completed, what the file
held at each depth, and the intermediate spans of each edge between two depths.

### Work

One run: `MapShuffle` or `MapUnshuffle` (the mapping is made), then for each of
the three stages `Stage` (or `StageSkipped`), then `Unmap`. A run can die on the
way: `SeedNaN` is the panic of a release build whose float seeds are no numbers,
`ContainerPanics` the one of `unshuffle` when it cannot make room for its draws
(before its first swap) or read one back (between two swaps), and `Kill` a
signal, at any time between two swaps (`Shuffle` has the kill between the two
stores of one). Whatever stages and rounds were done by then are in the file:
`RunTo` is a stage up to any index of its loop, of which `Stage` goes to the
last and `Inside` to some. Nothing else of the run survives it; `op` is `"dead"`
until somebody starts another, which no action does. `Order` is the order of the stages in `xshuffle_ip<unshuffle>`. A file
is seen as words of width w by `Reinterpret`, and bytes past the last whole word
stay. `MapFails` is an `open`, `fstat` or `mmap` that fails, which is what
`mmap` always does on an empty file. `Help` is `-h` and the argument errors. The
exit status is kept: 0, 1, or the signal of `abort()` or of a kill. Its constants
are assumed to be as the code has them: only the float stage filters, `int64_t`
is a whole number of `float`s, and the generators answer in bounds.

### FileVector and Spill

`file` is what the kernel has, `pending` what the stdio stream has not written
yet, `pos` where it will go. `PushBack` may flush any prefix of the buffer;
`BackIs` is the flush and the read of `fseek(-sz, SEEK_END)` and `fread`;
`PopBack` is `ftruncate` on the descriptor, the stream untouched. `Spill`
extends it with the memory part and the three ways to overflow, `mode` being the
build (`_FS_SPILL_BUFFER` undefined, set, `DYN`, `MAP`). Its actions are those of
`unshuffle`: `Construct`, `Push`, `Back`, `Pop`, `Return`; a failing system call
is a panic and so a death (`Die`). The calls that would panic in the containers
themselves are the predicate `Panics`.

### Sampling

`Shuffle` takes any generator whose answers are on a tape of `Tapes`; `Sampling`
shows that the three the program has are such. A state is one draw: a generator
class, the loop index, a sample and, after `Draw`, the answer. A double has `P`
significant bits, and a number is a multiple of 2^-(P + RandBits), so that
`Round` is the only place where anything is rounded. `XoroshiroSamples` are the
53-bit integers times 2^-53, `DrngSamples` the rounded quotients `rand_r() /
RAND_MAX`, `FrngSamples` the fractional parts of any double of either sign: the
sine is not computed. `drng` and `frng` reach 1.0 (a tiny negative x has
`x - floor(x)` round to 1), which is where the flag of `Tapes` comes from.

### Xoroshiro

A word is the set of its bits and a state the set of its 128 bits. `next` is
linear over exclusive or (its result, a sum, is not, but the state does not
depend on it), so following the 128 states of one bit follows them all
(`JumpTheorem`, section 4). `Round`
is an iteration of the two loops of `xo_jump` and `xo_long_jump`, which only
differ in their tables; `Double` squares the reference, the linear map of
2^exponent calls. `Previous` is the inverse of `NextState`, written down to be
compared with it.

### Ownership

A slot holds nothing, a mapping (`mm::mmap`, `mm::vmap`), a `mapped_vector` or a
`file_back_buffer`. The constructors are the actions `OpenAndMap`, `MapRawFd`,
`FromTemp` and `FileBackBuffer`, each the whole of one construction that
succeeds; one that fails is `Panic`, which ends the process without destructors
and may leave the file it had created. `Move` gives everything to another slot
and leaves what the move constructors leave: a null pointer next to the old
descriptor number, a null `inner`, an empty path. `Destroy` is the destructor
and releases only if the pointer is not null. The destructor of a moved-from
`file_back_buffer` reads through its null `inner` whatever the pointer says:
`DestroyMovedBuffer` is the crash that follows. The client may own descriptors
of its own, `raw`, and hand one to `map_raw_fd`, after which it is not its to
close.

### TwoRuns

A process has mapped the file (`Map`), scans it an object at a time (`Scan`),
constructs its generator (`Seed`) and swaps. Here a swap is four actions,
`Load`, `Load2`, `Store` and `Store2`, since another process may run between any
two of them; `swaps` are the pairs of indices the loop of `shuffle` or
`unshuffle` has left. `gens` is shared because a generator is the same function
of its seed in every process. `raced` remembers that two swaps on a common
object were under way at once, `alone` that no other process has stored anything
since one started. One stage of one width is modelled: what goes on between
stages is in `Work`, and a stage sees of another process only stores.

### Progress

`bars` says which state, `_impl`, the handle in a place has: none, a null
pointer after a move, or the number of a state. The actions are the
constructors, the two assignments (`AssignCopy` shares the state that `CopyBar`
copies), the setters and `spin`, `render`, and the destructor, which prints the
newline of a bar that has a state. `Carrier`s hold a bar, so `make_dyn` is a
move or a copy. Fractions are multiples of `1/Unit` and may be larger than 1,
which the setters allow. Misuse of a moved-from bar (anything that reads through
its null pointer) has no action.

### PtrStore

`chain` is the nodes, `mem.heap` what each block of the heap is: free, a plain
block, or an object with its state, and `mem.fault` records a block freed twice
or a destructor called on what is none. `client` are the blocks the client still
owns itself. `PutNode` is the search of every allocating call for an empty node;
`NodeFreed` is what the loops of `destroy_store` and `store_collect` do to one
node, and `AllFreed`, these loops, folds it over the chain.

### Old

`arr` is the bytes of the array as the program sees them and `disk` what the
file has: in place they differ by the last `fwrite`, which `Flush` (any
`fseek`) writes out. `element` is the width the array is seen in, which a stage
sets and the dump of a buffered run uses. `Stage` scans and draws all of a
stage's indices, `SwapFirst` and `SwapSecond` are the two `ar_set` of `ar_swap`;
`StackOverflow` and `NaNCrash` are the two ways a run dies by itself, `Kill` a
signal anywhere. The three modes end in `CloseInPlace`, `WriteOut` and
`PrintString`. A run with no kept float always crashes there: the sine of an
infinity is no number, and the index made of it is out of every array.

### ReadStdin

`input` is the buffer, `len`, `remain` and `n` the locals. `n` starts as any
value of `Garbage`. `optimised` is the build: `n` is read before it is set, and
a compiler may take `len`, which depends on it, never to change.

## 3. Runs

| run | what it shows | bounds |
|---|---|---|
| `generators` | results of `minmax_t` are those of the set of kept objects; draws are in bounds, reach the bound only on a sample of 1, and reach every index (up to half of what the samples tell apart); `next` is a permutation of the states and the jump tables are right | all arrays of 0 to 4 of five floats (-1, -0.0, +0.0, +inf, NaN), both builds; 5 significant bits, `RAND_MAX` 7, arguments of `fract` up to 3, spans of up to 33 objects; 128 bits, 2^64 and 2^96 calls |
| `stage` | a stage implements `Reversible` on determined files; the inductive invariant; a sampler below 1 moves every object | sizes 0 to 3, three objects, depths -1 to 1, every generator |
| `stage_undetermined` | no object lost, draws aligned, whatever the seeds; a stage ends | files of zeros and NaNs, sizes 0 to 3, release and `DEBUG` |
| `spill` | every container is a stack for `unshuffle`, never panics, keeps to its memory, ends with nothing held and no temporary file | threshold 2, span sizes 1 to 6: below, at, one above and well above |
| `file_vector_free` | (violated) `file_vector` is a back inserter in any order of calls | up to 3 values |
| `work` | the program is undone, conserves bytes, can be taken back from wherever it died to what it began with, implements `Reversible` | files of 0, 1, 5 and 8 bits-as-bytes, words of 1, 2 and 4, two rules of draws for the float and byte generators, one for the long (two words have one draw below the bound), depths -1 to 1 |
| `work_release` | (violated) the README's promise in a release build | one depth up |
| `together` | interleaved runs lose an object only in a race, seed themselves with the bounds of the whole file, undo each other when one follows the other, and return | two processes, three objects, every tape; all interleavings of their loads and stores |
| `owners` | one owner for every descriptor, mapping and temporary file, nothing left after an exit; the store frees every block once; lines are ended, bars drawn to within a cell | 3 objects, 3 descriptors, 2 addresses, 2 names; 4 blocks, 3 nodes; 3 bars, a terminal of 8 columns or none, fractions 0, 1/2, 1 and 3/2 |
| `old` | v1 is undone but for a tail a buffered run cut off; a crash loses no byte, a kill in place at most a word | files as in `work`, one rule of draws per generator, stacks with room for 3 or 8 draws, the three modes in any order |
| `old_buffered` | (violated) `-bu` reverses `-bs` | files as in `old` |
| `old_stdin` | (violated) `-S -` reads what is on stdin | up to three lines, a buffer of 16, `n` starting as 0 |

Why the bounds are enough to mean something: size 3 is the least at which two
swaps do not commute, and 4 bytes is two of the scaled words of each width but
the widest, 8 two of that as well; 5 has a tail in every width. The 33 objects
of `Sampling` go one past 2^P, so that `(double)max` is about to round, and past
every value of `rand_r`. `EveryIndexReached` is about half of 2^P and of
`RAND_MAX + 1` at most, which are 2^52 objects and for `drng` 2^30. Further up
it is not true in general: with 6 significant bits no sample of
`xoroshiro128plus` is an answer 32 below 58, and `drng` has no more than 2^31
answers anyway, so that the byte stage of a file that long has swaps that are
never made (and is undone nevertheless). Depths from -1 to 1 have both directions first and both
ways back. `Depths` stops a run from going further, nothing else does. Three
slots, bars or nodes are one more than a move or an assignment needs, and a
stack for 3 draws is full for one of the lengths of a file and not for others.
Two processes are enough for every race between loads and stores of one swap
each; the theorem of `TwoRunsProofs` is for any number of them.

Fairness: `FairSpec` and `FairSpillSpec` assume that the program's own steps go
on as long as they can (weak fairness of all of them together): the loops run on
the only thread and block on nothing. `TwoRuns` has weak fairness of the steps
of each process, since the system gives every process that can run its time and
none ever waits for another. A crash step is never required, and no user is
obliged to start a run. The runs that check no deadlock do so because the system
may stop: nobody starts another run, or the process is dead.

## 4. Proofs

`SpanTheorems` has the lemmas about swaps: a swap keeps the type, is its own
inverse, is its two stores, and leaves the same objects (`SameObjects`, a
bijection of the indices), a relation that is reflexive, is kept by swaps, and
leaves the set of objects alone. A list of swaps leads from a span along a path
of spans (`PathExists`), which the reversed list walks back (`PathBack`). It also
has what the two versions of the program share about words: what writing words
back leaves in the file (`WithWordsIs`), that reordered words are reordered bytes
(`BytesFollow`), and the `Rungs` a stage goes up or down, one for each loop index.

`GeneratorProofs` proves the loop invariant `IInv` of `minmax_t` (`lowest` and
`highest` are objects of the scanned prefix and bound it) and from it
`SeedsTheorem`: the seeds are a function of the set of kept objects.

Its second part is floating point: `OnTapeTheorem` and `BoundOnlyAtOneTheorem`
say for every precision `P`, every `RAND_MAX` and every argument of the sine
that `next_long()` answers an index of the span, and the loop index itself only
for a sample of exactly 1. `Rounds` is what a rounding does, as an equation
between the quotient, its remainder and the unit `2^k`. From it: a number of `P`
bits rounds to itself (`RoundKeeps`); a sample is 1 or at least a unit of 1
below it (`SampleIs`); and a sample that much below 1, times an index, is more
than half a unit of its product below the index, so that the product rounds to
less (`ProductBelow`). Half a unit is at most the product divided by `2^P`,
whatever its exponent, so no table of exponents is needed. `MaxAssumption` has
the indices exact as doubles: memory of `2^53` bytes does not exist. The provers
know nothing of powers; `PowStep` gets `2^(n+1) = 2 * 2^n` from the library's
cardinality of a power set.

`ReachTheorem` is about the other direction, that each index is an answer. A
rounding moves a quotient below `2^e * 2^P` by at most half of `2^e`
(`RoundNear`), so a product that far inside the numbers from `j` up to `j + 1`
answers `j` (`AnswersWithin`). The samples are less than half an index apart once
multiplied, so one of them lands between a quarter above `j` and a quarter below
`j + 1` (`StepWithin`), which is more than its roundings can spoil. `frng` has
all samples of `xoroshiro128plus`. `ReachTheorem` is the only one to need
`SamplesAssumption`: `RAND_MAX` has two bits or more and two fewer than a double
(31 and 53), and the argument of `fract` may exceed 1.

Its third part is `StepTheorem`: `next` of xoroshiro128plus is undone by
`Previous` from every one of the 2^128 states (`NextUndone`), not only from those
the run follows. A rotation and what is left of the turn cancel (`RotatedBack`),
and so does adding a word twice. The state of two zeros is thus reached from
itself only (`ZeroFromZero`), and a generator that does not start there never
gets there (`NeverZeroTheorem`).

Its fourth part is about `jump()` and `long_jump()`. The run can follow 128 of
the 2^128 states; `JumpTheorem` says that this is enough: when `JumpsAhead` holds
of the states of one bit, then from *every* state the loop of `xo_jump` ends 2^64
calls of `next` away and that of `xo_long_jump` 2^96. Shifts, rotations and so
`next` are linear (`NextAdds`), and so are the maps a run keeps, as `Image` is a
parity and parities add up (`ParityAdds`, `ImageAdds`). The invariant `JumpInv`
says what each of them does to the start of any `Orbit` of `next`: `after` leads
to its `at`-th state, `power` to the one `2^exponent` on, and `jumped` and
`longJumped` to the sum of the states whose bit of the table is set (`SumOf`,
which is what the code accumulates in `s0` and `s1`). Each state has an orbit
and the orbit a sum (`OrbitExists`), so this is about all of them.

`ShuffleProofs` proves, for every size, object type, filter, set of builds, both
kinds of generator and every bound on the depths:

* `ObjectsTheorem`: `Spec => []ObjectsConserved`, on every file and in every
  build, crashes included;
* `InductiveInvariant`: `Spec => []IInv`;
* `RoundTripTheorem`: `Spec => []RoundTrip`;
* `DrawsTheorem`: `Spec => []DrawsAlign`, which is a layer of `IInv`.

`RoundTrip` is about two moments of a behaviour and is not inductive. `IInv`
strengthens it in four layers, proved one after the other: the types and what
each program point leaves in the locals, with the alignment of the draws
(`Control`, `DrawsAlign`, `Chain`); `ObjectsConserved`; `SeedStable`, which
follows from it since seeds are a function of the set of objects; and `Paths`
with `OnPath`. The last is the heart: for each edge between depths e and e+1 the
history variable `path[e]` has the span at each loop index, consecutive ones
differ by the generator's swap (`Link`), whichever direction walked the edge
first, and the running call is where the path says it is. A swap is its own
inverse, so the path can be walked both ways.

Its second part proves `StageImplementsReversible`: with determined files, a
stage implements `Reversible` under the mapping of `ImplementsReversible`. The
steps inside a call and the crashes are stutters, and a call's return is a
`Move`: to contents already seen at that depth, which is `OnPath`, or to new
ones, which must be a rearrangement, which is `ObjectsConserved`. The lemmas
also keep that what each depth held is a rearrangement of what was there first.

Then there is `EveryObjectMovesTheorem`, from the path of an edge and the
lemma `Sattolo` of `SpanTheorems`: if every draw is below its loop index, an
object that was swapped away from its place is at or below the index the loop
has reached, or in some place above it that is not its own, and so never back.
The lemma is an induction over the loop index. The library's induction rule
takes an operator, so `AllNaturals` goes through a set of naturals without a
least element outside it.

`StepsTheorem` is the part of `CallsReturn` that needs no fairness: `StepsLeft`
counts the steps a call has still to take, is zero only when no call is running,
and every step of the call takes one off (`EachStepCounts`); until then there is
a step to take and, in `unshuffle`, a draw left to pop (`StepToTake`). A loop
that ran on, or an empty stack met on the way, would break it. `SpillProofs`
proves the same of the calls of the container, whichever it is, together with
what is left behind at the end: nothing held and no temporary file.
`TwoRunsProofs` proves it of each process whatever the others do: the count of
one moves with its own steps only, so no process ever holds up another.

`StageTheorem` connects `Shuffle` with `Work`, which takes a whole stage as one
step. On a determined file, `shuffle` at loop index `i` has made of the span
what `ShuffleFrom` says at `i`, and `unshuffle` what `UnshuffleFrom` says at
`i - 1` (`StageIsOneStep`). At the return these are the two spans that `Stage`
of `Work` writes. It follows from `OnPath`, along the `Rungs` that the recursive
functions have.

`WorkProofs` proves what the program promises, for every file length, every three
widths of which the long one is a multiple of the float one, every order and
filter of floats, every generator in bounds and any number of runs:
`WorkRoundTripTheorem`, `BytesTheorem`, `RecoveryTheorem`, `WorkTypeTheorem` and
`WorkImplementsReversible`. The argument, from the bottom up:

* bytes and words: besides the lemmas above, that reordering the long words
  leaves the *set* of the float words (`SameNarrowWords`), though not where they
  are;
* a loop: `ShuffleFrom` and `UnshuffleFrom` are the two ways along the same
  `Rungs`, so each undoes the other (`LoopsUndo`);
* a stage: seeds are a function of the set of words, which the stage does not
  change, so the unshuffling stage seeds itself as the shuffling one did
  (`WentOnce`, `WentBack`). The float stage's may be uninitialised; whether they
  are is decided by the file before the long stage (`LongKeepsFixed`);
* three stages: an `Edge` from the file at a depth to the file one deeper has one
  end for each beginning, and the other way round (`EdgeOnce`, `EdgeBack`).

The invariant `WorkInv` says that each pair of neighbouring depths is an edge and
that a run in progress has come as far along one as its stages (`Up`, `Down`).
Along the way nothing is compared with the history, so that a stage with
uninitialised seeds needs no case of its own; the comparison is made once, at
`Unmap`, where `Determined` is needed. Without the edge there would be no induction: that the
file is back says nothing about the generators that will bring it back again.

`RecoveryTheorem` is about runs that die with some stages done and one half done,
by a panic or a kill between two swaps. What the opposite loop takes back is a
list of draws in which the rounds that were not made are swaps of an object with
itself (`Only`), so that a loop left at any index is undone by a whole one
(`LoopBackIs`). A file reordered so far has the words it had before, hence the
same seeds, and the generator is the one the dead run used (`RunBack`). Taking
back whole stages is the same with all rounds (`GoneBack`). `Begun` takes back the
stages before the one that was left, and `WayBack` does so wherever `WorkInv` says
that a run is on its edge. `WorkInv` says nothing of what a dead process left, so
the property is shown of the step in which it dies (`DeathCameFrom`), and nothing
happens after it. What the theorem is about is the file: the program records
neither which run, stage or round it was in, and has no command that would take
a part of a run back. Between the two stores of a swap it is false: one object is
then in the file twice and another only in the memory of the dead process, which
is all that `ObjectsConserved` of `Shuffle` allows.

`OwnersProofs` proves `OwnershipTheorem` (`Spec => []OwnedOnce`) and
`NothingLeftTheorem`, for any sets of slots, descriptors, addresses and names.
`OwnedOnce` is inductive once `Shape` is added: an object that owns nothing has
no pointer and no path a destructor would act on, and one that owns something
has a descriptor.

Of `PtrStore` it proves, for any number of blocks and nodes, `StoreTheorem`
(`StoreSpec => []StoreIInv`), `NoStoreFaultTheorem` and `StoreFreesAllTheorem`.
The invariant is `Owned`, which says without counting what `BlocksOwnedOnce`
counts, and more: the state of an object is a plain block, so that a destructor
frees one block and no chain of them; and an empty node is no object's, so that
the next block put there is not taken for one. `DestroyOwned` follows the loop
of `destroy_store` node by node. The fold over the chain has an operator as its
argument, of which the provers can be told nothing, so `FoldSteps` unrolls it
from its definition: there are memories `g[0]`, `g[1]`, ... of which each comes
from the one before it by `NodeFreed`. `Owned` holds of each of them and of the
chain with its first nodes emptied.

Of `Progress` it proves `LineEndedTheorem` (with the types of `bars` and
`impl`: a state that is shown is owned) and `WithinOneCellTheorem`, arithmetic
about the cells `render` counts, for any number of bars, any terminal and any
fineness of the fractions.

`SpillProofs` proves, for every threshold, span size, set of builds and set of
values, `SpillTheorem` (`SpillSpec => []SpillIInv`), from it
`NeverPanicsTheorem` and `MemoryTheorem`, and `StackTheorem`: each container
implements `Stack`. `SpillIInv` has, besides the types, what the loops of
`unshuffle` leave in the container at each program point (`Phase`, which counts
the mapping's room and what `back` finds), which layer may hold something
(`Layers`) and how the stream and the file stand to each other (`Stream`: what
is buffered goes right behind the file while values are pushed, and nothing is
buffered when `pop_back` truncates). In the refinement `items` is the memory
followed by the mapping's prefix or by the flushed file, so that stdio's writing
out, `spl()` and a constructor are stutters.

`TwoRunsProofs` proves, for any number of processes, any file and any generator
in bounds, `TypeTheorem` (no process swaps outside of the file, whatever the
others do to what it seeds itself from) and `RaceTheorem`
(`Spec => []LostOnlyInRace`). At an arbitrary moment several swaps are half
done, so that the file is no rearrangement of anything. The invariant `RaceInv`
is about the file it will *settle* to, in which the second store of every swap
that has made its first is made: this one is always a rearrangement of the
original file. A first store moves it on by one swap, a second store leaves it
as it is, and what a process has loaded is still true when it stores it because
swaps under way at once have no index in common (`Apart`), or else `raced` is
set.

`SeedsTheorem` and `OrderTheorem` are about its other two properties. The first
adds `Whole`: as long as no other process is midway or has stored since a
process began to scan, nobody is midway while it scans and what it has seen is
the set of objects of a prefix of the file (`Scanned`); afterwards it is that of
the original file. For the second, of two
processes, `OrderInv` says where each is on one path of spans. Before the later
one starts, `First` has the file as it was, until there are swaps to make, and
then on the way there, the swaps left being the rest of the way. Afterwards, if
the earlier one had finished, `Second` has it at the end of that way and then on
the way back, with seeds that are those of the first because the whole file has
the same objects, and swaps that are the first's in reverse (`WayBack`). A
process midway has made one of the two stores of a step of the path (`AtSwap`).

`OldProofs` proves all that a passing run checks of `Old`: `OldRoundTripTheorem`,
`CrashTheorem`, `KillTheorem` and `OldTypeTheorem`, for every file length, all
widths of which that of bytes is the least, every filter and order of the words,
every generator in bounds, any room on the stack and any number of runs in any
mode. Its edges and the stages along them are as in `WorkProofs`, without the
uninitialised seeds v1 does not have. Below that, `Old` makes one store a step,
so its invariant `OldInv` has to say where inside a stage a run is: the stage
began with a file `base`, and the array is a rung of `base`'s ladder, with the
next swap's first store on top if there is a word in `temp` (`InSwap`,
`Tracks`). The ladder hangs from the end the stage begins at, the swaps left
being the indices below or above the rung (`Left`); at the last one it has got to
the other end, which is where the edge says the stage goes (`SecondStore`). What
is on the disk is in `OnDisk`: in place it is a rearrangement of what the run
began with, or that with one word over another (`MissesAtMost`, `WordOver`) of
the width the array has, or of one before it when a stage of a wider one had
nothing to do (`Nearly`). That an overflow of the stack has touched nothing is a
matter of order: only the first stage of an unshuffle can overflow, since no
other has more words (`BytesMost`, `Roomy`).

The proofs assume what the `ASSUME`s of the modules say and nothing else; TLC
evaluates these in the runs.

Model-checked only: liveness (`CallsReturn`, `Returns`, `AllReturn`), since the
prover has no fairness and no `ENABLED`; the three `StepsTheorem`s prove the rest
of the argument, that the steps left are counted down. And `JumpsAhead` of
`Xoroshiro`: that two constants of 128 bits are right is a computation, and TLC
has made all of it for the 128 states of one bit; `JumpTheorem` takes it from
there to every state.

## 5. Findings

1. A release build does not restore a file in which every aligned 4-byte word is
   a NaN or an infinity (`work_release`).
2. `file_vector` is not a back inserter outside the order of calls `unshuffle`
   uses (`file_vector_free`); the program does not meet it.
3. v1's `-bu` does not reverse its `-bs` on a file whose size is no multiple of
   8: the bytes past the last whole word come out as zeros (`old_buffered`).
4. v1's `-S -` and `-U -` do not shuffle what is on stdin when it has three
   lines, or two in an optimised build: the offset of a line is a running total
   of running totals (`old_stdin`).

## 6. Not modelled

Not modelled: wording of messages (`debug.c`, `colours.h`), the build, the
unused allocation probe and C interface of the generators, `xshuffle_op` (it
panics, and `main` never asks for it), the text beside a progress bar and the
spinner no build compiles.

Also not modelled: the contents of mappings that share a descriptor (`dup_map`),
and the draws of `RNG` that nothing calls (`byte`, `bytes`, `chance`, the
unbounded `next_int` and `next_long`).
