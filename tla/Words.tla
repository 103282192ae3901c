-------------------------------- MODULE Words --------------------------------
(***************************************************************************)
(* A file seen as words: the bytes f[0], f[1], ... taken w at a time.       *)
(* Bytes past the last whole word belong to no word.                        *)
(***************************************************************************)
EXTENDS Spans

\* One stage for each width.
Stages == {"byte", "float", "long"}

\* The words of a width a file of n bytes has.
WordCount(n, w) == n \div w

\* The file's whole words of width w.
Reinterpret(f, w) ==
    [k \in 0 .. WordCount(Cardinality(DOMAIN f), w) - 1 |-> [b \in 0 .. w-1 |-> f[k*w + b]]]

\* Mutant: the bytes past the last whole word are cut off.
WithoutTail(f, w, words) ==
    [x \in 0 .. w * Cardinality(DOMAIN words) - 1 |-> words[x \div w][x % w]]

\* The file f with its words of width w replaced.
WithWords(f, w, words) ==
    [x \in DOMAIN f |-> IF x \div w \in DOMAIN words THEN words[x \div w][x % w] ELSE f[x]]

=============================================================================
