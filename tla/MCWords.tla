------------------------------- MODULE MCWords -------------------------------
(***************************************************************************)
(* Instances of words for TLC: bytes are bits, words of 1, 2 and 4 of them  *)
(* stand for the program's 1, 4 and 8 bytes.  A float word whose last bit   *)
(* is set is an infinity or a NaN, which the filter drops.  The draws of a  *)
(* generator follow one of a few rules.                                     *)
(***************************************************************************)
EXTENDS Words

Bit == {0, 1}

Widths124 == [s \in Stages |-> CASE s = "byte" -> 1 [] s = "float" -> 2 [] s = "long" -> 4]

WordsOf(w) == [0 .. w-1 -> Bit]

\* The bits as a number, the last one its sign.
SignedKey(w) == [word \in WordsOf(w) |->
    LET value[b \in 0 .. w] == IF b = w THEN 0 ELSE word[b] + 2 * value[b+1]
    IN  IF word[w-1] = 1 THEN value[0] - 2^w ELSE value[0]]

AllButNaN(w) == { word \in WordsOf(w) : word[w-1] = 0 }

Key124 == [s \in Stages |-> SignedKey(Widths124[s])]
Keep124 == [s \in Stages |->
    IF s = "float" THEN AllButNaN(Widths124[s]) ELSE WordsOf(Widths124[s])]
Zero124 == [s \in Stages |-> [b \in 0 .. Widths124[s]-1 |-> 0]]

MaxWords == 8
Rule(draw(_)) == [i \in 1 .. MaxWords |-> draw(i)]

\* xoroshiro128plus samples below 1, so of two long words it can draw one index
\* only; the other two may sample 1.
BelowOne == { Rule(LAMBDA i : i - 1) }
UpToOne == { Rule(LAMBDA i : (i+1) \div 2), Rule(LAMBDA i : IF i > 1 THEN i ELSE 0) }
FewDraws == [long |-> BelowOne, float |-> UpToOne, byte |-> UpToOne]
OneDraw == [long |-> { Rule(LAMBDA i : i - 1) },
            float |-> { Rule(LAMBDA i : (i+1) \div 2) },
            byte |-> { Rule(LAMBDA i : i \div 2) }]

FewDepths == -1 .. 1
OneDepth == 0 .. 1

=============================================================================
