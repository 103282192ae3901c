------------------------------ MODULE ReadStdin ------------------------------
(***************************************************************************)
(* read_stdin() of v1 (old/src/main.c 211-244): what "-S -" and "-U -"      *)
(* shuffle.  fgets() reads a line at a time behind what was read before; n  *)
(* starts uninitialised, and is a running total that is added to another.   *)
(* What a compiler makes of that: without optimisation n starts as some     *)
(* value of the stack, and an optimising one may take len never to change.  *)
(***************************************************************************)
EXTENDS Integers, SequencesExt

CONSTANTS
    Text,       \* the texts considered: sequences of lines of characters
    Garbage,    \* the values the stack may have had where n is
    BUFSIZE,
    BUFMIN,
    NUL

VARIABLES
    text,       \* what there is on stdin; fixed
    optimised,  \* the build; fixed
    lines,      \* the lines, or rests of lines, not read yet
    feof,       \* has the end been met?
    input,      \* the buffer: NUL, or what was read into it
    len, remain, n,
    result      \* "" while reading, then "read" or "out of bounds"

vars == <<text, optimised, lines, feof, input, len, remain, n, result>>

Init ==
    /\ text \in Text
    /\ optimised \in BOOLEAN
    /\ lines = text
    /\ feof = FALSE
    /\ input = [k \in 0 .. BUFSIZE - 1 |-> NUL]
    /\ len = 0 /\ remain = BUFSIZE
    /\ n \in Garbage
    /\ result = ""

-----------------------------------------------------------------------------
\* The string at input + k ends before the first NUL; strlen is its length.
Ends(buffer, k) == { e \in DOMAIN buffer : e >= k /\ buffer[e] = NUL }
Strlen(buffer, k) == Min(Ends(buffer, k)) - k

\* realloc() to twice the size; the new half is not cleared.
Grown == IF remain > BUFMIN THEN {input}
         ELSE LET size == Cardinality(DOMAIN input)
              IN  { [k \in 0 .. 2 * size - 1 |-> IF k < size THEN input[k] ELSE c] : c \in {NUL, "?"} }

\* fgets(input + len, remain, stdin) puts text of the first line there, and a NUL.
Fgets(buffer, line) ==
    [k \in DOMAIN buffer |-> IF k - len \in 0 .. Len(line) - 1 THEN line[k - len + 1]
                             ELSE IF k - len = Len(line) THEN NUL ELSE buffer[k]]

Room == IF remain > BUFMIN THEN remain ELSE remain + Cardinality(DOMAIN input)
Line == IF lines = <<>> THEN <<>> ELSE SubSeq(Head(lines), 1, Min({Room - 1, Len(Head(lines))}))
Rest == SubSeq(Head(lines), Len(Line) + 1, Len(Head(lines)))

\* A line is read, or the end is met, at once if the last line has no newline.
Read ==
    /\ result = "" /\ ~feof
    /\ \E buffer \in Grown :
          /\ len \in DOMAIN buffer /\ len + Len(Line) \in DOMAIN buffer /\ Room > 1
          /\ input' = IF lines = <<>> THEN buffer ELSE Fgets(buffer, Line)
          /\ Ends(input', len) # {}
          /\ n' = n + Strlen(input', len)
    /\ lines' = IF lines = <<>> THEN <<>> ELSE IF Rest = <<>> THEN Tail(lines) ELSE <<Rest>> \o Tail(lines)
    /\ feof' = (lines = <<>> \/ (lines' = <<>> /\ Last(Line) # "\n"))
    /\ len' = IF optimised THEN len ELSE len + n'
    /\ remain' = Room - n'
    /\ UNCHANGED <<text, optimised, result>>

\* The next line would go, or strlen would look, outside of the buffer.
OutOfBounds ==
    /\ result = "" /\ ~feof
    /\ \E buffer \in Grown :
          \/ len \notin DOMAIN buffer \/ len + Len(Line) \notin DOMAIN buffer \/ Room <= 1
          \/ Ends(IF lines = <<>> THEN buffer ELSE Fgets(buffer, Line), len) = {}
    /\ result' = "out of bounds"
    /\ UNCHANGED <<text, optimised, lines, feof, input, len, remain, n>>

Return ==
    /\ result = "" /\ feof
    /\ result' = "read"
    /\ UNCHANGED <<text, optimised, lines, feof, input, len, remain, n>>

Next == Read \/ OutOfBounds \/ Return

Spec == Init /\ [][Next]_vars

-----------------------------------------------------------------------------
(***************************************************************************)
(* "If `-`, read from stdin" (main.c 181): what is shuffled is what there   *)
(* is on stdin.                                                             *)
(***************************************************************************)
ReadsAll ==
    result = "read" =>
        LET whole == FlattenSeq(text)
        IN  /\ Strlen(input, 0) = Len(whole)
            /\ \A k \in 1 .. Len(whole) : input[k-1] = whole[k]

-----------------------------------------------------------------------------
\* Instances: up to three lines of up to two characters, the last one with or
\* without its newline.
SomeTexts == { <<>>, << <<"a">> >>, << <<"a", "\n">>, <<"b", "\n">> >>,
               << <<"a", "\n">>, <<"b", "\n">>, <<"c", "\n">> >> }
=============================================================================
