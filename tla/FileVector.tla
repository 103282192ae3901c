----------------------------- MODULE FileVector -----------------------------
(***************************************************************************)
(* file_vector<T> (include/fsvec.hpp 72-110) over fvec_t (src/fsvec.c): a   *)
(* stack kept in a temporary file through one stdio stream opened "w+b".    *)
(* push_back writes through the stream's buffer at its position; back       *)
(* flushes, seeks from the end of the file and reads; pop_back truncates    *)
(* the file behind the stream's back.                                       *)
(*                                                                         *)
(* The unit is one value of sizeof(T) bytes: every size passed down to the  *)
(* stream is sizeof(T).                                                     *)
(***************************************************************************)
EXTENDS Integers, Sequences, SequencesExt

CONSTANTS
    Value,      \* the values pushed
    Hole        \* what reading a hole of the file gives: zero bytes

VARIABLES
    file,       \* the values in the file, for everyone who opens it
    pending,    \* what the stream has buffered and not yet written
    pos,        \* where in the file the buffered values will go
    len         \* file_vector::len; fvec_t::len is the same in bytes

fvars == <<file, pending, pos, len>>

TypeOK ==
    /\ file \in Seq(Value \cup {Hole})
    /\ pending \in Seq(Value)
    /\ pos \in Nat
    /\ len \in Nat

\* fopen(path, "w+b"): the file is created or emptied.
Init ==
    /\ file = <<>>
    /\ pending = <<>>
    /\ pos = 0
    /\ len = 0

-----------------------------------------------------------------------------
\* The file f after write()ing s at offset p: what lies between its end and p
\* is a hole.
Written(f, p, s) ==
    IF s = <<>> THEN f
    ELSE [k \in 1 .. (IF Len(f) > p + Len(s) THEN Len(f) ELSE p + Len(s)) |->
            IF k \in p+1 .. p + Len(s) THEN s[k-p]
            ELSE IF k <= Len(f) THEN f[k] ELSE Hole]

\* ftruncate(f, n) shortens a file, and lengthens it with a hole.
Truncated(f, n) == [k \in 1 .. n |-> IF k <= Len(f) THEN f[k] ELSE Hole]

\* The file once everything buffered is written.
Flushed == Written(file, pos, pending)

\* fwrite: the value joins the buffer; stdio writes out what it likes of it.
PushBack(v) ==
    /\ \E n \in 0 .. Len(pending) + 1 :
          /\ file' = Written(file, pos, SubSeq(Append(pending, v), 1, n))
          /\ pos' = pos + n
          /\ pending' = SubSeq(Append(pending, v), n + 1, Len(pending) + 1)
    /\ len' = len + 1

\* The calls back() answers: on an empty vector it panics, and so it does if
\* the file is shorter than what fseek(-sz, SEEK_END) asks for.
Readable == len > 0 /\ Flushed # <<>>

\* back(): fseek flushes the buffer, fread takes the last value of the file and
\* leaves the stream at its end.
BackIs(v) ==
    /\ Readable
    /\ v = Last(Flushed)
    /\ file' = Flushed
    /\ pending' = <<>>
    /\ pos' = Len(Flushed)
    /\ UNCHANGED len

\* Mutant: the length is reduced twice.
PopBackTwice ==
    IF len = 0 THEN UNCHANGED fvars
    ELSE /\ file' = Truncated(file, len - 2)
         /\ len' = len - 1
         /\ UNCHANGED <<pending, pos>>

\* pop_back(): nothing on an empty vector, else ftruncate to one value less; the
\* stream is neither flushed nor moved.
PopBack ==
    IF len = 0 THEN UNCHANGED fvars
    ELSE /\ file' = Truncated(file, len - 1)
         /\ len' = len - 1
         /\ UNCHANGED <<pending, pos>>

=============================================================================
