------------------------------- MODULE Spill -------------------------------
(***************************************************************************)
(* The container unshuffle keeps its draws in (shuffle.hpp 42-62), in each  *)
(* build of the _FS_SPILL_BUFFER feature, used as unshuffle uses it         *)
(* (67-73): total-1 values are pushed, then each is read and popped.        *)
(*   "none"    std::vector                                                  *)
(*   "static"  fixed_spill_vector: an array, then a file_vector             *)
(*   "dyn"     shunt<file_vector>: a vector, then a file_vector made when   *)
(*             the vector is full                                           *)
(*   "map"     shunt<mapped_vector>: a vector, then a mapped file of the    *)
(*             size that will be needed                                     *)
(***************************************************************************)
EXTENDS FileVector

CONSTANTS
    NoAnswer,   \* back() has not been called
    Modes,      \* the builds considered
    SpillAt,    \* FSV_DEFAULT_SPILL_AT
    Totals      \* the span sizes considered

ASSUME SpillAtAssumption == SpillAt \in Nat \ {0}
ASSUME TotalsAssumption == Totals \subseteq Nat \ {0}
ASSUME ModesAssumption == Modes \subseteq {"none", "static", "dyn", "map"}

VARIABLES
    mode,       \* the build, fixed
    total,      \* span.size(), fixed
    pc,         \* where unshuffle is
    i,          \* its loop index
    mem,        \* the values in memory; mem_fill_ptr is Len(mem) - 1
    fil,        \* does the second container exist?
    map,        \* the mapped_vector's memory
    fill,       \* its fill_ptr + 1
    temp,       \* is there a temporary file in the file system?
    answer      \* what back() returned last

fixed == <<mode, total>>
overflow == <<fvars, fil, map, fill, temp>>
svars == <<mode, total, pc, i, mem, fil, map, fill, temp, answer, fvars>>

Running == {"start", "push", "back", "pop"}

SpillTypeOK ==
    /\ TypeOK
    /\ mode \in Modes
    /\ total \in Totals
    /\ pc \in Running \cup {"done", "killed"}
    /\ i \in Nat
    /\ mem \in Seq(Value)
    /\ fil \in BOOLEAN
    /\ map \in Seq(Value \cup {Hole})
    /\ fill \in 0 .. Len(map)
    /\ temp \in BOOLEAN
    /\ answer \in Value \cup {Hole, NoAnswer}

SpillInit ==
    /\ Init
    /\ mode \in Modes
    /\ total \in Totals
    /\ pc = "start"
    /\ i = 0
    /\ mem = <<>>
    /\ fil = FALSE
    /\ map = <<>>
    /\ fill = 0
    /\ temp = FALSE
    /\ answer = NoAnswer

-----------------------------------------------------------------------------
\* Mutant: one entry is saved on the mapping too many.
MapSizeShort == total - SpillAt - 2

\* The capacity from_temp is asked for.
MapSize == total - SpillAt

\* The size() of the second container, and of the whole.
FilSize == IF mode = "map" THEN fill ELSE len
Held == Len(mem) + FilSize

\* Mutant: > for >=, the array or vector takes one value too many.
FullLate ==
    CASE mode = "none" -> FALSE
      [] mode = "static" -> Len(mem) > SpillAt
      [] OTHER -> Held > SpillAt

\* mem_is_full() of fixed_spill_vector looks at the array, is_full() of shunt
\* at everything held.
Full ==
    CASE mode = "none" -> FALSE
      [] mode = "static" -> Len(mem) >= SpillAt
      [] OTHER -> Held >= SpillAt

\* back and pop_back go to the second container.
InFil == CASE mode = "none" -> FALSE
           [] mode = "static" -> FilSize > 0
           [] OTHER -> Full /\ FilSize > 0

\* spl(): a shunt that is full makes its second container if it has none.
Spl == IF Full /\ ~fil THEN fil' = TRUE /\ temp' = TRUE ELSE UNCHANGED <<fil, temp>>

\* A mapped_vector cannot be made that way: its default constructor panics.
SplPanics == Full /\ ~fil /\ mode = "map"

-----------------------------------------------------------------------------
\* The container's constructor.
Construct ==
    /\ pc = "start"
    /\ pc' = "push"
    /\ i' = total - 1
    /\ fil' = (mode = "static" \/ (mode = "map" /\ total > SpillAt))
    /\ temp' = fil'
    /\ map' = IF mode = "map" /\ total > SpillAt THEN [k \in 1 .. MapSize |-> Hole] ELSE map
    /\ UNCHANGED <<fixed, mem, fill, answer, fvars>>

PushMem(v) ==
    /\ ~Full
    /\ mem' = Append(mem, v)
    /\ UNCHANGED overflow

PushFile(v) ==
    /\ Full
    /\ mode # "map"
    /\ Spl
    /\ PushBack(v)
    /\ UNCHANGED <<mem, map, fill>>

PushMap(v) ==
    /\ Full
    /\ mode = "map" /\ fil
    /\ fill < Len(map)
    /\ map' = [map EXCEPT ![fill + 1] = v]
    /\ fill' = fill + 1
    /\ UNCHANGED <<mem, fil, temp, fvars>>

\* rng_values.push_back(rng.next_long(i))
Push ==
    /\ pc = "push"
    /\ i > 0
    /\ \E v \in Value : PushMem(v) \/ PushFile(v) \/ PushMap(v)
    /\ i' = i - 1
    /\ UNCHANGED <<fixed, pc, answer>>

Pushed ==
    /\ pc = "push"
    /\ i = 0
    /\ pc' = "back"
    /\ i' = 1
    /\ UNCHANGED <<fixed, mem, overflow, answer>>

BackMem ==
    /\ ~InFil
    /\ mem # <<>>
    /\ answer' = Last(mem)
    /\ ~SplPanics /\ Spl
    /\ UNCHANGED <<fvars, map, fill>>

BackFile ==
    /\ InFil
    /\ mode # "map"
    /\ BackIs(answer')
    /\ UNCHANGED <<fil, map, fill, temp>>

BackMap ==
    /\ InFil
    /\ mode = "map"
    /\ answer' = map[fill]
    /\ UNCHANGED overflow

\* rng_values.back()
Back ==
    /\ pc = "back"
    /\ i < total
    /\ BackMem \/ BackFile \/ BackMap
    /\ pc' = "pop"
    /\ UNCHANGED <<fixed, i, mem>>

\* Mutant: the memory is popped while the second container still has values.
PopMemFirst ==
    /\ mem # <<>>
    /\ mem' = Front(mem)
    /\ ~SplPanics /\ Spl
    /\ UNCHANGED <<fvars, map, fill>>

PopMem ==
    /\ ~InFil
    /\ mem # <<>>
    /\ mem' = Front(mem)
    /\ ~SplPanics /\ Spl
    /\ UNCHANGED <<fvars, map, fill>>

PopFile ==
    /\ InFil
    /\ mode # "map"
    /\ PopBack
    /\ UNCHANGED <<mem, fil, map, fill, temp>>

PopMap ==
    /\ InFil
    /\ mode = "map"
    /\ fill' = fill - 1
    /\ UNCHANGED <<mem, fvars, fil, map, temp>>

\* rng_values.pop_back()
Pop ==
    /\ pc = "pop"
    /\ PopMem \/ PopFile \/ PopMap
    /\ pc' = "back"
    /\ i' = i + 1
    /\ UNCHANGED <<fixed, answer>>

\* Mutant: the temporary file is closed and not unlinked.
ReturnKeepsFile ==
    /\ pc = "back"
    /\ i >= total
    /\ pc' = "done"
    /\ fil' = FALSE
    /\ UNCHANGED <<fixed, i, mem, map, fill, temp, answer, fvars>>

\* The destructors: the file is closed, then unlinked.
Return ==
    /\ pc = "back"
    /\ i >= total
    /\ pc' = "done"
    /\ fil' = FALSE
    /\ temp' = FALSE
    /\ UNCHANGED <<fixed, i, mem, map, fill, answer, fvars>>

\* The process is killed, or a failing call on the file makes it panic.
Die ==
    /\ pc \in Running
    /\ pc' = "killed"
    /\ UNCHANGED <<fixed, i, mem, overflow, answer>>

-----------------------------------------------------------------------------
Step == Construct \/ Push \/ Pushed \/ Back \/ Pop \/ Return

SpillNext == Step \/ Die

SpillSpec == SpillInit /\ [][SpillNext]_svars

\* One thread runs the loops: it goes on unless it dies.
FairSpillSpec == SpillSpec /\ WF_svars(Step)

-----------------------------------------------------------------------------
\* Everything held, the last value last.
Items == mem \o (IF mode = "map" THEN SubSeq(map, 1, fill) ELSE Flushed)

Stk == INSTANCE Stack WITH items <- Items, Value <- Value

(***************************************************************************)
(* Every build's container is a stack when it is used as unshuffle uses it, *)
(* across the boundary at SpillAt and across stdio's buffering.             *)
(***************************************************************************)
ImplementsStack == Stk!Spec

(* The calls that panic in the containers themselves: the empty mapping, the *)
(* shunt with no second container to default-construct, the full mapping,    *)
(* back() on nothing.                                                        *)
Panics ==
    \/ pc = "start" /\ mode = "map" /\ total > SpillAt /\ MapSize <= 0
    \/ pc \in Running \ {"start"} /\ SplPanics
    \/ pc = "push" /\ i > 0 /\ mode = "map" /\ Full /\ fill >= Len(map)
    \/ pc = "back" /\ i < total /\ (Held = 0 \/ (InFil /\ mode # "map" /\ ~Readable))
    \/ pc = "pop" /\ Held = 0

(***************************************************************************)
(* unshuffle never meets a panic of the container: the mapping has room for *)
(* every draw and is never made by default, back() always finds its value,  *)
(* pop_back() something to pop.                                             *)
(***************************************************************************)
NeverPanics == ~Panics

(***************************************************************************)
(* A spilling build holds at most SpillAt values in memory, which for       *)
(* fixed_spill_vector is the end of its array; the file has the rest, and   *)
(* only once the memory is full.                                            *)
(***************************************************************************)
MemoryBounded ==
    mode # "none" => /\ Len(mem) <= SpillAt
                     /\ FilSize > 0 => Len(mem) = SpillAt

(***************************************************************************)
(* unshuffle returns with nothing held and no temporary file, unless the    *)
(* process dies.                                                            *)
(***************************************************************************)
Returns == <>(pc = "killed" \/ (pc = "done" /\ Held = 0 /\ ~temp))

-----------------------------------------------------------------------------
(* The inductive invariant.                                                 *)

\* How many values each program point leaves in the container.
Phase ==
    /\ pc = "start" => Held = 0 /\ file = <<>> /\ pending = <<>> /\ pos = 0 /\ ~fil
    /\ pc = "push" => i <= total - 1 /\ Held = total - 1 - i
    /\ pc = "back" => i \in 1 .. total /\ Held = total - i
    /\ pc = "pop" => i \in 1 .. total - 1 /\ Held = total - i
    /\ pc = "done" => Held = 0

\* The second container is used only by its builds, after the memory is full.
Layers ==
    /\ mode \in {"none", "map"} => len = 0
    /\ mode # "map" => fill = 0
    /\ mode # "none" => Len(mem) <= SpillAt
    /\ FilSize > 0 => fil /\ Len(mem) = SpillAt
    /\ pc \in Running => temp = fil
    /\ pc \in Running \ {"start"} =>
          /\ mode = "static" => fil
          /\ mode = "map" => /\ fil <=> total > SpillAt
                             /\ fil => Len(map) = total - SpillAt

\* The stream appends while values are pushed; what it has not written is
\* flushed by the first back(), before pop_back() truncates.  No hole comes
\* about.
Stream ==
    /\ Len(file) + Len(pending) = len
    /\ pending # <<>> => pos = Len(file)
    /\ pc = "push" => pos = Len(file)
    /\ pc = "pop" => pending = <<>>
    /\ file \in Seq(Value)

SpillIInv == SpillTypeOK /\ Phase /\ Layers /\ Stream

=============================================================================
