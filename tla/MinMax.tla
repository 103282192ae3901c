------------------------------- MODULE MinMax -------------------------------
(***************************************************************************)
(* minmax_t of work.cpp: the scan that turns the objects of the mapped      *)
(* file into the two seeds of a stage's generator.  Only objects the filter *)
(* keeps take part (the float stage drops NaN and the infinities); lowest   *)
(* and highest have no initialiser unless the build defines DEBUG, so until *)
(* the first kept object they hold whatever was there.                      *)
(***************************************************************************)
EXTENDS Spans

CONSTANTS
    Item,       \* the values an object can have
    Keep,       \* the objects the filter keeps
    Key,        \* Key[x]: where x stands in the order of its type
    Zero,       \* T{}: the initial value in a DEBUG build
    Builds,     \* the builds considered: TRUE is a DEBUG build
    Sizes       \* the span sizes considered

ASSUME ItemAssumption == Keep \subseteq Item /\ Zero \in Item
ASSUME KeyAssumption == Key \in [Item -> Int]
ASSUME BuildsAssumption == Builds \subseteq BOOLEAN
ASSUME SizesAssumption == Sizes \subseteq Nat

VARIABLES
    debug,      \* is DEBUG defined? fixed for a program
    size,       \* array.size(), fixed for a call
    array,      \* the span scanned, read only
    i,          \* the loop index
    init,       \* has a kept object been seen?
    lowest, highest

vars == <<debug, size, array, i, init, lowest, highest>>

TypeOK ==
    /\ debug \in Builds
    /\ size \in Sizes
    /\ array \in SpanOf(size, Item)
    /\ i \in 0 .. size
    /\ init \in BOOLEAN
    /\ lowest \in Item
    /\ highest \in Item

\* The declarations: uninitialised memory is any bit pattern of type T.
Uninitialised == IF debug THEN {Zero} ELSE Item

Init ==
    /\ debug \in Builds
    /\ size \in Sizes
    /\ array \in SpanOf(size, Item)
    /\ i = 0
    /\ init = FALSE
    /\ lowest \in Uninitialised
    /\ highest \in Uninitialised

\* if(!keep(array[i])) continue;
Skip ==
    /\ i < size
    /\ array[i] \notin Keep
    /\ i' = i + 1
    /\ UNCHANGED <<debug, size, array, init, lowest, highest>>

\* Mutant: the first object only lowers the minimum.
FirstLowestOnly ==
    /\ i < size
    /\ array[i] \in Keep
    /\ ~init
    /\ init' = TRUE
    /\ lowest' = array[i]
    /\ i' = i + 1
    /\ UNCHANGED <<debug, size, array, highest>>

\* The first kept object is both extremes.
First ==
    /\ i < size
    /\ array[i] \in Keep
    /\ ~init
    /\ init' = TRUE
    /\ lowest' = array[i]
    /\ highest' = array[i]
    /\ i' = i + 1
    /\ UNCHANGED <<debug, size, array>>

\* Mutant: the second test is dropped, so any object that is not a new lowest
\* becomes the highest.
LaterNoTest ==
    /\ i < size
    /\ array[i] \in Keep
    /\ init
    /\ IF Key[array[i]] < Key[lowest]
       THEN lowest' = array[i] /\ UNCHANGED highest
       ELSE highest' = array[i] /\ UNCHANGED lowest
    /\ i' = i + 1
    /\ UNCHANGED <<debug, size, array, init>>

\* The two tests of a later object: highest is only looked at when the
\* object is not a new lowest.
Later ==
    /\ i < size
    /\ array[i] \in Keep
    /\ init
    /\ \/ /\ Key[array[i]] < Key[lowest]
          /\ lowest' = array[i]
          /\ UNCHANGED highest
       \/ /\ Key[array[i]] >= Key[lowest]
          /\ Key[array[i]] > Key[highest]
          /\ highest' = array[i]
          /\ UNCHANGED lowest
       \/ /\ Key[array[i]] >= Key[lowest]
          /\ Key[array[i]] <= Key[highest]
          /\ UNCHANGED <<lowest, highest>>
    /\ i' = i + 1
    /\ UNCHANGED <<debug, size, array, init>>

Next == Skip \/ First \/ Later

Spec == Init /\ [][Next]_vars

Returned == i = size

-----------------------------------------------------------------------------
\* What holds of the part of the array already scanned.  It is what makes
\* the result right, and it is inductive together with TypeOK.
Scanned == { k \in 0 .. i-1 : array[k] \in Keep }

PrefixExtremes ==
    /\ init <=> Scanned # {}
    /\ init => /\ \E k \in Scanned : array[k] = lowest
               /\ \E k \in Scanned : array[k] = highest
               /\ \A k \in Scanned : /\ Key[lowest] <= Key[array[k]]
                                     /\ Key[array[k]] <= Key[highest]
    /\ ~init => lowest \in Uninitialised /\ highest \in Uninitialised

IInv == TypeOK /\ PrefixExtremes

(***************************************************************************)
(* The seeds are a function of the set of kept objects alone: when          *)
(* minmax_t returns, the two results are that set's least and greatest      *)
(* keys, whatever order the objects are in and whatever the locals held     *)
(* before the loop; with nothing kept they are zeros in a DEBUG build and   *)
(* undetermined in a release build.  This is what lets xshuffle_ip<true>    *)
(* recompute, from the shuffled file, the seeds xshuffle_ip<false> used     *)
(* (work.cpp 63-92).                                                        *)
(***************************************************************************)
SeedsFromObjects ==
    Returned =>
        <<Key[lowest], Key[highest]>>
            \in SeedsOf(KeptKeys(array, Keep, Key), debug, Key[Zero], Range(Key))

=============================================================================
