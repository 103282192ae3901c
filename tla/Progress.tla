------------------------------- MODULE Progress -------------------------------
(***************************************************************************)
(* pr::Progress (src/perc.cpp, include/perc.h): handles on a shared_ptr to  *)
(* what a bar shows.  A copy has a state of its own, but a copy assignment  *)
(* shares one; a moved-from bar has none, and only construction, assignment *)
(* and destruction are defined for it.  All bars here write to one output.  *)
(***************************************************************************)
EXTENDS Integers, FiniteSets

CONSTANTS
    Bar,        \* where a bar can live, the member_ of a Carrier included
    Columns,    \* the widths a terminal may have
    Unit        \* bound: fractions are multiples of 1/Unit, up to 1 + 1/Unit

ASSUME ProgressAssumption ==
    Bar # {} /\ IsFiniteSet(Bar) /\ Columns \subseteq Nat /\ Unit \in Nat \ {0}

VARIABLES
    bars,           \* bars[b]: the _impl of the bar that lives in b
    impl,           \* what each _impl holds
    unended,        \* a bar has been drawn on the current line
    overwritten     \* history: a moved-from bar was assigned over another

barVars == <<bars, impl, unended, overwritten>>

NoBar == -1
Null == 0
Impl == 1 .. Cardinality(Bar)
Fractions == 0 .. Unit + 1
Void == [fract |-> 0, width |-> 0]

BarTypeOK ==
    /\ bars \in [Bar -> {NoBar, Null} \cup Impl]
    /\ impl \in [Impl -> [fract : Fractions, width : Nat]]
    /\ unended \in BOOLEAN /\ overwritten \in BOOLEAN

BarInit ==
    /\ bars = [b \in Bar |-> NoBar]
    /\ impl = [i \in Impl |-> Void]
    /\ unended = FALSE
    /\ overwritten = FALSE

-----------------------------------------------------------------------------
DefaultWidth == 1   \* DEFAULT_WIDTH is a bool

\* Without a terminal the default width is that of the terminal.
TerminalWidths == Columns \cup {DefaultWidth}

\* round(1/3 * tw)
DefBarWidth(tw) == (2 * tw + 3) \div 6

\* Mutant: every cell up to and with cf, whatever the width.
HashesPastEnd(p) == (p.width * p.fract) \div Unit + 1

\* The '#'s render() draws.
Hashes(p) ==
    LET cf == (p.width * p.fract) \div Unit
    IN  Cardinality({ i \in 0 .. p.width - 1 : i <= cf })

Fresh(i) == \A b \in Bar : bars[b] # i
Shows(b) == bars[b] \in Impl

\* Progress(FILE*)
MakeBar(b) ==
    /\ bars[b] = NoBar
    /\ \E tw \in TerminalWidths, i \in Impl :
          /\ Fresh(i) /\ \A j \in 1 .. i - 1 : ~Fresh(j)
          /\ bars' = [bars EXCEPT ![b] = i]
          /\ impl' = [impl EXCEPT ![i] = [fract |-> 0, width |-> DefBarWidth(tw)]]
    /\ UNCHANGED <<unended, overwritten>>

\* Progress(Progress const&)
CopyBar(b, c) ==
    /\ bars[b] # NoBar /\ bars[c] = NoBar
    /\ \/ ~Shows(b) /\ bars' = [bars EXCEPT ![c] = Null] /\ UNCHANGED impl
       \/ /\ Shows(b)
          /\ \E i \in Impl :
                /\ Fresh(i) /\ \A j \in 1 .. i - 1 : ~Fresh(j)
                /\ bars' = [bars EXCEPT ![c] = i]
                /\ impl' = [impl EXCEPT ![i] = impl[bars[b]]]
    /\ UNCHANGED <<unended, overwritten>>

\* Progress(Progress&&)
MoveBar(b, c) ==
    /\ bars[b] # NoBar /\ bars[c] = NoBar
    /\ bars' = [bars EXCEPT ![c] = bars[b], ![b] = Null]
    /\ UNCHANGED <<impl, unended, overwritten>>

\* make_dyn(bar&&) moves it into a Carrier, make_dyn(bar const&) a copy of it.
MakeDyn(b, c) == MoveBar(b, c)
MakeDynCopy(b, c) == CopyBar(b, c)

\* The last owner of a state frees it.
Unowned == impl' = [i \in Impl |-> IF \E b \in Bar : bars'[b] = i THEN impl[i] ELSE Void]

\* The shared_ptr of c is assigned that of b.
Rebound(b, c) ==
    /\ overwritten' = (overwritten \/ (Shows(c) /\ ~Shows(b)))
    /\ Unowned
    /\ UNCHANGED unended

\* operator=(Progress const&): the two share from now on.
AssignCopy(b, c) ==
    /\ b # c /\ bars[b] # NoBar /\ bars[c] # NoBar
    /\ bars' = [bars EXCEPT ![c] = bars[b]]
    /\ Rebound(b, c)

\* operator=(Progress&&)
AssignMove(b, c) ==
    /\ b # c /\ bars[b] # NoBar /\ bars[c] # NoBar
    /\ bars' = [bars EXCEPT ![c] = bars[b], ![b] = Null]
    /\ Rebound(b, c)

\* spin(by, render): limited above only.
SpinBar(b) ==
    /\ Shows(b)
    /\ \E by \in Fractions, r \in BOOLEAN :
          /\ impl' = [impl EXCEPT ![bars[b]].fract = IF by > Unit THEN Unit ELSE by]
          /\ unended' = (unended \/ r)
    /\ UNCHANGED <<bars, overwritten>>

\* fraction() = f, percentage() = 100 * f, width() = w: not limited at all.
SetBar(b) ==
    /\ Shows(b)
    /\ \E f \in Fractions, tw \in TerminalWidths :
          impl' = [impl EXCEPT ![bars[b]] = [fract |-> f, width |-> DefBarWidth(tw)]]
    /\ UNCHANGED <<bars, unended, overwritten>>

RenderBar(b) ==
    /\ Shows(b)
    /\ unended' = TRUE
    /\ UNCHANGED <<bars, impl, overwritten>>

\* Mutant: if(!inner_).
DestroyBarOfNull(b) ==
    /\ bars[b] # NoBar
    /\ unended' = (unended /\ Shows(b))
    /\ bars' = [bars EXCEPT ![b] = NoBar]
    /\ Unowned
    /\ UNCHANGED overwritten

\* ~Progress
DestroyBar(b) ==
    /\ bars[b] # NoBar
    /\ unended' = (unended /\ ~Shows(b))
    /\ bars' = [bars EXCEPT ![b] = NoBar]
    /\ Unowned
    /\ UNCHANGED overwritten

BarNext ==
    \/ \E b \in Bar : MakeBar(b) \/ SpinBar(b) \/ SetBar(b) \/ RenderBar(b) \/ DestroyBar(b)
    \/ \E b, c \in Bar : CopyBar(b, c) \/ MoveBar(b, c) \/ MakeDyn(b, c) \/ MakeDynCopy(b, c)
                       \/ AssignCopy(b, c) \/ AssignMove(b, c)

BarSpec == BarInit /\ [][BarNext]_barVars

-----------------------------------------------------------------------------
(***************************************************************************)
(* A bar that was drawn is followed by a newline when the last bar is gone, *)
(* through copies, moves, shared states and Carriers, unless a moved-from   *)
(* bar was assigned over one that had a state: its destructor then prints   *)
(* nothing (perc.cpp 102-117).                                              *)
(***************************************************************************)
LineEnded == unended /\ ~overwritten => \E b \in Bar : Shows(b)

(***************************************************************************)
(* What render() draws is never wider than the bar, and for a fraction up   *)
(* to 1 is the fraction of the width or up to one cell more (perc.cpp       *)
(* 52-82).                                                                  *)
(***************************************************************************)
BarWithinOneCell == \A b \in Bar : Shows(b) =>
    LET p == impl[bars[b]]
    IN  /\ Hashes(p) <= p.width
        /\ p.fract <= Unit => /\ p.width * p.fract <= Unit * Hashes(p)
                              /\ Unit * Hashes(p) <= p.width * p.fract + Unit

=============================================================================
