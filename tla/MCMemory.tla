------------------------------ MODULE MCMemory ------------------------------
(***************************************************************************)
(* Values for checking Memory, and Umalloc beside it, with TLC.            *)
(***************************************************************************)
EXTENDS Memory, Umalloc

\* An empty program, one that ends inside its second page, one that leaves no
\* room for a stack
MCImages == {0, 3, 8}

\* Up by less than a page and by more than one, down by less than a page, by
\* more than one, and below zero
MCSbrks == {1, 3, -1, -3, -9}

\* One, two and three arguments that just fit, or are a byte too long; into the
\* guard page, into the program, round to the devices, and short of them
MCArgLens == {0, 2, 3, 4, 7, 8, 11, 12, 27, 28, 60, 120, 150, 240}

\* The layout of the arguments and the heap of malloc() are operators, not parts of
\* this state: their properties are evaluated once, in the initial state.

\* ArgsInStack: exec() accepts the arguments that fit, and lays them out in the stack
\* page.
ArgsFitStack == Init => ArgsInStack

\* BlocksApart: through every sequence of malloc() and free() tried, no two callers
\* share memory, and none of it is lost.
HeapSound == Init => BlocksApart
=============================================================================
