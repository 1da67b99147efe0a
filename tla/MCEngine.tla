------------------------------ MODULE MCEngine ------------------------------
(* Engine with few threads and iterations, and named kinds of `go`.        *)
EXTENDS Engine

CONSTANTS P, Mated

Plain == [infinite |-> FALSE, ponder |-> FALSE, timed |-> FALSE,
          budget |-> FALSE, mate |-> FALSE, depth |-> 0]

Timed == [Plain EXCEPT !.timed = TRUE]
PonderTimed == [Timed EXCEPT !.ponder = TRUE]
Infinite == [Plain EXCEPT !.infinite = TRUE]
FixedDepth == [Plain EXCEPT !.depth = 1]
MoveTime == [Plain EXCEPT !.budget = TRUE]
FindMate == [Plain EXCEPT !.mate = TRUE]

AllLimits == {Timed, PonderTimed, Infinite, FixedDepth, MoveTime, FindMate}
=============================================================================
