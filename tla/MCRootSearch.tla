---------------------------- MODULE MCRootSearch ----------------------------
(* Three root moves, the first alone in the better tablebase rank, and     *)
(* scores far enough apart for the aspiration window to miss them.         *)
EXTENDS RootSearch

RootMoveList == <<"m1", "m2", "m3">>
Ranks == [m1 |-> 1, m2 |-> 0, m3 |-> 0]
Scores == {-7, 4}
MatedAt == -6
=============================================================================
