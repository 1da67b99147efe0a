----------------------------- MODULE Bitboards -----------------------------
(***************************************************************************)
(* The board, its squares and the precomputed attack tables of             *)
(* src/src/bitboard.h and bitboard.cpp.  A Bitboard is a set of squares; a *)
(* square is its number 8 * rank + file, a piece its type plus 8 for       *)
(* Black, as in types.h.  The tables are constant definitions, computed    *)
(* once as Bitboards::init does; what the magic multiplication looks up is *)
(* abstracted to the attacks it was built from.                            *)
(***************************************************************************)
EXTENDS Integers, FiniteSets, SequencesExt

WHITE == 0
BLACK == 1
Colors == {WHITE, BLACK}
Them(c) == 1 - c

PAWN == 1
KNIGHT == 2
BISHOP == 3
ROOK == 4
QUEEN == 5
KING == 6
NO_PIECE == 0

MakePiece(c, pt) == pt + 8 * c
TypeOf(pc) == pc % 8
ColorOf(pc) == pc \div 8
Pieces == {MakePiece(c, pt) : c \in Colors, pt \in PAWN .. KING}

PieceValue(pc) == <<0, 208, 781, 825, 1276, 2538, 0>>[TypeOf(pc) + 1]

Squares == 0 .. 63
SQ_NONE == 64
File(s) == s % 8
Rank(s) == s \div 8
RelativeRank(c, s) == IF c = WHITE THEN Rank(s) ELSE 7 - Rank(s)
RelativeSquare(c, s) == IF c = WHITE THEN s ELSE 8 * (7 - Rank(s)) + File(s)
PawnPush(c) == IF c = WHITE THEN 8 ELSE 0 - 8

Abs(n) == IF n < 0 THEN 0 - n ELSE n

\* safe_destination: a step that stays on the board.
Safe(s, step) == s + step \in Squares /\ Abs(File(s) - File(s + step)) <= 2

RookDirections == {8, 0 - 8, 1, 0 - 1}
BishopDirections == {9, 0 - 7, 0 - 9, 7}
Directions(pt) ==
    (IF pt = BISHOP THEN {} ELSE RookDirections) \cup (IF pt = ROOK THEN {} ELSE BishopDirections)

\* Step by step in each direction, up to the first piece or the edge.
SlidingAttack(pt, s, occupied) ==
    UNION {{s + n * d : n \in {n \in 1 .. 7 :
                \A i \in 0 .. (n - 1) : Safe(s + i * d, d) /\ (s + i * d \notin occupied \/ i = 0)}}
           : d \in Directions(pt)}

Leap(s, steps) == {s + d : d \in {d \in steps : Safe(s, d)}}

Leaps(pt) ==
    IF pt = KNIGHT THEN {0 - 17, 0 - 15, 0 - 10, 0 - 6, 6, 10, 15, 17}
    ELSE {0 - 9, 0 - 8, 0 - 7, 0 - 1, 1, 7, 8, 9}

PseudoAttacks ==
    [pt \in KNIGHT .. KING |-> [s \in Squares |->
        IF pt \in {KNIGHT, KING} THEN Leap(s, Leaps(pt)) ELSE SlidingAttack(pt, s, {})]]

PawnAttacks ==
    [c \in Colors |-> [s \in Squares |->
        Leap(s, IF c = WHITE THEN {7, 9} ELSE {0 - 9, 0 - 7})]]

\* The slider, bishop or rook, that goes from s1 to s2 on an empty board.
Aligned(s1, s2) == {pt \in {BISHOP, ROOK} : s2 \in PseudoAttacks[pt][s1]}

LineBB ==
    [s1 \in Squares |-> [s2 \in Squares |->
        UNION {(SlidingAttack(pt, s1, {}) \cap SlidingAttack(pt, s2, {})) \cup {s1, s2}
               : pt \in Aligned(s1, s2)}]]

\* From s1, excluded, to s2, included.
BetweenBB ==
    [s1 \in Squares |-> [s2 \in Squares |->
        {s2} \cup UNION {SlidingAttack(pt, s1, {s2}) \cap SlidingAttack(pt, s2, {s1})
                         : pt \in Aligned(s1, s2)}]]

\* From s1 on through s2: s2 and what lies behind it.
RayPassBB ==
    [s1 \in Squares |-> [s2 \in Squares |->
        UNION {PseudoAttacks[pt][s1] \cap (SlidingAttack(pt, s2, {s1}) \cup {s2})
               : pt \in Aligned(s1, s2)}]]

\* The look-up in a Magic: a slider of type pt sees a square of its rays when
\* nothing stands between.  Nothing does between a leaper and its squares.
Sees(pt, s, t, occupied) ==
    t \in PseudoAttacks[pt][s] /\ BetweenBB[s][t] \cap occupied \subseteq {t}

AttacksBB(pt, s, occupied) == {t \in PseudoAttacks[pt][s] : BetweenBB[s][t] \cap occupied \subseteq {t}}

\* A piece on s attacks t.
Hits(pc, s, t, occupied) ==
    IF TypeOf(pc) = PAWN THEN t \in PawnAttacks[ColorOf(pc)][s]
    ELSE Sees(TypeOf(pc), s, t, occupied)

\* Of a piece, pawns included.
PieceAttacks(pc, s, occupied) ==
    IF TypeOf(pc) = PAWN THEN PawnAttacks[ColorOf(pc)][s]
    ELSE AttacksBB(TypeOf(pc), s, occupied)
=============================================================================
