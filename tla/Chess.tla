------------------------------- MODULE Chess -------------------------------
(***************************************************************************)
(* The rules of chess, and of Chess960 castling, written as rules: what a  *)
(* Position is held to.  A position is described by where the pieces       *)
(* stand, whose turn it is, the square a pawn has just passed, and the     *)
(* squares that moves have left or reached since the game was set up.      *)
(* Nothing here is taken from the way position.cpp computes it; the board  *)
(* and the geometry of the pieces are those of Bitboards.                  *)
(***************************************************************************)
EXTENDS Bitboards

\* A move: castling is the king taking its own rook, as in the code.
Mv(kind, from, to, promo) == [kind |-> kind, from |-> from, to |-> to, promo |-> promo]

On(b, s) == IF s \in DOMAIN b THEN b[s] ELSE NO_PIECE
Every == PAWN .. KING
Of(b, c, types) == {s \in DOMAIN b : ColorOf(b[s]) = c /\ TypeOf(b[s]) \in types}
KingSquare(b, c) == CHOOSE s \in DOMAIN b : b[s] = MakePiece(c, KING)
With(b, s, pc) == [t \in DOMAIN b \cup {s} |-> IF t = s THEN pc ELSE b[t]]
Without(b, S) == [t \in DOMAIN b \ S |-> b[t]]
Attacked(b, s, c) == \E a \in DOMAIN b : ColorOf(b[a]) = c /\ Hits(b[a], a, s, DOMAIN b)
InCheck(b, c) == Attacked(b, KingSquare(b, c), Them(c))

CastledKing(c, m) == RelativeSquare(c, IF m.to > m.from THEN 6 ELSE 2)
CastledRook(c, m) == RelativeSquare(c, IF m.to > m.from THEN 5 ELSE 3)

\* The board after a move of c.
BoardAfter(b, c, m) ==
    CASE m.kind = "CASTLING" ->
            With(With(Without(b, {m.from, m.to}), CastledKing(c, m), MakePiece(c, KING)),
                 CastledRook(c, m), MakePiece(c, ROOK))
      [] m.kind = "EN_PASSANT" ->
            With(Without(b, {m.from, m.to - PawnPush(c)}), m.to, MakePiece(c, PAWN))
      [] m.kind = "PROMOTION" -> With(Without(b, {m.from}), m.to, MakePiece(c, m.promo))
      [] m.kind = "NORMAL" -> With(Without(b, {m.from}), m.to, b[m.from])

\* A pawn move to the last rank promotes.
PawnMoves(c, from, to) ==
    IF RelativeRank(c, to) = 7
    THEN {Mv("PROMOTION", from, to, pt) : pt \in KNIGHT .. QUEEN}
    ELSE {Mv("NORMAL", from, to, 0)}

PawnSteps(b, c, from) ==
    LET one == from + PawnPush(c)
        two == one + PawnPush(c)
    IN  UNION {PawnMoves(c, from, to) : to \in
            {t \in {one} : t \notin DOMAIN b}
              \cup {t \in {two} : RelativeRank(c, from) = 1 /\ {one, two} \cap DOMAIN b = {}}
              \cup (PawnAttacks[c][from] \cap Of(b, Them(c), Every))}

Steps(b, c, from) ==
    IF TypeOf(b[from]) = PAWN THEN PawnSteps(b, c, from)
    ELSE {Mv("NORMAL", from, to, 0) :
            to \in PieceAttacks(b[from], from, DOMAIN b) \ Of(b, c, Every)}

PassingCaptures(b, c, passed) ==
    IF passed = SQ_NONE THEN {}
    ELSE {Mv("EN_PASSANT", from, passed, 0) :
            from \in {f \in Of(b, c, {PAWN}) : passed \in PawnAttacks[c][f]}}

\* The way of a piece along its rank.
Way(s, t) == {u \in Squares : Rank(u) = Rank(s) /\ u >= s /\ u <= t}
                \cup {u \in Squares : Rank(u) = Rank(s) /\ u >= t /\ u <= s}
\* Castling with a rook that may still castle: nothing but king and rook on
\* their ways, and the king neither in check nor through an attacked square.
Castlings(b, c, rooks) ==
    {m \in {Mv("CASTLING", KingSquare(b, c), r, 0) : r \in rooks} :
        /\ (Way(m.from, CastledKing(c, m)) \cup Way(m.to, CastledRook(c, m)))
             \cap DOMAIN b \subseteq {m.from, m.to}
        /\ \A s \in Way(m.from, CastledKing(c, m)) : ~Attacked(b, s, Them(c))}

LegalOf(b, c, moves) == {m \in moves : ~InCheck(BoardAfter(b, c, m), c)}

\* The legal moves of c, whose rooks on the squares rooks may castle.
LegalMoves(b, c, passed, rooks) ==
    LegalOf(b, c, UNION {Steps(b, c, f) : f \in Of(b, c, Every)}
                    \cup PassingCaptures(b, c, passed) \cup Castlings(b, c, rooks))

\* The square a double step has passed.
Passed(b, m) ==
    IF TypeOf(b[m.from]) = PAWN /\ Abs(m.to - m.from) = 16 THEN (m.from + m.to) \div 2
    ELSE SQ_NONE
=============================================================================
