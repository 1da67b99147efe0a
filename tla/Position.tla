----------------------------- MODULE Position ------------------------------
(***************************************************************************)
(* A Position of src/src/position.cpp and the moves src/src/movegen.cpp    *)
(* generates for it: setting up, doing and undoing moves and null moves,   *)
(* with the StateInfo each of them pushes and all that is kept up to date  *)
(* in it move by move instead of being recomputed.  The rules of chess the *)
(* properties hold it to are those of Chess.                               *)
(*                                                                         *)
(* A key is the set of the Zobrist numbers exclusive-ored into it, so that *)
(* two positions share a key only if the code gives them the same numbers. *)
(***************************************************************************)
EXTENDS Chess

CONSTANT Fens    \* what Position::set is given, its fields told apart

VARIABLES
    fen,         \* the one the game was set up from
    board,       \* board: from the occupied squares to the pieces
    sideToMove,
    gamePly,
    castle,      \* castlingRightsMask, castlingRookSquare, castlingPath
    st,          \* the chain of StateInfo, each after its previous
    dirty,       \* what the last do_move tells the accumulators
    game         \* history: the game by the rules of chess

posVars == <<fen, board, sideToMove, gamePly, castle, st, dirty, game>>

Top == st[Len(st)]
Us == sideToMove
Count(b, pc) == Cardinality({s \in DOMAIN b : b[s] = pc})
Least(S) == CHOOSE n \in S : \A k \in S : n <= k
Smaller(i, j) == IF i < j THEN i ELSE j

\* attackers_to: the pieces that attack s when the board is occupied so.
AttackersTo(b, s, occupied) == {a \in DOMAIN b : Hits(b[a], a, s, occupied)}
AttackersToExist(b, s, occupied, c) ==
    \E a \in DOMAIN b : ColorOf(b[a]) = c /\ Hits(b[a], a, s, occupied)

(***************************************************************************)
(* Keys.                                                                   *)
(***************************************************************************)
Xor(k, l) == (k \ l) \cup (l \ k)
XorAll(keys) == FoldLeft(Xor, {}, keys)
\* A pawn where it promotes has no number.
Psq(pc, s) == IF TypeOf(pc) = PAWN /\ RelativeRank(ColorOf(pc), s) = 7 THEN {} ELSE {64 * pc + s}
EnPassantKey(s) == IF s = SQ_NONE THEN {} ELSE {1024 + File(s)}
SideKey == {1040}
NoPawns == {1041}
CastlingKey(rights) == {1050 + MapThenSumSet(LAMBDA cr : cr, rights)}

KeyOf(b, S) == UNION {Psq(b[s], s) : s \in S}
ComputeMaterialKey(b) ==
    UNION {UNION {Psq(pc, 8 + n) : n \in 0 .. (Count(b, pc) - 1)} : pc \in Pieces}
NonPawnMaterial(b, c) ==
    MapThenSumSet(LAMBDA s : PieceValue(b[s]), Of(b, c, KNIGHT .. QUEEN))

(***************************************************************************)
(* What set_check_info computes from the board alone.                      *)
(***************************************************************************)
Snipers(b, c) ==
    {s \in Of(b, Them(c), {BISHOP, ROOK, QUEEN}) : KingSquare(b, c) \in PseudoAttacks[TypeOf(b[s])][s]}
Shield(b, c, sniper) == (BetweenBB[KingSquare(b, c)][sniper] \cap DOMAIN b) \ Snipers(b, c)
Shielded(b, c) == {s \in Snipers(b, c) : Cardinality(Shield(b, c, s)) = 1}
BlockersForKing(b, c) == UNION {Shield(b, c, s) : s \in Shielded(b, c)}
\* The sliders of the other side that pin a piece of c to its king.
PinnersOf(b, c) == {s \in Shielded(b, c) : Shield(b, c, s) \subseteq Of(b, c, Every)}
CheckSquares(b, c, pt) ==
    LET ksq == KingSquare(b, Them(c))
    IN  CASE pt = PAWN -> PawnAttacks[Them(c)][ksq]
          [] pt = KING -> {}
          [] OTHER -> AttacksBB(pt, ksq, DOMAIN b)

CheckInfo(b, c) ==
    [blockers |-> [d \in Colors |-> BlockersForKing(b, d)],
     pinners |-> [d \in Colors |-> PinnersOf(b, Them(d))],
     checkSquares |-> [pt \in Every |-> CheckSquares(b, c, pt)]]

\* set_state: a StateInfo computed from scratch.
FreshState(b, c, rights, ep, rule50) ==
    [materialKey |-> ComputeMaterialKey(b),
     pawnKey |-> NoPawns \cup KeyOf(b, Of(b, WHITE, {PAWN}) \cup Of(b, BLACK, {PAWN})),
     minorPieceKey |-> KeyOf(b, Of(b, WHITE, {KNIGHT, BISHOP}) \cup Of(b, BLACK, {KNIGHT, BISHOP})),
     nonPawnKey |-> [d \in Colors |-> KeyOf(b, Of(b, d, KNIGHT .. KING))],
     nonPawnMaterial |-> [d \in Colors |-> NonPawnMaterial(b, d)],
     castlingRights |-> rights, rule50 |-> rule50, pliesFromNull |-> 0, epSquare |-> ep,
     key |-> KeyOf(b, DOMAIN b) \cup EnPassantKey(ep) \cup CastlingKey(rights)
                 \cup (IF c = BLACK THEN SideKey ELSE {}),
     checkersBB |-> AttackersTo(b, KingSquare(b, c), DOMAIN b) \cap Of(b, Them(c), Every),
     capturedPiece |-> NO_PIECE, repetition |-> 0, info |-> CheckInfo(b, c)]

(***************************************************************************)
(* Position::set, of fields whose text is well formed: what they say       *)
(* together is still to be checked.                                        *)
(***************************************************************************)
KingSide(c) == IF c = WHITE THEN 1 ELSE 4
QueenSide(c) == IF c = WHITE THEN 2 ELSE 8
RightsOf(c) == {KingSide(c), QueenSide(c)}
Rights == RightsOf(WHITE) \cup RightsOf(BLACK)
RightColor(cr) == IF cr \in RightsOf(WHITE) THEN WHITE ELSE BLACK

\* More pieces of a kind than a set has come from promoted pawns.
Additional(b, c, pt, n) ==
    LET m == Count(b, MakePiece(c, pt)) - n IN IF m > 0 THEN m ELSE 0
CountsSupported(b, c) ==
    /\ Count(b, MakePiece(c, KING)) = 1
    /\ Count(b, MakePiece(c, PAWN)) <= 8
    /\ Additional(b, c, KNIGHT, 2) + Additional(b, c, BISHOP, 2) + Additional(b, c, ROOK, 2)
         + Additional(b, c, QUEEN, 1) <= 8 - Count(b, MakePiece(c, PAWN))

\* The rook a castling letter names, if it can be valid: K and Q look from
\* the corner for the first rook, then the king; a file is the rook's own.
ClaimedRook(b, claim) ==
    LET c == claim.color
        king == MakePiece(c, KING)
        rook == MakePiece(c, ROOK)
        At(i) == RelativeSquare(c, IF claim.letter = "K" THEN 7 - i ELSE i)
        first == {At(i) : i \in {i \in 0 .. 6 :
                     /\ On(b, At(i)) = rook
                     /\ \A k \in 0 .. (i - 1) : On(b, At(k)) \notin {rook, king}
                     /\ \E k \in (i + 1) .. 6 : On(b, At(k)) = king}}
        named == {s \in {RelativeSquare(c, claim.file)} :
                     /\ On(b, s) = rook
                     /\ \E f \in 1 .. 6 : On(b, RelativeSquare(c, f)) = king}
    IN  IF claim.letter \in {"K", "Q"} THEN first ELSE named

\* set_castling_right.
SetCastlingRight(k, b, c, rfrom) ==
    LET kfrom == KingSquare(b, c)
        kingSide == kfrom < rfrom
        cr == IF kingSide THEN KingSide(c) ELSE QueenSide(c)
        kto == RelativeSquare(c, IF kingSide THEN 6 ELSE 2)
        rto == RelativeSquare(c, IF kingSide THEN 5 ELSE 3)
    IN  [rights |-> k.rights \cup {cr},
         mask |-> [k.mask EXCEPT ![kfrom] = @ \cup {cr}, ![rfrom] = @ \cup {cr}],
         rook |-> [k.rook EXCEPT ![cr] = rfrom],
         path |-> [k.path EXCEPT ![cr] =
                     (BetweenBB[rfrom][rto] \cup BetweenBB[kfrom][kto]) \ {kfrom, rfrom}]]

NoCastling == [rights |-> {}, mask |-> [s \in Squares |-> {}],
               rook |-> [cr \in Rights |-> SQ_NONE], path |-> [cr \in Rights |-> {}]]
SetCastling(b, claims) ==
    FoldLeft(LAMBDA k, claim :
                IF ClaimedRook(b, claim) = {} THEN k
                ELSE SetCastlingRight(k, b, claim.color, CHOOSE r \in ClaimedRook(b, claim) : TRUE),
             NoCastling, claims)

\* The en passant square is kept only when a pawn can really capture there.
SetEnPassant(b, c, ep) ==
    LET pawns == PawnAttacks[Them(c)][ep] \cap Of(b, c, {PAWN})
        target == {ep - PawnPush(c)} \cap Of(b, Them(c), {PAWN})
        occ == Xor(Xor(DOMAIN b, target), {ep})
        legalEP == \E p \in pawns :
                      AttackersTo(b, KingSquare(b, c), Xor(occ, {p}))
                        \cap Of(b, Them(c), Every) \subseteq target
    IN  IF /\ pawns # {} /\ target # {} /\ legalEP
           /\ {ep, ep + PawnPush(c)} \cap DOMAIN b = {}
        THEN ep ELSE SQ_NONE

\* The refusals of set, in the order of its checks.
Refused(f) ==
    \/ \E s \in DOMAIN f.board : TypeOf(f.board[s]) = PAWN /\ Rank(s) \in {0, 7}
    \/ \E c \in Colors : ~CountsSupported(f.board, c)
    \/ f.ep # SQ_NONE /\ RelativeRank(f.side, f.ep) # 5
    \/ f.rule50 \notin 0 .. 32767
    \/ f.fullmove \notin 0 .. 100000
    \/ AttackersToExist(f.board, KingSquare(f.board, Them(f.side)), DOMAIN f.board, f.side)

\* What set leaves: castling data, the first StateInfo and the game ply.
SetUp(f) ==
    LET k == SetCastling(f.board, f.claims)
        ep == IF f.ep = SQ_NONE THEN SQ_NONE ELSE SetEnPassant(f.board, f.side, f.ep)
    IN  [castle |-> [mask |-> k.mask, rook |-> k.rook, path |-> k.path],
         state |-> FreshState(f.board, f.side, k.rights, ep, f.rule50),
         gamePly |-> (IF f.fullmove > 1 THEN 2 * (f.fullmove - 1) ELSE 0) + f.side]

\* fen(): with the letters of the rooks' files only in Chess960.
CurrentFen ==
    LET Claim(cr) == [color |-> RightColor(cr),
                      letter |-> IF fen.chess960 THEN "file"
                                 ELSE IF cr \in {1, 4} THEN "K" ELSE "Q",
                      file |-> File(castle.rook[cr])]
    IN  [board |-> board, side |-> sideToMove,
         claims |-> LET held == SelectSeq(<<1, 2, 4, 8>>, LAMBDA cr : cr \in Top.castlingRights)
                    IN  [i \in DOMAIN held |-> Claim(held[i])],
         ep |-> Top.epSquare, rule50 |-> Top.rule50,
         fullmove |-> 1 + ((gamePly - sideToMove) \div 2), chess960 |-> fen.chess960]

(***************************************************************************)
(* The rules' side of the game: what the properties compare with.          *)
(***************************************************************************)
\* The rooks a claim really gives a castling right to.
GoodRook(b, claim) ==
    LET c == claim.color
        rooks == {r \in Of(b, c, {ROOK}) : RelativeRank(c, r) = 0}
        k == KingSquare(b, c)
    IN  IF RelativeRank(c, k) # 0 \/ File(k) \in {0, 7} THEN {}
        ELSE CASE claim.letter = "K" -> {r \in rooks : r > k /\ \A q \in rooks : q <= r}
               [] claim.letter = "Q" -> {r \in rooks : r < k /\ \A q \in rooks : q >= r}
               [] OTHER -> {r \in rooks : File(r) = claim.file}
GoodRooks(f, c) ==
    UNION {GoodRook(f.board, f.claims[i]) : i \in {i \in DOMAIN f.claims : f.claims[i].color = c}}

\* A captured pawn that stands behind the passed square, which it has passed.
GoodPassed(f) ==
    IF /\ f.ep # SQ_NONE
       /\ f.ep - PawnPush(f.side) \in Of(f.board, Them(f.side), {PAWN})
       /\ {f.ep, f.ep + PawnPush(f.side)} \cap DOMAIN f.board = {}
    THEN f.ep ELSE SQ_NONE

Played(b, c, passed, rooks, m, null, rule50) ==
    [board |-> b, side |-> c, rooks |-> rooks, passed |-> passed, move |-> m, null |-> null,
     rule50 |-> rule50, ep |-> LegalOf(b, c, PassingCaptures(b, c, passed))]

NoMove == Mv("NONE", 0, 0, 0)
FirstOfGame(f) ==
    Played(f.board, f.side, GoodPassed(f), [c \in Colors |-> GoodRooks(f, c)], NoMove, FALSE, f.rule50)

Now == game[Len(game)]
RookKept(g, m) ==
    [c \in Colors |->
        IF c = g.side /\ TypeOf(g.board[m.from]) = KING THEN {} ELSE g.rooks[c] \ {m.from, m.to}]
Zeroing(b, m) == TypeOf(b[m.from]) = PAWN \/ (m.to \in DOMAIN b /\ m.kind # "CASTLING")
Follow(g, m) ==
    Played(BoardAfter(g.board, g.side, m), Them(g.side), Passed(g.board, m), RookKept(g, m), m, FALSE,
           IF Zeroing(g.board, m) THEN 0 ELSE g.rule50 + 1)

\* Two moments of a game with the same position.
SamePosition(g, h) ==
    g.board = h.board /\ g.side = h.side /\ g.rooks = h.rooks /\ g.ep = h.ep
\* The distances from g, played after line, back to the same position; a null
\* move is where the memory ends.
Distances(line, g) ==
    {d \in 1 .. Len(line) :
        /\ SamePosition(line[Len(line) + 1 - d], g)
        /\ \A i \in (Len(line) + 2 - d) .. Len(line) : ~line[i].null}
RepeatedAt(line, g) ==
    LET ds == Distances(line, g)
    IN  IF ds = {} \/ g.null THEN 0
        ELSE IF Cardinality(ds) > 1 THEN 0 - Least(ds) ELSE Least(ds)
LegalNow == LegalMoves(Now.board, Now.side, Now.passed, Now.rooks[Now.side])

(***************************************************************************)
(* Move generation.                                                        *)
(***************************************************************************)
Shift(S, d) == {s + d : s \in {s \in S : Safe(s, d)}}

MakePromotions(type, enemy, D, tos) ==
    LET all == type \in {"EVASIONS", "NON_EVASIONS"}
        queen == IF all \/ type = "CAPTURES" THEN {QUEEN} ELSE {}
        under == IF all \/ (type = "CAPTURES" /\ enemy) \/ (type = "QUIETS" /\ ~enemy)
                 THEN {KNIGHT, BISHOP, ROOK} ELSE {}
    IN  {Mv("PROMOTION", to - D, to, pt) : to \in tos, pt \in queen \cup under}

Splat(D, tos) == {Mv("NORMAL", to - D, to, 0) : to \in tos}

\* generate_pawn_moves, block by block.
GeneratePawnMoves(type, target) ==
    LET Up == PawnPush(Us)
        UpRight == IF Us = WHITE THEN 9 ELSE 0 - 9
        UpLeft == IF Us = WHITE THEN 7 ELSE 0 - 7
        emptySquares == Squares \ DOMAIN board
        enemies == IF type = "EVASIONS" THEN Top.checkersBB ELSE Of(board, Them(Us), Every)
        pawns == Of(board, Us, {PAWN})
        pawnsOn7 == {s \in pawns : RelativeRank(Us, s) = 6}
        rest == pawns \ pawnsOn7
        Wanted(squares) == IF type = "EVASIONS" THEN squares \cap target ELSE squares
        step == Shift(rest, Up) \cap emptySquares
        double == Shift({s \in step : RelativeRank(Us, s) = 2}, Up) \cap emptySquares
        ep == Top.epSquare
        epPossible == /\ type # "QUIETS" /\ ep # SQ_NONE
                      /\ ~(type = "EVASIONS" /\ ep + Up \in target)
    IN  (IF type = "CAPTURES" THEN <<>> ELSE <<Splat(Up, Wanted(step)), Splat(Up + Up, Wanted(double))>>)
        \o <<MakePromotions(type, TRUE, UpRight, Shift(pawnsOn7, UpRight) \cap enemies),
             MakePromotions(type, TRUE, UpLeft, Shift(pawnsOn7, UpLeft) \cap enemies),
             MakePromotions(type, FALSE, Up, Wanted(Shift(pawnsOn7, Up) \cap emptySquares))>>
        \o (IF type = "QUIETS" THEN <<>>
            ELSE <<Splat(UpRight, Shift(rest, UpRight) \cap enemies),
                   Splat(UpLeft, Shift(rest, UpLeft) \cap enemies)>>)
        \o (IF epPossible
            THEN <<{Mv("EN_PASSANT", from, ep, 0) : from \in rest \cap PawnAttacks[Them(Us)][ep]}>>
            ELSE <<>>)

GenerateMoves(pt, target) ==
    {Mv("NORMAL", m[1], m[2], 0) :
        m \in UNION {{from} \X (AttacksBB(pt, from, DOMAIN board) \cap target)
                     : from \in Of(board, Us, {pt})}}

CastlingImpeded(cr) == castle.path[cr] \cap DOMAIN board # {}

\* generate_all: the blocks a move list is made of.
GenerateAll(type) ==
    LET ksq == KingSquare(board, Us)
        others == Squares \ Of(board, Us, Every)
        target == CASE type = "EVASIONS" -> BetweenBB[ksq][Least(Top.checkersBB)]
                    [] type = "NON_EVASIONS" -> others
                    [] type = "CAPTURES" -> Of(board, Them(Us), Every)
                    [] type = "QUIETS" -> Squares \ DOMAIN board
        doubleCheck == type = "EVASIONS" /\ Cardinality(Top.checkersBB) > 1
        castlings == {cr \in RightsOf(Us) \cap Top.castlingRights : ~CastlingImpeded(cr)}
    IN  (IF doubleCheck THEN <<>>
         ELSE GeneratePawnMoves(type, target)
              \o [i \in 1 .. 4 |-> GenerateMoves(KNIGHT + i - 1, target)])
        \o <<GenerateMoves(KING, IF type = "EVASIONS" THEN others ELSE target)>>
        \o (IF type \in {"QUIETS", "NON_EVASIONS"}
            THEN <<{Mv("CASTLING", ksq, castle.rook[cr], 0) : cr \in castlings}>> ELSE <<>>)

Generated(type) == UNION Range(GenerateAll(type))
Generate == Generated(IF Top.checkersBB # {} THEN "EVASIONS" ELSE "NON_EVASIONS")

(***************************************************************************)
(* Questions asked about a move before it is done.                         *)
(***************************************************************************)
\* As Legal, of a king in the shadow of its own square.
LegalInShadow(m) ==
    LET ksq == KingSquare(board, Us)
        Reached(s) == AttackersToExist(board, s, DOMAIN board, Them(Us))
    IN  IF m.kind = "CASTLING" THEN \A s \in Way(m.from, CastledKing(Us, m)) \ {m.from} : ~Reached(s)
        ELSE IF m.from = ksq THEN ~Reached(m.to)
        ELSE m.from \notin Top.info.blockers[Us] \/ ksq \in LineBB[m.from][m.to]
\* legal, of a pseudo-legal move.
Legal(m) ==
    LET ksq == KingSquare(board, Us)
        them == Them(Us)
        kto == CastledKing(Us, m)
        occupied == ((DOMAIN board) \ {m.from, m.to - PawnPush(Us)}) \cup {m.to}
    IN  CASE m.kind = "EN_PASSANT" ->
                \A s \in Of(board, them, {BISHOP, ROOK, QUEEN}) : ~Hits(board[s], s, ksq, occupied)
          [] m.kind = "CASTLING" ->
                /\ \A s \in Way(m.from, kto) \ {m.from} :
                       ~AttackersToExist(board, s, DOMAIN board, them)
                /\ ~fen.chess960 \/ m.to \notin Top.info.blockers[Us]
          [] OTHER ->
                IF board[m.from] = MakePiece(Us, KING)
                THEN ~AttackersToExist(board, m.to, (DOMAIN board) \ {m.from}, them)
                ELSE m.from \notin Top.info.blockers[Us] \/ ksq \in LineBB[m.from][m.to]

\* generate<LEGAL>: only what could be illegal is asked about.
GenerateLegal ==
    LET pinned == Top.info.blockers[Us] \cap Of(board, Us, Every)
    IN  {m \in Generate :
            (m.from \in pinned \/ m.from = KingSquare(board, Us) \/ m.kind = "EN_PASSANT") => Legal(m)}

\* pseudo_legal, of any move.
PseudoLegal(m) ==
    LET pc == On(board, m.from)
        ksq == KingSquare(board, Us)
        Up == PawnPush(Us)
        empty(s) == s \notin DOMAIN board
    IN  IF m.kind # "NORMAL" THEN m \in Generate
        ELSE
        /\ pc # NO_PIECE /\ ColorOf(pc) = Us
        /\ empty(m.to) \/ ColorOf(board[m.to]) # Us
        /\ IF TypeOf(pc) = PAWN
           THEN /\ Rank(m.to) \notin {0, 7}
                /\ \/ m.to \in PawnAttacks[Us][m.from] /\ ~empty(m.to)
                   \/ m.from + Up = m.to /\ empty(m.to)
                   \/ /\ m.from + 2 * Up = m.to /\ RelativeRank(Us, m.from) = 1
                      /\ empty(m.to) /\ empty(m.to - Up)
           ELSE Sees(TypeOf(pc), m.from, m.to, DOMAIN board)
        /\ Top.checkersBB # {} =>
              IF TypeOf(pc) # KING
              THEN /\ Cardinality(Top.checkersBB) = 1
                   /\ m.to \in BetweenBB[ksq][Least(Top.checkersBB)]
              ELSE ~AttackersToExist(board, m.to, (DOMAIN board) \ {m.from}, Them(Us))

GivesCheck(m) ==
    LET theirs == KingSquare(board, Them(Us))
        pt == TypeOf(board[m.from])
        capsq == 8 * Rank(m.from) + File(m.to)
        occupied == ((DOMAIN board) \ {m.from, capsq}) \cup {m.to}
    IN  IF m.to \in Top.info.checkSquares[pt] THEN TRUE
        ELSE IF m.from \in Top.info.blockers[Them(Us)]
        THEN theirs \notin LineBB[m.from][m.to] \/ m.kind = "CASTLING"
        ELSE CASE m.kind = "NORMAL" -> FALSE
               [] m.kind = "PROMOTION" ->
                     theirs \in AttacksBB(m.promo, m.to, (DOMAIN board) \ {m.from})
               [] m.kind = "EN_PASSANT" ->
                     \E s \in Of(board, Us, {BISHOP, ROOK, QUEEN}) : Hits(board[s], s, theirs, occupied)
               [] m.kind = "CASTLING" -> CastledRook(Us, m) \in Top.info.checkSquares[ROOK]

(***************************************************************************)
(* see_ge: one capture on the square at a time, a null window on the swap. *)
(***************************************************************************)
\* As SeeAttackers, with pinned pieces left out when their pinner is gone.
SeeUnpinned(x) ==
    {s \in x.attackers \cap x.occupied : ColorOf(board[s]) = x.stm} \ Top.info.blockers[x.stm]
\* The state of its loop: the side to capture, the squares still occupied,
\* the attackers known, and swap and res.
SeeAttackers(x) ==
    LET mine == {s \in x.attackers \cap x.occupied : ColorOf(board[s]) = x.stm}
    IN  IF Top.info.pinners[Them(x.stm)] \cap x.occupied # {}
        THEN mine \ Top.info.blockers[x.stm] ELSE mine

\* The sliders of these types that see the square now.
XRays(x, to, types) ==
    {s \in DOMAIN board : TypeOf(board[s]) \in types /\ Hits(board[s], s, to, x.occupied)}

SeeCapture(x, to) ==
    LET mine == SeeAttackers(x)
        pt == Least({TypeOf(board[s]) : s \in mine})
        s == Least({q \in mine : TypeOf(board[q]) = pt})
        value == PieceValue(pt) - x.swap
        y == [x EXCEPT !.occupied = @ \ {s}, !.res = 1 - x.res, !.swap = value]
        behind == XRays(y, to, (IF pt \in {PAWN, BISHOP, QUEEN} THEN {BISHOP, QUEEN} ELSE {})
                                 \cup (IF pt \in {ROOK, QUEEN} THEN {ROOK, QUEEN} ELSE {}))
        theirs == {q \in x.attackers \cap x.occupied : ColorOf(board[q]) # x.stm}
    IN  IF mine = {} THEN [x EXCEPT !.done = TRUE]
        ELSE IF pt = KING
        THEN [y EXCEPT !.done = TRUE, !.res = IF theirs # {} THEN 1 - @ ELSE @]
        ELSE IF pt # QUEEN /\ value < y.res THEN [y EXCEPT !.done = TRUE]
        ELSE [y EXCEPT !.attackers = (@ \cap x.occupied) \cup behind, !.stm = Them(@)]

SeeGe(m, threshold) ==
    LET first == PieceValue(On(board, m.to)) - threshold
        second == PieceValue(board[m.from]) - first
        occupied == Xor((DOMAIN board) \ {m.from}, {m.to})
        start == [stm |-> Them(Us), occupied |-> occupied, swap |-> second, res |-> 1,
                  attackers |-> AttackersTo(board, m.to, occupied), done |-> FALSE]
        Step(x, n) == IF x.done THEN x ELSE SeeCapture(x, m.to)
    IN  IF m.kind # "NORMAL" THEN 0 >= threshold
        ELSE IF first < 0 THEN FALSE
        ELSE IF second <= 0 THEN TRUE
        ELSE FoldLeft(Step, start, [n \in 1 .. Cardinality(DOMAIN board) |-> n]).res = 1

(***************************************************************************)
(* Changing the board, and telling the accumulators which threats appear   *)
(* (put) and disappear.  The threats of a call are a set; the list is the  *)
(* sequence of the calls' sets.                                            *)
(***************************************************************************)
Threat(pc, threatened, s, threatenedSq, put) ==
    [pc |-> pc, threatened |-> threatened, from |-> s, to |-> threatenedSq, put |-> put]

\* update_piece_threats, of a call with these arguments; ray is ComputeRay.
PieceThreats(call) ==
    LET b == call.b
        pc == call.pc
        occupied == DOMAIN b
        noKings == {t \in occupied : TypeOf(b[t]) # KING}
        reach == AttacksBB(QUEEN, call.s, occupied)
        attackers == {a \in occupied : Hits(b[a], a, call.s, occupied)}
        discovered == UNION {{Threat(b[a], b[t], a, t, ~call.put) :
                                t \in RayPassBB[a][call.s] \cap reach \cap noKings} :
                             a \in {a \in attackers : /\ TypeOf(b[a]) \in {BISHOP, ROOK, QUEEN}
                                                      /\ RayPassBB[a][call.s] \cap call.no # call.no}}
        own == {Threat(pc, b[t], call.s, t, call.put) :
                    t \in PieceAttacks(pc, call.s, occupied) \cap noKings}
        incoming == {Threat(b[a], pc, a, call.s, call.put) : a \in attackers}
    IN  (IF call.ray THEN discovered ELSE {})
          \cup (IF TypeOf(pc) = KING THEN {} ELSE own \cup incoming)

\* The arguments of a call.
Call(b, pc, s, put, ray, noRaysContaining) ==
    [b |-> b, pc |-> pc, s |-> s, put |-> put, ray |-> ray, no |-> noRaysContaining]

\* e is the board, and the calls made on the way to it.
AnyRay == Squares
PutPiece(e, pc, s) ==
    LET b == With(e.b, s, pc)
    IN  [b |-> b, calls |-> Append(e.calls, Call(b, pc, s, TRUE, TRUE, AnyRay))]
RemovePiece(e, s) ==
    [b |-> Without(e.b, {s}), calls |-> Append(e.calls, Call(e.b, e.b[s], s, FALSE, TRUE, AnyRay))]
MovePiece(e, from, to) ==
    LET pc == e.b[from]
        b == With(Without(e.b, {from}), to, pc)
    IN  [b |-> b,
         calls |-> e.calls \o <<Call(e.b, pc, from, FALSE, TRUE, {from, to}),
                                Call(b, pc, to, TRUE, TRUE, {from, to})>>]
SwapPiece(e, s, pc) ==
    LET gone == Without(e.b, {s})
        b == With(gone, s, pc)
    IN  [b |-> b,
         calls |-> e.calls \o <<Call(gone, e.b[s], s, FALSE, FALSE, AnyRay),
                                Call(b, pc, s, TRUE, FALSE, AnyRay)>>]

CapSq(m) == IF m.kind = "EN_PASSANT" THEN m.to - PawnPush(Us) ELSE m.to
CapturedBy(m) == IF m.kind = "CASTLING" THEN NO_PIECE ELSE On(board, CapSq(m))

\* The board edits of do_move, in its order.
Arrived(e, m) ==
    IF m.kind = "EN_PASSANT" THEN MovePiece(RemovePiece(e, CapSq(m)), m.from, m.to)
    ELSE IF CapturedBy(m) # NO_PIECE
    THEN SwapPiece(RemovePiece(e, m.from), m.to, e.b[m.from])
    ELSE MovePiece(e, m.from, m.to)
Edited(m) ==
    LET e == [b |-> board, calls |-> <<>>]
    IN  CASE m.kind = "CASTLING" ->
                PutPiece(PutPiece(RemovePiece(RemovePiece(e, m.from), m.to),
                                  MakePiece(Us, KING), CastledKing(Us, m)),
                         MakePiece(Us, ROOK), CastledRook(Us, m))
          [] m.kind = "PROMOTION" -> SwapPiece(Arrived(e, m), m.to, MakePiece(Us, m.promo))
          [] OTHER -> Arrived(e, m)

\* DirtyPiece.
DirtyPiece(m) ==
    LET rook == MakePiece(Us, ROOK)
        castling == m.kind = "CASTLING"
        promotion == m.kind = "PROMOTION"
    IN  [pc |-> board[m.from], from |-> m.from,
         to |-> IF castling THEN CastledKing(Us, m) ELSE IF promotion THEN SQ_NONE ELSE m.to,
         remove_sq |-> IF castling THEN m.to ELSE IF CapturedBy(m) # NO_PIECE THEN CapSq(m) ELSE SQ_NONE,
         remove_pc |-> IF castling THEN rook ELSE CapturedBy(m),
         add_sq |-> IF castling THEN CastledRook(Us, m) ELSE IF promotion THEN m.to ELSE SQ_NONE,
         add_pc |-> IF castling THEN rook ELSE IF promotion THEN MakePiece(Us, m.promo) ELSE NO_PIECE]

(***************************************************************************)
(* do_move: the StateInfo, from the one before.                            *)
(***************************************************************************)
\* The en passant square a double step leaves, b being the board after it.
DoubleStepSquare(b, m) ==
    LET epSquare == m.to - PawnPush(Us)
        them == Them(Us)
        pawns == PawnAttacks[Us][epSquare] \cap Of(b, them, {PAWN})
        ksq == KingSquare(b, them)
        blockers == Top.info.blockers[them]
        noDiscovery == m.from \notin blockers \/ File(m.from) = File(ksq)
    IN  IF /\ TypeOf(board[m.from]) = PAWN /\ Abs(m.to - m.from) = 16
           /\ noDiscovery
           /\ \E p \in pawns : p \notin blockers \/ p \in LineBB[epSquare][ksq]
        THEN epSquare ELSE SQ_NONE

\* The numbers of those of some pieces that a move displaces.
Displaced(m, pieces) ==
    LET dp == DirtyPiece(m)
        Number(pc, s) == IF s = SQ_NONE \/ pc \notin pieces THEN {} ELSE Psq(pc, s)
    IN  <<Number(dp.pc, dp.from), Number(dp.pc, dp.to), Number(dp.remove_pc, dp.remove_sq),
          Number(dp.add_pc, dp.add_sq)>>

MaterialChange(b, m) ==
    LET captured == CapturedBy(m)
        pc == board[m.from]
        promotion == MakePiece(Us, m.promo)
    IN  (IF captured = NO_PIECE THEN <<>> ELSE <<Psq(captured, 8 + Count(board, captured) - 1)>>)
        \o (IF m.kind # "PROMOTION" THEN <<>>
            ELSE <<Psq(promotion, 8 + Count(b, promotion) - 1), Psq(pc, 8 + Count(b, pc))>>)

\* As RepetitionOf, across null moves.
RepetitionThrough(key, rule50, pliesFromNull) ==
    LET Back(i) == st[Len(st) + 1 - i]
        found == {i \in 4 .. Smaller(rule50, Len(st)) : (i % 2) = 0 /\ Back(i).key = key}
    IN  IF found = {} THEN 0
        ELSE IF Back(Least(found)).repetition # 0 THEN 0 - Least(found) ELSE Least(found)
\* The distance to the previous occurrence, negative in the 3-fold case.
RepetitionOf(key, rule50, pliesFromNull) ==
    LET Back(i) == st[Len(st) + 1 - i]
        found == {i \in 4 .. Smaller(rule50, pliesFromNull) : (i % 2) = 0 /\ Back(i).key = key}
    IN  IF found = {} THEN 0
        ELSE IF Back(Least(found)).repetition # 0 THEN 0 - Least(found) ELSE Least(found)

StateAfter(b, m) ==
    LET them == Them(Us)
        pc == board[m.from]
        captured == CapturedBy(m)
        ep == DoubleStepSquare(b, m)
        arrival == IF m.kind = "CASTLING" THEN CastledKing(Us, m) ELSE m.to
        rights == Top.castlingRights \ (castle.mask[m.from] \cup castle.mask[arrival])
        key == XorAll(<<Top.key, SideKey, EnPassantKey(Top.epSquare), EnPassantKey(ep),
                        CastlingKey(Top.castlingRights), CastlingKey(rights)>>
                      \o Displaced(m, Pieces))
        rule50 == IF TypeOf(pc) = PAWN \/ captured # NO_PIECE THEN 0 ELSE Top.rule50 + 1
        lost == IF TypeOf(captured) \in KNIGHT .. QUEEN THEN PieceValue(captured) ELSE 0
        promoted == IF m.kind = "PROMOTION" THEN PieceValue(m.promo) ELSE 0
    IN  [materialKey |-> XorAll(<<Top.materialKey>> \o MaterialChange(b, m)),
         pawnKey |-> XorAll(<<Top.pawnKey>> \o Displaced(m, {p \in Pieces : TypeOf(p) = PAWN})),
         minorPieceKey |-> XorAll(<<Top.minorPieceKey>>
                                  \o Displaced(m, {p \in Pieces : TypeOf(p) \in {KNIGHT, BISHOP}})),
         nonPawnKey |-> [c \in Colors |-> XorAll(<<Top.nonPawnKey[c]>>
                             \o Displaced(m, {p \in Pieces : TypeOf(p) # PAWN /\ ColorOf(p) = c}))],
         nonPawnMaterial |-> [Top.nonPawnMaterial EXCEPT ![Us] = @ + promoted, ![them] = @ - lost],
         castlingRights |-> rights, rule50 |-> rule50, pliesFromNull |-> Top.pliesFromNull + 1,
         epSquare |-> ep, key |-> key,
         checkersBB |-> IF GivesCheck(m)
                        THEN AttackersTo(b, KingSquare(b, them), DOMAIN b) \cap Of(b, Us, Every)
                        ELSE {},
         capturedPiece |-> captured,
         repetition |-> RepetitionOf(key, rule50, Top.pliesFromNull + 1),
         info |-> CheckInfo(b, them)]

NoDirty == [dp |-> <<>>, list |-> <<>>]

DoMove(m) ==
    LET edited == Edited(m)
    IN  /\ board' = edited.b
        /\ sideToMove' = Them(Us)
        /\ gamePly' = gamePly + 1
        /\ st' = Append(st, StateAfter(board', m))
        /\ dirty' = [dp |-> DirtyPiece(m), list |-> [i \in DOMAIN edited.calls |-> PieceThreats(edited.calls[i])]]
        /\ game' = Append(game, Follow(Now, m))
        /\ UNCHANGED <<fen, castle>>

\* As Restored, of a pawn taken en passant where the capturer has arrived.
RestoredThere(us, m) ==
    LET back == With(Without(board, {m.to}), m.from,
                     IF m.kind = "PROMOTION" THEN MakePiece(us, PAWN) ELSE board[m.to])
    IN  IF m.kind = "CASTLING"
        THEN With(With(Without(board, {CastledKing(us, m), CastledRook(us, m)}),
                       m.from, MakePiece(us, KING)), m.to, MakePiece(us, ROOK))
        ELSE IF Top.capturedPiece # NO_PIECE THEN With(back, m.to, Top.capturedPiece) ELSE back
\* The board undo_move leaves, of the mover us.
Restored(us, m) ==
    LET captured == Top.capturedPiece
        capsq == IF m.kind = "EN_PASSANT" THEN m.to - PawnPush(us) ELSE m.to
        pc == IF m.kind = "PROMOTION" THEN MakePiece(us, PAWN) ELSE board[m.to]
        back == With(Without(board, {m.to}), m.from, pc)
    IN  IF m.kind = "CASTLING"
        THEN With(With(Without(board, {CastledKing(us, m), CastledRook(us, m)}),
                       m.from, MakePiece(us, KING)), m.to, MakePiece(us, ROOK))
        ELSE IF captured # NO_PIECE THEN With(back, capsq, captured) ELSE back

UndoMove ==
    /\ Len(game) > 1 /\ ~Now.null
    /\ board' = Restored(Them(sideToMove), Now.move)
    /\ sideToMove' = Them(sideToMove)
    /\ gamePly' = gamePly - 1
    /\ st' = Front(st)
    /\ game' = Front(game)
    /\ dirty' = NoDirty
    /\ UNCHANGED <<fen, castle>>

DoNullMove ==
    /\ Top.checkersBB = {}
    /\ sideToMove' = Them(sideToMove)
    /\ st' = Append(st, [Top EXCEPT !.key = XorAll(<<@, EnPassantKey(Top.epSquare), SideKey>>),
                                    !.epSquare = SQ_NONE, !.pliesFromNull = 0, !.repetition = 0,
                                    !.info = CheckInfo(board, Them(sideToMove))])
    /\ dirty' = NoDirty
    /\ game' = Append(game, Played(Now.board, Them(Now.side), SQ_NONE, Now.rooks, NoMove, TRUE, Now.rule50))
    /\ UNCHANGED <<fen, board, gamePly, castle>>

UndoNullMove ==
    /\ Len(game) > 1 /\ Now.null
    /\ st' = Front(st)
    /\ sideToMove' = Them(sideToMove)
    /\ game' = Front(game)
    /\ dirty' = NoDirty
    /\ UNCHANGED <<fen, board, gamePly, castle>>

(***************************************************************************)
(* Draws.                                                                  *)
(***************************************************************************)
IsRepetition(ply) == Top.repetition # 0 /\ Top.repetition < ply
IsDraw(ply) ==
    \/ Top.rule50 > 99 /\ (Top.checkersBB = {} \/ GenerateLegal # {})
    \/ IsRepetition(ply)

HasRepeated ==
    LET end == Smaller(Top.rule50, Top.pliesFromNull)
    IN  \E i \in 0 .. (end - 4) : st[Len(st) - i].repetition # 0

\* The moves in the cuckoo tables with this key: a piece between two squares
\* it goes from and to, and the side.
CuckooMoves(key) ==
    {sq \in {<<Least({n % 64 : n \in key \ SideKey}),
               -Least({-(n % 64) : n \in key \ SideKey})>>} :
        /\ SideKey \subseteq key /\ Cardinality(key) = 3 /\ \A n \in key \ SideKey : n < 1024
        /\ \E pc \in Pieces : /\ TypeOf(pc) # PAWN /\ key \ SideKey = {64 * pc + sq[1], 64 * pc + sq[2]}
                              /\ sq[2] \in PseudoAttacks[TypeOf(pc)][sq[1]]}

UpcomingRepetition(ply) ==
    LET end == Smaller(Top.rule50, Top.pliesFromNull)
        Back(i) == st[Len(st) - i]
        \* other: what the moves of the other side have changed in i plies
        Other(i) == XorAll([j \in 1 .. (i + 1) |-> Back(j - 1).key]
                           \o [j \in 1 .. ((i + 1) \div 2) |-> SideKey])
    IN  \E i \in {i \in 3 .. end : (i % 2) = 1} :
            /\ Other(i) = {}
            /\ \E sq \in CuckooMoves(Xor(Top.key, Back(i).key)) :
                  (BetweenBB[sq[1]][sq[2]] \ {sq[2]}) \cap DOMAIN board = {}
            /\ ply > i \/ Back(i).repetition # 0

(***************************************************************************)
(* The specification: any line of moves within the fen's zone and depth.   *)
(***************************************************************************)
Init ==
    /\ fen \in {f \in Fens : ~Refused(f)}
    /\ board = fen.board /\ sideToMove = fen.side
    /\ \E set \in {SetUp(fen)} :
          gamePly = set.gamePly /\ castle = set.castle /\ st = <<set.state>>
    /\ dirty = NoDirty
    /\ game = <<FirstOfGame(fen)>>

Tried == IF Len(game) > fen.depth THEN {}
         ELSE {m \in GenerateLegal : {m.from, m.to} \subseteq fen.zone}

Do == \E m \in Tried : DoMove(m)
Null == Len(game) <= fen.depth /\ fen.null /\ DoNullMove

Next == Do \/ Null \/ UndoMove \/ UndoNullMove

Spec == Init /\ [][Next]_posVars

(***************************************************************************)
(* Properties.                                                             *)
(***************************************************************************)
\* What pos_is_ok asserts in full.
PosIsOk ==
    /\ board \in [DOMAIN board -> Pieces] /\ DOMAIN board \subseteq Squares
    /\ sideToMove \in Colors /\ gamePly \in Nat
    /\ Top.castlingRights \subseteq Rights /\ Top.epSquare \in Squares \cup {SQ_NONE}
    /\ \A c \in Colors : CountsSupported(board, c)
    /\ ~AttackersToExist(board, KingSquare(board, Them(Us)), DOMAIN board, Us)
    /\ \A cr \in Top.castlingRights :
          LET c == RightColor(cr)
              r == castle.rook[cr]
          IN  /\ On(board, r) = MakePiece(c, ROOK)
              /\ castle.mask[r] = {cr}
              /\ cr \in castle.mask[KingSquare(board, c)]

\* However moves, null moves and undoes follow one another, the board, the
\* turn and the ply are those of the game played: every undo takes back all
\* that its do changed, of a castling with overlapping squares, a promotion
\* with capture or an en passant capture too (do_move, undo_move, do_castling).
BoardIsOfGame ==
    /\ board = Now.board /\ sideToMove = Now.side /\ Len(st) = Len(game)
    /\ gamePly = SetUp(fen).gamePly
                   + Cardinality({i \in 2 .. Len(game) : ~game[i].null})

\* The castling rights by the rules, and the en passant square if a capture
\* is legal.
RightsOfGame ==
    UNION {{IF r > KingSquare(Now.board, c) THEN KingSide(c) ELSE QueenSide(c) : r \in Now.rooks[c]}
           : c \in Colors}
PassedOfGame == IF Now.ep = {} THEN SQ_NONE ELSE Now.passed

\* What do_move keeps up to date is what the board says: keys, material,
\* checkers, pins and check squares are those computed from scratch; the
\* castling rights are those of the kings and rooks that have not moved, and
\* the en passant square is kept exactly if a capture on it is legal.
StateIsRecomputed ==
    LET fresh == FreshState(Now.board, Now.side, RightsOfGame, PassedOfGame, Now.rule50)
    IN  [Top EXCEPT !.pliesFromNull = 0, !.capturedPiece = NO_PIECE, !.repetition = 0] = fresh

\* The generators make each move once and the legal moves are the moves of
\* chess; a move from anywhere, as the transposition table gives, is taken
\* for pseudo-legal and legal just when it is one; captures and quiets
\* together are the moves out of check, and none is made twice.
Once(blocks) ==
    MapThenSumSet(LAMBDA i : Cardinality(blocks[i]), DOMAIN blocks) = Cardinality(UNION Range(blocks))
Types == IF Top.checkersBB # {} THEN {"EVASIONS"} ELSE {"CAPTURES", "QUIETS", "NON_EVASIONS"}
MovesAreOfChess ==
    LET Anywhere == {Mv("NORMAL", f, t, 0) : f \in DOMAIN board, t \in fen.zone \cup DOMAIN board}
        generated == [type \in Types |-> Generated(type)]
    IN  /\ GenerateLegal = LegalNow
        /\ {m \in Anywhere \cup Generate : PseudoLegal(m) /\ Legal(m)} = LegalNow
        /\ \A type \in Types : Once(GenerateAll(type))
        /\ Top.checkersBB = {} =>
              /\ generated["CAPTURES"] \cap generated["QUIETS"] = {}
              /\ generated["CAPTURES"] \cup generated["QUIETS"] = generated["NON_EVASIONS"]

\* A repetition is counted from the occurrence before, as a third one when
\* it is, and never across a null move; has_repeated knows of those since the
\* last capture or pawn move; a fifty-move draw is none when it is mate; and
\* upcoming_repetition, as its comment says, "accurately matches the outcome
\* of is_draw() over all legal moves", at every distance from the root.
RepetitionsAreOfGame ==
    LET Line(i) == SubSeq(game, 1, i - 1)
        Twice(line, g, ply) == RepeatedAt(line, g) # 0 /\ RepeatedAt(line, g) < ply
        Reversible(i) == \A k \in (i + 1) .. Len(game) :
                            ~game[k].null /\ game[k].rule50 = game[k - 1].rule50 + 1
        Quiet == {m \in LegalNow : ~Zeroing(Now.board, m)}
    IN  /\ Top.repetition = RepeatedAt(Line(Len(game)), Now)
        /\ HasRepeated <=> \E i \in 1 .. Len(game) : Reversible(i) /\ RepeatedAt(Line(i), game[i]) # 0
        /\ IsDraw(0) <=> \/ RepeatedAt(Line(Len(game)), Now) < 0
                         \/ Now.rule50 >= 100 /\ (LegalNow # {} \/ ~InCheck(Now.board, Now.side))
        /\ \A ply \in {0, 3, 4, 5, 8} :
              UpcomingRepetition(ply) <=> \E m \in Quiet : Twice(game, Follow(Now, m), ply + 1)

\* The DirtyPiece and the DirtyThreats of a move tell the accumulators what
\* changed on the board and among the threats, each appearance less its
\* disappearances, however the pieces were taken off and put back.
ThreatsOf(b) ==
    UNION {{[pc |-> b[a], threatened |-> b[t], from |-> a, to |-> t] :
              t \in {t \in PieceAttacks(b[a], a, DOMAIN b) \cap DOMAIN b : TypeOf(b[t]) # KING}}
           : a \in {a \in DOMAIN b : TypeOf(b[a]) # KING}}
DirtyIsDelta ==
    LET before == game[Len(game) - 1].board
        dp == dirty.dp
        Calls(t, put) == Cardinality({i \in DOMAIN dirty.list :
                            Threat(t.pc, t.threatened, t.from, t.to, put) \in dirty.list[i]})
        Told == {[pc |-> t.pc, threatened |-> t.threatened, from |-> t.from, to |-> t.to] :
                    t \in {t \in UNION Range(dirty.list) : TypeOf(t.pc) # KING}}
        In(t, b) == IF t \in ThreatsOf(b) THEN 1 ELSE 0
        Placed(b) == {<<b[s], s>> : s \in DOMAIN b}
        off == {<<dp.pc, dp.from>>, <<dp.remove_pc, dp.remove_sq>>}
        on == {<<dp.pc, dp.to>>, <<dp.add_pc, dp.add_sq>>}
        Real(S) == {x \in S : x[2] # SQ_NONE}
    IN  dirty # NoDirty =>
        /\ (Placed(before) \ Real(off)) \cup Real(on) = Placed(Now.board)
        /\ \A t \in Told \cup ThreatsOf(before) \cup ThreatsOf(Now.board) :
              Calls(t, TRUE) - Calls(t, FALSE) = In(t, Now.board) - In(t, before)

\* fen() describes the position well enough for set to restore it: what the
\* castling rights, the rooks they name, the en passant square and the clocks
\* were, nothing of them is refused or sanitized away.  (Not within a null
\* move, which turns the side and not the ply.)
FenRestores ==
    LET Held(k) == [cr \in Top.castlingRights |-> <<k.rook[cr], k.path[cr]>>]
        Restores(again) ==
            /\ again.gamePly = gamePly /\ Held(again.castle) = Held(castle)
            /\ again.state = [Top EXCEPT !.pliesFromNull = 0, !.capturedPiece = NO_PIECE, !.repetition = 0]
    IN  (\A i \in DOMAIN game : ~game[i].null) => ~Refused(CurrentFen) /\ Restores(SetUp(CurrentFen))

\* What holds of a position after any game: the five together.
PositionIsOfGame == PosIsOk /\ BoardIsOfGame /\ StateIsRecomputed /\ DirtyIsDelta /\ FenRestores

\* see_ge decides by a null window what the exchange on the square is worth,
\* each side capturing with its least piece, or not at all, pinned pieces
\* left out while a pinner stands and the king only last.
RECURSIVE Exchange(_, _, _, _)
Exchange(to, occupied, c, victim) ==
    LET all == AttackersTo(board, to, occupied) \cap occupied
        pinned == IF Top.info.pinners[Them(c)] \cap occupied # {} THEN Top.info.blockers[c] ELSE {}
        mine == {s \in all : ColorOf(board[s]) = c} \ pinned
        least == Least({TypeOf(board[s]) : s \in mine})
        with == Least({s \in mine : TypeOf(board[s]) = least})
        gain == victim - Exchange(to, occupied \ {with}, Them(c), PieceValue(least))
    IN  IF mine = {} \/ (least = KING /\ \E s \in all : ColorOf(board[s]) # c) THEN 0
        ELSE IF gain > 0 THEN gain ELSE 0
SeeIsExchange ==
    \A m \in {m \in LegalNow : m.kind = "NORMAL"} :
        LET occupied == Xor((DOMAIN board) \ {m.from}, {m.to})
            value == PieceValue(On(board, m.to))
                       - Exchange(m.to, occupied, Them(Us), PieceValue(board[m.from]))
        IN  SeeGe(m, value) /\ ~SeeGe(m, value + 1)

=============================================================================
