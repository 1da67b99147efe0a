----------------------------- MODULE MCWorker -----------------------------
(***************************************************************************)
(* Position, MovePicker and AccumulatorStack for TLC, over set-ups where   *)
(* castling, en passant, promotion, checks, repetitions and exchanges      *)
(* meet.  A game stays within the zone of squares of its fen, to its       *)
(* depth, with null moves where null says so.  A MovePicker only reads the *)
(* Position, an AccumulatorStack only what do_move writes for it: each is  *)
(* followed in the games that are made for it.                             *)
(***************************************************************************)
EXTENDS MovePicker, AccumulatorStack

\* A board from the squares of each piece.
Sq(name) == 8 * ((name % 10) - 1) + (name \div 10) - 1   \* 51 is e1, 18 is a8
Squared(names) == {Sq(n) : n \in names}
\* lists: PAWN to KING of White, then of Black, as sets of squares.
Placed2(lists) ==
    LET Holds(s) == {i \in DOMAIN lists : s \in Squared(lists[i])}
        at == {s \in Squares : Holds(s) # {}}
    IN  [s \in at |-> LET i == CHOOSE i \in Holds(s) : TRUE
                      IN  MakePiece((i - 1) \div 6, ((i - 1) % 6) + 1)]
Letter(c, l) == [color |-> c, letter |-> l, file |-> 0]
OfFile(c, f) == [color |-> c, letter |-> "file", file |-> f]
Fen(lists, side, claims, ep, rule50, chess960, zone, depth, null) ==
    [board |-> Placed2(lists), side |-> side, claims |-> claims,
     ep |-> IF ep = 0 THEN SQ_NONE ELSE Sq(ep), rule50 |-> rule50, fullmove |-> 30,
     chess960 |-> chess960, zone |-> Squared(zone), depth |-> depth, null |-> null,
     picks |-> FALSE, search |-> 0]

No == {}
Castling == {
  \* Both ways for both, a rook that can be taken, checks on the way.
  Fen(<<No, No, No, {11, 81}, No, {51}, No, {26}, No, {18, 88}, No, {58}>>, WHITE,
      <<Letter(WHITE, "K"), Letter(WHITE, "Q"), Letter(BLACK, "K"), Letter(BLACK, "Q")>>, 0, 3,
      FALSE, {11, 81, 51, 18, 88, 58, 26, 47, 38, 41}, 4, FALSE),
  \* Chess960: king and rook change places, a rook shields its king.
  Fen(<<No, No, No, {21, 61}, No, {31}, No, No, No, {88}, {11}, {78}>>, WHITE,
      <<OfFile(WHITE, 1), OfFile(WHITE, 5), OfFile(BLACK, 7)>>, 0, 0,
      TRUE, {21, 31, 61, 11, 12, 32, 78, 88, 41}, 4, FALSE),
  \* Chess960: the king stays, or goes through its rook; claims that cannot
  \* be: no rook there, a king in the corner, the rook on the wrong side.
  Fen(<<No, No, No, {61, 31}, No, {71}, No, {44}, No, {18, 68}, No, {88}>>, WHITE,
      <<OfFile(WHITE, 5), Letter(WHITE, "K"), OfFile(WHITE, 3), OfFile(BLACK, 0), Letter(BLACK, "Q")>>,
      0, 0, TRUE, {61, 71, 31, 32, 53, 88, 44}, 3, FALSE)}

EnPassants == {
  \* A capture that would uncover the rank.
  Fen(<<{55}, No, No, No, No, {15}, {47, 67}, No, No, {85}, No, {78}>>, BLACK,
      <<>>, 0, 0, FALSE, {47, 45, 46, 55, 67, 65, 66, 56, 15, 16, 85, 75}, 4, TRUE),
  \* Two capturers, one of them pinned, or neither, by the king's place.
  Fen(<<{55, 35, 63}, No, No, No, No, {32}, {47, 74}, No, {71}, {38}, No, {78}>>, BLACK,
      <<>>, 63, 0, FALSE, {47, 45, 46, 35, 55, 63, 73, 62, 74, 32, 42, 22, 71}, 4, TRUE),
  \* The pawn gives check as it passes, or uncovers one.
  Fen(<<{55}, No, No, No, No, {54}, {47}, No, {38}, No, No, {18}>>, BLACK,
      <<>>, 0, 0, FALSE, {47, 45, 46, 55, 54, 53, 38, 74}, 3, FALSE),
  Fen(<<{75}, No, No, No, No, {65}, {67}, No, {38}, No, {61}, {18}>>, WHITE,
      <<>>, 0, 4, FALSE, {67, 66, 55, 54, 65, 64, 46, 75, 38}, 3, FALSE),
  \* Claimed in the set-up: taking uncovers the capturer's king, or the
  \* other's; no pawn to take; a square beyond a piece.
  Fen(<<{65}, No, {83}, No, {52}, {51}, {55}, No, {38}, {53}, No, {58}>>, WHITE,
      <<>>, 56, 0, FALSE, {65, 56, 55, 54, 52, 53, 51, 41, 83}, 3, FALSE),
  Fen(<<{65}, No, No, {85}, No, {51}, {55}, No, No, No, No, {15}>>, WHITE,
      <<>>, 56, 0, FALSE, {65, 56, 55, 66, 85, 15, 16, 45}, 3, FALSE),
  Fen(<<{65}, No, No, No, {52}, {51}, {55, 45}, No, No, No, No, {58}>>, WHITE,
      <<>>, 46, 0, FALSE, {65, 46, 55, 53, 52, 51, 58}, 3, FALSE),
  Fen(<<{65}, No, No, No, No, {51}, {55}, {57}, No, No, No, {58}>>, WHITE,
      <<>>, 56, 0, FALSE, {65, 66, 56, 55, 57, 51, 58, 67}, 3, FALSE)}

Promotions == {
  \* By capture of a rook with its castling right, and under checks.
  Fen(<<{27, 77}, No, No, No, No, {71}, {22, 32}, {31}, No, {18, 88}, No, {58}>>, WHITE,
      <<Letter(BLACK, "K"), Letter(BLACK, "Q")>>, 0, 7, FALSE,
      {27, 18, 28, 77, 88, 22, 21, 31, 32, 71, 58, 48}, 3, FALSE),
  \* Onto a square that others attack and defend.
  Fen(<<{67}, No, {13}, {61}, No, {72}, {46}, {66}, No, {58}, No, {77}>>, WHITE,
      <<>>, 0, 0, FALSE, {67, 58, 68, 13, 61, 66, 77, 46}, 3, FALSE)}

Repetitions == {
  Fen(<<No, {21}, No, No, No, {11}, No, {28}, No, No, No, {18}>>, WHITE,
      <<>>, 0, 90, FALSE, {21, 33, 28, 36}, 9, FALSE),
  Fen(<<No, No, No, {81}, No, {11}, No, No, No, No, No, {18}>>, BLACK,
      <<>>, 0, 5, FALSE, {81, 82, 71, 18, 17}, 8, TRUE),
  \* Rights lost by a rook that comes back.
  Fen(<<No, No, No, {81}, No, {51}, No, No, No, No, No, {58}>>, WHITE,
      <<Letter(WHITE, "K")>>, 0, 0, FALSE, {81, 71, 58, 57}, 8, FALSE),
  \* The fifty-move limit, with mate on the last move.
  Fen(<<No, No, No, {72}, No, {36}, No, No, No, No, No, {18}>>, BLACK,
      <<>>, 0, 98, FALSE, {72, 82, 71, 78, 73, 18, 28, 17, 36, 26}, 4, FALSE)}

Exchanges == {
  \* Batteries, pins, x-rays and kings on one square.
  Fen(<<{34}, {33}, {72}, {41}, {42}, {61}, {56}, {66}, {37}, {47, 48}, No, {46}>>, BLACK,
      <<>>, 0, 0, FALSE, {45, 34, 33, 42, 41, 56, 46, 36, 66}, 2, FALSE),
  Fen(<<{34}, {33}, {72}, {41}, {42}, {61}, {56, 45}, {66}, {37}, {47, 48}, No, {78}>>, WHITE,
      <<>>, 0, 0, FALSE, {45, 34, 33, 42, 41, 72, 56, 66, 47}, 3, FALSE),
  Fen(<<{54}, {33}, {72}, {51}, {52}, {61}, {45}, {66}, {28}, No, {57}, {58}>>, BLACK,
      <<>>, 0, 0, FALSE, {45, 54, 66, 28, 55, 33, 57, 72, 51}, 2, FALSE),
  \* Double checks, blocks and discoveries.
  Fen(<<{36}, {54}, {21}, {51}, No, {71}, {43, 47}, {78}, No, No, {48}, {58}>>, WHITE,
      <<>>, 0, 0, FALSE, {54, 46, 66, 57, 48, 58, 68, 21, 43, 47, 36, 78}, 3, FALSE),
  \* Too many promoted pieces, and a king that can be taken: refused.
  Fen(<<{12, 22, 32, 42, 52, 62, 72, 82}, No, No, No, {33, 43}, {51}, No, No, No, No, No, {58}>>,
      WHITE, <<>>, 0, 0, FALSE, {51}, 1, FALSE),
  Fen(<<No, No, No, {57}, No, {51}, No, No, No, No, No, {58}>>,
      WHITE, <<>>, 0, 0, FALSE, {51}, 1, FALSE)}

\* Captures good and bad, quiets, promotions, en passant, castling, checks.
Picked == {[f EXCEPT !.picks = TRUE] : f \in {
  Fen(<<{27, 72, 82}, {11}, No, No, No, {81}, {14, 23, 73}, No, No, {18, 32}, No, {68}>>, WHITE,
      <<>>, 0, 0, FALSE, {11, 23, 32, 27, 28, 82, 83}, 1, FALSE),
  Fen(<<{65, 72, 82}, No, No, {41}, No, {71}, {55, 73}, No, No, {61}, No, {15}>>, WHITE,
      <<>>, 56, 0, FALSE, {65, 56, 41, 61, 71, 82, 73}, 1, FALSE),
  Fen(<<{65, 72}, {43}, No, No, No, {81}, {55, 73, 64}, No, No, No, No, {25}>>, WHITE,
      <<>>, 56, 0, FALSE, {65, 56, 43, 64, 55, 81, 71}, 1, FALSE)}}

\* A tie, a preference by destination and one that makes captures look bad.
MCHistory(h, m) == CASE h = "level" -> 0
                     [] h = "mixed" -> ((7 * m.to + 3 * m.from) % 5) * 9000 - 20000
                     [] h = "far" -> (m.to - m.from) * 400
MCDepths == {0, 2}
MCThresholds == {300}
\* Games whose positions are evaluated, and those of a second search.
Searched(n, fens) == {[f EXCEPT !.search = n] : f \in fens}
FirstSearches == Searched(1, {
  \* Exchanges on d5 and e4, kings that cross the middle.
  Fen(<<{54}, {33}, No, No, No, {41}, {45}, {66}, No, No, No, {58}>>, WHITE,
      <<>>, 0, 0, FALSE, {33, 45, 66, 54, 41, 51}, 2, FALSE),
  \* Sliders behind one another, null moves, the small net.
  Fen(<<No, No, {83}, {44}, {42}, {61}, {54}, No, {65}, No, No, {78}>>, WHITE,
      <<>>, 0, 0, FALSE, {83, 65, 44, 54, 64}, 2, TRUE),
  \* Castling, and a rook taken where it may castle.
  Fen(<<No, No, No, {81}, No, {51}, No, {26}, {45}, {18}, No, {58}>>, WHITE,
      <<Letter(WHITE, "K"), Letter(BLACK, "Q")>>, 0, 0, FALSE, {51, 81, 58, 18, 45, 88}, 3, FALSE),
  \* Castling where king and rook change places, after a threat to the rook.
  Fen(<<{37}, No, No, {31}, No, {21}, No, No, No, {38}, {14}, {88}>>, BLACK,
      <<OfFile(WHITE, 2)>>, 0, 0, TRUE, {21, 31, 38, 37, 14, 34}, 3, FALSE),
  \* En passant, taken back, and declined.
  Fen(<<{55}, No, No, {52}, No, {21}, {47}, No, {28}, No, No, {58}>>, BLACK,
      <<>>, 0, 0, FALSE, {47, 45, 46, 55, 28, 52}, 4, FALSE),
  \* Promotions, with and without capture; the new piece is taken.
  Fen(<<{27}, No, No, {13}, No, {71}, No, {58}, No, {38}, No, {77}>>, WHITE,
      <<>>, 0, 0, FALSE, {27, 28, 38}, 3, FALSE)})
SecondSearches == Searched(2, {
  \* The second search: other pieces, the same kings.
  Fen(<<{54}, No, {33}, No, No, {41}, {45, 74}, No, No, No, No, {58}>>, BLACK,
      <<>>, 0, 0, FALSE, {45, 54, 41, 51}, 2, FALSE),
  Fen(<<No, No, No, {44}, {42}, {61}, {54}, No, {65}, No, No, {78}>>, BLACK,
      <<>>, 0, 0, FALSE, {54, 53, 61, 51}, 2, TRUE)})
MCFens == Castling \cup EnPassants \cup Promotions \cup Repetitions \cup Exchanges \cup Picked
            \cup FirstSearches \cup SecondSearches

\* A rook that has just come to a8, defended, is taken by a promoting pawn.
MCPromotion == Searched(1, {
  Fen(<<{27}, No, {13}, No, No, {71}, No, {37}, No, {38}, No, {77}>>, BLACK,
      <<>>, 0, 0, FALSE, {27, 18, 38}, 2, FALSE)})

WorkerInit ==
    /\ PickInit
    /\ searches = fen.search /\ fen.search < 2
    /\ StackInit
WorkerNext ==
    \/ fen.search = 0 /\ PickNext /\ UNCHANGED accVars
    \/ fen.search > 0 /\ AccNext /\ UNCHANGED picker
WorkerSpec == WorkerInit /\ [][WorkerNext]_<<vars, picker>>
=============================================================================
