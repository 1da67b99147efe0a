---------------------------- MODULE MovePicker -----------------------------
(***************************************************************************)
(* The MovePicker of src/src/movepick.cpp over a Position: one array of    *)
(* scored moves and five pointers into it, driven stage by stage from one  *)
(* next_move to the next, with the search free to ask that quiet moves be  *)
(* skipped at any time in between.  What the history tables hold is given  *)
(* by History; what the code adds to it is computed.                       *)
(***************************************************************************)
EXTENDS Position

CONSTANTS
    Scorings,        \* contents of the history tables
    History(_, _),   \* what they give a move
    Depths,          \* of the nodes that pick, those of qsearch not positive
    Thresholds,      \* of ProbCut
    PickDepth        \* moves on the board when a picker is opened, at most

VARIABLE picker      \* the MovePicker, or Idle

Idle == [stage |-> "idle"]
AttacksBy(c, pt) ==
    UNION {PieceAttacks(MakePiece(c, pt), s, DOMAIN board) : s \in Of(board, c, {pt})}

Capture(m) == (m.to \in DOMAIN board /\ m.kind # "CASTLING") \/ m.kind = "EN_PASSANT"
CaptureStage(m) == Capture(m) \/ m.promo = QUEEN

(***************************************************************************)
(* score.                                                                  *)
(***************************************************************************)
\* threatByLesser: the squares where a lesser piece attacks one of type pt.
ThreatByLesser(pt) ==
    UNION {AttacksBy(Them(Us), lesser) :
           lesser \in CASE pt \in {KNIGHT, BISHOP} -> {PAWN}
                       [] pt = ROOK -> {PAWN, KNIGHT, BISHOP}
                       [] pt = QUEEN -> {PAWN, KNIGHT, BISHOP, ROOK}
                       [] OTHER -> {}}

One(claim) == IF claim THEN 1 ELSE 0
\* From a square of the set, and not to another of it.
Flight(m, threatened) == One(m.from \in threatened) - One(m.to \in threatened)
QuietScore(h, m) ==
    LET pt == TypeOf(board[m.from])
    IN  History(h, m) + 16384 * One(m.to \in Top.info.checkSquares[pt] /\ SeeGe(m, 0 - 75))
          + PieceValue(pt) * 20 * Flight(m, ThreatByLesser(pt))

Score(h, type, m) ==
    LET victim == PieceValue(On(board, m.to))
    IN  CASE type = "CAPTURES" -> History(h, m) + 7 * victim
          [] type = "QUIETS" -> QuietScore(h, m)
          [] type = "EVASIONS" ->
                IF CaptureStage(m) THEN victim + 268435456 ELSE History(h, m)

\* The generated moves in the order of their squares, scored.
Ordered(S) ==
    LET Before(m) == Cardinality({n \in S :
                        \/ n.from < m.from \/ (n.from = m.from /\ n.to < m.to)
                        \/ n.from = m.from /\ n.to = m.to /\ n.promo < m.promo})
    IN  [i \in 1 .. Cardinality(S) |-> CHOOSE m \in S : Before(m) = i - 1]
Scored(h, type, moves) ==
    [i \in DOMAIN moves |-> [move |-> moves[i], value |-> Score(h, type, moves[i])]]

\* partial_insertion_sort of list from its place begin on.
Insert(x, p, begin, limit) ==
    LET tmp == x.list[p]
        last == x.sortedEnd + 1
        opened == [x.list EXCEPT ![p] = x.list[last]]
        q == Least({q \in begin .. last : \A i \in q .. (last - 1) : opened[i].value < tmp.value})
    IN  IF tmp.value < limit THEN x
        ELSE [list |-> [i \in DOMAIN opened |->
                          IF i = q THEN tmp
                          ELSE IF i \in (q + 1) .. last THEN opened[i - 1] ELSE opened[i]],
              sortedEnd |-> last]
PartialInsertionSort(list, begin, limit) ==
    FoldLeft(LAMBDA x, p : Insert(x, p, begin, limit), [list |-> list, sortedEnd |-> begin],
             [i \in 1 .. (Len(list) - begin) |-> begin + i]).list

\* numeric_limits<int>::min(), or as low as makes no difference.
Lowest == 0 - 2147483647

(***************************************************************************)
(* The constructors.                                                       *)
(***************************************************************************)
Opened(kind, stage, tt, h, depth, threshold) ==
    [kind |-> kind, stage |-> stage, ttMove |-> tt, history |-> h, depth |-> depth,
     threshold |-> threshold, list |-> <<>>, cur |-> 1, endCur |-> 1, endBadCaptures |-> 1,
     endCaptures |-> 1, endGenerated |-> 1, skipQuiets |-> FALSE, found |-> FALSE, out |-> <<>>]

NewPicker(tt, h, depth) ==
    LET useTT == tt # NoMove /\ PseudoLegal(tt)
        kind == IF Top.checkersBB # {} THEN "evasion" ELSE IF depth > 0 THEN "main" ELSE "qsearch"
        first == CASE kind = "evasion" -> "EVASION_INIT" [] OTHER -> "CAPTURE_INIT"
    IN  Opened(kind, IF useTT THEN "TT" ELSE first, tt, h, depth, 0)

NewProbCutPicker(tt, h, threshold) ==
    Opened("probcut", IF tt # NoMove /\ CaptureStage(tt) /\ PseudoLegal(tt) THEN "TT" ELSE "CAPTURE_INIT",
           tt, h, 0, threshold)

(***************************************************************************)
(* select and next_move: a picker that finds its move appends it to out,   *)
(* one that has none left is at stage "none".                              *)
(***************************************************************************)
Stages(kind) ==
    CASE kind = "main" -> <<"TT", "CAPTURE_INIT", "GOOD_CAPTURE", "QUIET_INIT", "GOOD_QUIET",
                            "BAD_CAPTURE", "BAD_QUIET", "none">>
      [] kind = "evasion" -> <<"TT", "EVASION_INIT", "EVASION", "none">>
      [] kind = "qsearch" -> <<"TT", "CAPTURE_INIT", "QCAPTURE", "none">>
      [] kind = "probcut" -> <<"TT", "CAPTURE_INIT", "PROBCUT", "none">>

\* ++stage, with the pointers set before the two loops over what was put off.
Leave(p) ==
    LET stages == Stages(p.kind)
        next == stages[1 + CHOOSE i \in DOMAIN stages : stages[i] = p.stage]
    IN  [p EXCEPT !.stage = next,
                  !.cur = CASE next = "BAD_CAPTURE" -> 1 [] next = "BAD_QUIET" -> p.endCaptures
                            [] OTHER -> @,
                  !.endCur = CASE next = "BAD_CAPTURE" -> p.endBadCaptures
                               [] next = "BAD_QUIET" -> p.endGenerated [] OTHER -> @]

\* The stages that generate, score and sort, behind the moves already there.
Fills == [CAPTURE_INIT |-> "CAPTURES", QUIET_INIT |-> "QUIETS", EVASION_INIT |-> "EVASIONS"]
Filled(p, list) ==
    [p EXCEPT !.list = list, !.endCur = Len(list) + 1,
              !.endCaptures = IF p.stage = "CAPTURE_INIT" THEN Len(list) + 1 ELSE @,
              !.endGenerated = IF p.stage = "CAPTURE_INIT" THEN @ ELSE Len(list) + 1]
Fill(p) ==
    LET type == Fills[p.stage]
    IN  Filled(p, PartialInsertionSort(
            SubSeq(p.list, 1, p.cur - 1) \o Scored(p.history, type, Ordered(Generated(type))),
            p.cur, IF p.stage = "QUIET_INIT" THEN 0 - 3560 * p.depth ELSE Lowest))

\* C++ division is towards zero.
Quotient(n, d) == IF n < 0 THEN 0 - ((0 - n) \div d) ELSE n \div d
GoodQuietThreshold == 0 - 14000
\* The filters, of the move at cur.
Passes(p, x) ==
    CASE p.stage \in {"GOOD_CAPTURE", "PROBCUT"} ->
            SeeGe(x.move, IF p.stage = "PROBCUT" THEN p.threshold ELSE 0 - Quotient(x.value, 18))
      [] p.stage = "GOOD_QUIET" -> x.value > GoodQuietThreshold
      [] p.stage = "BAD_QUIET" -> x.value <= GoodQuietThreshold
      [] OTHER -> TRUE

\* As PutOff, with the bad capture copied to the front, not exchanged.
PutOffCopied(p) ==
    IF p.stage # "GOOD_CAPTURE" THEN p
    ELSE [p EXCEPT !.list = [@ EXCEPT ![p.cur] = p.list[p.endBadCaptures]],
                   !.endBadCaptures = @ + 1]
\* A losing capture changes place with the first that is not known to lose.
PutOff(p) ==
    IF p.stage # "GOOD_CAPTURE" THEN p
    ELSE [p EXCEPT !.list = [@ EXCEPT ![p.endBadCaptures] = p.list[p.cur],
                                      ![p.cur] = p.list[p.endBadCaptures]],
                   !.endBadCaptures = @ + 1]

Emit(p, m) == [p EXCEPT !.out = Append(@, m), !.found = TRUE]
Look(p) ==
    IF p.found THEN p
    ELSE [(IF p.list[p.cur].move = p.ttMove THEN p
           ELSE IF Passes(p, p.list[p.cur]) THEN Emit(p, p.list[p.cur].move)
           ELSE PutOff(p)) EXCEPT !.cur = @ + 1]
Select(p) == FoldLeft(LAMBDA x, i : Look(x), p, [i \in 1 .. (p.endCur - p.cur) |-> i])

Onward(p) == IF p.found THEN p ELSE Leave(p)
\* One stage of next_move, which falls through to the next if it finds none.
Stage(p) ==
    CASE p.found \/ p.stage = "none" -> p
      [] p.stage = "TT" -> Emit(Leave(p), p.ttMove)
      [] p.skipQuiets /\ p.stage \in {"QUIET_INIT", "GOOD_QUIET", "BAD_QUIET"} -> Leave(p)
      [] p.stage \in DOMAIN Fills -> Leave(Fill(p))
      [] OTHER -> Onward(Select(p))
NextMove(p) == FoldLeft(LAMBDA x, i : Stage(x), [p EXCEPT !.found = FALSE], <<1, 2, 3, 4, 5, 6>>)

(***************************************************************************)
(* A search that picks moves where the position allows it.  The moves it   *)
(* does and undoes while it picks leave the position as it was, as         *)
(* BoardIsOfGame and StateIsRecomputed show, so none is made meanwhile.    *)
(***************************************************************************)
\* What the transposition table may suggest: a move of this position, a move
\* of another one, or none.
Suggestions == Tried \cup {NoMove, Mv("NORMAL", 0, 63, 0), Mv("PROMOTION", 50, 58, QUEEN)}

Open ==
    /\ picker = Idle /\ fen.picks /\ Len(game) <= PickDepth + 1
    /\ \E tt \in Suggestions, h \in Scorings :
          \/ \E depth \in Depths : picker' = NewPicker(tt, h, depth)
          \/ /\ Top.checkersBB = {}
             /\ \E th \in Thresholds : picker' = NewProbCutPicker(tt, h, th)
    /\ UNCHANGED posVars

Pick ==
    /\ picker # Idle /\ picker.stage # "none"
    /\ picker' = NextMove(picker)
    /\ UNCHANGED posVars

\* The main search asks for it, in or out of check.
SkipQuietMoves ==
    /\ picker # Idle /\ picker.kind \in {"main", "evasion"} /\ picker.stage # "none" /\ ~picker.skipQuiets
    /\ picker' = [picker EXCEPT !.skipQuiets = TRUE]
    /\ UNCHANGED posVars

Close ==
    /\ picker # Idle
    /\ picker' = Idle
    /\ UNCHANGED posVars

Play == picker = Idle /\ Next /\ UNCHANGED picker

PickInit == Init /\ picker = Idle
PickNext == Play \/ Open \/ Pick \/ SkipQuietMoves \/ Close

(***************************************************************************)
(* Properties.                                                             *)
(***************************************************************************)
\* capture_stage must agree with the generator of captures "to avoid the
\* generation of duplicate moves" (position.h): no pseudo-legal move is picked
\* twice, the suggested one not a second time after it was picked first,
\* wherever it lies in the array when bad captures are swapped to its front.
PickedOnce ==
    picker # Idle /\ picker.stage = "none" =>
        /\ \A i, j \in DOMAIN picker.out : i < j => picker.out[i] # picker.out[j]
        /\ Range(picker.out) \subseteq Generate

\* When none is left every move has been picked that the stage promises: all
\* of them, or all but quiets that were to be skipped; the captures and queen
\* promotions in qsearch; those above the threshold in ProbCut.
PickedAll ==
    picker # Idle /\ picker.stage = "none" =>
        LET tt == IF PseudoLegal(picker.ttMove) THEN {picker.ttMove} ELSE {}
            captures == {m \in Generate : CaptureStage(m)}
            promised == CASE picker.kind = "probcut" ->
                                  {m \in captures : SeeGe(m, picker.threshold)}
                          [] picker.kind = "qsearch" -> captures
                          [] picker.kind = "main" /\ picker.skipQuiets -> captures
                          [] OTHER -> Generate
        IN  /\ promised \subseteq Range(picker.out)
            /\ ~picker.skipQuiets => Range(picker.out) \subseteq promised \cup tt

\* The order the search's pruning relies on: after the suggestion, captures
\* that do not lose, then good quiets, then losing captures, then the other
\* quiets; and captures, and quiets worth sorting, from the best down.
Class(m, value) ==
    IF CaptureStage(m) THEN IF SeeGe(m, 0 - Quotient(value, 18)) THEN 1 ELSE 3
    ELSE IF value > GoodQuietThreshold THEN 2 ELSE 4
InOrder(p, worth, class) ==
    \A i, j \in DOMAIN p.out :
        i < j /\ p.out[i] # p.ttMove =>
            \/ class[i] < class[j]
            \/ class[i] = class[j] /\ worth[i] >= worth[j]
            \/ class[i] = class[j] /\ class[j] \in {2, 4} /\ worth[j] < 0 - 3560 * p.depth
Worth(p) ==
    [i \in DOMAIN p.out |-> Score(p.history, IF CaptureStage(p.out[i]) THEN "CAPTURES" ELSE "QUIETS", p.out[i])]
PickedInOrder ==
    picker # Idle /\ picker.stage = "none" /\ picker.kind = "main" =>
        InOrder(picker, Worth(picker), [i \in DOMAIN picker.out |-> Class(picker.out[i], Worth(picker)[i])])

\* What next_move promises the search: the three together.
PickedAsPromised == PickedOnce /\ PickedAll /\ PickedInOrder
=============================================================================
