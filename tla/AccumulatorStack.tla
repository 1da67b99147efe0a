-------------------------- MODULE AccumulatorStack --------------------------
(***************************************************************************)
(* The incrementally updated first layer of the networks:                  *)
(* AccumulatorStack and AccumulatorCaches of src/src/nnue/, with the       *)
(* feature sets HalfKAv2_hm and FullThreats, over the moves a Worker does  *)
(* and undoes on a Position.  Search pushes an entry for every move, none  *)
(* for a null move, and evaluates some of the positions only: an entry     *)
(* stays uncomputed until one above or below it is needed.                 *)
(*                                                                         *)
(* A row of weights is the feature that selects it, so an accumulation is  *)
(* a bag of features, in which a count may go wrong both ways.             *)
(***************************************************************************)
EXTENDS Position

CONSTANTS MaxSearches, \* searches in a row, on one worker
          MaxEvaluations, \* in all of them
          MaxPops,
          MaxEntries,  \* entries of the stack that are looked at
          None         \* an accumulation that is not computed: nobody reads it

VARIABLES stack,       \* psq_accumulators and threat_accumulators, as one array
          size,
          caches,      \* refreshTable
          searches,
          evaluations, \* how many there were
          pops

accVars == <<stack, size, caches, searches, evaluations, pops>>
vars == <<fen, board, sideToMove, gamePly, castle, st, dirty, game, stack, size, caches, searches,
          evaluations, pops>>

Nets == {"big", "small"}

(***************************************************************************)
(* Bags of features.                                                       *)
(***************************************************************************)
Bias == [f \in {} |-> 0]
Of1(bag, f) == IF f \in DOMAIN bag THEN bag[f] ELSE 0
\* bag, once more each of the sequence added, once less each of removed.
Applied(bag, added, removed) ==
    LET Times(seq, f) == Cardinality({i \in DOMAIN seq : seq[i] = f})
        new == [f \in DOMAIN bag \cup Range(added) \cup Range(removed) |->
                  Of1(bag, f) + Times(added, f) - Times(removed, f)]
    IN  [f \in {f \in DOMAIN new : new[f] # 0} |-> new[f]]
BagOf(S) == [f \in S |-> 1]

(***************************************************************************)
(* HalfKAv2_hm: a piece on a square, by the bucket of the own king, the    *)
(* board turned to the perspective and mirrored to the king's half.        *)
(***************************************************************************)
Oriented(s, c, mirrored) ==
    LET turned == RelativeSquare(c, s)
    IN  IF mirrored THEN turned - File(turned) + (7 - File(turned)) ELSE turned
KingBucket(c, ksq) == <<7 - RelativeRank(c, ksq), Smaller(File(ksq), 7 - File(ksq))>>
PieceSquareIndex(c, pc) ==
    IF TypeOf(pc) = KING THEN <<KING, TRUE>> ELSE <<TypeOf(pc), ColorOf(pc) = c>>
HalfKA(c, s, pc, ksq) ==
    <<Oriented(s, c, File(ksq) < 4), PieceSquareIndex(c, pc), KingBucket(c, ksq)>>
ActivePieces(b, c) == {HalfKA(c, s, b[s], KingSquare(b, c)) : s \in DOMAIN b}

\* append_changed_indices of a DirtyPiece: the added and the removed.
PieceAdded(c, ksq, dp) ==
    (IF dp.to = SQ_NONE THEN <<>> ELSE <<HalfKA(c, dp.to, dp.pc, ksq)>>)
      \o (IF dp.add_sq = SQ_NONE THEN <<>> ELSE <<HalfKA(c, dp.add_sq, dp.add_pc, ksq)>>)
PieceRemoved(c, ksq, dp) ==
    <<HalfKA(c, dp.from, dp.pc, ksq)>>
      \o (IF dp.remove_sq = SQ_NONE THEN <<>> ELSE <<HalfKA(c, dp.remove_sq, dp.remove_pc, ksq)>>)
KingMoved(dp, c) == dp.pc = MakePiece(c, KING)

(***************************************************************************)
(* FullThreats: a piece attacking another, neither a king, some pairs left *)
(* out and those of one type taken once.                                   *)
(***************************************************************************)
Unmapped == {<<PAWN, BISHOP>>, <<PAWN, QUEEN>>, <<BISHOP, QUEEN>>, <<ROOK, QUEEN>>}
\* The index of a threat, if it has one: none, or one.
Threats1(c, t, ksq) ==
    LET mirrored == File(ksq) >= 4
        from == Oriented(t.from, c, mirrored)
        to == Oriented(t.to, c, mirrored)
        pair == <<TypeOf(t.pc), TypeOf(t.threatened)>>
        enemy == ColorOf(t.pc) # ColorOf(t.threatened)
        semi_excluded == pair[1] = pair[2] /\ (enemy \/ pair[1] # PAWN)
    IN  IF KING \in {pair[1], pair[2]} \/ pair \in Unmapped \/ (semi_excluded /\ from < to) THEN <<>>
        ELSE <<<<pair, ColorOf(t.pc) = c, ColorOf(t.threatened) = c, from, to>>>>

ThreatsOn(b) ==
    UNION {{[pc |-> b[a], threatened |-> b[t], from |-> a, to |-> t] :
              t \in PieceAttacks(b[a], a, DOMAIN b) \cap DOMAIN b}
           : a \in {a \in DOMAIN b : TypeOf(b[a]) # KING}}
ActiveThreats(b, c) ==
    UNION {Range(Threats1(c, t, KingSquare(b, c))) : t \in ThreatsOn(b)}

\* append_changed_indices of the DirtyThreats of one move, or of two moves
\* fused: what concerns the piece that the second one removes is left out,
\* as far as the first one has brought it.
NotFused == [square |-> SQ_NONE, origin |-> {}, target |-> {}, first |-> FALSE,
             added |-> <<>>, removed |-> <<>>]
AppendThreat(c, ksq, x, t) ==
    LET leaving == x.square # SQ_NONE /\ t.from = x.square
        arriving == x.square # SQ_NONE /\ t.to = x.square
    IN  IF leaving /\ t.put /\ x.first THEN [x EXCEPT !.origin = @ \cup {t.to}]
        ELSE IF leaving /\ ~t.put /\ t.to \in x.origin THEN x
        ELSE IF arriving /\ t.put /\ x.first THEN [x EXCEPT !.target = @ \cup {t.from}]
        ELSE IF arriving /\ ~t.put /\ t.from \in x.target THEN x
        ELSE IF t.put THEN [x EXCEPT !.added = @ \o Threats1(c, t, ksq)]
        ELSE [x EXCEPT !.removed = @ \o Threats1(c, t, ksq)]
AppendThreats(c, ksq, x, dts) ==
    LET InCall(y, call) == FoldSet(LAMBDA t, z : AppendThreat(c, ksq, z, t), y, call)
    IN  FoldLeft(InCall, x, dts.list)
\* As HalfChanged, of the king's new square alone.
HalfOfKing(dts, c) == dts.us = c /\ File(dts.ksq) >= 4
HalfChanged(dts, c) == dts.us = c /\ (File(dts.ksq) >= 4) # (File(dts.prevKsq) >= 4)

(***************************************************************************)
(* The stack.                                                              *)
(***************************************************************************)
Uncomputed == [c \in Colors |-> None]
Entry(dp, dts) == [dp |-> dp, dts |-> dts, big |-> Uncomputed, small |-> Uncomputed,
                   threats |-> Uncomputed]
FirstEntry == Entry(<<>>, <<>>)

\* A set of accumulators is named by the net, for the pieces, or "threats".
RequiresRefresh(acc, entry, c) ==
    IF acc = "threats" THEN HalfChanged(entry.dts, c) ELSE KingMoved(entry.dp, c)

\* find_last_usable_accumulator.
LastUsable(acc, c) ==
    LET usable == {i \in 2 .. size : stack[i][acc][c] # None \/ RequiresRefresh(acc, stack[i], c)}
    IN  IF usable = {} THEN 1 ELSE CHOOSE i \in usable : \A j \in usable : j <= i

\* As FusedAt, with any two moves of which the second takes a piece.
FusedAlways(acc, s, i) == i < size /\ s[i + 1].dp.remove_sq # SQ_NONE
\* Of the forward step from entry i - 1: are the moves of entries i and i + 1
\* taken together?
FusedAt(acc, s, i) ==
    /\ i < size
    /\ LET remove_sq == s[i + 1].dp.remove_sq
       IN  /\ remove_sq # SQ_NONE
           /\ IF acc = "threats" THEN remove_sq \in s[i].dts.threateningSqs
              ELSE s[i].dp.to = remove_sq

\* double_inc_update, of pieces: the captured piece does not come and go.
FusedPieces(bag, c, ksq, dp1, dp2) ==
    LET first == [dp1 EXCEPT !.to = SQ_NONE]
        second == [dp2 EXCEPT !.remove_sq = SQ_NONE]
        added == PieceAdded(c, ksq, first) \o PieceAdded(c, ksq, second)
        removed == PieceRemoved(c, ksq, first) \o PieceRemoved(c, ksq, second)
    IN  IF Len(added) = 1 /\ Len(removed) \in {2, 3} THEN Applied(bag, added, removed)
        ELSE [f \in {<<"undefined">>} |-> 1]   \* sf_assume

\* double_inc_update, of threats.
FusedThreats(bag, c, ksq, dts1, dts2, remove_sq) ==
    LET x == AppendThreats(c, ksq, [NotFused EXCEPT !.square = remove_sq, !.first = TRUE], dts1)
        y == AppendThreats(c, ksq, [x EXCEPT !.first = FALSE], dts2)
    IN  Applied(bag, y.added, y.removed)

Fused(acc, s, i, c, ksq) ==
    LET bag == s[i - 1][acc][c]
    IN  IF acc = "threats"
        THEN FusedThreats(bag, c, ksq, s[i].dts, s[i + 1].dts, s[i + 1].dp.remove_sq)
        ELSE FusedPieces(bag, c, ksq, s[i].dp, s[i + 1].dp)

\* update_accumulator_incremental, to one side or the other of a move.
Changes(acc, entry, c, ksq) ==
    IF acc = "threats"
    THEN LET x == AppendThreats(c, ksq, NotFused, entry.dts) IN <<x.added, x.removed>>
    ELSE <<PieceAdded(c, ksq, entry.dp), PieceRemoved(c, ksq, entry.dp)>>
Incremented(acc, s, i, c, ksq) ==
    LET d == Changes(acc, s[i], c, ksq) IN Applied(s[i - 1][acc][c], d[1], d[2])
Decremented(acc, s, i, c, ksq) ==
    LET d == Changes(acc, s[i + 1], c, ksq) IN Applied(s[i + 1][acc][c], d[2], d[1])

\* forward_update_incremental: x is the stack and the entry to go on with.
Forward(acc, s, begin, c) ==
    LET ksq == KingSquare(board, c)
        Step(x, i) ==
            IF i # x.next THEN x
            ELSE IF FusedAt(acc, x.s, i)
            THEN [s |-> [x.s EXCEPT ![i + 1][acc][c] = Fused(acc, x.s, i, c, ksq)], next |-> i + 2]
            ELSE [s |-> [x.s EXCEPT ![i][acc][c] = Incremented(acc, x.s, i, c, ksq)], next |-> i + 1]
    IN  FoldLeft(Step, [s |-> s, next |-> begin + 1],
                 [k \in 1 .. (size - begin) |-> begin + k]).s

\* backward_update_incremental.
Backward(acc, s, end, c) ==
    LET ksq == KingSquare(board, c)
        Step(t, i) == [t EXCEPT ![i][acc][c] = Decremented(acc, t, i, c, ksq)]
    IN  FoldLeft(Step, s, [k \in 1 .. (size - end) |-> size - k])

(***************************************************************************)
(* The caches: for each king square and perspective the pieces last        *)
(* refreshed with, and their accumulation.                                 *)
(***************************************************************************)
Cleared == [pieces |-> [s \in {} |-> NO_PIECE], acc |-> Bias]
ClearCaches == [net \in Nets |-> [key \in {} |-> Cleared]]
CacheEntry(net, c) ==
    LET key == <<KingSquare(board, c), c>>
    IN  IF key \in DOMAIN caches[net] THEN caches[net][key] ELSE Cleared

\* update_accumulator_refresh_cache.
Refreshed(net, c) ==
    LET entry == CacheEntry(net, c)
        ksq == KingSquare(board, c)
        Indices(S, b) == FoldSet(LAMBDA s, list : Append(list, HalfKA(c, s, b[s], ksq)), <<>>, S)
        changed == {s \in DOMAIN entry.pieces \cup DOMAIN board : On(entry.pieces, s) # On(board, s)}
    IN  [pieces |-> board,
         acc |-> Applied(entry.acc, Indices(changed \cap DOMAIN board, board),
                         Indices(changed \cap DOMAIN entry.pieces, entry.pieces))]

\* evaluate_side.
RefreshedEntry(acc, c) ==
    IF acc = "threats" THEN BagOf(ActiveThreats(board, c)) ELSE Refreshed(acc, c).acc
EvaluatedSide(s, acc, c) ==
    LET last == LastUsable(acc, c)
    IN  IF s[last][acc][c] # None THEN Forward(acc, s, last, c)
        ELSE Backward(acc, [s EXCEPT ![size][acc][c] = RefreshedEntry(acc, c)], last, c)

\* The cache of the net is touched when its accumulators are refreshed.
Touched(net) ==
    LET refreshing == {c \in Colors : stack[LastUsable(net, c)][net][c] = None}
        new == [key \in {<<KingSquare(board, c), c>> : c \in refreshing} |-> Refreshed(net, key[2])]
    IN  [key \in DOMAIN caches[net] \cup DOMAIN new |->
           IF key \in DOMAIN new THEN new[key] ELSE caches[net][key]]

\* AccumulatorStack::evaluate of the nets used: side by side, the small net
\* first, of the big one the pieces and the threats.
Sides(used) ==
    (IF "small" \in used THEN <<<<"small", WHITE>>, <<"small", BLACK>>>> ELSE <<>>)
      \o (IF "big" \in used THEN <<<<"big", WHITE>>, <<"threats", WHITE>>, <<"big", BLACK>>,
                                    <<"threats", BLACK>>>> ELSE <<>>)
Evaluated(used) == FoldLeft(LAMBDA s, side : EvaluatedSide(s, side[1], side[2]), stack, Sides(used))

(***************************************************************************)
(* What a Worker does.                                                     *)
(***************************************************************************)
\* Eval::use_smallnet.
SimpleEval ==
    PieceValue(PAWN) * (Count(board, MakePiece(Us, PAWN)) - Count(board, MakePiece(Them(Us), PAWN)))
      + NonPawnMaterial(board, Us) - NonPawnMaterial(board, Them(Us))
UseSmallNet == Abs(SimpleEval) > 962

\* Eval::evaluate: never in check; the small net alone, both or the big net.
Evaluate ==
    /\ Top.checkersBB = {} /\ evaluations < MaxEvaluations
    /\ \E used \in IF UseSmallNet THEN {{"small"}, Nets} ELSE {{"big"}} :
          /\ stack' = Evaluated(used)
          /\ caches' = [net \in Nets |-> IF net \in used THEN Touched(net) ELSE caches[net]]
    /\ evaluations' = evaluations + 1
    /\ UNCHANGED <<posVars, size, searches, pops>>

\* What do_move has written into the entry that push makes for it.
Pushed ==
    Entry(dirty'.dp,
          [list |-> dirty'.list, us |-> Us, prevKsq |-> KingSquare(board, Us),
           ksq |-> KingSquare(board', Us),
           threateningSqs |-> {t.from : t \in {t \in UNION Range(dirty'.list) : t.put}}])

Push ==
    /\ size < MaxEntries
    /\ stack' = [stack EXCEPT ![size + 1] = Pushed]
    /\ size' = size + 1
    /\ UNCHANGED <<caches, searches, evaluations, pops>>
DoPush == \E m \in Tried : DoMove(m) /\ Push

Pop ==
    /\ pops < MaxPops /\ pops' = pops + 1
    /\ UndoMove /\ size' = size - 1
    /\ UNCHANGED <<stack, caches, searches, evaluations>>

DoNull == Null /\ UNCHANGED accVars
UndoNull == UndoNullMove /\ UNCHANGED accVars

\* Position::set on a used object, and the accumulatorStack.reset() of
\* start_searching; the caches are cleared by ucinewgame only.
Search ==
    /\ Len(game) = 1 /\ searches < MaxSearches
    /\ \E f \in {f \in Fens : ~Refused(f)} :
          /\ f.search = searches + 1
          /\ fen' = f /\ board' = f.board /\ sideToMove' = f.side
          /\ \E set \in {SetUp(f)} :
                gamePly' = set.gamePly /\ castle' = set.castle /\ st' = <<set.state>>
          /\ game' = <<FirstOfGame(f)>>
    /\ dirty' = NoDirty
    /\ stack' = [stack EXCEPT ![1] = FirstEntry] /\ size' = 1
    /\ searches' = searches + 1
    /\ caches' \in {caches, ClearCaches} /\ UNCHANGED <<evaluations, pops>>

StackInit ==
    /\ stack = [i \in 1 .. MaxEntries |-> FirstEntry] /\ size = 1
    /\ caches = ClearCaches /\ evaluations = 0 /\ pops = 0

AccNext == DoPush \/ Pop \/ DoNull \/ UndoNull \/ Evaluate \/ Search

(***************************************************************************)
(* Properties.                                                             *)
(***************************************************************************)
\* The board of an entry: null moves leave it alone.
BoardsOfStack == SelectSeq(game, LAMBDA g : ~g.null)
BoardOf(i) == BoardsOfStack[i].board

\* A cache entry is the accumulation of the pieces it remembers, for its king
\* square, through all the searches since the last clear.
CachesHoldTheirPieces ==
    \A net \in Nets : \A key \in DOMAIN caches[net] :
        LET entry == caches[net][key]
        IN  entry.acc = BagOf({HalfKA(key[2], s, entry.pieces[s], key[1]) : s \in DOMAIN entry.pieces})

\* An accumulator of the pieces that is marked computed holds exactly the
\* features of the board its entry stands for, seen from its own king, and
\* so do the caches: whichever entries were evaluated, skipped by a fused
\* update, refreshed or reached backwards, before or after undoes and null
\* moves (forward_ and backward_update_incremental, double_inc_update).
PiecesFollowBoard ==
    /\ size > 1 => size = Len(BoardsOfStack)
    /\ CachesHoldTheirPieces
    /\ \A i \in 1 .. size, net \in Nets, c \in Colors :
          stack[i][net][c] # None => stack[i][net][c] = BagOf(ActivePieces(BoardOf(i), c))

\* So does an accumulator of the threats, but after a promotion that captures
\* what a fused update leaves out.
CapturingPromotion(i) ==
    /\ i > 2 /\ stack[i].dp.to = SQ_NONE
    /\ stack[i].dp.remove_sq \in stack[i - 1].dts.threateningSqs
ThreatsFollowBoard ==
    \A i \in 1 .. size, c \in Colors :
        stack[i].threats[c] # None =>
            \/ stack[i].threats[c] = BagOf(ActiveThreats(BoardOf(i), c))
            \/ \E j \in 1 .. i : CapturingPromotion(j)

\* Without the exception, which the code does not make: the changed indices
\* of an update are "indices for recently changed features".
ThreatsAreOfBoard ==
    \A i \in 1 .. size, c \in Colors :
        stack[i].threats[c] # None => stack[i].threats[c] = BagOf(ActiveThreats(BoardOf(i), c))

=============================================================================
