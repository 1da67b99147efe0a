------------------------------ MODULE Tablebases ------------------------------
(***************************************************************************)
(* Probing the endgame tablebases and ranking the root moves by them       *)
(* (syzygy/tbprobe.cpp), over small endgames.                              *)
(*                                                                         *)
(* An endgame is the positions of one material: their quiet moves, and     *)
(* their zeroing moves (captures, pawn moves, an en passant capture) with  *)
(* the value of the position each leads to, whose tables are right.  What  *)
(* the generator of the files stores is external: the truth, but anything  *)
(* where a capture is as good, nothing about en passant, and distances in  *)
(* moves rather than plies where that cannot touch the fifty moves.        *)
(***************************************************************************)
EXTENDS Integers, Sequences, FiniteSets, FiniteSetsExt, SequencesExt

CONSTANTS Games,         \* the endgames: see Endgame
          Fifty          \* 100: plies without a zeroing move that draw

Loss == 0 - 2
BlessedLoss == 0 - 1
Draw == 0
CursedWin == 1
Win == 2
MaxDtz == 20 * Fifty     \* MAX_DTZ: above twice any distance

VARIABLES
    game,        \* the endgame, with what its tables hold
    at,          \* the position on the board, or the value of the one a zeroing move made
    count,       \* rule50_count
    line,        \* positions since the last zeroing move, the last one at the end
    ranked,      \* the root moves ranked, once probed
    due          \* history: the result the engine had when it first ranked by DTZ

vars == <<game, at, count, line, ranked, due>>

SignOf(n) == IF n > 0 THEN 1 ELSE IF n < 0 THEN 0 - 1 ELSE 0

Positions(g) == DOMAIN g.quiet
Captures == {"capture", "ep"}
Legal(g, p) == Cardinality(g.quiet[p]) + Len(g.zeroing[p])
Mated(g, p) == p \in g.check /\ Legal(g, p) = 0

(* ---- the truth the tables are made from (external) --------------------- *)

\* dtz_before_zeroing: the distance a zeroing move has by the value it gives.
BeforeZeroing(wdl) ==
    CASE wdl = Win -> 1 [] wdl = CursedWin -> Fifty + 1
      [] wdl = BlessedLoss -> 0 - (Fifty + 1) [] wdl = Loss -> 0 - 1 [] OTHER -> 0

\* The tables know no en passant (ep): the zeroing moves they are made with, and
\* the distances these have.
Known(g, p, ep) == {m \in Range(g.zeroing[p]) : ep \/ m.kind # "ep"}
Zeroed(g, p, ep) == {BeforeZeroing(0 - m.v) : m \in Known(g, p, ep)}
Stuck(g, p, ep) == p \in g.check /\ g.quiet[p] = {} /\ Known(g, p, ep) = {}

\* Won in n plies is n, lost in n plies is -1 - n, neither is 0.  known: the
\* positions decided in fewer than n.
Judged(g, p, ep, known, n) ==
    LET zeroed == Zeroed(g, p, ep)
        replies == {known[q] : q \in g.quiet[p] \cap DOMAIN known}
        ways == {0 - d : d \in zeroed} \cup {d + 1 : d \in replies}
    IN  IF n \in zeroed \/ 0 - n \in replies THEN n
        ELSE IF /\ g.quiet[p] \subseteq DOMAIN known
                /\ ways # {} /\ Min(ways) > 0 /\ Max(ways) <= n
             THEN 0 - 1 - Max(ways)
        ELSE 0

Decide(g, ep, known, n) ==
    LET open == Positions(g) \ DOMAIN known
    IN  [p \in {p \in open : Judged(g, p, ep, known, n) # 0} |-> Judged(g, p, ep, known, n)] @@ known

Distances(g, ep) ==
    LET mated == [p \in {p \in Positions(g) : Stuck(g, p, ep)} |-> 0 - 1]
        known == FoldLeft(LAMBDA f, n : Decide(g, ep, f, n), mated, [n \in 1 .. (2 * Fifty + 2) |-> n])
    IN  known @@ [p \in Positions(g) |-> 0]

WdlOf(d) ==
    CASE d = 0 -> Draw
      [] d > 0 -> IF d <= Fifty THEN Win ELSE CursedWin
      [] d < 0 -> IF 0 - 1 - d <= Fifty THEN Loss ELSE BlessedLoss

Plies(d) == IF d >= 0 THEN d ELSE IF d = 0 - 1 THEN 1 ELSE 0 - 1 - d

\* What the side to move achieves with n plies left to the fifty moves.
Strictly(wdl) == IF wdl \in {Win, Loss} THEN SignOf(wdl) ELSE 0
Best(g, p, left) ==
    IF Legal(g, p) = 0 THEN left[p]
    ELSE Max({Strictly(0 - m.v) : m \in Range(g.zeroing[p])} \cup {0 - left[q] : q \in g.quiet[p]})
Results(g) ==
    FoldLeft(LAMBDA list, n : Append(list, [p \in Positions(g) |-> Best(g, p, Last(list))]),
             <<[p \in Positions(g) |-> IF Mated(g, p) THEN 0 - 1 ELSE 0]>>,
             [n \in 1 .. Fifty |-> n])

\* An endgame with its truth, that of the tables, and its tables' own choices:
\* which side the DTZ table is for, whether in plies, and whether a WDL table
\* stores losses where it need not care.
Endgame(g) == g @@ [d |-> Distances(g, TRUE), tableD |-> Distances(g, FALSE), result |-> Results(g)]

\* What the truth is, ply by ply: a win is as long as the shortest, a loss as
\* long as the longest, the mated side has lost.
Wins(g, p, ep, d) ==
    {n \in Zeroed(g, p, ep) : n > 0} \cup {0 - d[q] : q \in {q \in g.quiet[p] : d[q] < 0}}
Ways(g, p, ep, d) == {0 - n : n \in Zeroed(g, p, ep)} \cup {d[q] + 1 : q \in g.quiet[p]}
AllLose(g, p, ep, d) ==
    /\ Ways(g, p, ep, d) # {}
    /\ \A n \in Zeroed(g, p, ep) : n < 0
    /\ \A q \in g.quiet[p] : d[q] > 0
IsTruth(g, ep, d) ==
    /\ d \in [Positions(g) -> Int]
    /\ \A p \in Positions(g) :
         LET wins == Wins(g, p, ep, d)
             ways == Ways(g, p, ep, d)
         IN  \/ d[p] \in wins /\ \A n \in wins : d[p] <= n
             \/ Stuck(g, p, ep) /\ d[p] = 0 - 1
             \/ AllLose(g, p, ep, d) /\ 0 - 1 - d[p] \in ways /\ \A n \in ways : n <= 0 - 1 - d[p]
             \/ wins = {} /\ ~Stuck(g, p, ep) /\ ~AllLose(g, p, ep, d) /\ d[p] = 0

\* Quiet moves change sides, and none makes an en passant capture possible.
IsEndgame(g) ==
    /\ g.quiet \in [Positions(g) -> SUBSET Positions(g)]
    /\ g.zeroing \in [Positions(g) -> Seq([kind : {"capture", "ep", "pawn"}, v : Loss .. Win])]
    /\ \A p \in Positions(g) : IsFiniteSet(g.quiet[p])
    /\ \A p \in Positions(g) : \A q \in g.quiet[p] :
           g.side[q] # g.side[p] /\ \A m \in Range(g.zeroing[q]) : m.kind # "ep"
    /\ IsTruth(g, TRUE, g.d) /\ IsTruth(g, FALSE, g.tableD)

ASSUME TablebasesAssumption ==
    /\ Fifty \in Nat \ {0, 1} /\ Fifty % 2 = 0
    /\ \A g \in Games : IsEndgame(g)

StoredWdl(g, p) ==
    LET truth == WdlOf(g.tableD[p])
        best == {0 - m.v : m \in {m \in Range(g.zeroing[p]) : m.kind = "capture"}}
    IN  IF g.careless /\ truth \in best THEN Loss ELSE truth

InPlies(g, wdl) ==
    \/ wdl \in {Win, Loss} /\ g.inPlies
    \/ \E p \in Positions(g) : Plies(g.tableD[p]) = Fifty /\ WdlOf(g.tableD[p]) = wdl

\* map_score over what the file stores of a distance.
MapScore(g, d) ==
    LET wdl == WdlOf(d)
        plies == IF wdl \in {Win, Loss} THEN Plies(d) ELSE Plies(d) - Fifty
        value == IF InPlies(g, wdl) THEN plies - 1 ELSE 2 * ((plies - 1) \div 2)
    IN  value + 1

(* ---- probing ------------------------------------------------------------ *)

Answer(v, state) == [v |-> v, state |-> state]
Failed == Answer(Draw, "FAIL")

Zeroes(m, checkZeroing) == m.kind \in Captures \/ checkZeroing

\* A capture leaves the material, a pawn move does not.
Unreadable(g, m) == IF m.kind = "pawn" THEN "wdl" \in g.missing ELSE "captured" \in g.missing

\* search<CheckZeroingMoves>: zeroing moves first, the table for the others.
Search(g, p, checkZeroing) ==
    LET moves == g.zeroing[p]
        tried == {i \in DOMAIN moves : Zeroes(moves[i], checkZeroing)}
        TriedAt(i) == \A j \in tried : j < i => 0 - moves[j].v < Win /\ ~Unreadable(g, moves[j])
        best == Max({Loss} \cup {0 - moves[i].v : i \in tried})
        noMoreMoves == tried # {} /\ Cardinality(tried) = Legal(g, p)
        value == IF noMoreMoves THEN best ELSE StoredWdl(g, p)
    IN  IF \E i \in tried : TriedAt(i) /\ Unreadable(g, moves[i]) THEN Failed
        ELSE IF best = Win THEN Answer(Win, "ZEROING_BEST_MOVE")
        ELSE IF ~noMoreMoves /\ "wdl" \in g.missing THEN Failed
        ELSE IF best >= value
             THEN Answer(best, IF best > Draw \/ noMoreMoves THEN "ZEROING_BEST_MOVE" ELSE "OK")
        ELSE Answer(value, "OK")

ProbeWdl(g, p) == Search(g, p, FALSE)

\* probe_dtz: what the zeroing moves tell, and whether they leave it to the table.
NeedsTable(found) == found.state = "OK" /\ found.v # Draw
WithoutTable(found) ==
    IF found.state = "FAIL" \/ found.v = Draw THEN Answer(0, found.state)
    ELSE Answer(BeforeZeroing(found.v), "OK")

ReadDtz(g, p, wdl) ==
    IF "dtz" \in g.missing THEN Answer(0, "FAIL")
    ELSE Answer((MapScore(g, g.tableD[p]) + (IF wdl \in {BlessedLoss, CursedWin} THEN Fifty ELSE 0))
                  * SignOf(wdl), "OK")

DtzOfOwnSide(g, p) ==
    LET found == Search(g, p, TRUE)
    IN  IF NeedsTable(found) THEN ReadDtz(g, p, found.v) ELSE WithoutTable(found)

\* One ply on, where the table is: the shortest win, or the longest loss.
UncountedPly(g, q) == LET dtz == 0 - DtzOfOwnSide(g, q).v IN dtz
QuietDtz(g, q) ==
    LET dtz == 0 - DtzOfOwnSide(g, q).v
    IN  IF Mated(g, q) THEN 1 ELSE dtz + SignOf(dtz)

SearchDtz(g, p, wdl) ==
    LET zeroed == {BeforeZeroing(0 - m.v) : m \in Range(g.zeroing[p])}
        dtz == {d \in zeroed \cup {QuietDtz(g, q) : q \in g.quiet[p]} : SignOf(d) = SignOf(wdl)}
    IN  IF \/ "dtz" \in g.missing
           \/ \E m \in Range(g.zeroing[p]) : Unreadable(g, m)
           \/ \E q \in g.quiet[p] : DtzOfOwnSide(g, q).state = "FAIL"
        THEN Answer(0, "FAIL")
        ELSE Answer(IF dtz = {} THEN 0 - 1 ELSE Min(dtz), "OK")

ProbeDtz(g, p) ==
    LET found == Search(g, p, TRUE)
    IN  IF NeedsTable(found) /\ g.side[p] # g.tableSide THEN SearchDtz(g, p, found.v)
        ELSE DtzOfOwnSide(g, p)

(* ---- ranking the root moves ---------------------------------------------- *)

\* do_move: a quiet move to a position, or a zeroing one, the kth, to a value.
Quiet(q) == [quiet |-> TRUE, to |-> q, k |-> 0]
Zeroing(k) == [quiet |-> FALSE, to |-> 0, k |-> k]
RootMoves(g, p) == {Quiet(q) : q \in g.quiet[p]} \cup {Zeroing(k) : k \in DOMAIN g.zeroing[p]}

\* is_repetition(1), has_repeated and is_draw(1) of the game so far.
Occurrences(q, l) == Cardinality({i \in DOMAIN l : l[i] = q})
Thirdfold(q, l) == Occurrences(q, l) >= 2
HasRepeated(l) == Cardinality(Range(l)) < Len(l)
FiftyDraws(g, q, c) == c + 1 >= Fifty /\ ~Mated(g, q)

\* One ply on from the probe of the position reached.
OnePlyOn(probe, mated) ==
    IF mated /\ probe.state # "FAIL" THEN Answer(1, "OK")
    ELSE Answer(0 - probe.v - SignOf(probe.v), probe.state)
RootDtz(g, p, c, l, m) ==
    LET zeroed == g.zeroing[p][m.k]
    IN  IF ~m.quiet
        THEN (IF Unreadable(g, zeroed) THEN Failed ELSE Answer(BeforeZeroing(0 - zeroed.v), "OK"))
        ELSE IF (g.rule50 /\ FiftyDraws(g, m.to, c)) \/ Thirdfold(m.to, l) THEN Answer(0, "OK")
        ELSE OnePlyOn(ProbeDtz(g, m.to), Mated(g, m.to))

\* Certain wins are ranked equally, losing moves too unless a draw is in sight.
RankOfUnrepeated(dtz, c, rep, byDtz) ==
    IF dtz > 0 THEN (IF dtz + c <= Fifty - 1 THEN MaxDtz - (IF byDtz THEN dtz ELSE 0)
                     ELSE MaxDtz \div 2 - (dtz + c))
    ELSE IF dtz < 0 THEN (IF 0 - dtz * 2 + c < Fifty THEN 0 - MaxDtz - (IF byDtz THEN dtz ELSE 0)
                          ELSE 0 - (MaxDtz \div 2) + (c - dtz))
    ELSE 0
RankOf(dtz, c, rep, byDtz) ==
    IF dtz > 0 THEN (IF dtz + c <= Fifty - 1 /\ ~rep THEN MaxDtz - (IF byDtz THEN dtz ELSE 0)
                     ELSE MaxDtz \div 2 - (dtz + c))
    ELSE IF dtz < 0 THEN (IF 0 - dtz * 2 + c < Fifty THEN 0 - MaxDtz - (IF byDtz THEN dtz ELSE 0)
                          ELSE 0 - (MaxDtz \div 2) + (c - dtz))
    ELSE 0

\* The fallback when a DTZ table is missing.
WdlRank(wdl) ==
    CASE wdl = Win -> MaxDtz [] wdl = CursedWin -> MaxDtz - (Fifty + 1) [] wdl = Draw -> 0
      [] wdl = BlessedLoss -> (Fifty + 1) - MaxDtz [] wdl = Loss -> 0 - MaxDtz

RootWdl(g, p, c, l, m) ==
    LET zeroed == g.zeroing[p][m.k]
        probe == ProbeWdl(g, m.to)
    IN  IF ~m.quiet
        THEN (IF Unreadable(g, zeroed) THEN Failed ELSE Answer(0 - zeroed.v, "OK"))
        ELSE IF FiftyDraws(g, m.to, c) \/ Thirdfold(m.to, l) THEN Answer(Draw, "OK")
        ELSE Answer(0 - probe.v, probe.state)

OnBoard == line # <<>>

\* What a position on the board, or of a zeroing move, is worth to the side to move.
Result(p, c) ==
    IF OnBoard
    THEN (IF game.rule50 THEN game.result[Fifty - c + 1][p] ELSE SignOf(game.d[p]))
    ELSE (IF game.rule50 THEN Strictly(p.v) ELSE SignOf(p.v))

Unranked == [rank |-> <<>>, by |-> "none"]

\* The answers for all the moves.
RootProbe(g, p, c, l) == [m \in RootMoves(g, p) |-> RootDtz(g, p, c, l, m)]
RootProbeWdl(g, p, c, l) == [m \in RootMoves(g, p) |-> RootWdl(g, p, c, l, m)]
Answered(answers) == \A m \in DOMAIN answers : answers[m].state # "FAIL"

\* rank_root_moves: all moves by one method, or none by any.
Ranked(dtz, wdl, c, rep, byDtz, late) ==
    IF Answered(dtz) /\ ~late
    THEN [rank |-> [m \in DOMAIN dtz |-> RankOf(dtz[m].v, c, rep, byDtz)], by |-> "dtz"]
    ELSE IF Answered(wdl) /\ ~late THEN [rank |-> [m \in DOMAIN wdl |-> WdlRank(wdl[m].v)], by |-> "wdl"]
    ELSE [rank |-> [m \in DOMAIN dtz |-> 0], by |-> "none"]
RankRootMoves(g, p, c, l, byDtz, late) ==
    Ranked(RootProbe(g, p, c, l), RootProbeWdl(g, p, c, l), c, HasRepeated(l), byDtz, late)

\* The search considers the moves of the first rank.
First(r) == {m \in DOMAIN r.rank : \A n \in DOMAIN r.rank : r.rank[m] >= r.rank[n]}

(* ---- a game with them ------------------------------------------------------ *)

Init ==
    /\ game \in Games
    /\ at \in Positions(game)
    /\ count \in 0 .. (Fifty - 1)
    /\ line = <<at>>
    /\ ranked = Unranked
    /\ due = 0 - 1

\* Mate, stalemate, a zeroing move, the fifty moves or a third repetition.
Over == ~OnBoard \/ Legal(game, at) = 0 \/ count >= Fifty \/ Occurrences(at, line) > 2

\* At its turn the engine ranks; late: time_abort flags zeitnot.
Rank ==
    /\ ~Over /\ ranked = Unranked
    /\ game.side[at] = "engine"
    /\ \E byDtz, late \in BOOLEAN : ranked' = RankRootMoves(game, at, count, line, byDtz, late)
    /\ due' = IF ranked'.by = "dtz" THEN Max({due, Result(at, count)}) ELSE 0 - 1
    /\ UNCHANGED <<game, at, count, line>>

\* The value of what a zeroing move reaches, for the side that is to move there.
Reached(m) == [side |-> IF game.side[at] = "engine" THEN "opponent" ELSE "engine",
               v |-> game.zeroing[at][m.k].v]

Make(m) ==
    /\ IF m.quiet
       THEN at' = m.to /\ count' = count + 1 /\ line' = Append(line, m.to)
       ELSE at' = Reached(m) /\ count' = 0 /\ line' = <<>>
    /\ ranked' = Unranked
    /\ UNCHANGED <<game, due>>

EngineMoves == ~Over /\ ranked # Unranked /\ \E m \in First(ranked) : Make(m)
OpponentMoves ==
    /\ ~Over /\ game.side[at] = "opponent"
    /\ \E m \in RootMoves(game, at) : Make(m)

Next == Rank \/ EngineMoves \/ OpponentMoves
Spec == Init /\ [][Next]_vars

(* ---- properties ------------------------------------------------------------ *)

\* "The return value n can be off by 1 ... This cannot happen for tables with
\* positions exactly on the edge of the 50-move rule": a DTZ probe has the sign
\* of the result, never more than its plies, at most one less, and is on the
\* same side of the fifty moves.  Left out: an en passant capture that alone
\* turns a loss into one the fifty moves save (see the README).
OnlyEpSaves(g, p) == WdlOf(g.tableD[p]) = Loss /\ WdlOf(g.d[p]) = BlessedLoss
ProbeIsTrue(probe, d) ==
    \/ probe.state = "FAIL"
    \/ d = 0 /\ probe.v = 0
    \/ /\ SignOf(probe.v) = SignOf(d)
       /\ Plies(d) - probe.v * SignOf(d) \in {0, 1}
       /\ Plies(d) > Fifty <=> probe.v * SignOf(d) > Fifty
DtzIsTrue == OnBoard /\ ~OnlyEpSaves(game, at) => ProbeIsTrue(ProbeDtz(game, at), game.d[at])

\* Once the engine has ranked its moves by DTZ, and as long as it plays moves of
\* the first rank, it keeps the result it had, whatever the opponent does:
\* neither the fifty moves nor a third repetition come in between.
Standing ==
    IF ~OnBoard THEN Result(at, 0) * (IF at.side = "engine" THEN 1 ELSE 0 - 1)
    ELSE IF Occurrences(at, line) > 2 THEN 0
    ELSE Result(at, count) * (IF game.side[at] = "engine" THEN 1 ELSE 0 - 1)
ResultIsKept == Standing >= due

=============================================================================
