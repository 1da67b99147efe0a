------------------------------ MODULE TableIndex ------------------------------
(***************************************************************************)
(* The index of a position in its table (do_probe_table, set_groups and    *)
(* the maps of Tablebases::init in syzygy/tbprobe.cpp).                    *)
(*                                                                         *)
(* A position is a set of men [c, pt, s] and the side to move; squares are *)
(* 0 .. 63 from a1, White and Black 0 and 1.  A table has its men in the   *)
(* order of the file, and the order its groups are encoded in.             *)
(***************************************************************************)
EXTENDS Integers, Sequences, FiniteSets, FiniteSetsExt, SequencesExt, TLC

Squares == 0 .. 63
FileOf(s) == s % 8
RankOf(s) == s \div 8
OffA1H8(s) == RankOf(s) - FileOf(s)
FlipFile(s) == 8 * RankOf(s) + 7 - FileOf(s)
FlipRank(s) == 8 * (7 - RankOf(s)) + FileOf(s)
Transpose(s) == 8 * FileOf(s) + RankOf(s)
EdgeDistance(file) == Min({file, 7 - file})

Below(S, s) == Cardinality({t \in S : t < s})

(* ---- the maps of init -------------------------------------------------------- *)

MapB1H1H7 == [s \in Squares |-> Below({t \in Squares : OffA1H8(t) < 0}, s)]

\* b1, c1, d1, c2, d2, d3, and then the diagonal.
Triangle == {s \in 0 .. 27 : FileOf(s) <= 3 /\ OffA1H8(s) < 0}
MapA1D1D4 == [s \in Triangle \cup {0, 9, 18, 27} |->
                 IF s \in Triangle THEN Below(Triangle, s) ELSE 6 + FileOf(s)]

\* Two kings apart, the second not above the diagonal if the first is on it;
\* those with both on the diagonal come last.
Apart(s, t) == Max({FileOf(s) - FileOf(t), FileOf(t) - FileOf(s),
                    RankOf(s) - RankOf(t), RankOf(t) - RankOf(s)}) > 1
KingPairs == {<<s, t>> \in (DOMAIN MapA1D1D4) \X Squares : Apart(s, t) /\ (OffA1H8(s) = 0 => OffA1H8(t) <= 0)}
BothOnDiagonal(p) == OffA1H8(p[1]) = 0 /\ OffA1H8(p[2]) = 0
PairNumber(p) == (IF BothOnDiagonal(p) THEN 1000 ELSE 0) + 64 * MapA1D1D4[p[1]] + p[2]
MapKK == LET numbers == {PairNumber(p) : p \in KingPairs}
         IN  [p \in KingPairs |-> Below(numbers, PairNumber(p))]

\* Pascal's triangle.
Binomial(k, n) ==
    IF k > n THEN 0
    ELSE FoldLeft(LAMBDA c, i : (c * (n - i + 1)) \div i, 1, [i \in 1 .. k |-> i])

\* Two squares less for each rank up and each file from the edge.
MapPawns(s) ==
    47 - 2 * (6 * EdgeDistance(FileOf(s)) + RankOf(s) - 1) - (IF FileOf(s) > 3 THEN 1 ELSE 0)

BelowIn(cnt, file, rank) ==
    MapThenSumSet(LAMBDA r : Binomial(cnt - 1, MapPawns(8 * r + file)), 1 .. (rank - 1))
LeadPawnIdx(cnt, s) == BelowIn(cnt, FileOf(s), RankOf(s))
LeadPawnsSize(cnt, file) == BelowIn(cnt, file, 7)

(* ---- a table -------------------------------------------------------------------- *)

Man(c, pt) == [c |-> c, pt |-> pt]
CountOf(e, c, pt) == Cardinality({i \in DOMAIN e.pieces : e.pieces[i] = Man(c, pt)})
HasPawns(e) == \E i \in DOMAIN e.pieces : e.pieces[i].pt = "P"
HasUniquePieces(e) ==
    \E c \in {0, 1}, pt \in {"P", "N", "B", "R", "Q"} : CountOf(e, c, pt) = 1

\* The side with fewer pawns, of those that have any, leads.
LeadColor(e) ==
    IF CountOf(e, 1, "P") = 0 \/ (CountOf(e, 0, "P") > 0 /\ CountOf(e, 1, "P") >= CountOf(e, 0, "P"))
    THEN 0 ELSE 1
PawnCount(e) == <<CountOf(e, LeadColor(e), "P"), CountOf(e, 1 - LeadColor(e), "P")>>
Symmetric(e) == \A pt \in {"P", "N", "B", "R", "Q"} : CountOf(e, 0, pt) = CountOf(e, 1, pt)

\* Groups are men of one kind, except for the first without pawns.
GroupLen(e) ==
    LET firstLen == IF HasPawns(e) THEN 0 ELSE IF HasUniquePieces(e) THEN 3 ELSE 2
        Grow(g, i) == IF i - 1 < firstLen \/ e.pieces[i] = e.pieces[i - 1]
                      THEN [g EXCEPT ![Len(g)] = @ + 1] ELSE Append(g, 1)
    IN  FoldLeft(Grow, <<1>>, [i \in 1 .. (Len(e.pieces) - 1) |-> i + 1])

\* What a step of each group is worth; the last is the size of the table.
\* order: the places of the first group and of the remaining pawns.
GroupIdx(e, file) ==
    LET len == GroupLen(e)
        pp == PawnCount(e)[2] > 0
        lead == IF HasPawns(e) THEN LeadPawnsSize(len[1], file) ELSE IF HasUniquePieces(e) THEN 31332 ELSE 462
        Place(g, k) ==
            IF k = e.order[1]
            THEN [g EXCEPT !.at = (1 :> g.idx) @@ g.at, !.idx = g.idx * lead]
            ELSE IF k = e.order[2]
            THEN [g EXCEPT !.at = (2 :> g.idx) @@ g.at, !.idx = g.idx * Binomial(len[2], 48 - len[1])]
            ELSE [g EXCEPT !.at = (g.next :> g.idx) @@ g.at, !.idx = g.idx * Binomial(len[g.next], g.free),
                           !.free = g.free - len[g.next], !.next = g.next + 1]
        start == [at |-> <<>>, idx |-> 1, next |-> IF pp THEN 3 ELSE 2,
                  free |-> 64 - len[1] - (IF pp THEN len[2] ELSE 0)]
        placed == FoldLeft(Place, start, [k \in 1 .. Len(len) |-> k - 1])
    IN  [at |-> placed.at, size |-> placed.idx]

(* ---- do_probe_table --------------------------------------------------------------- *)

Men(pos) == {Man(m.c, m.pt) : m \in pos.men}
Matches(e, pos) ==
    \A m \in Men(pos) : Cardinality({n \in pos.men : Man(n.c, n.pt) = m}) = CountOf(e, m.c, m.pt)

\* The table is for White as the stronger side.
Switched(e, pos) == (Symmetric(e) /\ pos.stm = 1) \/ ~Matches(e, pos)
Stm(e, pos) == IF Switched(e, pos) THEN 1 - pos.stm ELSE pos.stm
Seen(e, pos, m) ==
    IF Switched(e, pos) THEN [c |-> 1 - m.c, pt |-> m.pt, s |-> FlipRank(m.s)] ELSE m

\* Men in the order of their squares on the board, as the table sees them.
InOrder(e, pos, men) ==
    LET sorted == SetToSortSeq(men, LAMBDA a, b : a.s < b.s)
    IN  [i \in DOMAIN sorted |-> Seen(e, pos, sorted[i])]
IsLead(e, pos, m) == HasPawns(e) /\ Man(Seen(e, pos, m).c, m.pt) = e.pieces[1]

\* The leading pawn, the nearest to the edge and then the lowest, to the front.
LeadFirst(lead) ==
    LET first == CHOOSE i \in DOMAIN lead : \A j \in DOMAIN lead : MapPawns(lead[i].s) >= MapPawns(lead[j].s)
    IN  [lead EXCEPT ![1] = lead[first], ![first] = lead[1]]

\* The others in the order of the table: the first that fits takes the place.
Ordered(e, list, from) ==
    LET Swap(l, i) ==
            LET fits == {j \in (i + 1) .. Len(l) : Man(l[j].c, l[j].pt) = e.pieces[i]}
            IN  IF fits = {} THEN l ELSE [l EXCEPT ![i] = l[Min(fits)], ![Min(fits)] = l[i]]
    IN  FoldLeft(Swap, list, [i \in 1 .. (Len(list) - from) |-> from + i - 1])

SquaresOf(e, pos) ==
    LET lead == {m \in pos.men : IsLead(e, pos, m)}
        list == (IF lead = {} THEN <<>> ELSE LeadFirst(InOrder(e, pos, lead))) \o InOrder(e, pos, pos.men \ lead)
        ordered == Ordered(e, list, Cardinality(lead) + 1)
    IN  [i \in DOMAIN ordered |-> ordered[i].s]

Mapped(sq, Flipped(_), if) == IF if THEN [i \in DOMAIN sq |-> Flipped(sq[i])] ELSE sq

\* The first of the leading men off the diagonal goes below it, and all after it.
BelowDiagonal(e, sq) ==
    LET off == {i \in 1 .. GroupLen(e)[1] : OffA1H8(sq[i]) # 0}
    IN  IF off # {} /\ OffA1H8(sq[Min(off)]) > 0
        THEN [i \in DOMAIN sq |-> IF i >= Min(off) THEN Transpose(sq[i]) ELSE sq[i]] ELSE sq

\* Into the triangle a1-d1-d4; with pawns only to the files a to d.
Normalized(e, sq) ==
    LET left == Mapped(sq, FlipFile, FileOf(sq[1]) > 3)
    IN  IF HasPawns(e) THEN left
        ELSE BelowDiagonal(e, Mapped(left, FlipRank, RankOf(left[1]) > 3))

Less(a, b) == IF a > b THEN 1 ELSE 0

\* Three different men: the first two or three on the diagonal are cases apart.
ThreeUnadjusted(sq) ==
    (MapA1D1D4[sq[1]] * 63 + sq[2]) * 62 + sq[3]
Three(sq) ==
    LET adjust1 == Less(sq[2], sq[1])
        adjust2 == Less(sq[3], sq[1]) + Less(sq[3], sq[2])
    IN  IF OffA1H8(sq[1]) # 0
        THEN (MapA1D1D4[sq[1]] * 63 + (sq[2] - adjust1)) * 62 + sq[3] - adjust2
        ELSE IF OffA1H8(sq[2]) # 0
        THEN (6 * 63 + RankOf(sq[1]) * 28 + MapB1H1H7[sq[2]]) * 62 + sq[3] - adjust2
        ELSE IF OffA1H8(sq[3]) # 0
        THEN 6 * 63 * 62 + 4 * 28 * 62 + RankOf(sq[1]) * 7 * 28 + (RankOf(sq[2]) - adjust1) * 28
               + MapB1H1H7[sq[3]]
        ELSE 6 * 63 * 62 + 4 * 28 * 62 + 4 * 7 * 28 + RankOf(sq[1]) * 7 * 6 + (RankOf(sq[2]) - adjust1) * 6
               + (RankOf(sq[3]) - adjust2)

LeadPawns(sq, cnt) ==
    LET rest == SetToSortSeq({sq[i] : i \in 2 .. cnt}, LAMBDA a, b : MapPawns(a) < MapPawns(b))
    IN  LeadPawnIdx(cnt, sq[1]) + MapThenSumSet(LAMBDA i : Binomial(i, MapPawns(rest[i])), DOMAIN rest)

LeadIndex(e, sq) ==
    IF HasPawns(e) THEN LeadPawns(sq, GroupLen(e)[1])
    ELSE IF HasUniquePieces(e) THEN Three(sq) ELSE MapKK[<<sq[1], sq[2]>>]

\* A group by its squares in order, less those that earlier groups took.
GroupIndex(e, sq, g) ==
    LET start == MapThenSumSet(LAMBDA h : GroupLen(e)[h], 1 .. (g - 1))
        earlier == {sq[i] : i \in 1 .. start}
        own == {sq[i] : i \in (start + 1) .. (start + GroupLen(e)[g])}
        pawns == IF g = 2 /\ PawnCount(e)[2] > 0 THEN 8 ELSE 0
    IN  MapThenSumSet(LAMBDA s : Binomial(Below(own, s) + 1, s - Below(earlier, s) - pawns), own)

Index(e, pos) ==
    LET sq == Normalized(e, SquaresOf(e, pos))
        file == IF HasPawns(e) THEN FileOf(sq[1]) ELSE 0
        idx == GroupIdx(e, file)
    IN  [stm |-> Stm(e, pos), file |-> file, size |-> idx.size,
         idx |-> LeadIndex(e, sq) * idx.at[1]
                   + MapThenSumSet(LAMBDA g : GroupIndex(e, sq, g) * idx.at[g], 2 .. Len(GroupLen(e)))]

(* ---- property ------------------------------------------------------------------------ *)

\* The positions that are one position to the rules: mirrored, turned if there
\* are no pawns, and with the colours exchanged.
Image(pos, Moved(_)) == [pos EXCEPT !.men = {[m EXCEPT !.s = Moved(m.s)] : m \in pos.men}]
ColorsExchanged(pos) ==
    [stm |-> 1 - pos.stm, men |-> {[c |-> 1 - m.c, pt |-> m.pt, s |-> FlipRank(m.s)] : m \in pos.men}]
Class(e, pos) ==
    LET mirrored == {pos, Image(pos, FlipFile)}
        turned == mirrored \cup {Image(p, FlipRank) : p \in mirrored}
        all == IF HasPawns(e) THEN mirrored ELSE turned \cup {Image(p, Transpose) : p \in turned}
    IN  all \cup {ColorsExchanged(p) : p \in all}

\* "Compute a unique index out of a position": within a table, no two positions
\* that are not one to the rules share a value, and no index is past its end.
AreUnique(indices) ==
    /\ Cardinality({i[1] : i \in indices}) = Cardinality(indices)
    /\ \A i \in indices : i[1].idx \in 0 .. (i[1].size - 1)
IndexIsUnique(e, positions) == AreUnique({<<Index(e, pos), Class(e, pos)>> : pos \in positions})
=============================================================================
