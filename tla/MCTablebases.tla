---------------------------- MODULE MCTablebases ----------------------------
(* The four modules of the tablebases side by side: a behaviour is a game    *)
(* ranked by the tables, or the threads that map the files, or a single      *)
(* state that holds a compressed file or a table's men to look positions up. *)
EXTENDS Tablebases, TableFiles, TLC

CONSTANTS s1, s2, uci

VARIABLES sample   \* a file of PairsData or a table of TableIndex

(* ---- endgames ------------------------------------------------------------- *)

Chain == 1 .. 6
Move(kind, v) == [kind |-> kind, v |-> v]
OneOf(x, y, n) == IF n % 2 = 0 THEN x ELSE y

\* Positions in a chain of quiet moves, those of back with one back, and zeroing
\* moves from i and j.  The choices of the generator vary over the shapes.
Shape(back, i, v, j, w, missing) ==
    [quiet |-> [p \in Chain |-> (IF p < 6 THEN {p + 1} ELSE {}) \cup (IF p \in back THEN {p - 1} ELSE {})],
     zeroing |-> [p \in Chain |-> (IF p = i THEN <<Move(IF i = 1 THEN "ep" ELSE "pawn", v)>> ELSE <<>>)
                                  \o (IF p = j THEN <<Move("capture", w)>> ELSE <<>>)],
     check |-> OneOf({6}, {}, v + w),
     side |-> [p \in Chain |-> OneOf("opponent", "engine", p)],
     tableSide |-> OneOf("opponent", "engine", i + w),
     inPlies |-> OneOf(TRUE, FALSE, j), careless |-> OneOf(TRUE, FALSE, v + j),
     rule50 |-> v # BlessedLoss \/ i # 3, missing |-> missing]

Shapes ==
    {Shape(back, i, v, j, w, {}) :
       back \in {{}, 3 .. 6, {3}}, i \in {1, 3, 4}, j \in {3, 4, 5}, v \in Loss .. Win, w \in Loss .. Win}
    \cup {Shape({3}, 3, Loss, 4, w, missing) : w \in Loss .. Win, missing \in SUBSET {"wdl", "dtz", "captured"}}
MCGames == {Endgame(s) : s \in Shapes}

(* ---- files ------------------------------------------------------------------ *)

KRK == <<"KR", "K">>
KQK == <<"KQ", "K">>
KBK == <<"KB", "K">>
KRKR == <<"KR", "KR">>
Reversed(m) == <<m[2], m[1]>>
MCCodes == <<KBK, KRK, KRKR, KQK>>
Numbered == <<KRK, Reversed(KRK), KQK, Reversed(KQK), KBK, Reversed(KBK), KRKR>>
MCPieces == [m \in Range(Numbered) |-> IF m = KRKR THEN 4 ELSE 3]

\* Three tables with five keys whose homes are three of the six buckets, and
\* one whose DTZ file is bad, with a good one in the second directory.
Several == Range(Numbered) \ {KRK, Reversed(KRK)}
KeyOf(home) == [m \in Range(Numbered) |->
    (IF m \in Several THEN home[m] ELSE 2) + 6 * (CHOOSE i \in DOMAIN Numbered : Numbered[i] = m)]
OnDisk(d, c, t, s) == [dir |-> d, code |-> c, type |-> t, state |-> s]
Many == {OnDisk("a", KQK, "wdl", "good"), OnDisk("a", KBK, "wdl", "good"), OnDisk("b", KRKR, "wdl", "good")}
One(s) == {OnDisk("a", KRK, "wdl", "good"), OnDisk("a", KRK, "dtz", s), OnDisk("b", KRK, "dtz", "good")}
MCStarts == {[key |-> KeyOf(h), disk |-> Many] : h \in [Several -> 1 .. 3]}
    \cup {[key |-> KeyOf([m \in Several |-> 3]), disk |-> One(s)] : s \in {"corrupt", "truncated"}}
MCBoards == {KRK, Reversed(KRK)}
MCPaths == {<<>>, <<"a">>, <<"b", "a">>}

SearchersAreAlike == Permutations({s1, s2})

(* ---- compressed files --------------------------------------------------------- *)

Data == INSTANCE PairsData

\* Codes of two to seven symbols; pairs of pairs, or one pair; three blocks.
Lengths == {<<1, 1>>, <<3, 3, 2, 1>>, <<2, 2, 2, 2>>, <<4, 4, 3, 2, 1>>, <<3, 3, 2, 2, 2>>, <<4, 4, 3, 3, 3, 2, 2>>}
Nested(n) == [i \in 1 .. n |-> IF i <= 2 THEN <<i + 6, Data!Leaf>>
                               ELSE IF i = n /\ n > 3 THEN <<i - 2, i - 3>> ELSE <<i - 2, 0>>]
Flat(n) == [i \in 1 .. n |-> IF i = 1 THEN <<n - 1, 1>> ELSE <<i, Data!Leaf>>]
Pattern(n, k, a, b) == [i \in 1 .. k |-> (i * a + b) % n]
Compressed(lengths) ==
    LET n == Len(lengths)
    IN  {[lengths |-> lengths, tree |-> tree, blocks |-> <<p, Pattern(n, 3, 1, 0), p>>,
          sizeofBlock |-> size, span |-> span, single |-> FALSE] :
            tree \in {Nested(n), Flat(n)}, size \in {2, 4}, span \in {1, 4, 8},
            p \in {Pattern(n, k, a, b) : k \in {2, 4, 7}, a \in {1, 2}, b \in {0, 1}}}
FileSamples ==
    {f \in UNION {Compressed(l) : l \in Lengths} :
        Data!CompleteCode(f) /\ \A b \in DOMAIN f.blocks : Data!BlockFits(f, f.blocks[b])}
    \cup {[lengths |-> <<0>>, tree |-> <<<<3, Data!Leaf>>>>, blocks |-> <<<<0, 0, 0>>>>,
           sizeofBlock |-> 2, span |-> 1, single |-> TRUE]}

(* ---- positions ------------------------------------------------------------------ *)

Ix == INSTANCE TableIndex

W(pt) == Ix!Man(0, pt)
B(pt) == Ix!Man(1, pt)
Table(pieces, order) == [pieces |-> pieces, order |-> order]
TableSamples == {
    Table(<<W("K"), W("R"), B("K")>>, <<0, 15>>), Table(<<B("K"), W("K"), W("R"), W("R")>>, <<1, 15>>),
    Table(<<W("R"), B("K"), W("K"), B("R")>>, <<0, 15>>), Table(<<W("P"), W("P"), W("K"), B("K")>>, <<0, 15>>),
    Table(<<W("P"), B("P"), W("K"), B("K")>>, <<1, 0>>),
    Table(<<B("P"), W("P"), W("P"), W("K"), B("K")>>, <<2, 1>>)}

\* Men on squares on both sides of the diagonals and of the middle.
SquaresFor(m) == IF m.pt = "K" THEN {0, 1, 9, 20, 36, 63} ELSE IF m.pt = "P" THEN {8, 15, 17, 22, 52}
                 ELSE {2, 16, 27, 31, 45}
Placings(e) ==
    {f \in [DOMAIN e.pieces -> UNION {SquaresFor(m) : m \in Range(e.pieces)}] :
        /\ \A i \in DOMAIN f : f[i] \in SquaresFor(e.pieces[i])
        /\ IsInjective(f)
        /\ \A i, j \in DOMAIN f : i # j /\ e.pieces[i].pt = "K" /\ e.pieces[j].pt = "K" => Ix!Apart(f[i], f[j])}
PositionOf(e, f, stm) ==
    [stm |-> stm, men |-> {[c |-> e.pieces[i].c, pt |-> e.pieces[i].pt, s |-> f[i]] : i \in DOMAIN f}]
PositionsOf(e) ==
    UNION {{PositionOf(e, f, 0), PositionOf(e, f, 1), Ix!ColorsExchanged(PositionOf(e, f, 0)),
            Ix!Image(PositionOf(e, f, 1), Ix!FlipFile)} : f \in Placings(e)}

(* ---- side by side ------------------------------------------------------------------ *)

NoGame == /\ game = None /\ at = None /\ count = 0 /\ line = <<>> /\ ranked = Unranked /\ due = 0 - 1
NoFiles == /\ key = None /\ disk = {} /\ removals = 0 /\ path = <<>> /\ hashTable = None
           /\ tables = [type \in Types |-> <<>>]
           /\ largest = 0 /\ mappings = 0 /\ mutex = None /\ pc = [t \in Threads |-> "idle"]
           /\ probe = None /\ searching = FALSE /\ exited = TRUE /\ inits = 0

MCInit ==
    \/ Init /\ NoFiles /\ sample = None
    \/ NoGame /\ FilesInit /\ sample = None
    \/ NoGame /\ NoFiles /\ sample \in FileSamples \cup TableSamples

InGame == game # None
InFiles == key # None
MCNext ==
    \/ InGame /\ Next /\ UNCHANGED <<fileVars, sample>>
    \/ InFiles /\ FilesNext /\ UNCHANGED <<vars, sample>>

MCSpec == MCInit /\ [][MCNext]_<<vars, fileVars, sample>>

\* The properties of the four modules.
RankedResultIsKept == InGame => ResultIsKept
DecodesTrue == sample \in FileSamples => Data!DecodesTrue(sample)
IndexIsUnique == sample \in TableSamples => Ix!IndexIsUnique(sample, PositionsOf(sample))
=============================================================================
