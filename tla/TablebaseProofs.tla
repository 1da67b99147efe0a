--------------------------- MODULE TablebaseProofs ---------------------------
(***************************************************************************)
(* The endgame tablebases.  The distances they tell, for any endgame and   *)
(* any number of plies that draw; the mapping of the files, for any        *)
(* tables, directories and number of searchers; and the registry of the    *)
(* tables, however the keys collide in its hash table.                     *)
(***************************************************************************)
EXTENDS Tablebases, TableFiles, FiniteSetTheorems, SequenceTheorems,
        NaturalsInduction, WellFoundedInduction, TLAPS

\* A set of natural numbers that is not empty has a least one, and what holds of 0
\* and of the successors holds of all.
LEMMA Least ==
    ASSUME NEW S \in SUBSET Nat, S # {}
    PROVE  \E n \in S : \A k \in S : n <= k
<1> DEFINE R == OpToRel(<, Nat)
<1>1. IsWellFoundedOn(R, Nat)
  BY NatLessThanWellFounded
<1>2. PICK x \in S : \A y \in S : ~ (<<y, x>> \in R)
  BY <1>1, WFMin, Zenon
<1>3. \A y \in S : ~ (y < x)
  BY <1>2 DEF OpToRel
<1> QED
  BY <1>3

LEMMA NatSet == ASSUME NEW S, 0 \in S, \A n \in Nat : n \in S => n + 1 \in S PROVE Nat \subseteq S
<1> DEFINE Missing == Nat \ S
<1> SUFFICES ASSUME Missing # {} PROVE FALSE
  OBVIOUS
<1>1. PICK n \in Missing : \A k \in Missing : n <= k
  BY Least
<1>2. n # 0 /\ n - 1 \in Nat /\ n - 1 \notin Missing /\ (n - 1) + 1 = n
  BY <1>1
<1> QED
  BY <1>2

-----------------------------------------------------------------------------
(* Distances.                                                              *)

LEMMA FiftyIs == Fifty \in Nat /\ Fifty >= 2
BY TablebasesAssumption

\* A minimum of whole numbers that lie above a bound, a maximum of some below.
LEMMA MinAbove ==
    ASSUME NEW S \in SUBSET Int, S # {}, NEW b \in Int, \A x \in S : b <= x
    PROVE  Min(S) \in S /\ \A x \in S : Min(S) <= x
<1> DEFINE T == {x - b : x \in S}
<1>0. \A x \in S : x \in Int /\ x - b \in Nat
  OBVIOUS
<1>1. T \in SUBSET Nat /\ T # {}
  BY <1>0
<1>2. PICK n \in T : \A k \in T : n <= k
  BY <1>1, Least
<1>3. PICK x \in S : n = x - b
  BY <1>2
<1>4. \A y \in S : x <= y
  <2> TAKE y \in S
  <2>1. n <= y - b
    BY <1>2
  <2> HIDE DEF T
  <2> QED
    BY <1>0, <1>3, <2>1
<1> QED
  BY <1>4 DEF Min

LEMMA MaxBelow ==
    ASSUME NEW S \in SUBSET Int, S # {}, NEW b \in Int, \A x \in S : x <= b
    PROVE  Max(S) \in S /\ \A x \in S : x <= Max(S)
<1> DEFINE T == {b - x : x \in S}
<1>0. \A x \in S : x \in Int /\ b - x \in Nat
  OBVIOUS
<1>1. T \in SUBSET Nat /\ T # {}
  BY <1>0
<1>2. PICK n \in T : \A k \in T : n <= k
  BY <1>1, Least
<1>3. PICK x \in S : n = b - x
  BY <1>2
<1>4. \A y \in S : y <= x
  <2> TAKE y \in S
  <2>1. n <= b - y
    BY <1>2
  <2> HIDE DEF T
  <2> QED
    BY <1>0, <1>3, <2>1
<1> QED
  BY <1>4 DEF Max

\* The values of the zeroing moves, and the distances they have.
Worth(g, p, ep) == {0 - m.v : m \in Known(g, p, ep)}
Scores == {Loss, BlessedLoss, Draw, CursedWin, Win}

\* The values and the distances they stand for, as numbers.
LEMMA Values ==
    /\ Loss = -2 /\ BlessedLoss = -1 /\ Draw = 0 /\ CursedWin = 1 /\ Win = 2
    /\ Scores = -2 .. 2
    /\ BeforeZeroing(2) = 1 /\ BeforeZeroing(1) = Fifty + 1 /\ BeforeZeroing(0) = 0
    /\ BeforeZeroing(-1) = -(Fifty + 1) /\ BeforeZeroing(-2) = -1
BY FiftyIs DEF Loss, BlessedLoss, Draw, CursedWin, Win, Scores, BeforeZeroing

\* A zeroing move has one of five distances, by what it is worth.
LEMMA ZeroingIs ==
    ASSUME NEW g, IsEndgame(g), NEW p \in Positions(g), NEW ep \in BOOLEAN
    PROVE  /\ Worth(g, p, ep) \subseteq Scores
           /\ Zeroed(g, p, ep) = {BeforeZeroing(v) : v \in Worth(g, p, ep)}
           /\ Zeroed(g, p, ep) \subseteq {1, Fifty + 1, 0, -(Fifty + 1), -1}
           /\ 1 \in Zeroed(g, p, ep) <=> 2 \in Worth(g, p, ep)
           /\ Fifty + 1 \in Zeroed(g, p, ep) <=> 1 \in Worth(g, p, ep)
           /\ 0 \in Zeroed(g, p, ep) <=> 0 \in Worth(g, p, ep)
           /\ -(Fifty + 1) \in Zeroed(g, p, ep) <=> -1 \in Worth(g, p, ep)
           /\ -1 \in Zeroed(g, p, ep) <=> -2 \in Worth(g, p, ep)
<1>1. Known(g, p, ep) \subseteq [kind : {"capture", "ep", "pawn"}, v : Loss .. Win]
  <2> DEFINE M == [kind : {"capture", "ep", "pawn"}, v : Loss .. Win]
  <2>1. g.zeroing[p] \in Seq(M)
    BY DEF IsEndgame
  <2> HIDE DEF M
  <2>2. \A i \in DOMAIN g.zeroing[p] : g.zeroing[p][i] \in M
    BY <2>1
  <2>3. Known(g, p, ep) \subseteq M
    BY <2>2 DEF Known, Range
  <2> QED
    BY <2>3 DEF M
<1>2. \A m \in Known(g, p, ep) : m.v \in -2 .. 2
  BY <1>1, Values
<1>3. Worth(g, p, ep) \subseteq Scores
  BY <1>2, Values DEF Worth
<1>4. Zeroed(g, p, ep) = {BeforeZeroing(v) : v \in Worth(g, p, ep)}
  BY DEF Zeroed, Worth
<1>5. \A v \in Scores : v \in -2 .. 2 /\ (v = 2 \/ v = 1 \/ v = 0 \/ v = -1 \/ v = -2)
  BY Values
<1>6. Fifty \in Nat /\ Fifty >= 2
  BY FiftyIs
<1>7. \A v \in Worth(g, p, ep) :
         \/ v = 2 /\ BeforeZeroing(v) = 1
         \/ v = 1 /\ BeforeZeroing(v) = Fifty + 1
         \/ v = 0 /\ BeforeZeroing(v) = 0
         \/ v = -1 /\ BeforeZeroing(v) = -(Fifty + 1)
         \/ v = -2 /\ BeforeZeroing(v) = -1
  BY <1>3, <1>5, Values
<1> QED
  BY <1>3, <1>4, <1>6, <1>7

\* What the truth of a position is by its sign.
LEMMA TruthBySign ==
    ASSUME NEW g, IsEndgame(g), NEW p \in Positions(g), NEW ep \in BOOLEAN, NEW d, IsTruth(g, ep, d)
    PROVE  /\ d[p] \in Int
           /\ d[p] > 0 <=> Wins(g, p, ep, d) # {}
           /\ d[p] > 0 => d[p] \in Wins(g, p, ep, d) /\ \A n \in Wins(g, p, ep, d) : d[p] <= n
           /\ d[p] < 0 <=> Stuck(g, p, ep) \/ AllLose(g, p, ep, d)
           /\ Stuck(g, p, ep) => d[p] = -1
           /\ AllLose(g, p, ep, d) =>
                 /\ -1 - d[p] \in Ways(g, p, ep, d)
                 /\ \A n \in Ways(g, p, ep, d) : n <= -1 - d[p]
                 /\ d[p] < -1
<1> DEFINE wins == Wins(g, p, ep, d)
           ways == Ways(g, p, ep, d)
<1>1. /\ d \in [Positions(g) -> Int]
      /\ \/ d[p] \in wins /\ \A n \in wins : d[p] <= n
         \/ Stuck(g, p, ep) /\ d[p] = 0 - 1
         \/ AllLose(g, p, ep, d) /\ 0 - 1 - d[p] \in ways /\ \A n \in ways : n <= 0 - 1 - d[p]
         \/ wins = {} /\ ~Stuck(g, p, ep) /\ ~AllLose(g, p, ep, d) /\ d[p] = 0
  BY DEF IsTruth
<1>2. g.quiet[p] \subseteq Positions(g)
  BY DEF IsEndgame
<1>3. \A q \in g.quiet[p] : d[q] \in Int
  BY <1>1, <1>2
<1>4. \A n \in Zeroed(g, p, ep) : n \in Int
  BY ZeroingIs, FiftyIs
<1>5. \A n \in wins : n > 0 /\ n \in Int
  BY <1>3, <1>4 DEF Wins
<1>6. AllLose(g, p, ep, d) => wins = {} /\ (\A n \in ways : n > 0 /\ n \in Int) /\ ~Stuck(g, p, ep)
  <2> SUFFICES ASSUME AllLose(g, p, ep, d)
               PROVE  wins = {} /\ (\A n \in ways : n > 0 /\ n \in Int) /\ ~Stuck(g, p, ep)
    OBVIOUS
  <2>1. \A n \in Zeroed(g, p, ep) : n < 0
    BY DEF AllLose
  <2>2. \A q \in g.quiet[p] : d[q] > 0
    BY DEF AllLose
  <2>3. wins = {}
    BY <1>3, <1>4, <2>1, <2>2 DEF Wins
  <2>4. \A n \in ways : n > 0 /\ n \in Int
    BY <1>3, <1>4, <2>1, <2>2 DEF Ways
  <2>5. ~Stuck(g, p, ep)
    BY DEF Stuck, AllLose, Ways, Zeroed
  <2> QED
    BY <2>3, <2>4, <2>5
<1>7. Stuck(g, p, ep) => wins = {} /\ ~AllLose(g, p, ep, d)
  BY <1>6 DEF Stuck, Wins, Zeroed
<1>8. d[p] \in Int
  BY <1>1
<1> HIDE DEF wins, ways
<1>9. CASE d[p] \in wins /\ \A n \in wins : d[p] <= n
  <2>1. d[p] > 0
    BY <1>5, <1>9
  <2> QED
    BY <1>6, <1>7, <1>8, <1>9, <2>1 DEF wins
<1>10. CASE Stuck(g, p, ep) /\ d[p] = 0 - 1
  BY <1>7, <1>10 DEF wins
<1>11. CASE AllLose(g, p, ep, d) /\ 0 - 1 - d[p] \in ways /\ \A n \in ways : n <= 0 - 1 - d[p]
  <2>1. 0 - 1 - d[p] > 0 /\ d[p] < -1 /\ wins = {} /\ ~Stuck(g, p, ep)
    BY <1>6, <1>8, <1>11
  <2>2. ~(d[p] > 0) /\ d[p] < 0 /\ 0 - 1 - d[p] = -1 - d[p]
    BY <1>8, <2>1
  <2> QED
    BY <1>8, <1>11, <2>1, <2>2 DEF wins, ways
<1>12. CASE wins = {} /\ ~Stuck(g, p, ep) /\ ~AllLose(g, p, ep, d) /\ d[p] = 0
  BY <1>12 DEF wins
<1> QED
  BY <1>1, <1>9, <1>10, <1>11, <1>12

\* Without en passant a position has the same truth for both.
Plain(g) == {q \in Positions(g) : \A m \in Range(g.zeroing[q]) : m.kind # "ep"}
Agree(g, d, e, n) ==
    \A q \in Plain(g) : (0 < d[q] /\ d[q] <= n) \/ (d[q] < 0 /\ -1 - n <= d[q]) => e[q] = d[q]

LEMMA PlainIs ==
    ASSUME NEW g, IsEndgame(g), NEW q \in Plain(g), NEW a \in BOOLEAN, NEW b \in BOOLEAN
    PROVE  /\ Known(g, q, a) = Known(g, q, b)
           /\ Zeroed(g, q, a) = Zeroed(g, q, b)
           /\ Stuck(g, q, a) <=> Stuck(g, q, b)
           /\ q \in Positions(g)
           /\ g.quiet[q] \subseteq Plain(g)
<1>1. Known(g, q, a) = Known(g, q, b)
  BY DEF Known, Plain
<1>2. q \in Positions(g)
  BY DEF Plain
<1>3. g.quiet[q] \subseteq Positions(g)
  BY <1>2 DEF IsEndgame
<1>4. \A r \in g.quiet[q] : \A m \in Range(g.zeroing[r]) : m.kind # "ep"
  BY <1>2 DEF IsEndgame
<1> QED
  BY <1>1, <1>2, <1>3, <1>4 DEF Zeroed, Stuck, Plain

\* The two truths of plain positions agree on wins and losses, ply by ply.
LEMMA AgreeStep ==
    ASSUME NEW g, IsEndgame(g), NEW a \in BOOLEAN, NEW b \in BOOLEAN, NEW d, NEW e,
           IsTruth(g, a, d), IsTruth(g, b, e), NEW n \in Nat, Agree(g, d, e, n), Agree(g, e, d, n)
    PROVE  Agree(g, d, e, n + 1)
<1> SUFFICES ASSUME NEW q \in Plain(g), (0 < d[q] /\ d[q] <= n + 1) \/ (d[q] < 0 /\ -1 - (n + 1) <= d[q])
             PROVE  e[q] = d[q]
  BY DEF Agree
<1>1. /\ q \in Positions(g) /\ g.quiet[q] \subseteq Plain(g) /\ g.quiet[q] \subseteq Positions(g)
      /\ Zeroed(g, q, a) = Zeroed(g, q, b) /\ (Stuck(g, q, a) <=> Stuck(g, q, b))
  BY PlainIs DEF Plain
<1>2. /\ d \in [Positions(g) -> Int] /\ e \in [Positions(g) -> Int]
      /\ \A r \in g.quiet[q] : d[r] \in Int /\ e[r] \in Int
  BY <1>1 DEF IsTruth
<1>3. \A k \in Zeroed(g, q, a) : k \in Int
  BY <1>1, ZeroingIs, FiftyIs
<1>4. CASE d[q] > 0
  <2>1. d[q] \in Wins(g, q, a, d) /\ d[q] <= n + 1 /\ d[q] \in Int
    BY <1>1, <1>2, <1>4, TruthBySign
  <2>2. d[q] \in Wins(g, q, b, e)
    <3>1. CASE d[q] \in Zeroed(g, q, a)
      BY <1>1, <1>4, <3>1 DEF Wins
    <3>2. CASE \E r \in g.quiet[q] : d[r] < 0 /\ d[q] = 0 - d[r]
      <4>1. PICK r \in g.quiet[q] : d[r] < 0 /\ d[q] = 0 - d[r]
        BY <3>2
      <4>2. -1 - n <= d[r] /\ r \in Plain(g)
        BY <1>1, <1>2, <2>1, <4>1
      <4>3. e[r] = d[r]
        BY <4>1, <4>2 DEF Agree
      <4> QED
        BY <4>1, <4>3 DEF Wins
    <3> QED
      BY <2>1, <3>1, <3>2 DEF Wins
  <2>3. e[q] > 0 /\ e[q] \in Int /\ e[q] <= d[q]
    BY <1>1, <2>2, TruthBySign
  <2>4. CASE e[q] <= n
    BY <2>3, <2>4 DEF Agree
  <2>5. CASE ~(e[q] <= n)
    BY <2>1, <2>3, <2>5
  <2> QED
    BY <2>4, <2>5
<1>5. CASE d[q] < 0
  <2>1. CASE Stuck(g, q, a)
    BY <1>1, <2>1, TruthBySign
  <2>2. CASE AllLose(g, q, a, d)
    <3>1. /\ -1 - d[q] \in Ways(g, q, a, d)
          /\ \A k \in Ways(g, q, a, d) : k <= -1 - d[q]
      BY <1>1, <2>2, TruthBySign
    <3>2. \A r \in g.quiet[q] : e[r] = d[r]
      <4> TAKE r \in g.quiet[q]
      <4>1. d[r] > 0 /\ d[r] \in Int
        BY <1>2, <2>2 DEF AllLose
      <4>2. d[r] + 1 <= -1 - d[q]
        BY <3>1 DEF Ways
      <4>3. -1 - (n + 1) <= d[q] /\ d[q] \in Int
        BY <1>1, <1>2, <1>5
      <4>4. d[r] <= n
        BY <4>1, <4>2, <4>3
      <4> QED
        BY <1>1, <4>1, <4>4 DEF Agree
    <3>3. Ways(g, q, b, e) = Ways(g, q, a, d)
      BY <1>1, <3>2 DEF Ways
    <3>4. AllLose(g, q, b, e)
      BY <1>1, <2>2, <3>2, <3>3 DEF AllLose
    <3>5. /\ -1 - e[q] \in Ways(g, q, b, e)
          /\ \A k \in Ways(g, q, b, e) : k <= -1 - e[q]
      BY <1>1, <3>4, TruthBySign
    <3>6. e[q] \in Int /\ d[q] \in Int
      BY <1>1, <1>2
    <3>7. -1 - e[q] <= -1 - d[q] /\ -1 - d[q] <= -1 - e[q]
      BY <3>1, <3>3, <3>5
    <3> QED
      BY <3>6, <3>7
  <2> QED
    BY <1>1, <1>5, <2>1, <2>2, TruthBySign
<1> QED
  BY <1>4, <1>5

\* What the tables know of a plain position is the truth.
LEMMA PlainAgree ==
    ASSUME NEW g, IsEndgame(g), NEW q \in Plain(g)
    PROVE  g.tableD[q] = g.d[q]
<1> DEFINE S == {n \in Nat : Agree(g, g.d, g.tableD, n) /\ Agree(g, g.tableD, g.d, n)}
<1>0. IsTruth(g, TRUE, g.d) /\ IsTruth(g, FALSE, g.tableD)
  BY DEF IsEndgame
<1>1. \A r \in Plain(g) : g.d[r] \in Int /\ g.tableD[r] \in Int
  BY <1>0 DEF IsTruth, Plain
<1>2. 0 \in S
  <2>1. ASSUME NEW a \in BOOLEAN, NEW b \in BOOLEAN, NEW d, NEW e, IsTruth(g, a, d), IsTruth(g, b, e)
        PROVE  Agree(g, d, e, 0)
    <3> SUFFICES ASSUME NEW r \in Plain(g), (0 < d[r] /\ d[r] <= 0) \/ (d[r] < 0 /\ -1 - 0 <= d[r])
                 PROVE  e[r] = d[r]
      BY DEF Agree
    <3>1. r \in Positions(g) /\ (Stuck(g, r, a) <=> Stuck(g, r, b))
      BY PlainIs
    <3>2. d[r] \in Int
      BY <2>1, <3>1, TruthBySign
    <3>3. d[r] < 0 /\ ~(d[r] < -1)
      BY <3>2
    <3>4. Stuck(g, r, a)
      BY <2>1, <3>1, <3>3, TruthBySign
    <3> QED
      BY <2>1, <3>1, <3>4, TruthBySign
  <2> QED
    BY <1>0, <2>1
<1>3. ASSUME NEW n \in Nat, n \in S PROVE n + 1 \in S
  <2>1. Agree(g, g.d, g.tableD, n) /\ Agree(g, g.tableD, g.d, n)
    BY <1>3
  <2>2. ASSUME NEW a \in BOOLEAN, NEW b \in BOOLEAN, NEW d, NEW e, IsTruth(g, a, d), IsTruth(g, b, e),
               Agree(g, d, e, n), Agree(g, e, d, n)
        PROVE  Agree(g, d, e, n + 1)
    BY <2>2, AgreeStep
  <2>3. Agree(g, g.d, g.tableD, n + 1)
    BY <1>0, <2>1, <2>2
  <2>4. Agree(g, g.tableD, g.d, n + 1)
    BY <1>0, <2>1, <2>2
  <2> QED
    BY <2>3, <2>4
<1> HIDE DEF S
<1>4. Nat \subseteq S
  BY <1>2, <1>3, NatSet
<1>5. \A n \in Nat : Agree(g, g.d, g.tableD, n) /\ Agree(g, g.tableD, g.d, n)
  BY <1>4 DEF S
<1>6. CASE g.d[q] > 0
  BY <1>1, <1>5, <1>6 DEF Agree
<1>7. CASE g.d[q] < 0
  <2>1. -1 - g.d[q] \in Nat /\ -1 - (-1 - g.d[q]) <= g.d[q]
    BY <1>1, <1>7
  <2> QED
    BY <1>5, <1>7, <2>1 DEF Agree
<1>8. CASE g.tableD[q] > 0
  BY <1>1, <1>5, <1>8 DEF Agree
<1>9. CASE g.tableD[q] < 0
  <2>1. -1 - g.tableD[q] \in Nat /\ -1 - (-1 - g.tableD[q]) <= g.tableD[q]
    BY <1>1, <1>9
  <2> QED
    BY <1>5, <1>9, <2>1 DEF Agree
<1> QED
  BY <1>1, <1>6, <1>7, <1>8, <1>9

-----------------------------------------------------------------------------
(* The search over the zeroing moves.                                      *)

\* The best of them, and whether there are no other moves.
Top(g, p) == Max({Loss} \cup Worth(g, p, TRUE))
OnlyZeroing(g, p) == Known(g, p, TRUE) # {} /\ g.quiet[p] = {}

\* The best zeroing move is worth at least what the others are.
LEMMA TopIs ==
    ASSUME NEW g, IsEndgame(g), NEW p \in Positions(g)
    PROVE  /\ Top(g, p) \in Scores /\ Top(g, p) \in -2 .. 2
           /\ \A w \in Worth(g, p, TRUE) : w <= Top(g, p)
           /\ Top(g, p) = -2 \/ Top(g, p) \in Worth(g, p, TRUE)
<1> DEFINE S == {Loss} \cup Worth(g, p, TRUE)
<1>1. Worth(g, p, TRUE) \subseteq Scores
  BY ZeroingIs
<1>2. Loss = -2 /\ Scores = -2 .. 2 /\ S # {} /\ Loss \in Scores
  <2>1. Loss = -2 /\ Scores = -2 .. 2
    BY Values
  <2>2. Loss \in S /\ Loss \in Scores
    BY <2>1
  <2> QED
    BY <2>1, <2>2
<1>3. S \subseteq Scores
  BY <1>1, <1>2
<1> HIDE DEF S
<1>4. S \in SUBSET Int /\ \A x \in S : x <= 2
  BY <1>2, <1>3
<1>5. Max(S) \in S /\ \A x \in S : x <= Max(S)
  BY <1>2, <1>4, MaxBelow
<1>6. Max(S) \in Scores
  BY <1>3, <1>5
<1> QED
  BY <1>2, <1>5, <1>6, Zenon DEF S, Top

\* A position's truth as a score.
LEMMA WdlIs ==
    ASSUME NEW x \in Int
    PROVE  /\ WdlOf(x) \in Scores
           /\ WdlOf(x) = 2 <=> x > 0 /\ x <= Fifty
           /\ WdlOf(x) = 1 <=> x > Fifty
           /\ WdlOf(x) = 0 <=> x = 0
           /\ WdlOf(x) = -1 <=> x < 0 /\ -1 - x > Fifty
           /\ WdlOf(x) = -2 <=> x < 0 /\ -1 - x <= Fifty
<1>1. /\ x = 0 => WdlOf(x) = Draw
      /\ x > 0 => WdlOf(x) = IF x <= Fifty THEN Win ELSE CursedWin
      /\ x < 0 => WdlOf(x) = IF 0 - 1 - x <= Fifty THEN Loss ELSE BlessedLoss
  BY DEF WdlOf
<1> QED
  BY <1>1, Values, FiftyIs

\* What the table stores is the truth, unless a capture is as good.
LEMMA StoredIs ==
    ASSUME NEW g, IsEndgame(g), NEW p \in Positions(g)
    PROVE  LET truth == WdlOf(g.tableD[p])
               stored == StoredWdl(g, p)
           IN  /\ truth \in Scores /\ stored \in Scores
               /\ stored > Top(g, p) => stored = truth
               /\ ~(stored > Top(g, p)) => truth <= Top(g, p)
<1> DEFINE truth == WdlOf(g.tableD[p])
           stored == StoredWdl(g, p)
           best == {0 - m.v : m \in {m \in Range(g.zeroing[p]) : m.kind = "capture"}}
<1>1. truth \in Scores
  <2>1. g.tableD[p] \in Int
    BY DEF IsEndgame, IsTruth
  <2> QED
    BY <2>1, WdlIs
<1>2. best \subseteq Worth(g, p, TRUE)
  BY DEF Worth, Known
<1>3. stored = truth \/ (stored = Loss /\ truth \in best)
  BY DEF StoredWdl
<1>4. Top(g, p) \in Scores /\ \A w \in Worth(g, p, TRUE) : w <= Top(g, p)
  BY TopIs
<1> HIDE DEF truth, stored, best
<1>5. Loss = -2 /\ Scores = -2 .. 2
  BY Values
<1>6. CASE stored = truth
  BY <1>1, <1>4, <1>5, <1>6 DEF truth, stored
<1>7. CASE stored = Loss /\ truth \in best
  <2>1. truth <= Top(g, p)
    BY <1>2, <1>4, <1>7
  <2>2. ~(stored > Top(g, p)) /\ stored \in Scores
    BY <1>4, <1>5, <1>7
  <2> QED
    BY <1>1, <2>1, <2>2 DEF truth, stored
<1> QED
  BY <1>3, <1>6, <1>7

\* What search<true> answers, by the best zeroing move and the table.
LEMMA SearchIs ==
    ASSUME NEW g, IsEndgame(g), NEW p \in Positions(g)
    PROVE  LET r == Search(g, p, TRUE)
               top == Top(g, p)
               stored == StoredWdl(g, p)
           IN  \/ r.state = "FAIL"
               \/ top = 2 /\ r = Answer(2, "ZEROING_BEST_MOVE")
               \/ top < 2 /\ OnlyZeroing(g, p) /\ r = Answer(top, "ZEROING_BEST_MOVE")
               \/ /\ top < 2 /\ ~OnlyZeroing(g, p) /\ ~(stored > top)
                  /\ r = Answer(top, IF top > 0 THEN "ZEROING_BEST_MOVE" ELSE "OK")
               \/ top < 2 /\ ~OnlyZeroing(g, p) /\ stored > top /\ r = Answer(stored, "OK")
<1> DEFINE r == Search(g, p, TRUE)
           top == Top(g, p)
           stored == StoredWdl(g, p)
           moves == g.zeroing[p]
           tried == {i \in DOMAIN moves : Zeroes(moves[i], TRUE)}
           TriedAt(i) == \A j \in tried : j < i => 0 - moves[j].v < Win /\ ~Unreadable(g, moves[j])
           unread == \E i \in tried : TriedAt(i) /\ Unreadable(g, moves[i])
           best == Max({Loss} \cup {0 - moves[i].v : i \in tried})
           noMoreMoves == tried # {} /\ Cardinality(tried) = Legal(g, p)
           value == IF noMoreMoves THEN best ELSE stored
<1>1. r = IF unread THEN Failed
          ELSE IF best = Win THEN Answer(Win, "ZEROING_BEST_MOVE")
          ELSE IF ~noMoreMoves /\ "wdl" \in g.missing THEN Failed
          ELSE IF best >= value
               THEN Answer(best, IF best > Draw \/ noMoreMoves THEN "ZEROING_BEST_MOVE" ELSE "OK")
          ELSE Answer(value, "OK")
  BY DEF Search
<1>2. tried = DOMAIN moves
  BY DEF Zeroes
<1>3. {0 - moves[i].v : i \in tried} = Worth(g, p, TRUE)
  BY <1>2 DEF Worth, Known, Range
<1>4. best = top
  BY <1>3 DEF Top
<1>5. noMoreMoves <=> OnlyZeroing(g, p)
  <2> DEFINE M == [kind : {"capture", "ep", "pawn"}, v : Loss .. Win]
  <2>1. moves \in Seq(M) /\ IsFiniteSet(g.quiet[p])
    BY DEF IsEndgame
  <2> HIDE DEF moves, M
  <2>2. Len(moves) \in Nat /\ DOMAIN moves = 1 .. Len(moves)
    BY <2>1
  <2>3. Cardinality(tried) = Len(moves)
    <3>1. Cardinality(1 .. Len(moves)) = IF 1 > Len(moves) THEN 0 ELSE Len(moves) - 1 + 1
      BY <2>2, FS_Interval
    <3>2. tried = 1 .. Len(moves)
      BY <1>2, <2>2
    <3> HIDE DEF tried
    <3> QED
      BY <2>2, <3>1, <3>2
  <2>4. Cardinality(g.quiet[p]) \in Nat /\ (Cardinality(g.quiet[p]) = 0 <=> g.quiet[p] = {})
    BY <2>1, FS_CardinalityType, FS_EmptySet
  <2>5. Legal(g, p) = Cardinality(g.quiet[p]) + Len(moves)
    BY DEF Legal, moves
  <2>6. tried # {} <=> Known(g, p, TRUE) # {}
    BY <1>2 DEF Known, Range, moves
  <2> HIDE DEF tried
  <2>7. Cardinality(tried) = Legal(g, p) <=> g.quiet[p] = {}
    <3> DEFINE c == Cardinality(g.quiet[p])
    <3>1. c \in Nat /\ (c = 0 <=> g.quiet[p] = {})
      BY <2>4
    <3>2. Legal(g, p) = c + Len(moves)
      BY <2>5
    <3> DEFINE l == Len(moves)
               all == Legal(g, p)
               k == Cardinality(tried)
    <3>3. l \in Nat /\ k = l /\ all = c + l
      BY <2>2, <2>3, <3>2
    <3> HIDE DEF c, l, all, k
    <3>4. k = all <=> c = 0
      BY <3>1, <3>3
    <3> QED
      BY <3>1, <3>4, Zenon DEF k, all
  <2> QED
    BY <2>6, <2>7 DEF OnlyZeroing
<1>6. Top(g, p) \in -2 .. 2 /\ stored \in -2 .. 2 /\ Win = 2 /\ Draw = 0
  BY TopIs, StoredIs, Values
<1>7. Failed.state = "FAIL"
  BY DEF Failed, Answer
<1> HIDE DEF r, unread, best, noMoreMoves, stored
<1>8. CASE unread \/ (best # 2 /\ ~noMoreMoves /\ "wdl" \in g.missing)
  BY <1>1, <1>6, <1>7, <1>8 DEF r
<1>9. CASE ~unread /\ best = 2
  BY <1>1, <1>4, <1>6, <1>9 DEF r
<1>10. CASE ~unread /\ best # 2 /\ noMoreMoves
  <2>1. value = best /\ best < 2 /\ best >= value
    BY <1>4, <1>6, <1>10
  <2>2. r = Answer(best, "ZEROING_BEST_MOVE")
    BY <1>1, <1>6, <1>10, <2>1
  <2> QED
    BY <1>4, <1>5, <1>10, <2>1, <2>2 DEF r
<1>11. CASE ~unread /\ best # 2 /\ ~noMoreMoves /\ ~("wdl" \in g.missing)
  <2>1. value = stored /\ best < 2
    BY <1>4, <1>6, <1>11
  <2>2. r = IF best >= stored THEN Answer(best, IF best > 0 THEN "ZEROING_BEST_MOVE" ELSE "OK")
            ELSE Answer(stored, "OK")
    BY <1>1, <1>6, <1>11, <2>1
  <2>3. best >= stored <=> ~(stored > best)
    BY <1>4, <1>6
  <2> QED
    BY <1>4, <1>5, <1>11, <2>1, <2>2, <2>3 DEF r, stored
<1> QED
  BY <1>8, <1>9, <1>10, <1>11

-----------------------------------------------------------------------------
(* What the search tells of the truth.                                     *)

\* A reading of a distance: right, or one ply short on the same side of the
\* fifty moves, and not short at their edge.
Reads(v, d) ==
    /\ v \in Int
    /\ \/ d = 0 /\ v = 0
       \/ d > 0 /\ v > 0 /\ d - v \in {0, 1} /\ (d > Fifty <=> v > Fifty) /\ (d = Fifty => v = Fifty)
       \/ d < 0 /\ v < 0 /\ Plies(d) + v \in {0, 1} /\ (Plies(d) > Fifty <=> -v > Fifty)
          /\ (Plies(d) = Fifty => v = -Fifty)

LEMMA PliesAre ==
    ASSUME NEW d \in Int
    PROVE  /\ d >= 0 => Plies(d) = d
           /\ d = -1 => Plies(d) = 1
           /\ d < -1 => Plies(d) = -1 - d
           /\ Plies(d) \in Nat
BY DEF Plies

\* The truth with en passant and that of the tables, in the positions one ply on.
LEMMA OnePly ==
    ASSUME NEW g, IsEndgame(g), NEW p \in Positions(g)
    PROVE  /\ g.d[p] \in Int /\ g.tableD[p] \in Int
           /\ \A q \in g.quiet[p] : g.tableD[q] = g.d[q] /\ g.d[q] \in Int /\ q \in Plain(g) /\ q \in Positions(g)
           /\ Known(g, p, FALSE) \subseteq Known(g, p, TRUE)
           /\ Zeroed(g, p, FALSE) \subseteq Zeroed(g, p, TRUE)
<1>1. g.quiet[p] \subseteq Plain(g)
  <2>1. g.quiet[p] \subseteq Positions(g)
    BY DEF IsEndgame
  <2>2. \A q \in g.quiet[p] : \A m \in Range(g.zeroing[q]) : m.kind # "ep"
    BY DEF IsEndgame
  <2> QED
    BY <2>1, <2>2 DEF Plain
<1>2. IsTruth(g, TRUE, g.d) /\ IsTruth(g, FALSE, g.tableD)
  BY DEF IsEndgame
<1>3. Known(g, p, FALSE) \subseteq Known(g, p, TRUE)
  BY DEF Known
<1>4. \A q \in g.quiet[p] : g.tableD[q] = g.d[q]
  BY <1>1, PlainAgree
<1>5. g.d \in [Positions(g) -> Int] /\ g.tableD \in [Positions(g) -> Int]
  BY <1>2 DEF IsTruth
<1> QED
  BY <1>1, <1>3, <1>4, <1>5 DEF Plain, Zeroed

\* A distance by its sign: the shortest of the wins, the longest of the losses.
LEMMA TrueDistance ==
    ASSUME NEW g, IsEndgame(g), NEW p \in Positions(g)
    PROVE  LET d == g.d[p]
               wins == Wins(g, p, TRUE, g.d)
               ways == Ways(g, p, TRUE, g.d)
               lost == AllLose(g, p, TRUE, g.d)
           IN  /\ d \in Int
               /\ d > 0 <=> wins # {}
               /\ d > 0 => d \in wins /\ \A n \in wins : d <= n
               /\ d < 0 <=> Stuck(g, p, TRUE) \/ lost
               /\ Stuck(g, p, TRUE) => d = -1
               /\ lost => -1 - d \in ways /\ (\A n \in ways : n <= -1 - d) /\ d < -1
<1>1. IsTruth(g, TRUE, g.d)
  BY DEF IsEndgame
<1>2. TRUE \in BOOLEAN /\ FALSE \in BOOLEAN
  OBVIOUS
<1> QED
  BY <1>1, <1>2, TruthBySign, Zenon

LEMMA TableDistance ==
    ASSUME NEW g, IsEndgame(g), NEW p \in Positions(g)
    PROVE  LET d == g.tableD[p]
               wins == Wins(g, p, FALSE, g.tableD)
               ways == Ways(g, p, FALSE, g.tableD)
               lost == AllLose(g, p, FALSE, g.tableD)
           IN  /\ d \in Int
               /\ d > 0 <=> wins # {}
               /\ d > 0 => d \in wins /\ \A n \in wins : d <= n
               /\ d < 0 <=> Stuck(g, p, FALSE) \/ lost
               /\ Stuck(g, p, FALSE) => d = -1
               /\ lost => -1 - d \in ways /\ (\A n \in ways : n <= -1 - d) /\ d < -1
<1>1. IsTruth(g, FALSE, g.tableD)
  BY DEF IsEndgame
<1>2. TRUE \in BOOLEAN /\ FALSE \in BOOLEAN
  OBVIOUS
<1> QED
  BY <1>1, <1>2, TruthBySign, Zenon

\* The wins of quiet moves.
QuietWins(g, p) == {0 - g.d[q] : q \in {q \in g.quiet[p] : g.d[q] < 0}}

LEMMA WinsAre ==
    ASSUME NEW g, IsEndgame(g), NEW p \in Positions(g)
    PROVE  /\ Wins(g, p, TRUE, g.d) = {n \in Zeroed(g, p, TRUE) : n > 0} \cup QuietWins(g, p)
           /\ Wins(g, p, FALSE, g.tableD) = {n \in Zeroed(g, p, FALSE) : n > 0} \cup QuietWins(g, p)
           /\ QuietWins(g, p) \subseteq Nat \ {0}
<1>1. \A q \in g.quiet[p] : g.tableD[q] = g.d[q] /\ g.d[q] \in Int
  BY OnePly
<1>2. Wins(g, p, TRUE, g.d) = {n \in Zeroed(g, p, TRUE) : n > 0} \cup QuietWins(g, p)
  BY Zenon DEF Wins, QuietWins
<1>3. {0 - g.tableD[q] : q \in {q \in g.quiet[p] : g.tableD[q] < 0}} = QuietWins(g, p)
  BY <1>1 DEF QuietWins
<1>4. Wins(g, p, FALSE, g.tableD) = {n \in Zeroed(g, p, FALSE) : n > 0} \cup QuietWins(g, p)
  BY <1>3, Zenon DEF Wins
<1>5. QuietWins(g, p) \subseteq Nat \ {0}
  BY <1>1 DEF QuietWins
<1> QED
  BY <1>2, <1>4, <1>5

\* The zeroing moves by the best of them.
LEMMA ZeroedByTop ==
    ASSUME NEW g, IsEndgame(g), NEW p \in Positions(g)
    PROVE  LET top == Top(g, p)
               zeroed == Zeroed(g, p, TRUE)
           IN  /\ \A n \in zeroed : n \in Int /\ (n = 1 \/ n = Fifty + 1 \/ n = 0 \/ n = -(Fifty + 1) \/ n = -1)
               /\ top = 2 => 1 \in zeroed
               /\ top < 2 => 1 \notin zeroed
               /\ top = 1 => Fifty + 1 \in zeroed
               /\ top < 1 => \A n \in zeroed : n <= 0
               /\ top = 0 => 0 \in zeroed
               /\ top < 0 => \A n \in zeroed : n < 0
               /\ top = -1 => -(Fifty + 1) \in zeroed
               /\ top = -2 => \A n \in zeroed : n = -1
<1> DEFINE top == Top(g, p)
           zeroed == Zeroed(g, p, TRUE)
           worth == Worth(g, p, TRUE)
<1>1. /\ zeroed \subseteq {1, Fifty + 1, 0, -(Fifty + 1), -1}
      /\ (1 \in zeroed <=> 2 \in worth) /\ (Fifty + 1 \in zeroed <=> 1 \in worth)
      /\ (0 \in zeroed <=> 0 \in worth) /\ (-(Fifty + 1) \in zeroed <=> -1 \in worth)
  BY ZeroingIs
<1>2. top \in -2 .. 2 /\ (\A w \in worth : w <= top) /\ (top = -2 \/ top \in worth)
  BY TopIs, Values
<1>3. Fifty \in Nat /\ Fifty >= 2
  BY FiftyIs
<1> HIDE DEF top, zeroed, worth
<1>4. /\ top < 2 => 2 \notin worth
      /\ top < 1 => 1 \notin worth
      /\ top < 0 => 0 \notin worth
      /\ top < -1 => -1 \notin worth
  BY <1>2
<1>5. /\ top < 2 => 1 \notin zeroed
      /\ top < 1 => 1 \notin zeroed /\ Fifty + 1 \notin zeroed
      /\ top < 0 => 0 \notin zeroed
      /\ top < -1 => -(Fifty + 1) \notin zeroed
  BY <1>1, <1>2, <1>4
<1>6. /\ top = 2 => 1 \in zeroed
      /\ top = 1 => Fifty + 1 \in zeroed
      /\ top = 0 => 0 \in zeroed
      /\ top = -1 => -(Fifty + 1) \in zeroed
  BY <1>1, <1>2
<1>7. \A n \in zeroed : n \in Int /\ (n = 1 \/ n = Fifty + 1 \/ n = 0 \/ n = -(Fifty + 1) \/ n = -1)
  BY <1>1, <1>3
<1>8. top < 1 => \A n \in zeroed : n <= 0
  BY <1>2, <1>3, <1>5, <1>7
<1>9. top < 0 => \A n \in zeroed : n < 0
  BY <1>2, <1>3, <1>5, <1>7
<1>10. top = -2 => \A n \in zeroed : n = -1
  BY <1>2, <1>3, <1>5, <1>7
<1> QED
  BY <1>5, <1>6, <1>7, <1>8, <1>9, <1>10 DEF top, zeroed

\* The best zeroing move wins, or there is no other: it is the distance.
LEMMA BestWins ==
    ASSUME NEW g, IsEndgame(g), NEW p \in Positions(g), Top(g, p) = 2
    PROVE  g.d[p] = 1
<1>1. 1 \in Zeroed(g, p, TRUE)
  BY ZeroedByTop
<1>2. 1 \in Wins(g, p, TRUE, g.d)
  <2>1. 1 > 0
    OBVIOUS
  <2>2. 1 \in {n \in Zeroed(g, p, TRUE) : n > 0}
    BY <1>1, <2>1, Zenon
  <2> QED
    BY <2>2, Zenon DEF Wins
<1>3. g.d[p] \in Int /\ g.d[p] > 0 /\ g.d[p] <= 1
  BY <1>2, TrueDistance
<1> QED
  BY <1>3

\* With zeroing moves alone the best of them is the truth.
LEMMA ZeroingAlone ==
    ASSUME NEW g, IsEndgame(g), NEW p \in Positions(g), Top(g, p) < 2, OnlyZeroing(g, p)
    PROVE  Reads(BeforeZeroing(Top(g, p)), g.d[p])
<1> DEFINE top == Top(g, p)
           zeroed == Zeroed(g, p, TRUE)
           d == g.d[p]
           ways == Ways(g, p, TRUE, g.d)
           lost == AllLose(g, p, TRUE, g.d)
<1>1. g.quiet[p] = {} /\ Known(g, p, TRUE) # {}
  BY DEF OnlyZeroing
<1>2. /\ zeroed # {}
      /\ top < 2 => 1 \notin zeroed
      /\ top = 1 => Fifty + 1 \in zeroed
      /\ top < 1 => \A n \in zeroed : n <= 0
      /\ top = 0 => 0 \in zeroed
      /\ top < 0 => \A n \in zeroed : n < 0
      /\ top = -1 => -(Fifty + 1) \in zeroed
      /\ top = -2 => \A n \in zeroed : n = -1
  <2>1. zeroed # {}
    BY <1>1 DEF Zeroed
  <2> QED
    BY <2>1, ZeroedByTop, Zenon
<1>3. top \in -2 .. 1
  <2>1. top \in -2 .. 2 /\ top < 2
    BY TopIs, Zenon
  <2> HIDE DEF top
  <2> QED
    BY <2>1
<1>4. ~Stuck(g, p, TRUE)
  BY <1>1 DEF Stuck
<1>5. /\ d \in Int
      /\ d > 0 => d \in Wins(g, p, TRUE, g.d)
      /\ Wins(g, p, TRUE, g.d) # {} => d > 0
      /\ d < 0 <=> lost
      /\ lost => -1 - d \in ways /\ \A n \in ways : n <= -1 - d
  BY <1>4, TrueDistance
<1>6. Wins(g, p, TRUE, g.d) = {n \in zeroed : n > 0}
  BY <1>1 DEF Wins
<1>7. ways = {0 - n : n \in zeroed}
  BY <1>1 DEF Ways
<1>8. lost <=> \A n \in zeroed : n < 0
  BY <1>1, <1>2, <1>7 DEF AllLose
<1>9. Fifty \in Nat /\ Fifty >= 2
  BY FiftyIs
<1>10. \A n \in zeroed : n \in Int /\ (n = 1 \/ n = Fifty + 1 \/ n = 0 \/ n = -(Fifty + 1) \/ n = -1)
  BY ZeroedByTop
<1>11. (\A n \in ways : \E k \in zeroed : n = 0 - k) /\ \A k \in zeroed : 0 - k \in ways
  BY <1>7
<1>12. (d > 0 => d \in zeroed /\ d > 0) /\ ((\E n \in zeroed : n > 0) => d > 0)
  BY <1>5, <1>6
<1> SUFFICES Reads(BeforeZeroing(top), d)
  OBVIOUS
<1> HIDE DEF top, zeroed, d, ways, lost
<1>13. CASE top = 1
  <2>1. d = Fifty + 1
    BY <1>2, <1>5, <1>9, <1>10, <1>12, <1>13
  <2> QED
    BY <1>9, <1>13, <2>1, Values DEF Reads
<1>14. CASE top = 0
  <2>1. d = 0
    BY <1>2, <1>5, <1>8, <1>12, <1>14
  <2> QED
    BY <1>14, <2>1, Values DEF Reads
<1>15. CASE top = -1
  <2>1. lost /\ \A n \in zeroed : n = -(Fifty + 1) \/ n = -1
    BY <1>2, <1>8, <1>9, <1>10, <1>15
  <2>2. \A n \in ways : n <= Fifty + 1
    BY <1>9, <1>11, <2>1
  <2>3. Fifty + 1 \in ways
    <3>1. 0 - (-(Fifty + 1)) \in ways
      BY <1>2, <1>11, <1>15
    <3> QED
      BY <1>9, <3>1
  <2>4. -1 - d <= Fifty + 1 /\ Fifty + 1 <= -1 - d
    BY <1>5, <2>1, <2>2, <2>3
  <2>5. d = -1 - (Fifty + 1)
    BY <1>5, <1>9, <2>4
  <2>6. Plies(d) = Fifty + 1
    BY <1>5, <1>9, <2>5, PliesAre
  <2> QED
    BY <1>9, <1>15, <2>5, <2>6, Values DEF Reads
<1>16. CASE top = -2
  <2>1. lost
    BY <1>2, <1>8, <1>16
  <2>2. \A n \in ways : n = 1
    BY <1>2, <1>11, <1>16
  <2>3. d = -2
    BY <1>5, <2>1, <2>2
  <2>4. Plies(d) = 1
    BY <2>3, PliesAre
  <2> QED
    BY <1>9, <1>16, <2>3, <2>4, Values DEF Reads
<1> QED
  BY <1>3, <1>13, <1>14, <1>15, <1>16

\* The search does not ask for the table: the zeroing moves tell the distance.
LEMMA DrawIs ==
    ASSUME NEW g, IsEndgame(g), NEW p \in Positions(g), ~OnlyZeroing(g, p), Top(g, p) <= 0,
           \/ Top(g, p) = 0 /\ g.tableD[p] <= 0
           \/ g.tableD[p] = 0
    PROVE  g.d[p] = 0
<1> DEFINE top == Top(g, p)
           zeroed == Zeroed(g, p, TRUE)
<1>1. /\ g.d[p] \in Int /\ g.tableD[p] \in Int
      /\ \A n \in zeroed : n \in Int /\ n <= 0
      /\ top = 0 => 0 \in zeroed
      /\ Zeroed(g, p, FALSE) \subseteq zeroed
      /\ top \in -2 .. 2
  <2>1. top \in -2 .. 2 /\ top <= 0
    BY TopIs, Zenon
  <2> HIDE DEF top
  <2>2. top < 1
    BY <2>1
  <2> USE DEF top
  <2>3. \A n \in zeroed : n \in Int /\ n <= 0
    BY <2>2, ZeroedByTop, Zenon
  <2>4. top = 0 => 0 \in zeroed
    BY ZeroedByTop, Zenon
  <2> QED
    BY <2>1, <2>3, <2>4, OnePly, Zenon
<1>2. Wins(g, p, FALSE, g.tableD) = {}
  <2>1. g.tableD[p] \in Int /\ g.tableD[p] <= 0
    BY <1>1
  <2>2. ~(g.tableD[p] > 0)
    BY <2>1
  <2> QED
    BY <2>2, TableDistance, Zenon
<1>3. Wins(g, p, TRUE, g.d) = {}
  <2>1. QuietWins(g, p) = {} /\ Wins(g, p, TRUE, g.d) = {n \in zeroed : n > 0} \cup QuietWins(g, p)
    BY <1>2, WinsAre
  <2>2. {n \in zeroed : n > 0} = {}
    <3>1. \A n \in zeroed : n \in Int /\ n <= 0
      BY <1>1
    <3> HIDE DEF zeroed
    <3> QED
      BY <3>1
  <2> QED
    BY <2>1, <2>2, Zenon
<1>4. ~(g.d[p] > 0)
  BY <1>3, TrueDistance, TableDistance
<1>5. g.d[p] < 0 => Stuck(g, p, TRUE) \/ AllLose(g, p, TRUE, g.d)
  BY TrueDistance, TableDistance
<1>6. ~(g.d[p] < 0)
  <2> SUFFICES ASSUME g.d[p] < 0 PROVE FALSE
    OBVIOUS
  <2>1. CASE top = 0
    <3>1. 0 \in zeroed
      BY <1>1, <2>1
    <3>2. ~Stuck(g, p, TRUE)
      BY <3>1 DEF Stuck, Zeroed
    <3>3. ~AllLose(g, p, TRUE, g.d)
      <4>1. ~(0 < 0)
        OBVIOUS
      <4> QED
        BY <3>1, <4>1, Zenon DEF AllLose
    <3> QED
      BY <1>5, <3>2, <3>3
  <2>2. CASE g.tableD[p] = 0
    <3>0. ~(g.tableD[p] < 0)
      BY <2>2
    <3>1. ~Stuck(g, p, FALSE) /\ ~AllLose(g, p, FALSE, g.tableD)
      BY <3>0, TableDistance, Zenon
    <3>2. ~Stuck(g, p, TRUE)
      BY <3>1, OnePly DEF Stuck
    <3>3. AllLose(g, p, TRUE, g.d)
      BY <1>5, <3>2
    <3>4. (\A n \in Zeroed(g, p, FALSE) : n < 0) /\ \A q \in g.quiet[p] : g.tableD[q] > 0
      BY <1>1, <3>3, OnePly DEF AllLose
    <3>5. Ways(g, p, FALSE, g.tableD) = {}
      BY <3>1, <3>4 DEF AllLose
    <3>6. g.quiet[p] = {}
      BY <3>5 DEF Ways
    <3>7. Known(g, p, TRUE) # {}
      BY <3>3, <3>6 DEF AllLose, Ways, Zeroed
    <3> QED
      BY <3>6, <3>7 DEF OnlyZeroing
  <2> QED
    BY <2>1, <2>2
<1> QED
  BY <1>1, <1>4, <1>6

\* A zeroing win behind the fifty moves that no quiet move beats is the truth.
LEMMA CursedZeroing ==
    ASSUME NEW g, IsEndgame(g), NEW p \in Positions(g), Top(g, p) = 1,
           g.tableD[p] <= 0 \/ g.tableD[p] > Fifty
    PROVE  g.d[p] = Fifty + 1
<1> DEFINE zeroed == Zeroed(g, p, TRUE)
<1>1. /\ \A n \in zeroed : n \in Int /\ (n = 1 \/ n = Fifty + 1 \/ n = 0 \/ n = -(Fifty + 1) \/ n = -1)
      /\ 1 \notin zeroed /\ Fifty + 1 \in zeroed
  <2>1. Top(g, p) < 2 /\ Top(g, p) = 1
    OBVIOUS
  <2> QED
    BY <2>1, ZeroedByTop
<1>2. Fifty \in Nat /\ Fifty >= 2
  BY FiftyIs
<1>3. \A n \in QuietWins(g, p) : n > Fifty /\ n \in Nat
  <2> TAKE n \in QuietWins(g, p)
  <2>1. n \in Wins(g, p, FALSE, g.tableD) /\ n \in Nat
    BY WinsAre
  <2>2. g.tableD[p] > 0 /\ g.tableD[p] <= n /\ g.tableD[p] \in Int
    BY <2>1, TrueDistance, TableDistance
  <2> QED
    BY <1>2, <2>1, <2>2
<1> DEFINE wins == Wins(g, p, TRUE, g.d)
<1>4. Fifty + 1 \in wins /\ \A n \in wins : n >= Fifty + 1
  <2>1. wins = {n \in zeroed : n > 0} \cup QuietWins(g, p)
    BY WinsAre
  <2> HIDE DEF wins, zeroed
  <2>3. \A n \in zeroed : n > 0 => n = Fifty + 1
    BY <1>1, <1>2
  <2> QED
    BY <1>1, <1>2, <1>3, <2>1, <2>3
<1>5. g.d[p] \in wins /\ g.d[p] <= Fifty + 1 /\ g.d[p] \in Int
  BY <1>4, TrueDistance, TableDistance
<1> HIDE DEF wins
<1> QED
  BY <1>2, <1>4, <1>5

\* The table is asked for a win: no zeroing move is as good.
LEMMA TableWins ==
    ASSUME NEW g, IsEndgame(g), NEW p \in Positions(g), g.tableD[p] > 0,
           Top(g, p) <= 0 \/ (Top(g, p) < 2 /\ g.tableD[p] <= Fifty)
    PROVE  g.d[p] = g.tableD[p]
<1> DEFINE top == Top(g, p)
           D == g.tableD[p]
           zeroed == Zeroed(g, p, TRUE)
           zeroedF == Zeroed(g, p, FALSE)
           quiet == QuietWins(g, p)
           wins == Wins(g, p, TRUE, g.d)
           winsF == Wins(g, p, FALSE, g.tableD)
<1>1. /\ top \in -2 .. 2
      /\ \A n \in zeroed : n \in Int /\ (n = 1 \/ n = Fifty + 1 \/ n = 0 \/ n = -(Fifty + 1) \/ n = -1)
      /\ top < 2 => 1 \notin zeroed
      /\ top < 1 => \A n \in zeroed : n <= 0
  BY TopIs, ZeroedByTop, Zenon
<1>2. zeroedF \subseteq zeroed
  BY OnePly
<1>3. wins = {n \in zeroed : n > 0} \cup quiet /\ winsF = {n \in zeroedF : n > 0} \cup quiet
  BY WinsAre, Zenon
<1>4. quiet \subseteq Nat \ {0}
  BY WinsAre
<1>5. /\ D \in Int /\ D > 0 /\ D \in winsF /\ \A n \in winsF : D <= n
  BY TableDistance
<1>6. top <= 0 \/ (top < 2 /\ D <= Fifty)
  OBVIOUS
<1>7. wins # {} => g.d[p] \in wins /\ \A n \in wins : g.d[p] <= n
  BY TrueDistance
<1>8. Fifty \in Nat
  BY FiftyIs
<1> SUFFICES g.d[p] = D
  OBVIOUS
<1> HIDE DEF top, D, zeroed, zeroedF, quiet, wins, winsF
<1>9. \A n \in zeroed : n > 0 => n > D \/ (top > 0 /\ n = Fifty + 1 /\ D <= Fifty)
  BY <1>1, <1>5, <1>6, <1>8
<1>10. top > 0 => D <= Fifty
  BY <1>1, <1>6
<1>11. \A n \in zeroed : n > 0 => top > 0 /\ n = Fifty + 1
  BY <1>1, <1>5, <1>6, <1>8
<1>12. D \in quiet
  BY <1>2, <1>3, <1>5, <1>8, <1>10, <1>11
<1>13. \A n \in wins : D <= n /\ n \in Int
  <2> TAKE n \in wins
  <2>1. CASE n \in quiet
    <3>1. n \in winsF
      BY <1>3, <2>1
    <3> QED
      BY <1>4, <1>5, <2>1, <3>1
  <2>2. CASE n \in zeroed /\ n > 0
    BY <1>5, <1>8, <1>10, <1>11, <2>2
  <2> QED
    BY <1>3, <2>1, <2>2
<1>14. D \in wins
  BY <1>3, <1>12
<1>15. g.d[p] \in wins /\ g.d[p] <= D
  BY <1>7, <1>14
<1>16. D <= g.d[p] /\ g.d[p] \in Int
  BY <1>13, <1>15
<1> QED
  BY <1>5, <1>15, <1>16

\* A side with moves of all kinds loses with each of them.
LEMMA TableLost ==
    ASSUME NEW g, IsEndgame(g), NEW p \in Positions(g), g.tableD[p] < 0, ~OnlyZeroing(g, p), Top(g, p) < 0
    PROVE  \/ Stuck(g, p, FALSE) /\ Stuck(g, p, TRUE)
           \/ /\ AllLose(g, p, FALSE, g.tableD) /\ AllLose(g, p, TRUE, g.d)
              /\ Ways(g, p, FALSE, g.tableD) = {0 - n : n \in Zeroed(g, p, FALSE)} \cup {g.d[q] + 1 : q \in g.quiet[p]}
<1>1. Stuck(g, p, FALSE) \/ AllLose(g, p, FALSE, g.tableD)
  BY TableDistance
<1>2. CASE Stuck(g, p, FALSE)
  BY <1>2 DEF Stuck, OnlyZeroing
<1>3. CASE AllLose(g, p, FALSE, g.tableD)
  <2>1. \A q \in g.quiet[p] : g.tableD[q] = g.d[q]
    BY OnePly
  <2>2. Ways(g, p, FALSE, g.tableD) = {0 - n : n \in Zeroed(g, p, FALSE)} \cup {g.d[q] + 1 : q \in g.quiet[p]}
    BY <2>1 DEF Ways
  <2>3. Ways(g, p, FALSE, g.tableD) \subseteq Ways(g, p, TRUE, g.d)
    BY <2>2, OnePly DEF Ways
  <2>4. \A n \in Zeroed(g, p, TRUE) : n < 0
    BY ZeroedByTop
  <2>5. \A q \in g.quiet[p] : g.d[q] > 0
    BY <1>3, <2>1 DEF AllLose
  <2>6. AllLose(g, p, TRUE, g.d)
    BY <1>3, <2>3, <2>4, <2>5 DEF AllLose
  <2> QED
    BY <1>3, <2>2, <2>6
<1> QED
  BY <1>1, <1>2, <1>3

\* The table is asked for a loss: every zeroing move loses as fast.
LEMMA TableLoses ==
    ASSUME NEW g, IsEndgame(g), NEW p \in Positions(g), g.tableD[p] < 0, ~OnlyZeroing(g, p), Top(g, p) < 0,
           Top(g, p) = -2 \/ -1 - g.tableD[p] > Fifty
    PROVE  g.d[p] = g.tableD[p]
<1>1. CASE Stuck(g, p, FALSE) /\ Stuck(g, p, TRUE)
  BY <1>1, TrueDistance, TableDistance
<1>2. CASE /\ AllLose(g, p, FALSE, g.tableD) /\ AllLose(g, p, TRUE, g.d)
           /\ Ways(g, p, FALSE, g.tableD) = {0 - n : n \in Zeroed(g, p, FALSE)} \cup {g.d[q] + 1 : q \in g.quiet[p]}
  <2> DEFINE top == Top(g, p)
             D == g.tableD[p]
             d == g.d[p]
             zeroed == Zeroed(g, p, TRUE)
             ways == Ways(g, p, TRUE, g.d)
             waysF == Ways(g, p, FALSE, g.tableD)
             lost == -1 - D
  <2>1. /\ \A n \in zeroed : n \in Int /\ (n = 1 \/ n = Fifty + 1 \/ n = 0 \/ n = -(Fifty + 1) \/ n = -1)
        /\ top < 0 => \A n \in zeroed : n < 0
        /\ top = -2 => \A n \in zeroed : n = -1
    BY ZeroedByTop, Zenon
  <2>2. waysF = {0 - n : n \in Zeroed(g, p, FALSE)} \cup {g.d[q] + 1 : q \in g.quiet[p]}
    BY <1>2
  <2>3. waysF \subseteq ways
    BY <2>2, OnePly DEF Ways
  <2>4. \A n \in ways : n \in waysF \/ \E k \in zeroed : n = 0 - k
    BY <2>2 DEF Ways
  <2>5. D \in Int /\ lost \in waysF /\ (\A n \in waysF : n <= lost) /\ D < -1
    BY <1>2, TableDistance
  <2>6. d \in Int /\ -1 - d \in ways /\ \A n \in ways : n <= -1 - d
    BY <1>2, TrueDistance
  <2>7. top < 0 /\ (top = -2 \/ -1 - D > Fifty) /\ Fifty \in Nat
    BY FiftyIs
  <2>8. \A k \in zeroed : 0 - k <= -1 - D
    <3> HIDE DEF top, D, zeroed
    <3> QED
      BY <2>1, <2>5, <2>7
  <2> HIDE DEF D, d, zeroed, ways, waysF
  <2>9. \A n \in ways : n <= -1 - D
    BY <2>4, <2>5, <2>8
  <2>10. -1 - d <= -1 - D /\ -1 - D <= -1 - d
    BY <2>3, <2>5, <2>6, <2>9
  <2>11. d = D
    BY <2>5, <2>6, <2>10
  <2> QED
    BY <2>11 DEF d, D
<1> QED
  BY <1>1, <1>2, TableLost

\* Where the table says lost and an en passant capture that loses later is the
\* best move, only this move saves.
LEMMA EpSaves ==
    ASSUME NEW g, IsEndgame(g), NEW p \in Positions(g), g.tableD[p] < 0, -1 - g.tableD[p] <= Fifty,
           ~OnlyZeroing(g, p), Top(g, p) = -1
    PROVE  OnlyEpSaves(g, p)
<1>1. -(Fifty + 1) \in Zeroed(g, p, TRUE) /\ Fifty \in Nat
  BY ZeroedByTop, FiftyIs
<1>2. ~Stuck(g, p, TRUE)
  BY <1>1 DEF Stuck, Zeroed
<1>3. AllLose(g, p, TRUE, g.d)
  <2>1. Top(g, p) < 0
    OBVIOUS
  <2> QED
    BY <1>2, <2>1, TableLost, Zenon
<1>4. 0 - (-(Fifty + 1)) \in Ways(g, p, TRUE, g.d)
  BY <1>1 DEF Ways
<1>5. g.d[p] \in Int /\ 0 - (-(Fifty + 1)) <= -1 - g.d[p] /\ g.d[p] < 0
  BY <1>3, <1>4, TrueDistance
<1>6. -1 - g.d[p] > Fifty
  BY <1>1, <1>5
<1>7. WdlOf(g.d[p]) = -1
  BY <1>5, <1>6, WdlIs
<1>8. g.tableD[p] \in Int
  BY OnePly
<1>9. WdlOf(g.tableD[p]) = -2
  BY <1>8, WdlIs
<1> QED
  BY <1>7, <1>9, Values DEF OnlyEpSaves

\* What the search has found: the distance, or that it is the table's to tell.
LEMMA FoundIs ==
    ASSUME NEW g, IsEndgame(g), NEW p \in Positions(g), ~OnlyEpSaves(g, p)
    PROVE  LET found == Search(g, p, TRUE)
           IN  \/ found.state = "FAIL"
               \/ ~NeedsTable(found) /\ Reads(WithoutTable(found).v, g.d[p])
               \/ /\ NeedsTable(found) /\ g.tableD[p] = g.d[p] /\ g.d[p] # 0
                  /\ found.v = WdlOf(g.d[p])
<1> DEFINE top == Top(g, p)
           D == g.tableD[p]
           d == g.d[p]
           stored == StoredWdl(g, p)
           found == Search(g, p, TRUE)
<1>1. top \in -2 .. 2 /\ D \in Int /\ d \in Int /\ Fifty \in Nat /\ Fifty >= 2
  BY TopIs, OnePly, FiftyIs
<1>2. /\ stored \in -2 .. 2 /\ WdlOf(D) \in -2 .. 2
      /\ stored > top => stored = WdlOf(D)
      /\ ~(stored > top) => WdlOf(D) <= top
  BY StoredIs, Values
<1>3. /\ WdlOf(D) = 2 <=> D > 0 /\ D <= Fifty
      /\ WdlOf(D) = 1 <=> D > Fifty
      /\ WdlOf(D) = 0 <=> D = 0
      /\ WdlOf(D) = -1 <=> D < 0 /\ -1 - D > Fifty
      /\ WdlOf(D) = -2 <=> D < 0 /\ -1 - D <= Fifty
  BY <1>1, WdlIs
<1>4. \/ found.state = "FAIL"
      \/ top = 2 /\ found = Answer(2, "ZEROING_BEST_MOVE")
      \/ top < 2 /\ OnlyZeroing(g, p) /\ found = Answer(top, "ZEROING_BEST_MOVE")
      \/ /\ top < 2 /\ ~OnlyZeroing(g, p) /\ ~(stored > top)
         /\ found = Answer(top, IF top > 0 THEN "ZEROING_BEST_MOVE" ELSE "OK")
      \/ top < 2 /\ ~OnlyZeroing(g, p) /\ stored > top /\ found = Answer(stored, "OK")
  BY SearchIs, Zenon
<1>5. /\ top = 2 => d = 1
      /\ top < 2 /\ OnlyZeroing(g, p) => Reads(BeforeZeroing(top), d)
      /\ top = 1 /\ (D <= 0 \/ D > Fifty) => d = Fifty + 1
      /\ D > 0 /\ (top <= 0 \/ (top < 2 /\ D <= Fifty)) => d = D
  BY BestWins, ZeroingAlone, CursedZeroing, TableWins, Zenon
<1>6. ~OnlyZeroing(g, p) =>
      /\ top <= 0 /\ ((top = 0 /\ D <= 0) \/ D = 0) => d = 0
      /\ D < 0 /\ top < 0 /\ (top = -2 \/ -1 - D > Fifty) => d = D
      /\ ~(D < 0 /\ -1 - D <= Fifty /\ top = -1)
  BY DrawIs, TableLoses, EpSaves, Zenon
<1> HIDE DEF top, D, d, stored, found
<1> SUFFICES \/ found.state = "FAIL"
             \/ ~NeedsTable(found) /\ Reads(WithoutTable(found).v, d)
             \/ NeedsTable(found) /\ D = d /\ d # 0 /\ found.v = WdlOf(d)
  BY DEF found, D, d
<1> DEFINE Told == ~NeedsTable(found) /\ Reads(WithoutTable(found).v, d)
           Left == NeedsTable(found) /\ D = d /\ d # 0 /\ found.v = WdlOf(d)
<1>7. \A v \in -2 .. 2 : found = Answer(v, "ZEROING_BEST_MOVE") /\ Reads(BeforeZeroing(v), d) => Told
  BY Values DEF WithoutTable, Answer, NeedsTable
<1>8. found = Answer(0, "OK") /\ d = 0 => Told
  BY Values DEF WithoutTable, Answer, NeedsTable, Reads
<1>9. \A v \in -2 .. 2 : found = Answer(v, "OK") /\ v # 0 /\ D = d /\ v = WdlOf(D) => Left
  BY <1>3, Values DEF Answer, NeedsTable
<1>10. Reads(BeforeZeroing(2), 1) /\ Reads(BeforeZeroing(1), Fifty + 1)
  BY <1>1, Values DEF Reads
<1> HIDE DEF Told, Left
<1>11. CASE top = 2 /\ found = Answer(2, "ZEROING_BEST_MOVE")
  BY <1>5, <1>7, <1>10, <1>11 DEF Told
<1>12. CASE top < 2 /\ OnlyZeroing(g, p) /\ found = Answer(top, "ZEROING_BEST_MOVE")
  BY <1>1, <1>5, <1>7, <1>12 DEF Told
<1>13. CASE /\ top < 2 /\ ~OnlyZeroing(g, p) /\ ~(stored > top)
            /\ found = Answer(top, IF top > 0 THEN "ZEROING_BEST_MOVE" ELSE "OK")
  <2>1. WdlOf(D) <= top
    BY <1>2, <1>13
  <2>2. CASE top = 1
    <3>1. D <= 0 \/ D > Fifty
      BY <1>1, <1>2, <1>3, <2>1, <2>2
    <3>2. d = Fifty + 1 /\ found = Answer(1, "ZEROING_BEST_MOVE")
      BY <1>5, <1>13, <2>2, <3>1
    <3>3. Told
      BY <1>7, <1>10, <3>2
    <3> QED
      BY <3>3 DEF Told
  <2>3. CASE top = 0
    <3>1. D <= 0
      BY <1>1, <1>2, <1>3, <2>1, <2>3
    <3>2. d = 0 /\ found = Answer(0, "OK")
      BY <1>6, <1>13, <2>3, <3>1
    <3> QED
      BY <1>8, <3>2 DEF Told
  <2>4. CASE top < 0
    <3>1. D < 0 /\ WdlOf(D) < 0
      BY <1>1, <1>2, <1>3, <2>1, <2>4
    <3>2. found = Answer(top, "OK")
      <4>1. ~(top > 0)
        BY <1>1, <2>4
      <4> QED
        BY <1>13, <4>1
    <3>3. top = -2 \/ -1 - D > Fifty
      BY <1>1, <1>6, <1>13, <2>4, <3>1
    <3>4. D = d
      BY <1>6, <1>13, <2>4, <3>1, <3>3
    <3>5. top = WdlOf(D)
      BY <1>1, <1>2, <1>3, <2>1, <2>4, <3>1, <3>3
    <3>6. Left
      BY <1>1, <1>9, <2>4, <3>2, <3>4, <3>5
    <3> QED
      BY <3>6 DEF Left
  <2> QED
    BY <1>1, <1>13, <2>2, <2>3, <2>4
<1>14. CASE top < 2 /\ ~OnlyZeroing(g, p) /\ stored > top /\ found = Answer(stored, "OK")
  <2>1. stored = WdlOf(D) /\ WdlOf(D) > top
    BY <1>2, <1>14
  <2>2. CASE D > 0
    <3>1. top <= 0 \/ (top < 2 /\ D <= Fifty)
      BY <1>1, <1>2, <1>3, <2>1, <2>2
    <3>2. d = D /\ stored # 0
      BY <1>3, <1>5, <2>1, <2>2, <3>1
    <3>3. Left
      BY <1>2, <1>9, <1>14, <2>1, <3>2
    <3> QED
      BY <3>3 DEF Left
  <2>3. CASE D = 0
    <3>1. top <= 0 /\ stored = 0
      BY <1>1, <1>2, <1>3, <2>1, <2>3
    <3>2. d = 0
      BY <1>6, <1>14, <2>3, <3>1
    <3> QED
      BY <1>8, <1>14, <3>1, <3>2 DEF Told
  <2>4. CASE D < 0
    <3>1. top = -2 /\ stored = -1
      BY <1>1, <1>2, <1>3, <2>1, <2>4
    <3>2. d = D
      BY <1>6, <1>14, <2>4, <3>1
    <3>3. Left
      BY <1>2, <1>9, <1>14, <2>1, <3>1, <3>2
    <3> QED
      BY <3>3 DEF Left
  <2> QED
    BY <1>1, <2>2, <2>3, <2>4
<1> QED
  BY <1>4, <1>11, <1>12, <1>13, <1>14

-----------------------------------------------------------------------------
(* What a table tells.                                                     *)

\* Halving moves and doubling them again loses a ply at most.
LEMMA Halved == ASSUME NEW n \in Nat PROVE 2 * (n \div 2) \in Nat /\ (2 * (n \div 2) = n \/ 2 * (n \div 2) = n - 1)
OBVIOUS

\* The distance a file gives back of the one it stores.
LEMMA MapScoreIs ==
    ASSUME NEW g, NEW d \in Int, d # 0
    PROVE  LET wdl == WdlOf(d)
               score == MapScore(g, d) + (IF wdl \in {BlessedLoss, CursedWin} THEN Fifty ELSE 0)
           IN  /\ score \in Nat /\ score > 0
               /\ score = Plies(d) \/ score = Plies(d) - 1
               /\ Plies(d) > Fifty <=> score > Fifty
               /\ InPlies(g, wdl) => score = Plies(d)
<1> DEFINE wdl == WdlOf(d)
           far == wdl \in {BlessedLoss, CursedWin}
           plies == IF wdl \in {Win, Loss} THEN Plies(d) ELSE Plies(d) - Fifty
           value == IF InPlies(g, wdl) THEN plies - 1 ELSE 2 * ((plies - 1) \div 2)
           score == MapScore(g, d) + (IF far THEN Fifty ELSE 0)
           n == plies - 1
<1>1. Fifty \in Nat /\ Fifty >= 2 /\ Plies(d) \in Nat
  BY FiftyIs, PliesAre
<1>2. MapScore(g, d) = value + 1
  BY DEF MapScore
<1>3. /\ Plies(d) >= 1
      /\ Plies(d) > Fifty <=> far
      /\ ~far <=> wdl \in {Win, Loss}
  BY <1>1, WdlIs, PliesAre, Values
<1> HIDE DEF wdl
<1>4. plies = IF far THEN Plies(d) - Fifty ELSE Plies(d)
  BY <1>3
<1> HIDE DEF far, plies
<1>5. plies - 1 \in Nat
  BY <1>1, <1>3, <1>4
<1>6. value \in Nat /\ (value = plies - 1 \/ value = plies - 1 - 1) /\ (InPlies(g, wdl) => value = plies - 1)
  <2>1. 2 * ((plies - 1) \div 2) \in Nat
        /\ (2 * ((plies - 1) \div 2) = plies - 1 \/ 2 * ((plies - 1) \div 2) = plies - 1 - 1)
    BY <1>5, Halved
  <2> QED
    BY <1>5, <2>1
<1> HIDE DEF value
<1>7. score = IF far THEN value + 1 + Fifty ELSE value + 1
  BY <1>1, <1>2, <1>6
<1> HIDE DEF score
<1> SUFFICES /\ score \in Nat /\ score > 0
             /\ score = Plies(d) \/ score = Plies(d) - 1
             /\ Plies(d) > Fifty <=> score > Fifty
             /\ InPlies(g, wdl) => score = Plies(d)
  BY DEF score, far, wdl
<1> QED
  BY <1>1, <1>3, <1>4, <1>5, <1>6, <1>7

\* Probing the table of the side to move reads its distance.
LEMMA TableReads ==
    ASSUME NEW g, IsEndgame(g), NEW p \in Positions(g), g.tableD[p] # 0
    PROVE  LET r == ReadDtz(g, p, WdlOf(g.tableD[p])) IN r.state = "FAIL" \/ Reads(r.v, g.tableD[p])
<1> DEFINE d == g.tableD[p]
           wdl == WdlOf(d)
           score == MapScore(g, d) + (IF wdl \in {BlessedLoss, CursedWin} THEN Fifty ELSE 0)
           r == ReadDtz(g, p, wdl)
<1>1. d \in Int /\ d # 0 /\ Fifty \in Nat
  BY OnePly, FiftyIs
<1>2. /\ score \in Nat /\ score > 0
      /\ score = Plies(d) \/ score = Plies(d) - 1
      /\ Plies(d) > Fifty <=> score > Fifty
      /\ InPlies(g, wdl) => score = Plies(d)
  BY <1>1, MapScoreIs
<1>3. Plies(d) = Fifty => InPlies(g, wdl)
  BY DEF InPlies
<1>4. wdl > 0 <=> d > 0
  BY <1>1, WdlIs, Values
<1>5. wdl \in Int /\ wdl # 0
  BY <1>1, WdlIs, Values
<1>6. r = Answer(0, "FAIL") \/ r = Answer(score * SignOf(wdl), "OK")
  BY DEF ReadDtz
<1>7. Answer(0, "FAIL").state = "FAIL" /\ Answer(score * SignOf(wdl), "OK").v = score * SignOf(wdl)
  BY DEF Answer
<1>8. Plies(d) \in Nat /\ (d > 0 => Plies(d) = d)
  BY <1>1, PliesAre
<1> HIDE DEF score, wdl, d
<1>9. SignOf(wdl) = IF d > 0 THEN 1 ELSE -1
  BY <1>4, <1>5 DEF SignOf
<1>10. score * SignOf(wdl) = IF d > 0 THEN score ELSE -score
  BY <1>2, <1>9
<1>11. Reads(score * SignOf(wdl), d)
  BY <1>1, <1>2, <1>3, <1>8, <1>10 DEF Reads
<1>12. r.state = "FAIL" \/ Reads(r.v, d)
  BY <1>6, <1>7, <1>11
<1> QED
  BY <1>12 DEF d, wdl

\* Where the table is for the side to move, or is not needed.
LEMMA OwnSide ==
    ASSUME NEW g, IsEndgame(g), NEW p \in Positions(g), ~OnlyEpSaves(g, p)
    PROVE  DtzOfOwnSide(g, p).state = "FAIL" \/ Reads(DtzOfOwnSide(g, p).v, g.d[p])
<1> DEFINE found == Search(g, p, TRUE)
<1>1. CASE found.state = "FAIL"
  <2>1. ~NeedsTable(found) /\ WithoutTable(found) = Answer(0, "FAIL")
    BY <1>1 DEF NeedsTable, WithoutTable
  <2>2. DtzOfOwnSide(g, p) = Answer(0, "FAIL")
    BY <2>1 DEF DtzOfOwnSide
  <2> QED
    BY <2>2 DEF Answer
<1>2. CASE ~NeedsTable(found) /\ Reads(WithoutTable(found).v, g.d[p])
  BY <1>2 DEF DtzOfOwnSide
<1>3. CASE NeedsTable(found) /\ g.tableD[p] = g.d[p] /\ g.d[p] # 0 /\ found.v = WdlOf(g.d[p])
  <2>1. DtzOfOwnSide(g, p) = ReadDtz(g, p, WdlOf(g.tableD[p]))
    BY <1>3 DEF DtzOfOwnSide
  <2>2. g.tableD[p] # 0
    BY <1>3
  <2>3. DtzOfOwnSide(g, p).state = "FAIL" \/ Reads(DtzOfOwnSide(g, p).v, g.tableD[p])
    BY <2>1, <2>2, TableReads
  <2> QED
    BY <1>3, <2>3
<1> QED
  BY <1>1, <1>2, <1>3, FoundIs

\* A mate is the only loss without a ply.
LEMMA MatedIs ==
    ASSUME NEW g, IsEndgame(g), NEW q \in Positions(g)
    PROVE  /\ Mated(g, q) => g.d[q] = -1
           /\ g.d[q] = -1 => Mated(g, q) /\ Stuck(g, q, TRUE)
<1>1. g.zeroing[q] \in Seq([kind : {"capture", "ep", "pawn"}, v : Loss .. Win]) /\ IsFiniteSet(g.quiet[q])
  BY DEF IsEndgame
<1>2. Known(g, q, TRUE) = Range(g.zeroing[q])
  BY DEF Known
<1>3. Len(g.zeroing[q]) \in Nat /\ DOMAIN g.zeroing[q] = 1 .. Len(g.zeroing[q])
  BY <1>1
<1>4. Len(g.zeroing[q]) = 0 <=> Known(g, q, TRUE) = {}
  <2>1. Len(g.zeroing[q]) = 0 => DOMAIN g.zeroing[q] = {}
    BY <1>3
  <2>2. Len(g.zeroing[q]) # 0 => 1 \in DOMAIN g.zeroing[q]
    BY <1>3
  <2> QED
    BY <1>2, <2>1, <2>2, Zenon DEF Range
<1>5. Cardinality(g.quiet[q]) \in Nat /\ (Cardinality(g.quiet[q]) = 0 <=> g.quiet[q] = {})
  BY <1>1, FS_CardinalityType, FS_EmptySet
<1>6. Legal(g, q) = 0 <=> Len(g.zeroing[q]) = 0 /\ Cardinality(g.quiet[q]) = 0
  BY <1>3, <1>5 DEF Legal
<1>7. Mated(g, q) <=> Stuck(g, q, TRUE)
  BY <1>4, <1>5, <1>6 DEF Mated, Stuck
<1>8. Stuck(g, q, TRUE) => g.d[q] = -1
  BY TrueDistance
<1>9. g.d[q] = -1 => Stuck(g, q, TRUE)
  <2> SUFFICES ASSUME g.d[q] = -1 PROVE Stuck(g, q, TRUE)
    OBVIOUS
  <2>1. g.d[q] < 0 /\ ~(g.d[q] < -1)
    OBVIOUS
  <2> QED
    BY <2>1, TrueDistance, Zenon
<1> QED
  BY <1>7, <1>8, <1>9

\* One ply on: a win one ply longer than the loss it leads to, or read one ply
\* short, but not across the fifty moves.
LEMMA QuietIs ==
    ASSUME NEW g, IsEndgame(g), NEW p \in Positions(g), NEW q \in g.quiet[p],
           DtzOfOwnSide(g, q).state # "FAIL"
    PROVE  LET x == g.d[q]
               y == QuietDtz(g, q)
           IN  /\ x \in Int /\ y \in Int
               /\ x = 0 => y = 0
               /\ x < 0 => y > 0 /\ (y = -x \/ y = -x - 1) /\ (-x > Fifty => y > Fifty)
               /\ x > 0 => y < 0 /\ (-y = x + 1 \/ -y = x) /\ (x + 1 > Fifty => -y > Fifty)
<1> DEFINE x == g.d[q]
           v == DtzOfOwnSide(g, q).v
           y == QuietDtz(g, q)
<1>1. x \in Int /\ q \in Positions(g) /\ g.tableD[q] = x /\ Fifty \in Nat /\ Fifty >= 2
  BY OnePly, FiftyIs
<1>2. ~OnlyEpSaves(g, q)
  BY <1>1, Values DEF OnlyEpSaves
<1>3. Reads(v, x)
  BY <1>1, <1>2, OwnSide
<1>4. Mated(g, q) <=> x = -1
  BY <1>1, MatedIs
<1>5. y = IF Mated(g, q) THEN 1 ELSE (0 - v) + SignOf(0 - v)
  BY DEF QuietDtz
<1>6. /\ x >= 0 => Plies(x) = x
      /\ x = -1 => Plies(x) = 1
      /\ x < -1 => Plies(x) = -1 - x
  BY <1>1, PliesAre
<1> HIDE DEF x, v, y
<1>7. v \in Int
  BY <1>3 DEF Reads
<1> SUFFICES /\ y \in Int
             /\ x = 0 => y = 0
             /\ x < 0 => y > 0 /\ (y = -x \/ y = -x - 1) /\ (-x > Fifty => y > Fifty)
             /\ x > 0 => y < 0 /\ (-y = x + 1 \/ -y = x) /\ (x + 1 > Fifty => -y > Fifty)
  BY <1>1 DEF x, y
<1>8. CASE x = 0
  BY <1>3, <1>4, <1>5, <1>8 DEF Reads, SignOf
<1>9. CASE x > 0
  <2>1. v > 0 /\ (x - v = 0 \/ x - v = 1) /\ (x > Fifty <=> v > Fifty) /\ (x = Fifty => v = Fifty)
    BY <1>1, <1>3, <1>7, <1>9 DEF Reads
  <2>2. y = -v - 1
    BY <1>4, <1>5, <1>7, <1>9, <2>1 DEF SignOf
  <2> QED
    BY <1>1, <1>7, <1>9, <2>1, <2>2
<1>10. CASE x = -1
  <2>1. y = 1
    BY <1>4, <1>5, <1>10, Zenon
  <2>2. x \in Int /\ y \in Int /\ x + y = 0
    BY <1>1, <1>10, <2>1
  <2> QED
    BY <1>1, <2>1, <2>2
<1>11. CASE x < -1
  <2>1. v < 0 /\ (-1 - x + v = 0 \/ -1 - x + v = 1) /\ (-1 - x > Fifty <=> -v > Fifty) /\ (-1 - x = Fifty => v = -Fifty)
    BY <1>1, <1>3, <1>6, <1>7, <1>11 DEF Reads
  <2>2. y = 1 - v
    BY <1>4, <1>5, <1>7, <1>11, <2>1 DEF SignOf
  <2> QED
    BY <1>1, <1>7, <1>11, <2>1, <2>2
<1> QED
  BY <1>1, <1>8, <1>9, <1>10, <1>11

\* One ply on, where the table is for the other side.
Sought(g, p, wdl) ==
    {n \in Zeroed(g, p, TRUE) \cup {QuietDtz(g, q) : q \in g.quiet[p]} : SignOf(n) = SignOf(wdl)}

\* The answer of a search one ply on, when no probe fails.
LEMMA SearchDtzIs ==
    ASSUME NEW g, IsEndgame(g), NEW p \in Positions(g), NEW wdl, SearchDtz(g, p, wdl).state # "FAIL"
    PROVE  /\ SearchDtz(g, p, wdl).v = IF Sought(g, p, wdl) = {} THEN -1 ELSE Min(Sought(g, p, wdl))
           /\ \A q \in g.quiet[p] : DtzOfOwnSide(g, q).state # "FAIL"
<1>1. Zeroed(g, p, TRUE) = {BeforeZeroing(0 - m.v) : m \in Range(g.zeroing[p])}
  BY DEF Zeroed, Known
<1>2. Answer(0, "FAIL").state = "FAIL"
  BY DEF Answer
<1>3. \A q \in g.quiet[p] : DtzOfOwnSide(g, q).state # "FAIL"
  BY <1>2 DEF SearchDtz
<1>4. SearchDtz(g, p, wdl) = Answer(IF Sought(g, p, wdl) = {} THEN 0 - 1 ELSE Min(Sought(g, p, wdl)), "OK")
  BY <1>1, <1>2 DEF SearchDtz, Sought
<1> QED
  BY <1>3, <1>4 DEF Answer

\* The shortest win found one ply on is the distance or a ply less.
LEMMA ShortestWin ==
    ASSUME NEW g, IsEndgame(g), NEW p \in Positions(g), g.d[p] > 0, NEW wdl, SignOf(wdl) = 1,
           \A q \in g.quiet[p] : DtzOfOwnSide(g, q).state # "FAIL"
    PROVE  LET d == g.d[p]
               n == Min(Sought(g, p, wdl))
           IN  /\ Sought(g, p, wdl) # {} /\ n \in Int /\ n > 0
               /\ d - n \in {0, 1}
               /\ d > Fifty <=> n > Fifty
<1> DEFINE d == g.d[p]
           zeroed == Zeroed(g, p, TRUE)
           sought == Sought(g, p, wdl)
           wins == Wins(g, p, TRUE, g.d)
           Of(n, w) == n \in Int /\ w \in Int /\ n > 0 /\ (n = w \/ n = w - 1) /\ (w > Fifty => n > Fifty)
<1>1. Fifty \in Nat /\ d \in Int /\ d \in wins /\ \A w \in wins : d <= w
  BY FiftyIs, TrueDistance
<1>2. \A n \in zeroed : n \in Int
  BY ZeroedByTop
<1>3. \A q \in g.quiet[p] : LET x == g.d[q]
                                y == QuietDtz(g, q)
                            IN  /\ x \in Int /\ y \in Int
                                /\ x = 0 => y = 0
                                /\ x < 0 => y > 0 /\ (y = -x \/ y = -x - 1) /\ (-x > Fifty => y > Fifty)
                                /\ x > 0 => y < 0
  BY QuietIs
<1>4. \A n \in Int : SignOf(n) = 1 <=> n > 0
  BY DEF SignOf
<1>5. sought = {n \in zeroed : n > 0} \cup {QuietDtz(g, q) : q \in {q \in g.quiet[p] : g.d[q] < 0}}
  <2>1. \A n \in zeroed : SignOf(n) = SignOf(wdl) <=> n > 0
    BY <1>2, <1>4
  <2>2. \A q \in g.quiet[p] : SignOf(QuietDtz(g, q)) = SignOf(wdl) <=> g.d[q] < 0
    BY <1>3, <1>4
  <2> QED
    BY <2>1, <2>2 DEF Sought
<1>6. wins = {n \in zeroed : n > 0} \cup {0 - g.d[q] : q \in {q \in g.quiet[p] : g.d[q] < 0}}
  BY DEF Wins
<1>7. \A w \in wins : \E n \in sought : Of(n, w)
  <2> TAKE w \in wins
  <2>1. CASE w \in zeroed /\ w > 0
    BY <1>2, <1>5, <2>1
  <2>2. CASE \E q \in g.quiet[p] : g.d[q] < 0 /\ w = 0 - g.d[q]
    <3>1. PICK q \in g.quiet[p] : g.d[q] < 0 /\ w = 0 - g.d[q]
      BY <2>2
    <3>2. QuietDtz(g, q) \in sought
      BY <1>5, <3>1
    <3>3. Of(QuietDtz(g, q), w)
      BY <1>1, <1>3, <3>1
    <3> QED
      BY <3>2, <3>3
  <2> QED
    BY <1>6, <2>1, <2>2
<1>8. \A n \in sought : \E w \in wins : Of(n, w)
  <2> TAKE n \in sought
  <2>1. CASE n \in zeroed /\ n > 0
    BY <1>2, <1>6, <2>1
  <2>2. CASE \E q \in g.quiet[p] : g.d[q] < 0 /\ n = QuietDtz(g, q)
    <3>1. PICK q \in g.quiet[p] : g.d[q] < 0 /\ n = QuietDtz(g, q)
      BY <2>2
    <3>2. 0 - g.d[q] \in wins
      BY <1>6, <3>1
    <3>3. Of(n, 0 - g.d[q])
      BY <1>1, <1>3, <3>1
    <3> QED
      BY <3>2, <3>3
  <2> QED
    BY <1>5, <2>1, <2>2
<1> HIDE DEF d, zeroed, sought, wins
<1>9. sought \in SUBSET Int /\ sought # {} /\ \A n \in sought : 0 <= n
  BY <1>1, <1>7, <1>8
<1> DEFINE least == Min(sought)
<1>10. least \in sought /\ \A n \in sought : least <= n
  <2>1. 0 \in Int
    OBVIOUS
  <2> QED
    BY <1>9, <2>1, MinAbove
<1> HIDE DEF least
<1>11. PICK n \in sought : Of(n, d)
  BY <1>1, <1>7
<1>12. PICK w \in wins : Of(least, w)
  BY <1>8, <1>10
<1>13. least <= n /\ d <= w
  BY <1>1, <1>10
<1>14. least \in Int /\ least > 0 /\ (d - least = 0 \/ d - least = 1) /\ (d > Fifty <=> least > Fifty)
  BY <1>1, <1>11, <1>12, <1>13
<1> QED
  BY <1>9, <1>14 DEF least, sought, d

\* So is the longest loss.
LEMMA LongestLoss ==
    ASSUME NEW g, IsEndgame(g), NEW p \in Positions(g), g.d[p] < -1, NEW wdl, SignOf(wdl) = -1,
           \A q \in g.quiet[p] : DtzOfOwnSide(g, q).state # "FAIL"
    PROVE  LET lost == -1 - g.d[p]
               n == Min(Sought(g, p, wdl))
           IN  /\ Sought(g, p, wdl) # {} /\ n \in Int /\ n < 0
               /\ lost + n \in {0, 1}
               /\ lost > Fifty <=> -n > Fifty
<1> DEFINE lost == -1 - g.d[p]
           zeroed == Zeroed(g, p, TRUE)
           sought == Sought(g, p, wdl)
           ways == Ways(g, p, TRUE, g.d)
           Of(n, w) == n \in Int /\ w \in Int /\ n < 0 /\ (-n = w \/ -n = w - 1) /\ (w > Fifty => -n > Fifty)
<1>1. AllLose(g, p, TRUE, g.d)
  <2>1. g.d[p] \in Int
    BY OnePly
  <2>2. g.d[p] < 0 /\ g.d[p] # -1
    BY <2>1
  <2> QED
    BY <2>2, TrueDistance, Zenon
<1>2. Fifty \in Nat /\ lost \in Int /\ lost \in ways /\ \A w \in ways : w <= lost
  <2>1. lost \in ways /\ \A w \in ways : w <= lost
    BY <1>1, TrueDistance, Zenon
  <2>2. g.d[p] \in Int /\ Fifty \in Nat
    BY OnePly, FiftyIs
  <2> HIDE DEF ways
  <2> QED
    BY <2>1, <2>2
<1>3. \A n \in zeroed : n \in Int /\ n < 0
  BY <1>1, ZeroedByTop DEF AllLose
<1>4. \A q \in g.quiet[p] : LET x == g.d[q]
                                y == QuietDtz(g, q)
                            IN  /\ x \in Int /\ y \in Int /\ x > 0
                                /\ y < 0 /\ (-y = x + 1 \/ -y = x) /\ (x + 1 > Fifty => -y > Fifty)
  BY <1>1, QuietIs DEF AllLose
<1>5. \A n \in Int : SignOf(n) = -1 <=> n < 0
  BY DEF SignOf
<1>6. sought = zeroed \cup {QuietDtz(g, q) : q \in g.quiet[p]}
  <2>1. \A n \in zeroed : SignOf(n) = SignOf(wdl)
    BY <1>3, <1>5
  <2>2. \A q \in g.quiet[p] : SignOf(QuietDtz(g, q)) = SignOf(wdl)
    BY <1>4, <1>5
  <2> QED
    BY <2>1, <2>2 DEF Sought
<1>7. ways = {0 - n : n \in zeroed} \cup {g.d[q] + 1 : q \in g.quiet[p]}
  BY DEF Ways
<1>8. \A w \in ways : \E n \in sought : Of(n, w)
  <2> TAKE w \in ways
  <2>1. CASE \E n \in zeroed : w = 0 - n
    <3>1. PICK n \in zeroed : w = 0 - n
      BY <2>1
    <3>2. n \in sought
      BY <1>6
    <3>3. Of(n, w)
      <4>1. n \in Int /\ n < 0
        BY <1>3, Zenon
      <4>2. -n = w /\ w \in Int
        BY <3>1, <4>1
      <4> HIDE DEF zeroed, sought, ways
      <4> QED
        BY <1>2, <4>1, <4>2
    <3> QED
      BY <3>2, <3>3
  <2>2. CASE \E q \in g.quiet[p] : w = g.d[q] + 1
    <3>1. PICK q \in g.quiet[p] : w = g.d[q] + 1
      BY <2>2
    <3>2. QuietDtz(g, q) \in sought
      BY <1>6
    <3>3. Of(QuietDtz(g, q), w)
      BY <1>2, <1>4, <3>1
    <3> QED
      BY <3>2, <3>3
  <2> QED
    BY <1>7, <2>1, <2>2
<1>9. \A n \in sought : \E w \in ways : Of(n, w)
  <2> TAKE n \in sought
  <2>1. CASE n \in zeroed
    <3>1. 0 - n \in ways
      BY <1>7, <2>1
    <3>2. Of(n, 0 - n)
      <4>1. n \in Int /\ n < 0
        BY <1>3, <2>1, Zenon
      <4>2. -n = 0 - n /\ 0 - n \in Int
        BY <4>1
      <4> HIDE DEF zeroed, sought, ways
      <4> QED
        BY <1>2, <4>1, <4>2
    <3> QED
      BY <3>1, <3>2
  <2>2. CASE \E q \in g.quiet[p] : n = QuietDtz(g, q)
    <3>1. PICK q \in g.quiet[p] : n = QuietDtz(g, q)
      BY <2>2
    <3>2. g.d[q] + 1 \in ways
      BY <1>7
    <3>3. Of(n, g.d[q] + 1)
      BY <1>2, <1>4, <3>1
    <3> QED
      BY <3>2, <3>3
  <2> QED
    BY <1>6, <2>1, <2>2
<1> HIDE DEF lost, zeroed, sought, ways
<1>10. sought \in SUBSET Int /\ sought # {}
  BY <1>2, <1>8, <1>9
<1>11. \A n \in sought : 0 - lost <= n
  <2> TAKE n \in sought
  <2>1. PICK w \in ways : Of(n, w)
    BY <1>9
  <2> QED
    BY <1>2, <2>1
<1> DEFINE least == Min(sought)
<1>12. least \in sought /\ \A n \in sought : least <= n
  <2>1. 0 - lost \in Int
    BY <1>2
  <2> QED
    BY <1>10, <1>11, <2>1, MinAbove
<1> HIDE DEF least
<1>13. PICK n \in sought : Of(n, lost)
  BY <1>2, <1>8
<1>14. PICK w \in ways : Of(least, w)
  BY <1>9, <1>12
<1>15. least <= n /\ w <= lost
  BY <1>2, <1>12
<1>16. least \in Int /\ least < 0 /\ (lost + least = 0 \/ lost + least = 1) /\ (lost > Fifty <=> -least > Fifty)
  BY <1>2, <1>13, <1>14, <1>15
<1> QED
  BY <1>10, <1>16 DEF least, sought, lost

\* A reading is a true probe, and so is a shortest win or a longest loss.
LEMMA ReadsTrue ==
    ASSUME NEW d \in Int, NEW told, Reads(told.v, d)
    PROVE  ProbeIsTrue(told, d)
<1> DEFINE v == told.v
<1>1. v \in Int /\ Reads(v, d)
  BY DEF Reads
<1>2. /\ d >= 0 => Plies(d) = d
      /\ Plies(d) \in Nat
  BY PliesAre
<1>3. Fifty \in Nat
  BY FiftyIs
<1> HIDE DEF v
<1>4. CASE d > 0
  <2>1. SignOf(v) = 1 /\ SignOf(d) = 1
    BY <1>1, <1>4 DEF Reads, SignOf
  <2>2. v * SignOf(d) = v
    BY <1>1, <2>1
  <2>3. (d - v = 0 \/ d - v = 1) /\ (d > Fifty <=> v > Fifty)
    BY <1>1, <1>3, <1>4 DEF Reads
  <2> QED
    BY <1>1, <1>2, <1>4, <2>1, <2>2, <2>3 DEF ProbeIsTrue, v
<1>5. CASE d < 0
  <2>1. SignOf(v) = -1 /\ SignOf(d) = -1
    BY <1>1, <1>5 DEF Reads, SignOf
  <2>2. v * SignOf(d) = -v
    BY <1>1, <2>1
  <2>3. (Plies(d) + v = 0 \/ Plies(d) + v = 1) /\ (Plies(d) > Fifty <=> -v > Fifty)
    BY <1>1, <1>2, <1>3, <1>5 DEF Reads
  <2>4. Plies(d) - v * SignOf(d) \in {0, 1} /\ (Plies(d) > Fifty <=> v * SignOf(d) > Fifty)
    BY <1>1, <1>2, <2>2, <2>3
  <2> QED
    BY <2>1, <2>4 DEF ProbeIsTrue, v
<1>6. CASE d = 0
  BY <1>1, <1>6 DEF Reads, ProbeIsTrue, v
<1> QED
  BY <1>4, <1>5, <1>6

\* Where the table is for the other side.
LEMMA OtherSide ==
    ASSUME NEW g, IsEndgame(g), NEW p \in Positions(g), g.d[p] # 0
    PROVE  ProbeIsTrue(SearchDtz(g, p, WdlOf(g.d[p])), g.d[p])
<1> DEFINE d == g.d[p]
           wdl == WdlOf(d)
           r == SearchDtz(g, p, wdl)
           sought == Sought(g, p, wdl)
<1>1. CASE r.state = "FAIL"
  BY <1>1 DEF ProbeIsTrue
<1>2. CASE r.state # "FAIL"
  <2>1. /\ r.v = IF sought = {} THEN -1 ELSE Min(sought)
        /\ \A q \in g.quiet[p] : DtzOfOwnSide(g, q).state # "FAIL"
    BY <1>2, SearchDtzIs
  <2>2. d \in Int /\ Fifty \in Nat /\ Fifty >= 2
    BY OnePly, FiftyIs
  <2>3. wdl \in Int /\ (d > 0 => wdl > 0) /\ (d < 0 => wdl < 0)
    BY <2>2, WdlIs, Values
  <2>4. CASE d > 0
    <3>1. SignOf(wdl) = 1 /\ SignOf(d) = 1
      BY <2>2, <2>3, <2>4 DEF SignOf
    <3>2. /\ sought # {} /\ Min(sought) \in Int /\ Min(sought) > 0
          /\ d - Min(sought) \in {0, 1}
          /\ d > Fifty <=> Min(sought) > Fifty
      BY <2>1, <2>4, <3>1, ShortestWin
    <3>3. r.v = Min(sought)
      BY <2>1, <3>2
    <3>4. Plies(d) = d
      BY <2>2, <2>4, PliesAre
    <3> HIDE DEF r, sought, d, wdl
    <3>5. r.v \in Int /\ r.v > 0 /\ d - r.v \in {0, 1} /\ (d > Fifty <=> r.v > Fifty)
      BY <3>2, <3>3
    <3>6. SignOf(r.v) = 1 /\ r.v * SignOf(d) = r.v
      BY <3>1, <3>5 DEF SignOf
    <3>7. ProbeIsTrue(r, d)
      BY <3>1, <3>4, <3>5, <3>6 DEF ProbeIsTrue
    <3> QED
      BY <3>7 DEF r, d, wdl
  <2>5. CASE d < -1
    <3>1. SignOf(wdl) = -1 /\ SignOf(d) = -1
      BY <2>2, <2>3, <2>5 DEF SignOf
    <3>2. /\ sought # {} /\ Min(sought) \in Int /\ Min(sought) < 0
          /\ (-1 - d) + Min(sought) \in {0, 1}
          /\ -1 - d > Fifty <=> -Min(sought) > Fifty
      BY <2>1, <2>5, <3>1, LongestLoss
    <3>3. r.v = Min(sought)
      BY <2>1, <3>2
    <3>4. Plies(d) = -1 - d
      BY <2>2, <2>5, PliesAre
    <3> HIDE DEF r, sought, d, wdl
    <3>5. r.v \in Int /\ r.v < 0 /\ ((-1 - d) + r.v = 0 \/ (-1 - d) + r.v = 1) /\ (-1 - d > Fifty <=> -r.v > Fifty)
      BY <3>2, <3>3
    <3>6. SignOf(r.v) = -1 /\ r.v * SignOf(d) = -r.v
      BY <3>1, <3>5 DEF SignOf
    <3>7. Plies(d) - r.v * SignOf(d) \in {0, 1} /\ (Plies(d) > Fifty <=> r.v * SignOf(d) > Fifty)
      BY <2>2, <3>4, <3>5, <3>6
    <3>8. ProbeIsTrue(r, d)
      BY <3>1, <3>6, <3>7 DEF ProbeIsTrue
    <3> QED
      BY <3>8 DEF r, d, wdl
  <2>6. CASE d = -1
    <3>1. Stuck(g, p, TRUE)
      BY <2>6, MatedIs
    <3>2. sought = {}
      BY <3>1 DEF Sought, Stuck, Zeroed
    <3>3. r.v = d
      BY <2>1, <2>6, <3>2
    <3>4. Reads(r.v, d)
      BY <2>2, <2>6, <3>3, PliesAre DEF Reads
    <3> QED
      BY <2>2, <3>4, ReadsTrue
  <2> QED
    BY <2>2, <2>4, <2>5, <2>6
<1> QED
  BY <1>1, <1>2

\* A probe tells of every position, by either way.
LEMMA ProbeTells ==
    ASSUME NEW g, IsEndgame(g), NEW p \in Positions(g), ~OnlyEpSaves(g, p)
    PROVE  ProbeIsTrue(ProbeDtz(g, p), g.d[p])
<1> DEFINE found == Search(g, p, TRUE)
<1>1. CASE NeedsTable(found) /\ g.side[p] # g.tableSide
  <2>1. found.state # "FAIL"
    BY <1>1 DEF NeedsTable
  <2>2. g.d[p] # 0 /\ found.v = WdlOf(g.d[p])
    BY <1>1, <2>1, FoundIs
  <2>3. ProbeDtz(g, p) = SearchDtz(g, p, WdlOf(g.d[p]))
    BY <1>1, <2>2 DEF ProbeDtz
  <2> QED
    BY <2>2, <2>3, OtherSide
<1>2. CASE ~(NeedsTable(found) /\ g.side[p] # g.tableSide)
  <2>1. ProbeDtz(g, p) = DtzOfOwnSide(g, p)
    BY <1>2 DEF ProbeDtz
  <2>2. DtzOfOwnSide(g, p).state = "FAIL" \/ Reads(DtzOfOwnSide(g, p).v, g.d[p])
    BY OwnSide
  <2>3. g.d[p] \in Int
    BY OnePly
  <2> QED
    BY <2>1, <2>2, <2>3, ReadsTrue DEF ProbeIsTrue
<1> QED
  BY <1>1, <1>2

-----------------------------------------------------------------------------
(* The game.                                                               *)

\* The board holds a position of the endgame, the ranking its moves.
OfEndgame ==
    /\ game \in Games
    /\ OnBoard => at \in Positions(game)
    /\ DOMAIN ranked.rank \subseteq RootMoves(game, at)

LEMMA UnrankedHasNone == DOMAIN Unranked.rank = {}
BY DEF Unranked

\* A ranking ranks the moves of the position.
LEMMA RankedHas ==
    ASSUME NEW g, NEW p, NEW c, NEW l, NEW byDtz, NEW late
    PROVE  DOMAIN RankRootMoves(g, p, c, l, byDtz, late).rank = RootMoves(g, p)
<1> DEFINE dtz == RootProbe(g, p, c, l)
           wdl == RootProbeWdl(g, p, c, l)
<1>1. DOMAIN dtz = RootMoves(g, p) /\ DOMAIN wdl = RootMoves(g, p)
  BY DEF RootProbe, RootProbeWdl
<1> HIDE DEF dtz, wdl
<1>2. \A c1, rep, b, l1 : DOMAIN Ranked(dtz, wdl, c1, rep, b, l1).rank = RootMoves(g, p)
  BY <1>1 DEF Ranked
<1> QED
  BY <1>2 DEF RankRootMoves, dtz, wdl

LEMMA EndgameStays ==
    ASSUME OfEndgame, [Next]_vars
    PROVE  OfEndgame'
<1>1. ASSUME NEW m \in RootMoves(game, at), OnBoard, Make(m)
      PROVE  OfEndgame'
  <2>1. game' = game /\ at \in Positions(game) /\ IsEndgame(game)
    BY <1>1, TablebasesAssumption DEF OfEndgame, Make
  <2>2. DOMAIN ranked'.rank = {}
    BY <1>1, UnrankedHasNone DEF Make
  <2>3. CASE m.quiet
    <3>1. at' = m.to
      BY <1>1, <2>3 DEF Make
    <3>2. m.to \in game.quiet[at]
      BY <2>3 DEF RootMoves, Quiet, Zeroing
    <3>3. m.to \in Positions(game)
      BY <2>1, <3>2 DEF IsEndgame
    <3> QED
      BY <2>1, <2>2, <3>1, <3>3 DEF OfEndgame
  <2>4. CASE ~m.quiet
    <3>1. line' = <<>>
      BY <1>1, <2>4 DEF Make
    <3> QED
      BY <2>1, <2>2, <3>1 DEF OfEndgame, OnBoard
  <2> QED
    BY <2>3, <2>4
<1>2. CASE Rank
  <2>1. DOMAIN ranked'.rank = RootMoves(game, at)
    BY <1>2, RankedHas DEF Rank
  <2> QED
    BY <1>2, <2>1 DEF Rank, OfEndgame, OnBoard
<1>3. CASE EngineMoves
  <2>1. PICK m \in First(ranked) : Make(m)
    BY <1>3 DEF EngineMoves
  <2>2. m \in RootMoves(game, at)
    BY DEF First, OfEndgame
  <2> QED
    BY <1>1, <1>3, <2>1, <2>2 DEF EngineMoves, Over
<1>4. CASE OpponentMoves
  BY <1>4, <1>1 DEF OpponentMoves, Over
<1>5. CASE UNCHANGED vars
  BY <1>5 DEF vars, OfEndgame, OnBoard
<1> QED
  BY <1>2, <1>3, <1>4, <1>5 DEF Next

\* DtzIsTrue.  "The return value n can be off by 1 ... This cannot happen for
\* tables with positions exactly on the edge of the 50-move rule": whatever the
\* endgame and whatever its generator left to chance, a probe of a position of
\* it has the sign of the truth, is at most one ply short of it and on the same
\* side of the fifty moves, wherever the table is for the side to move or for
\* the other one, and wherever the zeroing moves make it needless.
THEOREM DtzProbesTrue == Spec => []DtzIsTrue
<1>1. Init => OfEndgame
  BY UnrankedHasNone DEF Init, OfEndgame
<1>2. OfEndgame /\ [Next]_vars => OfEndgame'
  BY EndgameStays
<1>3. OfEndgame => DtzIsTrue
  <2> SUFFICES ASSUME OfEndgame, OnBoard, ~OnlyEpSaves(game, at)
               PROVE  ProbeIsTrue(ProbeDtz(game, at), game.d[at])
    BY DEF DtzIsTrue
  <2>1. IsEndgame(game) /\ at \in Positions(game)
    BY TablebasesAssumption DEF OfEndgame
  <2> QED
    BY <2>1, ProbeTells
<1> QED
  BY <1>1, <1>2, <1>3, PTL DEF Spec

-----------------------------------------------------------------------------
(* The files of the endgame tables: what holds at each step of a thread.   *)

USE TableFilesAssumption

\* The steps of mapped() under its mutex.
Mapping == {"open", "check", "set", "publish"}
Labels == Mapping \cup {"idle", "load", "lock", "read"}

\* What a thread is about to do is possible.
OnDisk == \A f \in disk : f # None /\ f.state \in {"good", "corrupt", "truncated"}
FilesTyped ==
    /\ key \in [Materials -> Nat \ {0}] /\ IsInjective(key)
    /\ OnDisk /\ DOMAIN path \subseteq Nat
    /\ DOMAIN tables = Types
    /\ DOMAIN tables["dtz"] = DOMAIN tables["wdl"]
    /\ \A i \in DOMAIN tables["wdl"] : tables["dtz"][i].code = tables["wdl"][i].code
    /\ mutex \in [Types -> Threads \cup {None}]
    /\ pc \in [Threads -> Labels]
    /\ DOMAIN probe = Threads
    /\ searching \in BOOLEAN

\* A search ends only when its threads are out of the tables.
SearchersRest == ~searching => \A t \in Searchers : pc[t] = "idle"

\* A probe knows the type and the place of a table of its material.
ProbesPlaced ==
    \A t \in Threads : pc[t] # "idle" =>
        /\ probe[t].type \in Types
        /\ probe[t].place \in DOMAIN tables[probe[t].type]
        /\ probe[t].material \in Materials /\ EntryOf(t).code \in Materials
        /\ probe[t].material \in {EntryOf(t).code, Flip(EntryOf(t).code)}

\* Who maps a table holds the mutex of its type.
MappersLock == \A t \in Threads : pc[t] \in Mapping => mutex[probe[t].type] = t

Good(e) == e.base # None /\ e.base.state = "good"

\* How far a table is where a thread is.
AsFar(t) ==
    /\ pc[t] = "open" => ~EntryOf(t).ready /\ EntryOf(t).base = None
    /\ pc[t] = "check" => ~EntryOf(t).ready /\ EntryOf(t).base # None
    /\ pc[t] = "set" => ~EntryOf(t).ready /\ Good(EntryOf(t))
    /\ pc[t] = "publish" => /\ ~EntryOf(t).ready
                            /\ EntryOf(t).base # None => Good(EntryOf(t)) /\ EntryOf(t).set
    /\ pc[t] = "read" => EntryOf(t).ready /\ EntryOf(t).base # None
MappersAsFar == \A t \in Threads : AsFar(t)

\* At(t, type, i): a thread is about to finish the mapping of a table.
At(t, type, i) == pc[t] \in Mapping \ {"open"} /\ probe[t].type = type /\ probe[t].place = i

\* A table: its file is its material's, ready means done, and in memory but
\* not ready means that a thread is at it.
EntryKept(type, i) ==
    LET e == tables[type][i]
    IN  /\ e = [code |-> e.code, ready |-> e.ready, base |-> e.base, set |-> e.set]
        /\ e.ready \in BOOLEAN /\ e.set \in BOOLEAN
        /\ e.base # None => e.base.code = e.code /\ e.base.state \in {"good", "corrupt"}
        /\ e.ready /\ e.base # None => e.base.state = "good" /\ e.set
        /\ ~e.ready /\ e.base # None => \E t \in Threads : At(t, type, i)
EntriesKept == \A type \in Types : \A i \in DOMAIN tables[type] : EntryKept(type, i)

MappingsCounted == IsFiniteSet(Mapped) /\ mappings = Cardinality(Mapped)

FilesInv ==
    /\ FilesTyped
    /\ SearchersRest
    /\ ProbesPlaced
    /\ MappersLock
    /\ MappersAsFar
    /\ EntriesKept
    /\ MappingsCounted

-----------------------------------------------------------------------------
(* Files.                                                                  *)

\* A set of natural numbers that is not empty has a least one.
LEMMA MinIsIn == ASSUME NEW S \in SUBSET Nat, S # {} PROVE Min(S) \in S
<1>1. PICK k \in S : \A i \in S : ~(<<i, k>> \in OpToRel(<, Nat))
  BY NatLessThanWellFounded, WFMin, Zenon
<1>2. \A i \in S : ~(i < k)
  BY <1>1 DEF OpToRel
<1>3. \A i \in S : k <= i
  BY <1>2
<1> QED
  BY <1>3 DEF Min

\* The file that is opened is there, and is the one asked for.
LEMMA FileFound ==
    ASSUME FilesTyped, NEW code, NEW type, Exists(code, type, path)
    PROVE  /\ FileOf(code, type, path) \in disk
           /\ FileOf(code, type, path).code = code
<1> DEFINE places == Places(code, type, path)
           Is(f) == f.dir = path[Min(places)] /\ f.code = code /\ f.type = type
<1>1. places \in SUBSET Nat /\ places # {}
  BY DEF Places, Exists, FilesTyped
<1>2. Min(places) \in places
  BY <1>1, MinIsIn
<1>3. \E f \in disk : Is(f)
  BY <1>2 DEF Places
<1>4. FileOf(code, type, path) = CHOOSE f \in disk : Is(f)
  BY DEF FileOf
<1> QED
  BY <1>3, <1>4

\* Materials are pairs.
LEMMA FlipTwice == \A m \in Materials : Flip(m) \in Materials /\ Flip(Flip(m)) = m
<1>1. ASSUME NEW m \in Range(Codes)
      PROVE  Flip(Flip(m)) = m /\ Flip(Flip(Flip(m))) = Flip(m)
  <2>1. m = <<m[1], m[2]>>
    OBVIOUS
  <2> QED
    BY <2>1 DEF Flip
<1>2. \A m \in Materials : m \in Range(Codes) \/ \E n \in Range(Codes) : m = Flip(n)
  BY DEF Materials
<1> QED
  BY <1>1, <1>2 DEF Materials

\* A material and its flip have different keys, so the name is the table's own.
LEMMA NameIsCode ==
    ASSUME FilesTyped, ProbesPlaced, NEW t \in Threads, pc[t] # "idle"
    PROVE  NameOf(t) = EntryOf(t).code
<1> DEFINE m == probe[t].material
           c == EntryOf(t).code
<1>1. m \in Materials /\ c \in Materials /\ m \in {c, Flip(c)}
  BY DEF ProbesPlaced
<1>2. Flip(Flip(c)) = c
  BY <1>1, FlipTwice
<1> HIDE DEF m, c
<1>3. key[c] = key[m] => c = m
  BY <1>1 DEF FilesTyped, IsInjective
<1>4. m = c \/ (key[c] # key[m] /\ Flip(m) = c)
  BY <1>1, <1>2, <1>3
<1>5. NameOf(t) = IF key[c] = key[m] THEN m ELSE Flip(m)
  BY DEF NameOf, m, c
<1> QED
  BY <1>4, <1>5 DEF c

-----------------------------------------------------------------------------
(* A step of the thread that maps a table.                                 *)

\* Nobody else maps that table, and nobody reads it.
LEMMA MapsAlone ==
    ASSUME FilesInv, NEW t \in Threads, NEW u \in Threads, pc[t] \in Mapping,
           pc[u] \in Mapping \cup {"read"}, u # t, probe[u].type = probe[t].type
    PROVE  probe[u].place # probe[t].place
<1>1. pc[u] = "read"
  BY DEF FilesInv, MappersLock
<1>2. EntryOf(u).ready
  BY <1>1 DEF FilesInv, MappersAsFar, AsFar
<1>3. ~EntryOf(t).ready
  BY DEF FilesInv, MappersAsFar, AsFar, Mapping
<1> QED
  BY <1>2, <1>3 DEF EntryOf

\* What an entry has to be like for a thread that is at a label.
Fits(label, e) ==
    /\ e = [code |-> e.code, ready |-> e.ready, base |-> e.base, set |-> e.set]
    /\ e.ready \in BOOLEAN /\ e.set \in BOOLEAN
    /\ e.base # None => e.base.code = e.code /\ e.base.state \in {"good", "corrupt"}
    /\ label \in {"check", "set", "publish", "read", "idle"}
    /\ e.ready <=> label \in {"read", "idle"}
    /\ label = "check" => e.base # None
    /\ label = "set" => Good(e)
    /\ label = "publish" => (e.base # None => Good(e) /\ e.set)
    /\ label = "read" => e.base # None
    /\ e.ready /\ e.base # None => Good(e) /\ e.set

LEMMA UpdateOne ==
    ASSUME FilesTyped, ProbesPlaced, NEW t \in Threads, pc[t] # "idle", NEW e, Update(t, e)
    PROVE  /\ DOMAIN tables' = Types
           /\ \A type \in Types : DOMAIN tables'[type] = DOMAIN tables[type]
           /\ tables'[probe[t].type][probe[t].place] = e
           /\ \A type \in Types : \A i \in DOMAIN tables[type] :
                type # probe[t].type \/ i # probe[t].place => tables'[type][i] = tables[type][i]
<1>1. probe[t].type \in Types /\ probe[t].place \in DOMAIN tables[probe[t].type]
  BY DEF ProbesPlaced
<1> QED
  BY <1>1 DEF FilesTyped, Update

\* The number of files in memory follows the entry.
LEMMA UpdateCounts ==
    ASSUME FilesTyped, ProbesPlaced, MappingsCounted, NEW t \in Threads, pc[t] # "idle",
           NEW e, Update(t, e),
           \/ e.base # None /\ EntryOf(t).base = None /\ mappings' = mappings + 1
           \/ e.base = None /\ EntryOf(t).base # None /\ mappings' = mappings - 1
           \/ (e.base = None <=> EntryOf(t).base = None) /\ mappings' = mappings
    PROVE  MappingsCounted'
<1> DEFINE place == <<probe[t].type, probe[t].place>>
<1>1. /\ probe[t].type \in Types /\ probe[t].place \in DOMAIN tables[probe[t].type]
      /\ DOMAIN tables["dtz"] = DOMAIN tables["wdl"]
  BY DEF ProbesPlaced, FilesTyped
<1>2. \A type \in Types : DOMAIN tables[type] = DOMAIN tables["wdl"] /\ DOMAIN tables'[type] = DOMAIN tables["wdl"]
  BY <1>1, UpdateOne DEF Types
<1>3. place \in Types \X DOMAIN tables["wdl"]
  BY <1>1, <1>2
<1>4. \A x \in Types \X DOMAIN tables["wdl"] :
        x # place => (x \in Mapped' <=> x \in Mapped)
  <2> SUFFICES ASSUME NEW type \in Types, NEW i \in DOMAIN tables["wdl"], <<type, i>> # place
               PROVE  <<type, i>> \in Mapped' <=> <<type, i>> \in Mapped
    OBVIOUS
  <2>1. tables'[type][i] = tables[type][i]
    BY <1>2, UpdateOne
  <2> QED
    BY <1>2, <2>1 DEF Mapped, Types
<1>5. (place \in Mapped' <=> e.base # None) /\ (place \in Mapped <=> EntryOf(t).base # None)
  <2>1. tables'[probe[t].type][probe[t].place] = e
    BY UpdateOne
  <2> QED
    BY <1>2, <1>3, <2>1 DEF Mapped, EntryOf, Types
<1>6. Mapped' \subseteq Types \X DOMAIN tables["wdl"] /\ Mapped \subseteq Types \X DOMAIN tables["wdl"]
  BY <1>2 DEF Mapped, Types
<1> HIDE DEF place
<1>7. CASE e.base # None /\ EntryOf(t).base = None /\ mappings' = mappings + 1
  <2>1. Mapped' = Mapped \cup {place} /\ place \notin Mapped
    BY <1>3, <1>4, <1>5, <1>6, <1>7
  <2> QED
    BY <1>7, <2>1, FS_AddElement DEF MappingsCounted
<1>8. CASE e.base = None /\ EntryOf(t).base # None /\ mappings' = mappings - 1
  <2>1. Mapped' = Mapped \ {place} /\ place \in Mapped
    BY <1>3, <1>4, <1>5, <1>6, <1>8
  <2> QED
    BY <1>8, <2>1, FS_RemoveElement DEF MappingsCounted
<1>9. CASE (e.base = None <=> EntryOf(t).base = None) /\ mappings' = mappings
  <2>1. place \in Mapped' <=> place \in Mapped
    BY <1>5, <1>9
  <2>2. \A x \in Types \X DOMAIN tables["wdl"] : x \in Mapped' <=> x \in Mapped
    BY <1>4, <2>1
  <2>3. Mapped' = Mapped
    BY <1>6, <2>2
  <2> QED
    BY <1>9, <2>3 DEF MappingsCounted
<1> QED
  BY <1>7, <1>8, <1>9

\* A step under the mutex: the thread's own entry becomes one that fits its
\* next label, and the mutex is kept until the entry is ready.
LEMMA MapStep ==
    ASSUME FilesInv, NEW t \in Threads, pc[t] \in Mapping, NEW e, NEW label,
           Update(t, e), pc' = [pc EXCEPT ![t] = label], Fits(label, e),
           e.code = EntryOf(t).code,
           mutex' = IF label \in Mapping THEN mutex ELSE [mutex EXCEPT ![probe[t].type] = None],
           UNCHANGED <<key, disk, path, probe, searching>>,
           t \in Searchers => searching,
           MappingsCounted'
    PROVE  FilesInv'
<1>1. /\ FilesTyped /\ ProbesPlaced /\ pc[t] # "idle" /\ probe[t].type \in Types
      /\ probe[t].place \in DOMAIN tables[probe[t].type] /\ mutex[probe[t].type] = t
  BY DEF FilesInv, ProbesPlaced, MappersLock, Mapping
<1>2. /\ DOMAIN tables' = Types
      /\ \A type \in Types : DOMAIN tables'[type] = DOMAIN tables[type]
      /\ tables'[probe[t].type][probe[t].place] = e
      /\ \A type \in Types : \A i \in DOMAIN tables[type] :
           type # probe[t].type \/ i # probe[t].place => tables'[type][i] = tables[type][i]
  BY <1>1, UpdateOne
<1>3. label \in Labels
  BY DEF Fits, Labels, Mapping
<1>4. FilesTyped'
  <2>1. DOMAIN tables'["dtz"] = DOMAIN tables'["wdl"]
    BY <1>1, <1>2 DEF FilesTyped, Types
  <2>4. \A type \in Types : \A i \in DOMAIN tables[type] : tables'[type][i].code = tables[type][i].code
    BY <1>1, <1>2 DEF EntryOf
  <2>5. \A i \in DOMAIN tables'["wdl"] : tables'["dtz"][i].code = tables'["wdl"][i].code
    BY <1>1, <1>2, <2>4 DEF FilesTyped, Types
  <2>2. mutex' \in [Types -> Threads \cup {None}]
    BY <1>1 DEF FilesTyped
  <2>3. pc' \in [Threads -> Labels]
    BY <1>1, <1>3 DEF FilesTyped
  <2> QED
    BY <1>1, <1>2, <2>1, <2>2, <2>3, <2>5 DEF FilesTyped, OnDisk
<1>5. pc'[t] = label /\ \A u \in Threads : u # t => pc'[u] = pc[u]
  BY <1>1 DEF FilesTyped
<1>6. SearchersRest'
  BY <1>5 DEF FilesInv, SearchersRest, Threads
<1>7. \A u \in Threads : pc[u] # "idle" => EntryOf(u)'.code = EntryOf(u).code
  <2>1. \A type \in Types : \A i \in DOMAIN tables[type] : tables'[type][i].code = tables[type][i].code
    BY <1>1, <1>2 DEF EntryOf
  <2>2. \A u \in Threads : pc[u] # "idle" => probe[u].type \in Types /\ probe[u].place \in DOMAIN tables[probe[u].type]
    BY <1>1 DEF ProbesPlaced
  <2>3. probe' = probe
    OBVIOUS
  <2> QED
    BY <2>1, <2>2, <2>3 DEF EntryOf
<1>8. ProbesPlaced'
  BY <1>1, <1>2, <1>5, <1>7 DEF ProbesPlaced
<1>9. MappersLock'
  <2> SUFFICES ASSUME NEW u \in Threads, pc'[u] \in Mapping PROVE mutex'[probe[u].type] = u
    BY DEF MappersLock
  <2>1. CASE u = t
    BY <1>1, <1>5, <2>1
  <2>2. CASE u # t
    <3>1. pc[u] \in Mapping /\ mutex[probe[u].type] = u /\ probe[u].type \in Types
      BY <1>1, <1>5, <2>2 DEF FilesInv, MappersLock, ProbesPlaced, Mapping
    <3>2. probe[u].type # probe[t].type
      BY <1>1, <2>2, <3>1
    <3> QED
      BY <1>1, <3>1, <3>2 DEF FilesTyped
  <2> QED
    BY <2>1, <2>2
<1>10. MappersAsFar'
  <2> SUFFICES ASSUME NEW u \in Threads PROVE AsFar(u)'
    BY DEF MappersAsFar
  <2>1. CASE u = t
    <3>1. EntryOf(u)' = e
      BY <1>2, <2>1 DEF EntryOf
    <3> QED
      BY <1>5, <2>1, <3>1 DEF AsFar, Fits, Good
  <2>2. CASE u # t /\ pc[u] \in Mapping \cup {"read"}
    <3>1. /\ probe[u].type \in Types /\ probe[u].place \in DOMAIN tables[probe[u].type]
          /\ probe[u].type # probe[t].type \/ probe[u].place # probe[t].place
      BY <1>1, <2>2, MapsAlone DEF ProbesPlaced, Mapping
    <3>2. EntryOf(u)' = EntryOf(u)
      BY <1>2, <3>1 DEF EntryOf
    <3> QED
      BY <1>5, <2>2, <3>2 DEF FilesInv, MappersAsFar, AsFar, Good
  <2>3. CASE u # t /\ pc[u] \notin Mapping \cup {"read"}
    BY <1>5, <2>3 DEF AsFar, Mapping
  <2> QED
    BY <2>1, <2>2, <2>3
<1>11. EntriesKept'
  <2> SUFFICES ASSUME NEW type \in Types, NEW i \in DOMAIN tables[type]
               PROVE  EntryKept(type, i)'
    BY <1>2 DEF EntriesKept
  <2>1. CASE type = probe[t].type /\ i = probe[t].place
    <3>1. tables'[type][i] = e
      BY <1>2, <2>1
    <3>2. ~e.ready => At(t, type, i)'
      BY <1>5, <2>1 DEF At, Fits, Mapping
    <3> QED
      BY <3>1, <3>2 DEF EntryKept, Fits, Good
  <2>2. CASE type # probe[t].type \/ i # probe[t].place
    <3>1. tables'[type][i] = tables[type][i] /\ EntryKept(type, i)
      BY <1>2, <2>2 DEF FilesInv, EntriesKept
    <3>2. \A u \in Threads : At(u, type, i) => At(u, type, i)'
      BY <1>5, <2>2 DEF At
    <3> QED
      BY <3>1, <3>2 DEF EntryKept
  <2> QED
    BY <2>1, <2>2
<1> QED
  BY <1>4, <1>6, <1>8, <1>9, <1>10, <1>11 DEF FilesInv

\* Where only the disk or the search goes on.
LEMMA Untouched ==
    ASSUME FilesInv, UNCHANGED <<key, path, tables, mappings, mutex, pc, probe>>,
           disk' \subseteq disk, searching' \in BOOLEAN, SearchersRest'
    PROVE  FilesInv'
<1>1. FilesTyped'
  BY DEF FilesInv, FilesTyped, OnDisk
<1>2. ProbesPlaced'
  BY DEF FilesInv, ProbesPlaced, EntryOf
<1>3. MappersLock'
  BY DEF FilesInv, MappersLock
<1>4. \A t \in Threads : AsFar(t) => AsFar(t)'
  BY DEF AsFar, EntryOf, Good
<1>5. \A type \in Types : \A i \in DOMAIN tables[type] : EntryKept(type, i) => EntryKept(type, i)'
  BY DEF EntryKept, At
<1>6. MappingsCounted'
  BY DEF FilesInv, MappingsCounted, Mapped
<1> QED
  BY <1>1, <1>2, <1>3, <1>4, <1>5, <1>6 DEF FilesInv, MappersAsFar, EntriesKept

\* Only searchers of a search are in the tables, or the UCI thread.
LEMMA SearchGoesOn ==
    ASSUME FilesInv, NEW t \in Threads, pc[t] # "idle"
    PROVE  t \in Searchers => searching
BY DEF FilesInv, SearchersRest, FilesTyped

-----------------------------------------------------------------------------
(* The other steps of a probe.                                             *)

\* The tables stay as they are and one thread goes to where they let it.
LEMMA GoStep ==
    ASSUME FilesInv, NEW t \in Threads, NEW label \in Labels,
           pc' = [pc EXCEPT ![t] = label],
           UNCHANGED <<key, disk, path, tables, mappings, searching>>,
           DOMAIN probe' = Threads, \A u \in Threads : u # t => probe'[u] = probe[u],
           mutex' \in [Types -> Threads \cup {None}],
           t \in Searchers => searching,
           label # "idle" =>
             /\ probe'[t].type \in Types /\ probe'[t].place \in DOMAIN tables[probe'[t].type]
             /\ probe'[t].material \in Materials /\ EntryOf(t)'.code \in Materials
             /\ probe'[t].material \in {EntryOf(t)'.code, Flip(EntryOf(t)'.code)},
           \A u \in Threads : u # t /\ pc[u] \in Mapping => mutex'[probe[u].type] = u,
           label \in Mapping => mutex'[probe'[t].type] = t,
           AsFar(t)',
           \A type \in Types : \A i \in DOMAIN tables[type] : At(t, type, i) => At(t, type, i)'
    PROVE  FilesInv'
<1>1. FilesTyped'
  BY DEF FilesInv, FilesTyped, OnDisk
<1>2. pc'[t] = label /\ \A u \in Threads : u # t => pc'[u] = pc[u]
  BY DEF FilesInv, FilesTyped
<1>3. SearchersRest'
  BY <1>2 DEF FilesInv, SearchersRest, Threads
<1>4. \A u \in Threads : u # t => EntryOf(u)' = EntryOf(u)
  BY DEF EntryOf
<1>5. ProbesPlaced'
  BY <1>2, <1>4 DEF FilesInv, ProbesPlaced
<1>6. MappersLock'
  BY <1>2 DEF MappersLock
<1>7. MappersAsFar'
  <2> SUFFICES ASSUME NEW u \in Threads, u # t PROVE AsFar(u)'
    BY DEF MappersAsFar
  <2> QED
    BY <1>2, <1>4 DEF FilesInv, MappersAsFar, AsFar, Good
<1>8. EntriesKept'
  <2> SUFFICES ASSUME NEW type \in Types, NEW i \in DOMAIN tables[type]
               PROVE  EntryKept(type, i)'
    BY DEF EntriesKept
  <2>1. \A u \in Threads : At(u, type, i) => At(u, type, i)'
    BY <1>2 DEF At
  <2>2. EntryKept(type, i) /\ tables'[type][i] = tables[type][i]
    BY DEF FilesInv, EntriesKept
  <2> QED
    BY <2>1, <2>2, SMTT(40) DEF EntryKept
<1>9. MappingsCounted'
  BY DEF FilesInv, MappingsCounted, Mapped
<1> QED
  BY <1>1, <1>3, <1>5, <1>6, <1>7, <1>8, <1>9 DEF FilesInv

\* A probe starts at the table that the lookup found.
LEMMA StartProbeKeeps ==
    ASSUME FilesInv, NEW t \in Threads, StartProbe(t), TablesAreFound PROVE FilesInv'
<1>1. PICK m \in Boards, type \in Types :
        /\ Get(key[m]) # 0
        /\ probe' = [probe EXCEPT ![t] = [type |-> type, material |-> m, place |-> Get(key[m])]]
        /\ pc' = [pc EXCEPT ![t] = "load"]
  BY DEF StartProbe
<1>2. /\ pc[t] = "idle" /\ ~exited
      /\ UNCHANGED <<key, disk, path, tables, mappings, searching, mutex>>
      /\ t \in Searchers => searching
  BY DEF StartProbe, MayProbe, files, registry
<1>3. /\ m \in Materials /\ Get(key[m]) \in DOMAIN tables["wdl"]
      /\ tables["wdl"][Get(key[m])].code \in {m, Flip(m)}
  BY <1>1, <1>2 DEF TablesAreFound
<1>4. Get(key[m]) \in DOMAIN tables[type] /\ tables[type][Get(key[m])].code \in {m, Flip(m)}
  BY <1>3 DEF FilesInv, FilesTyped, Types
<1>5. /\ probe'[t] = [type |-> type, material |-> m, place |-> Get(key[m])]
      /\ DOMAIN probe' = Threads /\ \A u \in Threads : u # t => probe'[u] = probe[u]
  BY <1>1 DEF FilesInv, FilesTyped
<1>6. /\ EntryOf(t)'.code \in Materials
      /\ m \in {EntryOf(t)'.code, Flip(EntryOf(t)'.code)}
  BY <1>2, <1>3, <1>4, <1>5, FlipTwice DEF EntryOf
<1>7. pc'[t] = "load"
  BY <1>1 DEF FilesInv, FilesTyped
<1>8. AsFar(t)'
  BY <1>7 DEF AsFar
<1>9. \A u \in Threads : u # t /\ pc[u] \in Mapping => mutex'[probe[u].type] = u
  BY <1>2 DEF FilesInv, MappersLock
<1>10. mutex' \in [Types -> Threads \cup {None}]
  BY <1>2 DEF FilesInv, FilesTyped
<1>11. \A i : \A ty \in Types : At(t, ty, i) => At(t, ty, i)'
  BY <1>2 DEF At, Mapping
<1> QED
  BY <1>1, <1>2, <1>3, <1>4, <1>5, <1>6, <1>8, <1>9, <1>10, <1>11, GoStep DEF Labels, Mapping

\* A thread that is somewhere in the tables, and what it probes.
LEMMA GoOn ==
    ASSUME FilesInv, NEW t \in Threads, pc[t] # "idle", NEW label \in Labels,
           pc' = [pc EXCEPT ![t] = label],
           UNCHANGED <<key, disk, path, tables, mappings, searching, probe>>,
           \/ mutex' = mutex /\ (label \in Mapping => pc[t] \in Mapping)
           \/ mutex[probe[t].type] = None /\ mutex' = [mutex EXCEPT ![probe[t].type] = t],
           pc[t] \in Mapping => label \in Mapping \ {"open"},
           AsFar(t)'
    PROVE  FilesInv'
<1>1. pc[t] # "idle" /\ probe[t].type \in Types /\ probe' = probe
  BY DEF FilesInv, ProbesPlaced
<1>2. EntryOf(t)' = EntryOf(t)
  BY DEF EntryOf
<1>3. mutex' \in [Types -> Threads \cup {None}]
  BY DEF FilesInv, FilesTyped
<1>4. ASSUME NEW u \in Threads, u # t, pc[u] \in Mapping PROVE mutex'[probe[u].type] = u
  <2>1. mutex[probe[u].type] = u /\ probe[u].type \in Types
    BY <1>4 DEF FilesInv, MappersLock, ProbesPlaced, Mapping
  <2>2. u # None
    BY DEF Threads
  <2> QED
    BY <1>1, <2>1, <2>2 DEF FilesInv, FilesTyped
<1>5. label \in Mapping => mutex'[probe[t].type] = t
  BY <1>1 DEF FilesInv, FilesTyped, MappersLock
<1>6. \A type \in Types : \A i \in DOMAIN tables[type] : At(t, type, i) => At(t, type, i)'
  BY DEF At, Mapping
<1>7. DOMAIN probe' = Threads /\ \A u \in Threads : u # t => probe'[u] = probe[u]
  BY <1>1 DEF FilesInv, FilesTyped
<1>8. label # "idle" =>
        /\ probe'[t].type \in Types /\ probe'[t].place \in DOMAIN tables[probe'[t].type]
        /\ probe'[t].material \in Materials /\ EntryOf(t)'.code \in Materials
        /\ probe'[t].material \in {EntryOf(t)'.code, Flip(EntryOf(t)'.code)}
  BY <1>1, <1>2 DEF FilesInv, ProbesPlaced
<1>9. t \in Searchers => searching
  BY SearchGoesOn
<1> QED
  BY <1>1, <1>3, <1>4, <1>5, <1>6, <1>7, <1>8, <1>9, GoStep

\* The first look at ready, without the mutex.
LEMMA LoadKeeps ==
    ASSUME FilesInv, NEW t \in Threads, Load(t) PROVE FilesInv'
<1> DEFINE label == IF EntryOf(t).ready THEN AfterMapped(t) ELSE "lock"
<1>1. /\ pc[t] = "load" /\ pc' = [pc EXCEPT ![t] = label]
      /\ UNCHANGED <<key, disk, path, tables, mappings, searching, mutex, probe>>
  BY DEF Load, Goto, Loaded, files, registry
<1>2. label \in Labels /\ label \notin Mapping
  BY DEF AfterMapped, Labels, Mapping
<1>3. pc'[t] = label
  BY <1>1 DEF FilesInv, FilesTyped
<1>4. label = "read" => EntryOf(t).ready /\ EntryOf(t).base # None
  BY DEF AfterMapped
<1> HIDE DEF label
<1>5. EntryOf(t)' = EntryOf(t)
  BY <1>1 DEF EntryOf
<1>6. AsFar(t)'
  BY <1>2, <1>3, <1>4, <1>5 DEF AsFar, Mapping
<1> QED
  BY <1>1, <1>2, <1>6, GoOn DEF Mapping

\* The second look, with it: the thread that finds the table not ready is
\* the only one at it.
LEMMA LockKeeps ==
    ASSUME FilesInv, NEW t \in Threads, Lock(t) PROVE FilesInv'
<1>1. /\ pc[t] = "lock" /\ mutex[probe[t].type] = None
      /\ UNCHANGED <<key, disk, path, tables, mappings, searching, probe>>
      /\ \/ /\ EntryOf(t).ready /\ mutex' = mutex
            /\ pc' = [pc EXCEPT ![t] = AfterMapped(t)]
         \/ /\ ~EntryOf(t).ready /\ mutex' = [mutex EXCEPT ![probe[t].type] = t]
            /\ pc' = [pc EXCEPT ![t] = "open"]
  BY DEF Lock, Recheck, Goto, files, registry
<1>2. CASE EntryOf(t).ready /\ mutex' = mutex /\ pc' = [pc EXCEPT ![t] = AfterMapped(t)]
  <2> DEFINE label == AfterMapped(t)
  <2>1. label \in Labels /\ label \notin Mapping /\ label # "publish"
    BY DEF AfterMapped, Labels, Mapping
  <2>2. label = "read" => EntryOf(t).base # None
    BY DEF AfterMapped
  <2>3. pc'[t] = label
    BY <1>2 DEF FilesInv, FilesTyped
  <2>4. EntryOf(t)' = EntryOf(t)
    BY <1>1 DEF EntryOf
  <2>5. pc' = [pc EXCEPT ![t] = label] /\ mutex' = mutex
    BY <1>2
  <2> HIDE DEF label
  <2>6. AsFar(t)'
    BY <1>2, <2>1, <2>2, <2>3, <2>4 DEF AsFar, Mapping
  <2>7. pc[t] # "idle" /\ pc[t] \notin Mapping
    BY <1>1 DEF Mapping
  <2> QED
    BY <1>1, <2>1, <2>5, <2>6, <2>7, GoOn
<1>3. CASE /\ ~EntryOf(t).ready /\ mutex' = [mutex EXCEPT ![probe[t].type] = t]
           /\ pc' = [pc EXCEPT ![t] = "open"]
  <2>1. pc'[t] = "open"
    BY <1>3 DEF FilesInv, FilesTyped
  <2>2. EntryOf(t).base = None
    <3>1. /\ probe[t].type \in Types /\ probe[t].place \in DOMAIN tables[probe[t].type]
          /\ EntryKept(probe[t].type, probe[t].place)
      BY <1>1 DEF FilesInv, ProbesPlaced, EntriesKept
    <3>2. \A u \in Threads : ~At(u, probe[t].type, probe[t].place)
      BY <1>1 DEF FilesInv, MappersLock, At, Threads
    <3> QED
      BY <1>3, <3>1, <3>2 DEF EntryKept, EntryOf
  <2>3. AsFar(t)'
    BY <1>1, <1>3, <2>1, <2>2 DEF AsFar, EntryOf
  <2>4. "open" \in Labels
    BY DEF Labels, Mapping
  <2> QED
    BY <1>1, <1>3, <2>3, <2>4, GoOn DEF Mapping
<1> QED
  BY <1>1, <1>2, <1>3

\* The answer.
LEMMA ReadKeeps ==
    ASSUME FilesInv, NEW t \in Threads, Read(t) PROVE FilesInv'
<1>1. /\ pc[t] = "read" /\ pc' = [pc EXCEPT ![t] = "idle"]
      /\ probe' = [probe EXCEPT ![t] = NotProbing]
      /\ UNCHANGED <<key, disk, path, tables, mappings, searching, mutex>>
  BY DEF Read, Goto, files, registry
<1>2. DOMAIN probe' = Threads /\ \A u \in Threads : u # t => probe'[u] = probe[u]
  BY <1>1 DEF FilesInv, FilesTyped
<1>3. pc'[t] = "idle"
  BY <1>1 DEF FilesInv, FilesTyped
<1>4. AsFar(t)'
  BY <1>3 DEF AsFar
<1>5. \A u \in Threads : u # t /\ pc[u] \in Mapping => mutex'[probe[u].type] = u
  BY <1>1 DEF FilesInv, MappersLock
<1>6. mutex' \in [Types -> Threads \cup {None}]
  BY <1>1 DEF FilesInv, FilesTyped
<1>7. \A type \in Types : \A i \in DOMAIN tables[type] : At(t, type, i) => At(t, type, i)'
  BY <1>1 DEF At, Mapping
<1>8. "idle" \in Labels /\ "idle" \notin Mapping
  BY DEF Labels, Mapping
<1>9. t \in Searchers => searching
  BY <1>1, SearchGoesOn
<1> QED
  BY <1>1, <1>2, <1>4, <1>5, <1>6, <1>7, <1>8, <1>9, GoStep

-----------------------------------------------------------------------------
(* The steps under the mutex.                                              *)

\* What the entry of a thread that maps it is like.
LEMMA Mapper ==
    ASSUME FilesInv, NEW t \in Threads, pc[t] \in Mapping
    PROVE  /\ pc[t] # "idle" /\ FilesTyped /\ ProbesPlaced /\ MappingsCounted
           /\ AsFar(t) /\ (t \in Searchers => searching)
           /\ LET e == EntryOf(t)
              IN  /\ e = [code |-> e.code, ready |-> e.ready, base |-> e.base, set |-> e.set]
                  /\ e.ready \in BOOLEAN /\ e.set \in BOOLEAN
                  /\ e.base # None => e.base.code = e.code /\ e.base.state \in {"good", "corrupt"}
<1>1. pc[t] # "idle"
  BY DEF Mapping
<1>2. EntryKept(probe[t].type, probe[t].place)
  BY <1>1 DEF FilesInv, ProbesPlaced, EntriesKept
<1> QED
  BY <1>1, <1>2, SearchGoesOn DEF FilesInv, MappersAsFar, EntryKept, EntryOf

LEMMA OpenKeeps ==
    ASSUME FilesInv, NEW t \in Threads, Open(t) PROVE FilesInv'
<1> DEFINE type == probe[t].type
           file == FileOf(NameOf(t), type, path)
           e == [EntryOf(t) EXCEPT !.base = file]
<1>1. /\ pc[t] = "open" /\ UNCHANGED <<key, disk, path, probe, searching, mutex>>
      /\ \/ pc' = [pc EXCEPT ![t] = "publish"] /\ UNCHANGED <<tables, mappings>>
         \/ UNCHANGED <<pc, tables, mappings>>
         \/ /\ Exists(NameOf(t), type, path) /\ file.state # "truncated"
            /\ Update(t, e) /\ mappings' = mappings + 1
            /\ pc' = [pc EXCEPT ![t] = "check"]
  BY DEF Open, Goto, files, registry
<1>2. /\ pc[t] \in Mapping /\ pc[t] # "idle" /\ AsFar(t) /\ FilesTyped /\ ProbesPlaced /\ MappingsCounted
      /\ ~EntryOf(t).ready /\ EntryOf(t).base = None
  BY <1>1, Mapper DEF Mapping, AsFar
<1>3. CASE pc' = [pc EXCEPT ![t] = "publish"] /\ UNCHANGED <<tables, mappings>>
  <2>1. pc'[t] = "publish"
    BY <1>2, <1>3 DEF FilesTyped
  <2>2. AsFar(t)'
    BY <1>1, <1>2, <1>3, <2>1 DEF AsFar, EntryOf
  <2>3. "publish" \in Labels /\ "publish" \in Mapping
    BY DEF Labels, Mapping
  <2> QED
    BY <1>1, <1>2, <1>3, <2>2, <2>3, GoOn
<1>4. CASE UNCHANGED <<pc, tables, mappings>>
  BY <1>1, <1>4, Untouched DEF FilesInv, FilesTyped, SearchersRest
<1>5. CASE /\ Exists(NameOf(t), type, path) /\ file.state # "truncated"
           /\ Update(t, e) /\ mappings' = mappings + 1
           /\ pc' = [pc EXCEPT ![t] = "check"]
  <2>1. NameOf(t) = EntryOf(t).code
    BY <1>2, NameIsCode
  <2>2. file \in disk /\ file.code = EntryOf(t).code
    BY <1>2, <1>5, <2>1, FileFound
  <2>3. file # None /\ file.state \in {"good", "corrupt"}
    BY <1>2, <1>5, <2>2 DEF FilesTyped, OnDisk
  <2> HIDE DEF file
  <2>4. /\ e.code = EntryOf(t).code /\ e.base = file /\ e.ready = EntryOf(t).ready
        /\ e = [code |-> e.code, ready |-> e.ready, base |-> e.base, set |-> e.set]
        /\ e.ready \in BOOLEAN /\ e.set \in BOOLEAN
    BY <1>2, Mapper
  <2> HIDE DEF e
  <2>5. Fits("check", e)
    BY <1>2, <2>2, <2>3, <2>4 DEF Fits
  <2>6. MappingsCounted'
    BY <1>2, <1>5, <2>3, <2>4, UpdateCounts
  <2> QED
    BY <1>1, <1>2, <1>5, <2>4, <2>5, <2>6, Mapper, MapStep DEF Mapping
<1> QED
  BY <1>1, <1>3, <1>4, <1>5

LEMMA CheckMagicKeeps ==
    ASSUME FilesInv, NEW t \in Threads, CheckMagic(t) PROVE FilesInv'
<1> DEFINE e == [EntryOf(t) EXCEPT !.base = None]
<1>1. /\ pc[t] = "check" /\ UNCHANGED <<key, disk, path, probe, searching, mutex>>
      /\ \/ /\ EntryOf(t).base.state = "corrupt" /\ Update(t, e) /\ mappings' = mappings - 1
            /\ pc' = [pc EXCEPT ![t] = "publish"]
         \/ /\ EntryOf(t).base.state # "corrupt" /\ UNCHANGED <<tables, mappings>>
            /\ pc' = [pc EXCEPT ![t] = "set"]
  BY DEF CheckMagic, Goto, files, registry
<1>2. /\ pc[t] \in Mapping /\ pc[t] # "idle" /\ AsFar(t) /\ FilesTyped /\ ProbesPlaced /\ MappingsCounted
      /\ ~EntryOf(t).ready /\ EntryOf(t).base # None
  BY <1>1, Mapper DEF Mapping, AsFar
<1>3. CASE /\ Update(t, e) /\ mappings' = mappings - 1
           /\ pc' = [pc EXCEPT ![t] = "publish"]
  <2>1. /\ e.code = EntryOf(t).code /\ e.base = None /\ e.ready = EntryOf(t).ready
        /\ e = [code |-> e.code, ready |-> e.ready, base |-> e.base, set |-> e.set]
        /\ e.ready \in BOOLEAN /\ e.set \in BOOLEAN
    BY <1>2, Mapper
  <2> HIDE DEF e
  <2>2. Fits("publish", e)
    BY <1>2, <2>1 DEF Fits
  <2>3. MappingsCounted'
    BY <1>2, <1>3, <2>1, UpdateCounts
  <2> QED
    BY <1>1, <1>2, <1>3, <2>1, <2>2, <2>3, Mapper, MapStep DEF Mapping
<1>4. CASE /\ EntryOf(t).base.state # "corrupt" /\ UNCHANGED <<tables, mappings>>
           /\ pc' = [pc EXCEPT ![t] = "set"]
  <2>1. pc'[t] = "set"
    BY <1>2, <1>4 DEF FilesTyped
  <2>2. Good(EntryOf(t))
    BY <1>2, <1>4, Mapper DEF Good
  <2>3. EntryOf(t)' = EntryOf(t)
    BY <1>1, <1>4 DEF EntryOf
  <2>4. AsFar(t)'
    BY <1>2, <2>1, <2>2, <2>3 DEF AsFar, Good
  <2> QED
    BY <1>1, <1>2, <1>4, <2>4, GoOn DEF Mapping, Labels
<1> QED
  BY <1>1, <1>3, <1>4

\* A table with another field.
LEMMA OtherField ==
    ASSUME NEW r, NEW v, r = [code |-> r.code, ready |-> r.ready, base |-> r.base, set |-> r.set]
    PROVE  /\ [r EXCEPT !.set = v] = [code |-> r.code, ready |-> r.ready, base |-> r.base, set |-> v]
           /\ [r EXCEPT !.ready = v] = [code |-> r.code, ready |-> v, base |-> r.base, set |-> r.set]
OBVIOUS

LEMMA SetTableKeeps ==
    ASSUME FilesInv, NEW t \in Threads, SetTable(t) PROVE FilesInv'
<1> DEFINE e == [EntryOf(t) EXCEPT !.set = TRUE]
<1>1. /\ pc[t] = "set" /\ UNCHANGED <<key, disk, path, probe, searching, mutex, mappings>>
      /\ Update(t, e) /\ pc' = [pc EXCEPT ![t] = "publish"]
  BY DEF SetTable, Goto, files, registry
<1>2. /\ pc[t] \in Mapping /\ pc[t] # "idle" /\ AsFar(t) /\ FilesTyped /\ ProbesPlaced /\ MappingsCounted
      /\ ~EntryOf(t).ready /\ Good(EntryOf(t))
  BY <1>1, Mapper DEF Mapping, AsFar
<1> DEFINE r == EntryOf(t)
<1>3. /\ e.code = EntryOf(t).code /\ e.base = EntryOf(t).base /\ e.ready = EntryOf(t).ready /\ e.set = TRUE
      /\ e = [code |-> e.code, ready |-> e.ready, base |-> e.base, set |-> e.set]
      /\ e.ready \in BOOLEAN /\ e.set \in BOOLEAN
  <2>1. r = [code |-> r.code, ready |-> r.ready, base |-> r.base, set |-> r.set] /\ r.ready \in BOOLEAN
    BY <1>2, Mapper
  <2> HIDE DEF r
  <2>2. e = [code |-> r.code, ready |-> r.ready, base |-> r.base, set |-> TRUE]
    BY <2>1, OtherField, Zenon DEF r
  <2> HIDE DEF e
  <2>3. e.code = r.code /\ e.base = r.base
    BY <2>2
  <2>4. e.ready = r.ready
    BY <2>2, Zenon
  <2>5. e.set = TRUE
    BY <2>2, Zenon
  <2> QED
    BY <2>1, <2>2, <2>3, <2>4, <2>5, Zenon DEF r
<1> HIDE DEF e
<1>4. Fits("publish", e)
  BY <1>2, <1>3, Mapper DEF Fits, Good
<1>5. MappingsCounted'
  BY <1>1, <1>2, <1>3, UpdateCounts
<1> QED
  BY <1>1, <1>2, <1>3, <1>4, <1>5, Mapper, MapStep DEF Mapping

LEMMA PublishKeeps ==
    ASSUME FilesInv, NEW t \in Threads, Publish(t) PROVE FilesInv'
<1> DEFINE e == [EntryOf(t) EXCEPT !.ready = TRUE]
           label == AfterMapped(t)
<1>1. /\ pc[t] = "publish" /\ UNCHANGED <<key, disk, path, probe, searching, mappings>>
      /\ Update(t, e) /\ pc' = [pc EXCEPT ![t] = label]
      /\ mutex' = [mutex EXCEPT ![probe[t].type] = None]
  BY DEF Publish, Goto, files, registry
<1>2. /\ pc[t] \in Mapping /\ pc[t] # "idle" /\ AsFar(t) /\ FilesTyped /\ ProbesPlaced /\ MappingsCounted
      /\ ~EntryOf(t).ready
      /\ EntryOf(t).base # None => Good(EntryOf(t)) /\ EntryOf(t).set
  BY <1>1, Mapper DEF Mapping, AsFar
<1> DEFINE r == EntryOf(t)
<1>3. /\ e.code = EntryOf(t).code /\ e.base = EntryOf(t).base /\ e.ready = TRUE /\ e.set = EntryOf(t).set
      /\ e = [code |-> e.code, ready |-> e.ready, base |-> e.base, set |-> e.set]
      /\ e.ready \in BOOLEAN /\ e.set \in BOOLEAN
  <2>1. r = [code |-> r.code, ready |-> r.ready, base |-> r.base, set |-> r.set] /\ r.set \in BOOLEAN
    BY <1>2, Mapper
  <2> HIDE DEF r
  <2>2. e = [code |-> r.code, ready |-> TRUE, base |-> r.base, set |-> r.set]
    BY <2>1, OtherField, Zenon DEF r
  <2> HIDE DEF e
  <2>3. e.code = r.code /\ e.base = r.base
    BY <2>2
  <2>4. e.ready = TRUE
    BY <2>2, Zenon
  <2>5. e.set = r.set
    BY <2>2, Zenon
  <2> QED
    BY <2>1, <2>2, <2>3, <2>4, <2>5, Zenon DEF r
<1> HIDE DEF e
<1>4. Fits(label, e) /\ label \notin Mapping
  BY <1>2, <1>3, Mapper DEF Fits, Good, AfterMapped, Mapping
<1> HIDE DEF label
<1>5. MappingsCounted'
  BY <1>1, <1>2, <1>3, UpdateCounts
<1> QED
  BY <1>1, <1>2, <1>3, <1>4, <1>5, Mapper, MapStep DEF Mapping

-----------------------------------------------------------------------------
(* Init and the whole.                                                     *)

LEMMA FilesInitially == FilesInit => FilesInv
<1> SUFFICES ASSUME FilesInit PROVE FilesInv
  OBVIOUS
<1>1. PICK s \in Starts : key = s.key /\ disk = s.disk
  BY DEF FilesInit
<1>2. /\ path = <<>> /\ tables = [type \in Types |-> <<>>] /\ mappings = 0
      /\ mutex = [type \in Types |-> None] /\ pc = [t \in Threads |-> "idle"]
      /\ probe = [t \in Threads |-> NotProbing] /\ searching = FALSE
  BY DEF FilesInit
<1>3. key \in [Materials -> Nat \ {0}] /\ IsInjective(key) /\ OnDisk
  BY <1>1 DEF OnDisk
<1>4. FilesTyped
  <2>1. pc \in [Threads -> Labels] /\ mutex \in [Types -> Threads \cup {None}]
    BY <1>2 DEF Labels
  <2>2. tables["wdl"] = <<>> /\ tables["dtz"] = <<>> /\ DOMAIN tables = Types
    BY <1>2 DEF Types
  <2>3. DOMAIN path \subseteq Nat /\ DOMAIN <<>> = {}
    BY <1>2
  <2>4. DOMAIN probe = Threads /\ searching \in BOOLEAN
    BY <1>2
  <2> QED
    BY <1>3, <2>1, <2>2, <2>3, <2>4 DEF FilesTyped
<1>5. Mapped = {}
  BY <1>2 DEF Mapped, Types
<1>6. MappingsCounted
  BY <1>2, <1>5, FS_EmptySet DEF MappingsCounted
<1>7. \A t \in Threads : pc[t] = "idle"
  BY <1>2
<1>8. SearchersRest /\ ProbesPlaced /\ MappersLock /\ MappersAsFar
  BY <1>7 DEF SearchersRest, ProbesPlaced, MappersLock, MappersAsFar, AsFar, Mapping, Threads
<1>9. EntriesKept
  BY <1>2 DEF EntriesKept, Types
<1> QED
  BY <1>4, <1>6, <1>8, <1>9 DEF FilesInv

\* init finds nobody in the tables, and leaves none in memory.
LEMMA InitTablesKeeps ==
    ASSUME FilesInv, NEW dirs \in Paths, InitTables(dirs) PROVE FilesInv'
<1> DEFINE reg == FoldLeft(LAMBDA r, code : Added(r, code, dirs), NoTables, Asked(dirs))
           D == DOMAIN reg.list
<1>1. /\ pc[Uci] = "idle" /\ ~searching /\ path' = dirs
      /\ UNCHANGED <<key, disk, mutex, pc, probe, searching>>
      /\ tables' = [type \in Types |-> [i \in D |-> NewTable(reg.list[i])]]
      /\ mappings' = mappings - Cardinality(Mapped)
  BY DEF InitTables, SearchFinished, files
<1> HIDE DEF reg, D
<1>2. \A t \in Threads : pc'[t] = "idle"
  BY <1>1 DEF FilesInv, SearchersRest, Threads
<1>3. \A type \in Types : /\ DOMAIN tables'[type] = D
                          /\ \A i \in D : tables'[type][i] = NewTable(reg.list[i])
  BY <1>1
<1>4. FilesTyped'
  BY <1>1, <1>3 DEF FilesInv, FilesTyped, OnDisk, Types
<1>5. SearchersRest' /\ ProbesPlaced' /\ MappersLock' /\ MappersAsFar'
  BY <1>2 DEF SearchersRest, ProbesPlaced, MappersLock, MappersAsFar, AsFar, Mapping, Threads
<1>6. EntriesKept'
  <2> SUFFICES ASSUME NEW type \in Types, NEW i \in D PROVE EntryKept(type, i)'
    BY <1>3 DEF EntriesKept
  <2>1. tables'[type][i] = NewTable(reg.list[i])
    BY <1>3
  <2>2. \A x : LET e == NewTable(x)
               IN  /\ e = [code |-> e.code, ready |-> e.ready, base |-> e.base, set |-> e.set]
                   /\ e.ready = FALSE /\ e.set = FALSE /\ e.base = None
    BY DEF NewTable
  <2> QED
    BY <2>1, <2>2 DEF EntryKept
<1>7. Mapped' = {}
  <2>1. \A x : NewTable(x).base = None
    BY DEF NewTable
  <2>2. ASSUME NEW x \in Types \X DOMAIN tables'["wdl"] PROVE tables'[x[1]][x[2]].base = None
    BY <1>3, <2>1 DEF Types
  <2> QED
    BY <2>2 DEF Mapped
<1>8. mappings' = 0
  <2>1. mappings = Cardinality(Mapped) /\ Cardinality(Mapped) \in Nat
    BY FS_CardinalityType DEF FilesInv, MappingsCounted
  <2> QED
    BY <1>1, <2>1
<1>9. MappingsCounted'
  BY <1>7, <1>8, FS_EmptySet DEF MappingsCounted
<1> QED
  BY <1>4, <1>5, <1>6, <1>9 DEF FilesInv

-----------------------------------------------------------------------------
(* Folds.  A left fold over a sequence is what its step function makes of  *)
(* the set of places 1 .. N, and induction over a set says what holds of   *)
(* it after each place.                                                    *)

\* The largest element of a nonempty set of numbers up to a bound.
LEMMA MaxOf == ASSUME NEW n \in Nat, NEW s \in SUBSET (1 .. n), s # {}
               PROVE  Max(s) \in s /\ \A y \in s : y <= Max(s)
<1> DEFINE S == {k \in Nat : \A r \in SUBSET (1 .. k) : r # {} => \E x \in r : \A y \in r : x >= y}
<1>1. 0 \in S
  <2>1. SUBSET (1 .. 0) = {{}}
    OBVIOUS
  <2> QED
    BY <2>1
<1>2. ASSUME NEW k \in Nat, k \in S PROVE k + 1 \in S
  <2> SUFFICES ASSUME NEW r \in SUBSET (1 .. k + 1), r # {} PROVE \E x \in r : \A y \in r : x >= y
    OBVIOUS
  <2>1. CASE k + 1 \in r
    BY <2>1
  <2>2. CASE k + 1 \notin r
    <3>1. r \in SUBSET (1 .. k)
      BY <2>2
    <3> QED
      BY <1>2, <3>1
  <2> QED
    BY <2>1, <2>2
<1>3. n \in S
  <2> HIDE DEF S
  <2> QED
    BY <1>1, <1>2, NatSet
<1> QED
  BY <1>3 DEF Max

\* A left fold: what it is on each set of places.
FoldOn(w, D, base, N, step) ==
    /\ w \in [SUBSET (1 .. N) -> D]
    /\ \A s \in SUBSET (1 .. N) :
          w[s] = IF s = {} THEN base ELSE step[<<w[s \ {Max(s)}], Max(s)>>]

LEMMA FoldExists ==
    ASSUME NEW D, NEW base \in D, NEW N \in Nat, NEW step \in [D \X (1 .. N) -> D]
    PROVE  \E w : FoldOn(w, D, base, N, step)
<1> DEFINE Satisfies(w, n) == \A s \in SUBSET (1 .. n) :
              w[s] = IF s = {} THEN base ELSE step[<<w[s \ {Max(s)}], Max(s)>>]
           Folds(n) == n <= N => \E w \in [SUBSET (1 .. n) -> D] : Satisfies(w, n)
<1>1. Folds(0)
  <2>1. SUBSET (1 .. 0) = {{}}
    OBVIOUS
  <2> DEFINE w == [s \in {{}} |-> base]
  <2>2. w \in [SUBSET (1 .. 0) -> D] /\ Satisfies(w, 0)
    BY <2>1
  <2> HIDE DEF w, Satisfies
  <2> QED
    BY <2>2
<1>2. ASSUME NEW n \in Nat, Folds(n) PROVE Folds(n + 1)
  <2>0. SUFFICES ASSUME n + 1 <= N PROVE \E w \in [SUBSET (1 .. n + 1) -> D] : Satisfies(w, n + 1)
    <3> HIDE DEF Satisfies
    <3> QED
      OBVIOUS
  <2>1. PICK w \in [SUBSET (1 .. n) -> D] : Satisfies(w, n)
    <3>1. n <= N
      BY <2>0
    <3> HIDE DEF Satisfies
    <3> QED
      BY <1>2, <3>1, Zenon
  <2> DEFINE v == [s \in SUBSET (1 .. (n + 1)) |->
                     IF n + 1 \in s THEN step[<<w[s \ {n + 1}], n + 1>>] ELSE w[s]]
  <2>2. \A s \in SUBSET (1 .. (n + 1)) : /\ s \ {n + 1} \in SUBSET (1 .. n)
                                         /\ n + 1 \notin s => s \in SUBSET (1 .. n)
    OBVIOUS
  <2>3. v \in [SUBSET (1 .. (n + 1)) -> D]
    <3>1. ASSUME NEW s \in SUBSET (1 .. (n + 1)) PROVE v[s] \in D
      <4>1. CASE n + 1 \in s
        <5>1. w[s \ {n + 1}] \in D /\ n + 1 \in 1 .. N
          BY <2>0, <2>2
        <5>2. step[<<w[s \ {n + 1}], n + 1>>] \in D
          BY <5>1
        <5> QED
          BY <4>1, <5>2
      <4>2. CASE n + 1 \notin s
        BY <2>2, <4>2
      <4> QED
        BY <4>1, <4>2
    <3> QED
      BY <3>1
  <2>4. ASSUME NEW s \in SUBSET (1 .. (n + 1))
        PROVE  v[s] = IF s = {} THEN base ELSE step[<<v[s \ {Max(s)}], Max(s)>>]
    <3>1. CASE s = {}
      BY <2>1, <3>1
    <3>0. n + 1 \in Nat
      OBVIOUS
    <3>4. s # {} => Max(s) \in s /\ \A y \in s : y <= Max(s)
      BY <3>0, MaxOf
    <3>2. CASE s # {} /\ n + 1 \in s
      <4>1. Max(s) = n + 1
        <5>1. Max(s) \in 1 .. (n + 1) /\ n + 1 <= Max(s)
          BY <3>2, <3>4
        <5> QED
          BY <5>1
      <4>2. v[s \ {n + 1}] = w[s \ {n + 1}]
        BY <2>2
      <4> QED
        BY <3>2, <4>1, <4>2
    <3>3. CASE s # {} /\ n + 1 \notin s
      <4>1. s \in SUBSET (1 .. n) /\ Max(s) \in s
        BY <2>2, <3>3, <3>4
      <4>2. s \ {Max(s)} \in SUBSET (1 .. n) /\ n + 1 \notin s \ {Max(s)}
        BY <3>3, <4>1
      <4>3. v[s] = w[s] /\ v[s \ {Max(s)}] = w[s \ {Max(s)}]
        BY <3>3, <4>2
      <4>4. w[s] = step[<<w[s \ {Max(s)}], Max(s)>>]
        BY <2>1, <3>3, <4>1
      <4> QED
        BY <3>3, <4>3, <4>4
    <3> QED
      BY <3>1, <3>2, <3>3
  <2> QED
    BY <2>3, <2>4
<1> HIDE DEF Folds
<1>3. \A n \in Nat : Folds(n)
  <2> DEFINE S == {n \in Nat : Folds(n)}
  <2>1. 0 \in S /\ \A n \in Nat : n \in S => n + 1 \in S
    BY <1>1, <1>2
  <2> HIDE DEF S
  <2>2. Nat \subseteq S
    BY <2>1, NatSet
  <2> QED
    BY <2>2 DEF S
<1>4. N <= N
  OBVIOUS
<1> QED
  BY <1>3, <1>4, Zenon DEF Folds, FoldOn

\* Induction up to a bound.
LEMMA UpTo ==
    ASSUME NEW N \in Nat, NEW S, 0 \in S, \A i \in 1 .. N : i - 1 \in S => i \in S
    PROVE  0 .. N \subseteq S
<1> DEFINE T == {n \in Nat : n <= N => n \in S}
<1>1. 0 \in T
  OBVIOUS
<1>2. ASSUME NEW n \in Nat, n \in T PROVE n + 1 \in T
  <2>1. CASE n + 1 <= N
    <3>1. n + 1 \in 1 .. N /\ (n + 1) - 1 = n /\ n \in S
      BY <1>2, <2>1
    <3> QED
      BY <3>1
  <2> QED
    BY <2>1
<1> HIDE DEF T
<1>3. Nat \subseteq T
  BY <1>1, <1>2, NatSet
<1> QED
  BY <1>3 DEF T

-----------------------------------------------------------------------------
(* The hash table of the tables.                                           *)

Buckets == 0 .. Size
Entries == [key : Nat, place : Nat]
Full(h, b) == h[b].place # 0
HomeOf(h, b) == Home(h[b].key)

\* A full bucket is reached from the home of its key over full ones, none of
\* which is farther from there than it is; no key is in two.
Reachable(h, b) ==
    /\ HomeOf(h, b) <= b
    /\ \A x \in HomeOf(h, b) .. b : Full(h, x) /\ HomeOf(h, x) <= HomeOf(h, b)
Ordered(h) ==
    /\ h \in [Buckets -> Entries]
    /\ ~Full(h, Size)
    /\ \A b \in Buckets : Full(h, b) => h[b].key # 0 /\ Reachable(h, b)
    /\ \A b \in Buckets : ~Full(h, b) => h[b].key = 0
    /\ \A b, x \in Buckets : Full(h, b) /\ Full(h, x) /\ h[b].key = h[x].key => b = x

Within(h, valid) == \A b \in Buckets : Full(h, b) => h[b] \in valid
Holds(h, k) == \E b \in Buckets : Full(h, b) /\ h[b].key = k

\* An entry on its way, at bucket b: its place is not before b.
OnItsWay(h, e, b) ==
    /\ e \in Entries /\ e.key # 0 /\ e.place # 0 /\ Home(e.key) <= b
    /\ \A x \in Home(e.key) .. (b - 1) :
          Full(h, x) /\ HomeOf(h, x) <= Home(e.key) /\ h[x].key # e.key

LEMMA HomeRange == ASSUME NEW k \in Nat PROVE Home(k) \in 0 .. (Size - 1)
BY DEF Home

\* A key that is held is found on the way, before any empty bucket and any
\* bucket that is nearer to its home.
LEMMA FoundOnTheWay ==
    ASSUME NEW h, NEW e, NEW b \in Buckets, Ordered(h), OnItsWay(h, e, b),
           Full(h, b) => h[b].key # e.key /\ HomeOf(h, b) > Home(e.key)
    PROVE  ~Holds(h, e.key)
<1> SUFFICES ASSUME NEW x \in Buckets, Full(h, x), h[x].key = e.key PROVE FALSE
  BY DEF Holds
<1>1. HomeOf(h, x) = Home(e.key) /\ Home(e.key) \in Nat /\ x \in Nat /\ b \in Nat
  BY HomeRange DEF HomeOf, OnItsWay, Entries, Buckets
<1>2. Home(e.key) <= x /\ \A y \in Home(e.key) .. x : Full(h, y) /\ HomeOf(h, y) <= Home(e.key)
  BY <1>1 DEF Ordered, Reachable
<1>3. CASE x < b
  <2>1. x \in Home(e.key) .. (b - 1)
    BY <1>1, <1>2, <1>3
  <2> QED
    BY <2>1 DEF OnItsWay
<1>4. CASE b <= x
  <2>1. b \in Home(e.key) .. x
    BY <1>1, <1>4 DEF OnItsWay
  <2>2. Full(h, b) /\ HomeOf(h, b) <= Home(e.key) /\ HomeOf(h, b) \in Nat
    BY <1>2, <2>1, HomeRange DEF HomeOf, Ordered, Entries
  <2> QED
    BY <1>1, <2>2
<1> QED
  BY <1>1, <1>3, <1>4

\* The entry takes an empty bucket, or the one of its key.
LEMMA Settles ==
    ASSUME NEW h, NEW e, NEW b \in 0 .. (Size - 1), Ordered(h), OnItsWay(h, e, b),
           ~Full(h, b) \/ h[b].key = e.key
    PROVE  Ordered([h EXCEPT ![b] = e])
<1> DEFINE g == [h EXCEPT ![b] = e]
<1>0. ~Full(h, b) => ~Holds(h, e.key)
  BY FoundOnTheWay DEF Buckets
<1>1. /\ g \in [Buckets -> Entries] /\ g[b] = e /\ b \in Buckets
      /\ \A x \in Buckets : x # b => g[x] = h[x]
  BY DEF Ordered, OnItsWay, Buckets
<1> HIDE DEF g
<1>2. Full(g, b) /\ \A x \in Buckets : Full(h, x) => Full(g, x)
  BY <1>1 DEF Full, OnItsWay
<1>3. \A x \in Buckets : Full(h, x) => HomeOf(g, x) = HomeOf(h, x)
  BY <1>1 DEF HomeOf, Full
<1>4. ~Full(g, Size)
  BY <1>1 DEF Ordered, Full, Buckets
<1>5. ASSUME NEW x \in Buckets, Full(g, x) PROVE g[x].key # 0 /\ Reachable(g, x)
  <2>1. CASE x # b
    <3>1. Full(h, x) /\ h[x].key # 0 /\ Reachable(h, x) /\ HomeOf(g, x) = HomeOf(h, x) /\ g[x] = h[x]
      BY <1>1, <1>3, <1>5, <2>1 DEF Ordered, Full
    <3>2. HomeOf(h, x) \in Nat /\ x \in Nat
      BY <1>5, HomeRange DEF Ordered, HomeOf, Entries, Buckets
    <3>3. \A y \in HomeOf(h, x) .. x : y \in Buckets /\ Full(h, y) /\ HomeOf(h, y) <= HomeOf(h, x)
      BY <1>5, <3>1, <3>2 DEF Reachable, Buckets
    <3> QED
      BY <1>2, <1>3, <3>1, <3>3 DEF Reachable
  <2>2. CASE x = b
    <3>1. HomeOf(g, b) = Home(e.key) /\ Home(e.key) \in Nat /\ b \in Nat
      BY <1>1, HomeRange DEF HomeOf, OnItsWay, Entries
    <3>2. \A y \in Home(e.key) .. (b - 1) : y \in Buckets /\ Full(h, y) /\ HomeOf(h, y) <= Home(e.key)
      BY <3>1 DEF OnItsWay, Buckets
    <3>3. \A y \in Home(e.key) .. b : y = b \/ y \in Home(e.key) .. (b - 1)
      BY <3>1
    <3>4. Home(e.key) <= b /\ e.key # 0
      BY DEF OnItsWay
    <3> QED
      BY <1>1, <1>2, <1>3, <2>2, <3>1, <3>2, <3>3, <3>4 DEF Reachable
  <2> QED
    BY <2>1, <2>2
<1>6. ASSUME NEW x \in Buckets, ~Full(g, x) PROVE g[x].key = 0
  BY <1>1, <1>2, <1>6 DEF Ordered, Full
<1>7. ASSUME NEW x \in Buckets, NEW y \in Buckets, Full(g, x), Full(g, y), g[x].key = g[y].key PROVE x = y
  <2>1. ASSUME NEW z \in Buckets, z # b, Full(g, z), g[z].key = e.key PROVE FALSE
    <3>1. Full(h, z) /\ h[z].key = e.key
      BY <1>1, <2>1 DEF Full
    <3> QED
      BY <1>0, <1>1, <2>1, <3>1 DEF Holds, Ordered
  <2>2. CASE x # b /\ y # b
    BY <1>1, <1>7, <2>2 DEF Ordered, Full
  <2> QED
    BY <1>1, <1>7, <2>1, <2>2
<1> QED
  BY <1>1, <1>4, <1>5, <1>6, <1>7 DEF Ordered, g

\* An entry that is nearer to its home gives way and goes on its way.
LEMMA GivesWay ==
    ASSUME NEW h, NEW e, NEW b \in 0 .. (Size - 1), Ordered(h), OnItsWay(h, e, b),
           Full(h, b), h[b].key # e.key, HomeOf(h, b) > Home(e.key)
    PROVE  /\ Ordered([h EXCEPT ![b] = e])
           /\ OnItsWay([h EXCEPT ![b] = e], h[b], b + 1)
<1> DEFINE g == [h EXCEPT ![b] = e]
           H == HomeOf(h, b)
<1>0. ~Holds(h, e.key)
  BY FoundOnTheWay DEF Buckets
<1>1. /\ g \in [Buckets -> Entries] /\ g[b] = e /\ b \in Buckets
      /\ \A x \in Buckets : x # b => g[x] = h[x]
  BY DEF Ordered, OnItsWay, Buckets
<1> HIDE DEF g
<1>2. \A x \in Buckets : Full(g, x) <=> Full(h, x)
  BY <1>1 DEF Full, OnItsWay
<1>3. /\ HomeOf(g, b) = Home(e.key) /\ Home(e.key) \in Nat /\ H \in Nat /\ b \in Nat /\ Size \in Nat
      /\ \A x \in Buckets : x # b => HomeOf(g, x) = HomeOf(h, x)
      /\ \A x \in Buckets : HomeOf(h, x) \in Nat
  BY <1>1, HomeRange DEF HomeOf, OnItsWay, Entries, Ordered
<1> HIDE DEF H
<1>4. \A x \in Buckets : HomeOf(g, x) <= HomeOf(h, x)
  BY <1>3 DEF H
<1>5. ASSUME NEW x \in Buckets, Full(g, x) PROVE g[x].key # 0 /\ Reachable(g, x)
  <2>1. CASE x # b
    <3>1. Full(h, x) /\ h[x].key # 0 /\ Reachable(h, x) /\ HomeOf(g, x) = HomeOf(h, x) /\ g[x] = h[x]
      BY <1>1, <1>2, <1>3, <1>5, <2>1 DEF Ordered
    <3>3. \A y \in HomeOf(h, x) .. x : y \in Buckets /\ Full(h, y) /\ HomeOf(h, y) <= HomeOf(h, x)
      BY <1>3, <1>5, <3>1 DEF Reachable, Buckets
    <3>4. \A y \in HomeOf(h, x) .. x : HomeOf(g, y) <= HomeOf(h, x)
      BY <1>1, <1>3, <1>4, <3>3
    <3> QED
      BY <1>2, <3>1, <3>3, <3>4 DEF Reachable
  <2>2. CASE x = b
    <3>2. \A y \in Home(e.key) .. (b - 1) : y \in Buckets /\ y # b /\ Full(h, y) /\ HomeOf(h, y) <= Home(e.key)
      BY <1>3 DEF OnItsWay, Buckets
    <3>3. \A y \in Home(e.key) .. b : y = b \/ y \in Home(e.key) .. (b - 1)
      BY <1>3
    <3>4. Home(e.key) <= b /\ e.key # 0
      BY DEF OnItsWay
    <3> QED
      BY <1>1, <1>2, <1>3, <1>5, <2>2, <3>2, <3>3, <3>4 DEF Reachable
  <2> QED
    BY <2>1, <2>2
<1>6. \A x \in Buckets : ~Full(g, x) => g[x].key = 0
  BY <1>1, <1>2 DEF Ordered
<1>7. ASSUME NEW x \in Buckets, NEW y \in Buckets, Full(g, x), Full(g, y), g[x].key = g[y].key PROVE x = y
  <2>1. ASSUME NEW z \in Buckets, z # b, Full(g, z), g[z].key = e.key PROVE FALSE
    BY <1>0, <1>1, <1>2, <2>1 DEF Holds
  <2>2. CASE x # b /\ y # b
    BY <1>1, <1>2, <1>7, <2>2 DEF Ordered
  <2> QED
    BY <1>1, <1>7, <2>1, <2>2
<1>8. Ordered(g)
  <2>1. ~Full(g, Size)
    BY <1>2, <1>3 DEF Ordered, Buckets
  <2> QED
    BY <1>1, <1>5, <1>6, <1>7, <2>1 DEF Ordered
<1>9. OnItsWay(g, h[b], b + 1)
  <2>1. h[b] \in Entries /\ h[b].key # 0 /\ h[b].place # 0 /\ Home(h[b].key) = H /\ Reachable(h, b)
    BY <1>1 DEF Ordered, Full, HomeOf, H
  <2>2. ASSUME NEW x \in H .. b PROVE Full(g, x) /\ HomeOf(g, x) <= H /\ g[x].key # h[b].key
    <3>1. x \in Buckets /\ Full(h, x) /\ HomeOf(h, x) <= H
      BY <1>3, <2>1, <2>2 DEF Reachable, Buckets, H
    <3>2. CASE x = b
      BY <1>1, <1>2, <1>3, <1>4, <3>1, <3>2 DEF H
    <3>3. CASE x # b
      BY <1>1, <1>2, <1>3, <3>1, <3>3 DEF Ordered
    <3> QED
      BY <3>2, <3>3
  <2>3. (b + 1) - 1 = b /\ H <= b + 1
    BY <1>3, <2>1 DEF Reachable, H
  <2> QED
    BY <2>1, <2>2, <2>3 DEF OnItsWay
<1> QED
  BY <1>8, <1>9 DEF g

\* One that is not, stays.
LEMMA GoesBy ==
    ASSUME NEW h, NEW e, NEW b \in 0 .. (Size - 1), Ordered(h), OnItsWay(h, e, b),
           Full(h, b), h[b].key # e.key, ~(HomeOf(h, b) > Home(e.key))
    PROVE  OnItsWay(h, e, b + 1)
<1>1. Home(e.key) \in Nat /\ HomeOf(h, b) \in Nat /\ b \in Nat
  BY HomeRange DEF HomeOf, OnItsWay, Entries, Ordered, Buckets
<1>2. \A x \in Home(e.key) .. ((b + 1) - 1) : x = b \/ x \in Home(e.key) .. (b - 1)
  BY <1>1
<1>3. e \in Entries /\ e.key # 0 /\ e.place # 0 /\ Home(e.key) <= b + 1
  BY <1>1 DEF OnItsWay
<1>4. HomeOf(h, b) <= Home(e.key)
  BY <1>1
<1>5. \A x \in Home(e.key) .. ((b + 1) - 1) : Full(h, x) /\ HomeOf(h, x) <= Home(e.key) /\ h[x].key # e.key
  BY <1>2, <1>4 DEF OnItsWay
<1> QED
  BY <1>3, <1>5 DEF OnItsWay

Insertions == [hash : [Buckets -> Entries], entry : Entries, home : Nat, done : BOOLEAN]

\* An insertion that has come to bucket b: what the table holds is valid, and
\* holds the keys it is to hold but for one on its way.
Inserting(c, b, valid, keys) ==
    /\ c \in Insertions
    /\ Ordered(c.hash) /\ Within(c.hash, valid)
    /\ ~c.done => /\ OnItsWay(c.hash, c.entry, b) /\ c.home = Home(c.entry.key)
                  /\ c.entry \in valid
    /\ \A k \in keys : Holds(c.hash, k) \/ (~c.done /\ c.entry.key = k)

LEMMA ProbedKeeps ==
    ASSUME NEW b \in 0 .. (Size - 1), NEW valid, NEW keys, NEW c, Inserting(c, b, valid, keys)
    PROVE  Inserting(Probed(c, b), b + 1, valid, keys)
<1> DEFINE h == c.hash
           e == c.entry
           g == [h EXCEPT ![b] = e]
<1>0. /\ h \in [Buckets -> Entries] /\ e \in Entries /\ c.home \in Nat /\ c.done \in BOOLEAN
      /\ c = [hash |-> h, entry |-> e, home |-> c.home, done |-> c.done]
      /\ b \in Buckets /\ h[b] \in Entries /\ Ordered(h) /\ Within(h, valid)
  BY DEF Inserting, Insertions, Buckets
<1>1. CASE c.done
  <2>1. Probed(c, b) = c
    BY <1>1 DEF Probed
  <2> QED
    BY <1>1, <2>1 DEF Inserting
<1>2. CASE ~c.done
  <2>0. OnItsWay(h, e, b) /\ c.home = Home(e.key) /\ e \in valid
    BY <1>2 DEF Inserting
  <2>a. /\ g \in [Buckets -> Entries] /\ g[b] = e /\ \A x \in Buckets : x # b => g[x] = h[x]
    BY <1>0
  <2>b. Within(g, valid)
    BY <1>0, <2>0, <2>a DEF Within, Full
  <2>c. \A k : Holds(h, k) /\ k # h[b].key => Holds(g, k)
    BY <1>0, <2>a DEF Holds, Full
  <2>d. Holds(g, e.key)
    BY <1>0, <2>0, <2>a DEF Holds, Full, OnItsWay
  <2>e. \A k \in keys : Holds(h, k) \/ e.key = k
    BY <1>2 DEF Inserting
  <2>1. CASE h[b].key = e.key \/ h[b].place = 0
    <3>1. Probed(c, b) = [hash |-> g, entry |-> e, home |-> c.home, done |-> TRUE]
      BY <1>0, <1>2, <2>1 DEF Probed
    <3>2. Ordered(g)
      BY <1>0, <2>0, <2>1, Settles DEF Full
    <3>3. \A k \in keys : Holds(g, k)
      <4>1. h[b].place = 0 => ~\E k : k # 0 /\ k = h[b].key
        BY <1>0 DEF Ordered, Full
      <4>2. \A k : Holds(h, k) => k # 0
        BY <1>0 DEF Ordered, Holds
      <4> QED
        BY <2>1, <2>c, <2>d, <2>e, <4>1, <4>2
    <3> HIDE DEF g
    <3> QED
      BY <1>0, <2>a, <2>b, <3>1, <3>2, <3>3 DEF Inserting, Insertions
  <2>2. CASE ~(h[b].key = e.key \/ h[b].place = 0) /\ Home(h[b].key) > c.home
    <3>1. Probed(c, b) = [hash |-> g, entry |-> h[b], home |-> Home(h[b].key), done |-> c.done]
      BY <1>0, <1>2, <2>2 DEF Probed
    <3>2. Ordered(g) /\ OnItsWay(g, h[b], b + 1)
      BY <1>0, <2>0, <2>2, GivesWay DEF Full, HomeOf
    <3>3. \A k \in keys : Holds(g, k) \/ h[b].key = k
      BY <2>c, <2>d, <2>e
    <3>4. h[b] \in valid /\ Home(h[b].key) \in Nat
      BY <1>0, <2>2, HomeRange DEF Within, Full, Entries
    <3> HIDE DEF g
    <3> QED
      BY <1>0, <1>2, <2>a, <2>b, <3>1, <3>2, <3>3, <3>4 DEF Inserting, Insertions
  <2>3. CASE ~(h[b].key = e.key \/ h[b].place = 0) /\ ~(Home(h[b].key) > c.home)
    <3>1. Probed(c, b) = c
      BY <1>0, <1>2, <2>3 DEF Probed
    <3>2. OnItsWay(h, e, b + 1)
      BY <1>0, <2>0, <2>3, GoesBy DEF Full, HomeOf
    <3> QED
      BY <3>1, <3>2, <1>2 DEF Inserting
  <2> QED
    BY <2>1, <2>2, <2>3
<1> QED
  BY <1>0, <1>1, <1>2

\* What insert returns: valid entries, and unless the table is too small all keys.
InsertedIn(r, reg, valid, keys) ==
    \E hash, full : /\ r = [reg EXCEPT !.hash = hash, !.full = reg.full \/ full]
                    /\ full \in BOOLEAN /\ Ordered(hash) /\ Within(hash, valid)
                    /\ ~full => \A q \in keys : Holds(hash, q)
AllBut(h, keys, k) == \A q \in keys : Holds(h, q) \/ q = k

\* insert: unless the table is too small it holds the key too, and what it held.
LEMMA InsertKeeps ==
    ASSUME NEW reg, NEW k \in Nat \ {0}, NEW place \in Nat \ {0}, NEW valid, NEW keys,
           Ordered(reg.hash), Within(reg.hash, valid), [key |-> k, place |-> place] \in valid,
           AllBut(reg.hash, keys, k)
    PROVE  InsertedIn(Insert(reg, k, place), reg, valid, keys)
<1> DEFINE N == Size - Home(k)
           D == Insertions
           buckets == [i \in 1 .. (Size - Home(k)) |-> Home(k) + i - 1]
           base == [hash |-> reg.hash, entry |-> [key |-> k, place |-> place],
                    home |-> Home(k), done |-> FALSE]
           Iter(w) == w = [s \in SUBSET (1 .. N) |->
                             IF s = {} THEN base ELSE Probed(w[s \ {Max(s)}], buckets[Max(s)])]
           step == [p \in D \X (1 .. N) |-> Probed(p[1], buckets[p[2]])]
           iter == CHOOSE w : Iter(w)
           run == [i \in 0 .. N |-> iter[1 .. i]]
<1>1. /\ Home(k) \in 0 .. (Size - 1) /\ Size \in Nat /\ N \in Nat /\ DOMAIN buckets = 1 .. N
      /\ \A i \in 1 .. N : buckets[i] = Home(k) + i - 1 /\ buckets[i] \in 0 .. (Size - 1)
  BY HomeRange
<1>2. base \in D
  BY <1>1 DEF Ordered, Insertions, Entries
<1>3. \A c \in D, b \in 0 .. (Size - 1) : Probed(c, b) \in D
  <2> SUFFICES ASSUME NEW c \in D, NEW b \in 0 .. (Size - 1) PROVE Probed(c, b) \in D
    OBVIOUS
  <2> DEFINE g == [c.hash EXCEPT ![b] = c.entry]
  <2>1. /\ c.hash \in [Buckets -> Entries] /\ c.entry \in Entries /\ c.home \in Nat /\ c.done \in BOOLEAN
        /\ c = [hash |-> c.hash, entry |-> c.entry, home |-> c.home, done |-> c.done]
        /\ b \in Buckets /\ c.hash[b] \in Entries /\ c.hash[b].key \in Nat
    BY DEF Insertions, Buckets, Entries
  <2>2. g \in [Buckets -> Entries] /\ Home(c.hash[b].key) \in Nat
    BY <2>1, HomeRange
  <2>3. \/ Probed(c, b) = c
        \/ Probed(c, b) = [hash |-> g, entry |-> c.entry, home |-> c.home, done |-> TRUE]
        \/ Probed(c, b) = [hash |-> g, entry |-> c.hash[b], home |-> Home(c.hash[b].key), done |-> c.done]
    BY <2>1 DEF Probed
  <2> HIDE DEF g
  <2>4. CASE Probed(c, b) = [hash |-> g, entry |-> c.entry, home |-> c.home, done |-> TRUE]
    BY <2>1, <2>2, <2>4 DEF Insertions
  <2>5. CASE Probed(c, b) = [hash |-> g, entry |-> c.hash[b], home |-> Home(c.hash[b].key), done |-> c.done]
    <3>1. \A d \in BOOLEAN :
             [hash |-> g, entry |-> c.hash[b], home |-> Home(c.hash[b].key), done |-> d] \in Insertions
      BY <2>1, <2>2 DEF Insertions
    <3> QED
      BY <2>1, <2>5, <3>1
  <2> QED
    BY <2>3, <2>4, <2>5
<1> HIDE DEF buckets, D, N, base
<1>4. step \in [D \X (1 .. N) -> D]
  BY <1>1, <1>3
<1>5. \E w : Iter(w)
  <2>1. PICK w : FoldOn(w, D, base, N, step)
    <3>1. N \in Nat
      BY <1>1
    <3> HIDE DEF step
    <3> QED
      BY <1>2, <1>4, <3>1, FoldExists, Zenon
  <2>2. ASSUME NEW s \in SUBSET (1 .. N), s # {}
        PROVE  step[<<w[s \ {Max(s)}], Max(s)>>] = Probed(w[s \ {Max(s)}], buckets[Max(s)])
    <3>1. Max(s) \in s
      BY <1>1, <2>2, MaxOf
    <3>2. w[s \ {Max(s)}] \in D
      BY <2>1 DEF FoldOn
    <3> QED
      BY <3>1, <3>2
  <2> HIDE DEF step
  <2>3. w = [s \in SUBSET (1 .. N) |->
               IF s = {} THEN base ELSE Probed(w[s \ {Max(s)}], buckets[Max(s)])]
    BY <2>1, <2>2 DEF FoldOn
  <2> QED
    BY <2>3
<1>6. Iter(iter)
  BY <1>5
<1>7. FoldLeft(Probed, base, buckets) = iter[1 .. N]
  BY <1>1 DEF FoldLeft, MapThenFoldSet
<1>8. \A i \in 1 .. N : iter[1 .. i] = Probed(iter[1 .. (i - 1)], buckets[i])
  <2> SUFFICES ASSUME NEW i \in 1 .. N PROVE iter[1 .. i] = Probed(iter[1 .. (i - 1)], buckets[i])
    OBVIOUS
  <2>1. N \in Nat /\ i \in 1 .. N /\ i \in Nat
    BY <1>1
  <2> HIDE DEF iter
  <2>2. i \in 1 .. i /\ 1 .. i \subseteq 1 .. N
    BY <2>1
  <2>3. 1 .. i # {} /\ 1 .. i \in SUBSET (1 .. N) /\ 1 .. i \in SUBSET (1 .. i)
    BY <2>2, Zenon
  <2>4. Max(1 .. i) \in 1 .. i /\ i <= Max(1 .. i)
    BY <2>1, <2>2, <2>3, MaxOf, Zenon
  <2>5. Max(1 .. i) = i
    BY <2>4
  <2>6. (1 .. i) \ {i} = 1 .. (i - 1)
    BY <2>1
  <2> QED
    BY <1>6, <2>3, <2>5, <2>6
<1>9. iter[1 .. 0] = base
  <2>1. 1 .. 0 = {} /\ {} \in SUBSET (1 .. N)
    OBVIOUS
  <2> HIDE DEF iter
  <2> QED
    BY <1>6, <2>1
<1> HIDE DEF iter
<1>10. Inserting(iter[1 .. 0], Home(k), valid, keys)
  BY <1>1, <1>2, <1>9 DEF Inserting, base, OnItsWay, Entries, D, AllBut
<1>11. ASSUME NEW i \in 1 .. N, Inserting(iter[1 .. (i - 1)], Home(k) + (i - 1), valid, keys)
       PROVE  Inserting(iter[1 .. i], Home(k) + i, valid, keys)
  <2>1. buckets[i] \in 0 .. (Size - 1) /\ buckets[i] = Home(k) + (i - 1) /\ buckets[i] + 1 = Home(k) + i
    BY <1>1
  <2> QED
    BY <1>8, <1>11, <2>1, ProbedKeeps
<1>12. Inserting(iter[1 .. N], Size, valid, keys)
  <2> DEFINE S == {i \in 0 .. N : Inserting(iter[1 .. i], Home(k) + i, valid, keys)}
  <2>1. 0 \in S
    BY <1>1, <1>10
  <2>2. ASSUME NEW i \in 1 .. N, i - 1 \in S PROVE i \in S
    BY <1>11, <2>2
  <2>3. 0 .. N \subseteq S
    <3> HIDE DEF S
    <3> QED
      BY <1>1, <2>1, <2>2, UpTo
  <2>4. N \in S /\ Home(k) + N = Size
    BY <1>1, <2>3 DEF N
  <2> QED
    BY <2>4
<1>13. Insert(reg, k, place)
         = [reg EXCEPT !.hash = iter[1 .. N].hash, !.full = reg.full \/ ~iter[1 .. N].done]
  BY <1>7, Zenon DEF Insert, base, buckets
<1> QED
  <2> DEFINE full == ~iter[1 .. N].done
  <2>1. full \in BOOLEAN /\ (~full => \A q \in keys : Holds(iter[1 .. N].hash, q))
    BY <1>12 DEF Inserting
  <2>2. Ordered(iter[1 .. N].hash) /\ Within(iter[1 .. N].hash, valid)
    BY <1>12 DEF Inserting
  <2> QED
    BY <1>13, <2>1, <2>2, Zenon DEF InsertedIn

\* What the tables of a list of materials are to be found by.
KeysOf(list) == {k \in Nat : \E i \in DOMAIN list : k \in {key[list[i]], key[Flip(list[i])]}}
Listed(list) ==
    {e \in Entries : e.place \in DOMAIN list /\ e.key \in {key[list[e.place]], key[Flip(list[e.place])]}}

\* The hash table holds tables of the list, each under its keys, and unless it
\* was too small all of them.
Indexed(hash, list, full) ==
    /\ Ordered(hash) /\ Within(hash, Listed(list))
    /\ ~full => \A q \in KeysOf(list) : Holds(hash, q)

Registers ==
    {r \in [hash : [Buckets -> Entries], list : Seq(Range(Codes)), largest : Nat, full : BOOLEAN] :
        Indexed(r.hash, r.list, r.full)}

KeysTyped == key \in [Materials -> Nat \ {0}] /\ IsInjective(key)

\* One more table, under its two keys.
Register(hash, list, most, full) ==
    [hash |-> hash, list |-> list, largest |-> most, full |-> full]
UnderBoth(reg, code, n) == Insert(Insert(reg, key[code], n), key[Flip(code)], n)

LEMMA AddedTwice ==
    ASSUME KeysTyped, NEW code \in Range(Codes), NEW hash, NEW list \in Seq(Range(Codes)), NEW most \in Nat,
           NEW full, full = FALSE, Indexed(hash, list, full)
    PROVE  UnderBoth(Register(hash, Append(list, code), most, full), code, Len(Append(list, code)))
             \in Registers
<1> DEFINE L == Append(list, code)
           reg == [hash |-> hash, list |-> L, largest |-> most, full |-> full]
           n == Len(L)
           k1 == key[code]
           k2 == key[Flip(code)]
           K1 == KeysOf(list) \cup {k1}
           K2 == KeysOf(list) \cup {k1, k2}
           valid == Listed(L)
<1>1. /\ L \in Seq(Range(Codes)) /\ n \in Nat \ {0} /\ n = Len(L) /\ n \in DOMAIN L /\ L[n] = code
      /\ DOMAIN list \subseteq DOMAIN L /\ DOMAIN L = DOMAIN list \cup {n}
      /\ \A i \in DOMAIN list : L[i] = list[i]
  OBVIOUS
<1>2. k1 \in Nat \ {0} /\ k2 \in Nat \ {0}
  BY FlipTwice DEF KeysTyped, Materials
<1> HIDE DEF L
<1>3. [key |-> k1, place |-> n] \in valid /\ [key |-> k2, place |-> n] \in valid
  BY <1>1, <1>2 DEF Listed, Entries
<1>4. Listed(list) \subseteq valid
  <2> SUFFICES ASSUME NEW e \in Listed(list) PROVE e \in valid
    OBVIOUS
  <2>1. e \in Entries /\ e.place \in DOMAIN list
        /\ e.key \in {key[list[e.place]], key[Flip(list[e.place])]}
    BY DEF Listed
  <2>2. e.place \in DOMAIN L /\ L[e.place] = list[e.place]
    BY <1>1, <2>1
  <2> QED
    BY <2>1, <2>2 DEF Listed
<1>5. KeysOf(L) \subseteq K2
  <2> SUFFICES ASSUME NEW q \in Nat, NEW i \in DOMAIN L, q \in {key[L[i]], key[Flip(L[i])]} PROVE q \in K2
    BY DEF KeysOf
  <2>1. CASE i \in DOMAIN list
    BY <1>1, <2>1 DEF KeysOf
  <2>2. CASE i = n
    BY <1>1, <2>2
  <2> QED
    BY <1>1, <2>1, <2>2
<1>6. Ordered(hash) /\ Within(hash, valid) /\ \A q \in K1 : Holds(hash, q) \/ q = k1
  BY <1>4 DEF Indexed, Within
<1> HIDE DEF K1, K2, k1, k2, valid, n
<1>7. PICK h1, f1 :
         /\ Insert(reg, k1, n) = [reg EXCEPT !.hash = h1, !.full = reg.full \/ f1]
         /\ f1 \in BOOLEAN /\ Ordered(h1) /\ Within(h1, valid)
         /\ ~f1 => \A q \in K1 : Holds(h1, q)
  <2>1. Ordered(reg.hash) /\ Within(reg.hash, valid) /\ AllBut(reg.hash, K1, k1)
    BY <1>6 DEF AllBut
  <2> HIDE DEF reg
  <2>2. InsertedIn(Insert(reg, k1, n), reg, valid, K1)
    BY <1>1, <1>2, <1>3, <2>1, InsertKeeps, Zenon
  <2> QED
    BY <2>2, Zenon DEF InsertedIn
<1> DEFINE reg1 == [hash |-> h1, list |-> L, largest |-> most, full |-> f1]
           K == IF f1 THEN {} ELSE K2
<1>8. Insert(reg, k1, n) = reg1
  BY <1>7
<1>9. \A q \in K : Holds(h1, q) \/ q = k2
  BY <1>7 DEF K1, K2
<1>10. PICK h2, f2 :
         /\ Insert(reg1, k2, n) = [reg1 EXCEPT !.hash = h2, !.full = reg1.full \/ f2]
         /\ f2 \in BOOLEAN /\ Ordered(h2) /\ Within(h2, valid)
         /\ ~f2 => \A q \in K : Holds(h2, q)
  <2>1. Ordered(reg1.hash) /\ Within(reg1.hash, valid) /\ AllBut(reg1.hash, K, k2)
    BY <1>7, <1>9 DEF AllBut
  <2> HIDE DEF reg1, K
  <2>2. InsertedIn(Insert(reg1, k2, n), reg1, valid, K)
    BY <1>1, <1>2, <1>3, <2>1, InsertKeeps, Zenon
  <2> QED
    BY <2>2, Zenon DEF InsertedIn
<1>11. Insert(reg1, k2, n) = [hash |-> h2, list |-> L, largest |-> most, full |-> f1 \/ f2]
  BY <1>10
<1>12. Indexed(h2, L, f1 \/ f2)
  <2>1. ~(f1 \/ f2) => \A q \in K2 : Holds(h2, q)
    BY <1>10
  <2> QED
    BY <1>5, <1>10, <2>1 DEF Indexed, valid
<1>13. [hash |-> h2, list |-> L, largest |-> most, full |-> f1 \/ f2] \in Registers
  <2>1. \A b \in BOOLEAN : Indexed(h2, L, b) => [hash |-> h2, list |-> L, largest |-> most, full |-> b] \in Registers
    BY <1>1, <1>10 DEF Registers, Ordered
  <2>2. (f1 \/ f2) \in BOOLEAN
    OBVIOUS
  <2> QED
    BY <1>12, <2>1, <2>2
<1> QED
  BY <1>8, <1>11, <1>13 DEF L, reg, k1, k2, n, Register, UnderBoth

LEMMA AddedKeeps ==
    ASSUME KeysTyped, NEW code \in Range(Codes), NEW dirs, NEW reg \in Registers
    PROVE  Added(reg, code, dirs) \in Registers
<1>1. CASE reg.full \/ ~Exists(code, "wdl", dirs)
  BY <1>1 DEF Added
<1>2. CASE ~(reg.full \/ ~Exists(code, "wdl", dirs))
  <2> DEFINE most == Max({reg.largest, Pieces[code]})
             new == Register(reg.hash, Append(reg.list, code), most, reg.full)
  <2>1. /\ reg = Register(reg.hash, reg.list, reg.largest, reg.full) /\ reg.full = FALSE
        /\ reg.list \in Seq(Range(Codes)) /\ reg.largest \in Nat /\ Indexed(reg.hash, reg.list, reg.full)
    BY <1>2 DEF Registers, Register
  <2>2. most \in Nat
    <3>1. reg.largest \in Nat /\ Pieces[code] \in Nat
      BY <2>1
    <3> DEFINE S == {reg.largest, Pieces[code]}
    <3>2. \E x \in S : \A y \in S : x >= y
      BY <3>1
    <3>3. Max(S) \in S
      BY <3>2 DEF Max
    <3> QED
      BY <3>1, <3>3
  <2> HIDE DEF most
  <2>3. [reg EXCEPT !.list = Append(reg.list, code), !.largest = most] = new
    <3>1. \A h, l, x, f, l2 : [Register(h, l, x, f) EXCEPT !.list = l2] = Register(h, l2, x, f)
      BY SMTT(30) DEF Register
    <3>2. \A h, l, x, f, x2 : [Register(h, l, x, f) EXCEPT !.largest = x2] = Register(h, l, x2, f)
      BY SMTT(30) DEF Register
    <3>3. \A r, l2, x2 : [r EXCEPT !.list = l2, !.largest = x2]
                           = [[r EXCEPT !.list = l2] EXCEPT !.largest = x2]
      BY Zenon
    <3> DEFINE list == Append(reg.list, code)
    <3> HIDE DEF list
    <3>4. [reg EXCEPT !.list = list] = Register(reg.hash, list, reg.largest, reg.full)
      BY <2>1, <3>1
    <3>5. [Register(reg.hash, list, reg.largest, reg.full) EXCEPT !.largest = most]
            = Register(reg.hash, list, most, reg.full)
      BY <3>2
    <3>6. [reg EXCEPT !.list = list, !.largest = most]
            = [[reg EXCEPT !.list = list] EXCEPT !.largest = most]
      BY <3>3
    <3> QED
      BY <3>4, <3>5, <3>6 DEF list
  <2>5. new.list = Append(reg.list, code)
    BY DEF Register
  <2>6. Added(reg, code, dirs) = UnderBoth(new, code, Len(Append(reg.list, code)))
    BY <1>2, <2>3, <2>5, Zenon DEF Added, most, UnderBoth
  <2>7. UnderBoth(new, code, Len(Append(reg.list, code))) \in Registers
    BY <2>1, <2>2, AddedTwice
  <2> QED
    BY <2>6, <2>7
<1> QED
  BY <1>1, <1>2

LEMMA NothingIndexed == NoTables \in Registers
<1> DEFINE h == [b \in 0 .. Size |-> Empty]
<1>1. Empty \in Entries /\ Empty.key = 0 /\ Empty.place = 0
  BY DEF Empty, Entries
<1>2. h \in [Buckets -> Entries] /\ \A b \in Buckets : ~Full(h, b) /\ h[b].key = 0
  BY <1>1 DEF Buckets, Full
<1>3. Size \in Buckets
  BY DEF Buckets
<1>4. KeysOf(<<>>) = {}
  BY DEF KeysOf
<1> HIDE DEF h
<1>5. Indexed(h, <<>>, FALSE)
  BY <1>2, <1>3, <1>4 DEF Indexed, Ordered, Within
<1>6. NoTables = [hash |-> h, list |-> <<>>, largest |-> 0, full |-> FALSE]
  BY DEF NoTables, h
<1>7. <<>> \in Seq(Range(Codes))
  OBVIOUS
<1> QED
  BY <1>2, <1>5, <1>6, <1>7 DEF Registers

\* init: what add has put in the hash table when every material was asked for.
LEMMA InitIndexes ==
    ASSUME KeysTyped, NEW dirs
    PROVE  FoldLeft(LAMBDA r, code : Added(r, code, dirs), NoTables, Asked(dirs)) \in Registers
<1> DEFINE D == Registers
           N == Len(Asked(dirs))
           asked == Asked(dirs)
           base == NoTables
           Iter(w) == w = [s \in SUBSET (1 .. N) |->
                             IF s = {} THEN base ELSE Added(w[s \ {Max(s)}], asked[Max(s)], dirs)]
           step == [p \in D \X (1 .. N) |-> Added(p[1], asked[p[2]], dirs)]
           iter == CHOOSE w : Iter(w)
<1>1. N \in Nat /\ DOMAIN asked = 1 .. N /\ \A i \in 1 .. N : asked[i] \in Range(Codes)
  <2>1. asked \in Seq(Range(Codes))
    BY DEF Asked
  <2> QED
    BY <2>1
<1>2. base \in D
  BY NothingIndexed
<1> HIDE DEF asked, D, N, base
<1>3. \A r \in D, i \in 1 .. N : Added(r, asked[i], dirs) \in D
  BY <1>1, AddedKeeps DEF D
<1>4. step \in [D \X (1 .. N) -> D]
  BY <1>3
<1>5. PICK w : FoldOn(w, D, base, N, step)
  <2>1. N \in Nat
    BY <1>1
  <2> HIDE DEF step
  <2> QED
    BY <1>2, <1>4, <2>1, FoldExists, Zenon
<1>6. ASSUME NEW s \in SUBSET (1 .. N), s # {}
      PROVE  step[<<w[s \ {Max(s)}], Max(s)>>] = Added(w[s \ {Max(s)}], asked[Max(s)], dirs)
  <2>1. Max(s) \in s
    BY <1>1, <1>6, MaxOf
  <2>2. w[s \ {Max(s)}] \in D
    BY <1>5 DEF FoldOn
  <2> QED
    BY <2>1, <2>2
<1>7. Iter(w)
  <2> HIDE DEF step
  <2> QED
    BY <1>5, <1>6 DEF FoldOn
<1>8. Iter(iter)
  BY <1>7
<1> HIDE DEF iter
<1>9. FoldLeft(LAMBDA r, code : Added(r, code, dirs), NoTables, Asked(dirs)) = iter[1 .. N]
  BY <1>1 DEF FoldLeft, MapThenFoldSet, iter, asked, base
<1>10. ASSUME NEW i \in 1 .. N, iter[1 .. (i - 1)] \in D PROVE iter[1 .. i] \in D
  <2>1. N \in Nat /\ i \in 1 .. N /\ i \in Nat
    BY <1>1
  <2>2. i \in 1 .. i /\ 1 .. i \subseteq 1 .. N
    BY <2>1
  <2>3. 1 .. i # {} /\ 1 .. i \in SUBSET (1 .. N) /\ 1 .. i \in SUBSET (1 .. i)
    BY <2>2, Zenon
  <2>4. Max(1 .. i) \in 1 .. i /\ i <= Max(1 .. i)
    BY <2>1, <2>2, <2>3, MaxOf, Zenon
  <2>5. Max(1 .. i) = i
    BY <2>4
  <2>6. (1 .. i) \ {i} = 1 .. (i - 1)
    BY <2>1
  <2>7. iter[1 .. i] = Added(iter[1 .. (i - 1)], asked[i], dirs)
    BY <1>8, <2>3, <2>5, <2>6
  <2> QED
    BY <1>3, <1>10, <2>7
<1>11. iter[1 .. 0] \in D
  <2>1. 1 .. 0 = {} /\ {} \in SUBSET (1 .. N)
    OBVIOUS
  <2> QED
    BY <1>2, <1>8, <2>1
<1>12. iter[1 .. N] \in D
  <2> DEFINE S == {i \in 0 .. N : iter[1 .. i] \in D}
  <2>1. 0 \in S
    BY <1>1, <1>11
  <2>2. ASSUME NEW i \in 1 .. N, i - 1 \in S PROVE i \in S
    BY <1>10, <2>2
  <2>3. 0 .. N \subseteq S
    <3> HIDE DEF S
    <3> QED
      BY <1>1, <2>1, <2>2, UpTo
  <2> QED
    BY <1>1, <2>3
<1> QED
  BY <1>9, <1>12 DEF D

\* get: the entry of the key, or an empty one; it never runs off the table.
LEMMA Lookup ==
    ASSUME Ordered(hashTable), NEW k \in Nat \ {0}
    PROVE  /\ Stops(k) # {}
           /\ \A b \in Buckets : Full(hashTable, b) /\ hashTable[b].key = k => Get(k) = hashTable[b].place
           /\ ~Holds(hashTable, k) => Get(k) = 0
<1> DEFINE m == Min(Stops(k))
<1>1. Home(k) \in 0 .. (Size - 1) /\ Size \in Buckets /\ Size \in Nat
  BY HomeRange DEF Buckets
<1>2. Size \in Stops(k)
  BY <1>1 DEF Stops, Ordered, Full
<1>3. Stops(k) \subseteq Nat /\ Stops(k) \subseteq Buckets /\ \A b \in Stops(k) : Home(k) <= b
  BY <1>1 DEF Stops, Buckets
<1>4. m \in Stops(k) /\ \A x \in Stops(k) : m <= x
  <2>1. \E x \in Stops(k) : \A y \in Stops(k) : x <= y
    BY <1>2, <1>3, Least
  <2> QED
    BY <2>1 DEF Min
<1> HIDE DEF m
<1>5. Get(k) = hashTable[m].place
  BY DEF Get, m
<1>6. m \in Buckets /\ (hashTable[m].key = k \/ ~Full(hashTable, m))
  BY <1>3, <1>4 DEF Stops, Full
<1>7. ASSUME NEW b \in Buckets, Full(hashTable, b), hashTable[b].key = k PROVE Get(k) = hashTable[b].place
  <2>1. Reachable(hashTable, b) /\ HomeOf(hashTable, b) = Home(k)
    BY <1>7 DEF Ordered, HomeOf
  <2>2. b \in Stops(k)
    BY <1>1, <1>7, <2>1 DEF Stops, Reachable, Buckets
  <2>3. m \in Home(k) .. b
    BY <1>1, <1>3, <1>4, <2>2 DEF Buckets
  <2>4. Full(hashTable, m)
    BY <2>1, <2>3 DEF Reachable
  <2>5. m = b
    BY <1>6, <1>7, <2>4 DEF Ordered
  <2> QED
    BY <1>5, <2>5
<1>8. ASSUME ~Holds(hashTable, k) PROVE Get(k) = 0
  BY <1>5, <1>6, <1>8 DEF Holds, Full
<1> QED
  BY <1>2, <1>7, <1>8

\* The materials of the tables, in their order.
CodesOf == [i \in DOMAIN tables["wdl"] |-> tables["wdl"][i].code]

\* Unless init gave up, the hash table is that of the tables.
TablesIndexed == ~exited => CodesOf \in Seq(Range(Codes)) /\ Indexed(hashTable, CodesOf, FALSE)

LEMMA IndexedFound == FilesInv /\ TablesIndexed => TablesAreFound
<1> SUFFICES ASSUME FilesInv, TablesIndexed, ~exited, NEW m \in Materials
             PROVE  /\ Stops(key[m]) # {}
                    /\ IF \E i \in DOMAIN tables["wdl"] : tables["wdl"][i].code \in {m, Flip(m)}
                       THEN /\ Get(key[m]) \in DOMAIN tables["wdl"]
                            /\ tables["wdl"][Get(key[m])].code \in {m, Flip(m)}
                       ELSE Get(key[m]) = 0
  BY DEF TablesAreFound
<1> DEFINE h == hashTable
           L == CodesOf
<1>1. /\ key \in [Materials -> Nat \ {0}] /\ IsInjective(key) /\ L \in Seq(Range(Codes))
      /\ Ordered(h) /\ Within(h, Listed(L)) /\ \A q \in KeysOf(L) : Holds(h, q)
  BY DEF FilesInv, FilesTyped, TablesIndexed, Indexed
<1>2. DOMAIN L = DOMAIN tables["wdl"] /\ \A i \in DOMAIN L : L[i] = tables["wdl"][i].code
  BY DEF CodesOf
<1> HIDE DEF L
<1>3. \A i \in DOMAIN L : L[i] \in Materials /\ Flip(L[i]) \in Materials
  BY <1>1, FlipTwice DEF Materials
<1>4. \A n \in Materials : Flip(n) \in Materials /\ Flip(Flip(n)) = n
  BY FlipTwice
<1>5. key[m] \in Nat \ {0} /\ \A n \in Materials : key[n] = key[m] => n = m
  BY <1>1 DEF IsInjective
<1>6. Stops(key[m]) # {}
  BY <1>1, <1>5, Lookup
<1>7. ASSUME NEW b \in Buckets, Full(h, b), h[b].key = key[m]
      PROVE  /\ Get(key[m]) = h[b].place /\ h[b].place \in DOMAIN L
             /\ L[h[b].place] \in {m, Flip(m)}
  <2>1. Get(key[m]) = h[b].place
    BY <1>1, <1>5, <1>7, Lookup
  <2>2. h[b] \in Listed(L)
    BY <1>1, <1>7 DEF Within
  <2>3. h[b].place \in DOMAIN L /\ key[m] \in {key[L[h[b].place]], key[Flip(L[h[b].place])]}
    BY <1>7, <2>2 DEF Listed
  <2> QED
    BY <1>3, <1>4, <1>5, <2>1, <2>3
<1>8. CASE \E i \in DOMAIN L : L[i] \in {m, Flip(m)}
  <2>1. PICK i \in DOMAIN L : L[i] \in {m, Flip(m)}
    BY <1>8
  <2>2. key[m] \in KeysOf(L)
    BY <1>4, <1>5, <2>1 DEF KeysOf
  <2>3. PICK b \in Buckets : Full(h, b) /\ h[b].key = key[m]
    BY <1>1, <2>2 DEF Holds
  <2> QED
    BY <1>2, <1>6, <1>7, <1>8, <2>3
<1>9. CASE ~\E i \in DOMAIN L : L[i] \in {m, Flip(m)}
  <2>1. ~Holds(h, key[m])
    BY <1>7, <1>9 DEF Holds
  <2>2. Get(key[m]) = 0
    BY <1>1, <1>5, <2>1, Lookup
  <2> QED
    BY <1>2, <1>6, <1>9, <2>2
<1> QED
  BY <1>8, <1>9

LEMMA IndexedInitially == FilesInit => TablesIndexed
<1> SUFFICES ASSUME FilesInit PROVE TablesIndexed
  OBVIOUS
<1>1. CodesOf = <<>> /\ hashTable = NoTables.hash
  BY DEF FilesInit, CodesOf, NoTables, Types
<1>2. NoTables.list = <<>> /\ NoTables.full = FALSE
  BY DEF NoTables
<1>3. Indexed(NoTables.hash, NoTables.list, NoTables.full)
  BY NothingIndexed DEF Registers
<1>4. <<>> \in Seq(Range(Codes))
  OBVIOUS
<1> QED
  BY <1>1, <1>2, <1>3, <1>4 DEF TablesIndexed

\* A step that leaves the hash table and the tables' materials alone.
LEMMA SameIndex ==
    ASSUME TablesIndexed, hashTable' = hashTable, key' = key, exited' \/ (~exited /\ CodesOf' = CodesOf)
    PROVE  TablesIndexed'
BY DEF TablesIndexed, Indexed, Listed, KeysOf

\* A thread that maps a table leaves its material alone.
LEMMA SameCodes ==
    ASSUME FilesInv, NEW t \in Threads, pc[t] \in Mapping, NEW e, Update(t, e), e.code = EntryOf(t).code
    PROVE  CodesOf' = CodesOf
<1>1. pc[t] # "idle" /\ FilesTyped /\ ProbesPlaced
  BY DEF FilesInv, Mapping
<1>2. /\ DOMAIN tables'["wdl"] = DOMAIN tables["wdl"]
      /\ tables'[probe[t].type][probe[t].place] = e
      /\ \A i \in DOMAIN tables["wdl"] :
           "wdl" # probe[t].type \/ i # probe[t].place => tables'["wdl"][i] = tables["wdl"][i]
  BY <1>1, UpdateOne DEF Types
<1>3. \A i \in DOMAIN tables["wdl"] : tables'["wdl"][i].code = tables["wdl"][i].code
  BY <1>2 DEF EntryOf
<1> QED
  BY <1>2, <1>3 DEF CodesOf

LEMMA ProbeKeepsIndex ==
    ASSUME FilesInv, TablesIndexed, NEW t \in Threads, ProbeStep(t) PROVE TablesIndexed'
<1>1. ~exited /\ hashTable' = hashTable /\ key' = key
  BY DEF ProbeStep, StartProbe, Load, Lock, Open, CheckMagic, SetTable, Publish, Read, registry
<1>2. CASE UNCHANGED tables
  BY <1>1, <1>2, SameIndex DEF CodesOf
<1>3. CASE pc[t] \in Mapping /\ \E v : Update(t, [EntryOf(t) EXCEPT !.base = v])
  <2>1. PICK v : Update(t, [EntryOf(t) EXCEPT !.base = v])
    BY <1>3
  <2>2. [EntryOf(t) EXCEPT !.base = v].code = EntryOf(t).code
    BY <1>3, Mapper
  <2> QED
    BY <1>1, <1>3, <2>1, <2>2, SameCodes, SameIndex
<1>4. CASE pc[t] \in Mapping /\ \E v : Update(t, [EntryOf(t) EXCEPT !.set = v])
  <2>1. PICK v : Update(t, [EntryOf(t) EXCEPT !.set = v])
    BY <1>4
  <2>2. [EntryOf(t) EXCEPT !.set = v].code = EntryOf(t).code
    BY <1>4, Mapper
  <2> QED
    BY <1>1, <1>4, <2>1, <2>2, SameCodes, SameIndex
<1>5. CASE pc[t] \in Mapping /\ \E v : Update(t, [EntryOf(t) EXCEPT !.ready = v])
  <2>1. PICK v : Update(t, [EntryOf(t) EXCEPT !.ready = v])
    BY <1>5
  <2>2. [EntryOf(t) EXCEPT !.ready = v].code = EntryOf(t).code
    BY <1>5, Mapper
  <2> QED
    BY <1>1, <1>5, <2>1, <2>2, SameCodes, SameIndex
<1>6. StartProbe(t) \/ Load(t) \/ Lock(t) \/ Read(t) => UNCHANGED tables
  BY DEF StartProbe, Load, Lock, Read
<1>7. Open(t) => \/ UNCHANGED tables
                 \/ pc[t] \in Mapping /\ \E v : Update(t, [EntryOf(t) EXCEPT !.base = v])
  BY DEF Open, Mapping
<1>8. CheckMagic(t) => \/ UNCHANGED tables
                       \/ pc[t] \in Mapping /\ \E v : Update(t, [EntryOf(t) EXCEPT !.base = v])
  BY DEF CheckMagic, Mapping
<1>9. SetTable(t) => pc[t] \in Mapping /\ \E v : Update(t, [EntryOf(t) EXCEPT !.set = v])
  BY DEF SetTable, Mapping
<1>10. Publish(t) => pc[t] \in Mapping /\ \E v : Update(t, [EntryOf(t) EXCEPT !.ready = v])
  BY DEF Publish, Mapping
<1> QED
  BY <1>2, <1>3, <1>4, <1>5, <1>6, <1>7, <1>8, <1>9, <1>10 DEF ProbeStep

\* init builds it anew.
LEMMA InitKeepsIndex ==
    ASSUME FilesInv, NEW dirs \in Paths, InitTables(dirs) PROVE TablesIndexed'
<1> DEFINE reg == FoldLeft(LAMBDA r, code : Added(r, code, dirs), NoTables, Asked(dirs))
<1>1. /\ hashTable' = reg.hash /\ exited' = reg.full /\ key' = key
      /\ tables' = [type \in Types |-> [i \in DOMAIN reg.list |-> NewTable(reg.list[i])]]
  BY DEF InitTables
<1>2. reg \in Registers
  BY InitIndexes DEF FilesInv, FilesTyped, KeysTyped
<1> HIDE DEF reg
<1>3. reg.list \in Seq(Range(Codes)) /\ Indexed(reg.hash, reg.list, reg.full)
  BY <1>2 DEF Registers
<1>4. CodesOf' = reg.list
  <2>1. CodesOf' = [i \in DOMAIN reg.list |-> NewTable(reg.list[i]).code]
    BY <1>1 DEF CodesOf, Types
  <2>2. \A c : NewTable(c).code = c
    BY DEF NewTable
  <2>3. CodesOf' = [i \in DOMAIN reg.list |-> reg.list[i]]
    BY <2>1, <2>2, Zenon
  <2> QED
    BY <1>3, <2>3
<1>5. ASSUME ~exited' PROVE Indexed(hashTable, CodesOf, FALSE)'
  <2>1. Indexed(reg.hash, reg.list, FALSE)
    BY <1>1, <1>3, <1>5 DEF Indexed
  <2> QED
    BY <1>1, <1>4, <2>1 DEF Indexed, Listed, KeysOf
<1> QED
  BY <1>3, <1>4, <1>5 DEF TablesIndexed

LEMMA IndexedStep == FilesInv /\ TablesIndexed /\ [FilesNext]_fileVars => TablesIndexed'
<1> SUFFICES ASSUME FilesInv, TablesIndexed, [FilesNext]_fileVars PROVE TablesIndexed'
  OBVIOUS
<1>1. ASSUME NEW dirs \in Paths, InitTables(dirs) PROVE TablesIndexed'
  BY <1>1, InitKeepsIndex
<1>2. ASSUME NEW t \in Threads, ProbeStep(t) PROVE TablesIndexed'
  BY <1>2, ProbeKeepsIndex
<1>3. CASE UNCHANGED <<key, registry, tables, exited>>
  BY <1>3 DEF TablesIndexed, CodesOf, Indexed, Listed, KeysOf, registry
<1> QED
  BY <1>1, <1>2, <1>3 DEF FilesNext, Go, Finish, RemoveFile, fileVars

-----------------------------------------------------------------------------
(* Every step.                                                             *)

LEMMA FilesStep == FilesInv /\ TablesAreFound /\ [FilesNext]_fileVars => FilesInv'
<1> SUFFICES ASSUME FilesInv, TablesAreFound, [FilesNext]_fileVars PROVE FilesInv'
  OBVIOUS
<1>1. ASSUME NEW dirs \in Paths, InitTables(dirs) PROVE FilesInv'
  BY <1>1, InitTablesKeeps
<1>2. ASSUME NEW t \in Threads, ProbeStep(t) PROVE FilesInv'
  BY <1>2, StartProbeKeeps, LoadKeeps, LockKeeps, OpenKeeps, CheckMagicKeeps, SetTableKeeps,
     PublishKeeps, ReadKeeps DEF ProbeStep
<1>3. CASE Go
  BY <1>3, Untouched DEF Go, SearchersRest, files, registry
<1>4. CASE Finish
  BY <1>4, Untouched DEF Finish, SearchersRest, files, registry
<1>5. CASE RemoveFile
  <2>1. disk' \subseteq disk
    BY <1>5 DEF RemoveFile
  <2> QED
    BY <1>5, <2>1, Untouched DEF RemoveFile, FilesInv, FilesTyped, SearchersRest, registry
<1>6. CASE UNCHANGED fileVars
  BY <1>6, Untouched DEF fileVars, FilesInv, FilesTyped, SearchersRest, files, registry
<1> QED
  BY <1>1, <1>2, <1>3, <1>4, <1>5, <1>6 DEF FilesNext

\* Unless the hash table was too small, which ends the program, every table
\* init found is found under both its keys, no other material is, and every
\* lookup ends: for any keys, so for any collisions of their homes
\* (tbprobe.cpp:510-557).
THEOREM TablesFound == FilesSpec => []TablesAreFound
<1>1. FilesInit => FilesInv /\ TablesIndexed
  BY FilesInitially, IndexedInitially
<1>2. FilesInv /\ TablesIndexed /\ [FilesNext]_fileVars => (FilesInv /\ TablesIndexed)'
  BY FilesStep, IndexedStep, IndexedFound
<1>3. FilesInv /\ TablesIndexed => TablesAreFound
  BY IndexedFound
<1> QED
  BY <1>1, <1>2, <1>3, PTL DEF FilesSpec

\* A probe reads a whole table, mapped once, whichever threads found it
\* unmapped at the same time and whatever was asked of init in between
\* (tbprobe.cpp:1239-1287).
THEOREM WholeTables == FilesSpec => []ReadsWholeTable
<1>1. FilesInv => ReadsWholeTable
  <2> SUFFICES ASSUME FilesInv, NEW t \in Threads, pc[t] = "read"
               PROVE  /\ probe[t].place \in DOMAIN tables[probe[t].type]
                      /\ EntryOf(t).set /\ EntryOf(t).base # None
                      /\ EntryOf(t).base.code = EntryOf(t).code /\ EntryOf(t).base.state = "good"
                      /\ probe[t].material \in {EntryOf(t).code, Flip(EntryOf(t).code)}
    BY DEF ReadsWholeTable, FilesInv, MappingsCounted
  <2>1. EntryOf(t).ready /\ EntryOf(t).base # None
    BY DEF FilesInv, MappersAsFar, AsFar
  <2>2. /\ probe[t].type \in Types /\ probe[t].place \in DOMAIN tables[probe[t].type]
        /\ probe[t].material \in {EntryOf(t).code, Flip(EntryOf(t).code)}
    BY DEF FilesInv, ProbesPlaced
  <2>3. EntryKept(probe[t].type, probe[t].place)
    BY <2>2 DEF FilesInv, EntriesKept
  <2> QED
    BY <2>1, <2>2, <2>3 DEF EntryKept, EntryOf
<1> QED
  BY <1>1, FilesInitially, FilesStep, TablesFound, PTL DEF FilesSpec
=============================================================================
