--------------------------- MODULE CounterLineProofs ---------------------------
(***************************************************************************)
(* The wrapper, for any number of instances, any chess graph, any games    *)
(* and any plan scores: what is printed for a `go` is a legal move, and an *)
(* override is repeated ever after.                                        *)
(*                                                                         *)
(* The second one needs to know how the rows of a suite exit change: only  *)
(* the favourite of the rows the wrapper started with is ever written, and *)
(* never with a score below the one it started with, however late the      *)
(* instance that writes has read it.                                       *)
(***************************************************************************)
EXTENDS CounterLine, FiniteSetTheorems, TLAPS

USE WrapperAssumption

-----------------------------------------------------------------------------
(* The line of a game.                                                     *)

\* A board without moves is at its root.
LEMMA WalkNowhere == ASSUME NEW root PROVE Walk(root, <<>>) = root
<1> DEFINE Is(at) == at = [i \in 0 .. Len(<<>>) |->
                             IF i = 0 THEN root ELSE Step(at[i-1], <<>>[i])]
<1>1. Is([i \in {0} |-> root])
  BY 0 .. Len(<<>>) = {0}
<1>2. Walk(root, <<>>) = (CHOOSE at : Is(at))[Len(<<>>)]
  BY DEF Walk
<1>3. Is(CHOOSE at : Is(at))
  BY <1>1
<1> QED
  BY <1>2, <1>3

\* The least natural number of which something holds.
LEMMA Least ==
    ASSUME NEW S \in SUBSET Nat, S # {}
    PROVE  \E k \in S : \A i \in 0 .. (k - 1) : i \notin S
<1>1. PICK k \in S : \A i \in S : ~(<<i, k>> \in OpToRel(<, Nat))
  BY NatLessThanWellFounded, WFMin, Zenon
<1>2. \A i \in S : ~(i < k)
  BY <1>1 DEF OpToRel
<1> QED
  BY <1>2

\* Every line is walked, as far as it is legal.
LEMMA WalkStays ==
    ASSUME NEW root \in Nodes, NEW line \in Seq(Moves)
    PROVE  Walk(root, line) \in Nodes \cup {None}
<1> DEFINE Is(at, n) == at = [i \in 0 .. n |-> IF i = 0 THEN root ELSE Step(at[i-1], line[i])]
           Missing == {n \in Nat : ~\E at : Is(at, n)}
<1>1. Missing = {}
  <2>1. SUFFICES ASSUME Missing # {} PROVE FALSE
    OBVIOUS
  <2>2. PICK n \in Missing : \A i \in 0 .. (n - 1) : i \notin Missing
    BY <2>1, Least
  <2>3. n # 0
    <3>1. Is([i \in {0} |-> root], 0)
      BY 0 .. 0 = {0}
    <3> QED
      BY <3>1, <2>2
  <2>4. PICK before : Is(before, n - 1)
    BY <2>2, <2>3
  <2> DEFINE at == [i \in 0 .. n |-> IF i = n THEN Step(before[n - 1], line[n]) ELSE before[i]]
  <2>5. at = [i \in 0 .. n |-> IF i = 0 THEN root ELSE Step(at[i-1], line[i])]
    <3>1. ASSUME NEW i \in 0 .. n
          PROVE  at[i] = IF i = 0 THEN root ELSE Step(at[i-1], line[i])
      <4>1. n \in Nat /\ n - 1 \in 0 .. n /\ (i \in 0 .. (n - 1) \/ i = n)
        BY <2>2, <2>3
      <4>2. CASE i = n
        BY <2>3, <4>1, <4>2
      <4>3. CASE i \in 0 .. (n - 1)
        <5>1. i # n /\ (i # 0 => i - 1 \in 0 .. n /\ i - 1 # n)
          BY <4>1, <4>3
        <5>2. before[i] = IF i = 0 THEN root ELSE Step(before[i-1], line[i])
          BY <2>4, <4>3
        <5> QED
          BY <5>1, <5>2
      <4> QED
        BY <4>1, <4>2, <4>3
    <3> QED
      BY <3>1
  <2> HIDE DEF at
  <2>6. Is(at, n)
    BY <2>5
  <2> QED
    BY <2>2, <2>6
<1> DEFINE n == Len(line)
           walk == CHOOSE at : Is(at, n)
<1>2. n \in Nat /\ Walk(root, line) = walk[n]
  BY DEF Walk
<1>3. Is(walk, n)
  BY <1>1, <1>2
<1> HIDE DEF walk
<1>4. walk[0] = root /\ \A i \in 1 .. n : walk[i] = Step(walk[i-1], line[i])
  BY <1>2, <1>3
<1> DEFINE Astray == {i \in 0 .. n : walk[i] \notin Nodes \cup {None}}
<1>5. Astray = {}
  <2>1. SUFFICES ASSUME Astray # {} PROVE FALSE
    OBVIOUS
  <2>a. Astray \in SUBSET Nat
    BY <1>2
  <2> HIDE DEF Astray
  <2>2. PICK k \in Astray : \A i \in 0 .. (k - 1) : i \notin Astray
    BY <2>1, <2>a, Least
  <2> USE DEF Astray
  <2>3. k \in 1 .. n /\ walk[k-1] \in Nodes \cup {None}
    BY <1>2, <1>4, <2>2
  <2>4. walk[k] = Step(walk[k-1], line[k])
    BY <1>4, <2>3
  <2> QED
    BY <2>2, <2>3, <2>4 DEF Step
<1> QED
  BY <1>2, <1>5

LEMMA BoardsAreOnNodes ==
    ASSUME NEW g \in Boards
    PROVE  /\ NodeOf[g] \in Nodes
           /\ EngineNodeOf[g] \in Nodes \cup {None}
           /\ (\A h \in Games : h.root = Startpos) => EngineNodeOf[g] = NodeOf[g]
<1>1. NodeOf[g] = Walk(g.root, g.line) /\ EngineNodeOf[g] = Walk(Startpos, g.line)
  BY DEF NodeOf, EngineNodeOf
<1>2. CASE g \in Games
  BY <1>1, <1>2, WalkStays
<1>3. CASE g = StartGame
  <2>1. g.root = Startpos /\ g.line = <<>>
    BY <1>3 DEF StartGame
  <2> QED
    BY <1>1, <2>1, WalkNowhere
<1> QED
  BY <1>2, <1>3 DEF Boards

-----------------------------------------------------------------------------
(* The candidates.                                                         *)

LEMMA ImageIsFinite ==
    ASSUME NEW S, IsFiniteSet(S), NEW g, DOMAIN g = S
    PROVE  IsFiniteSet({g[x] : x \in S})
<1> DEFINE T == {g[x] : x \in S}
           h == [x \in S |-> g[x]]
<1>1. h \in Surjection(S, T)
  BY DEF Surjection
<1> QED
  BY <1>1, FS_Surjection

\* A set of candidates, one for a move at most, and the first of them.
Field(cands) ==
    /\ IsFiniteSet(cands) /\ cands # {}
    /\ \A c \in cands : c.combined \in Int /\ c.move \in Moves
    /\ \A c, d \in cands : c.move = d.move => c = d

IsFirst(c, cands) == c \in cands /\ \A d \in cands : d # c => Above(c, d)

First(cands) == CHOOSE c \in cands : \A d \in cands : d # c => Above(c, d)

\* A candidate with the fewest above it has none above it.
LEMMA FirstExists == ASSUME NEW cands, Field(cands) PROVE IsFirst(First(cands), cands)
<1> DEFINE Higher(c) == {d \in cands : Above(d, c)}
           Sets == {Higher(c) : c \in cands}
<1>1. Sets \subseteq FiniteSubsetsOf(cands) /\ Sets # {}
  <2>1. FiniteSubsetsOf(cands) = SUBSET cands
    BY FS_FiniteSubsetsOfFinite DEF Field
  <2>2. Sets \subseteq SUBSET cands
    OBVIOUS
  <2>3. Sets # {}
    <3>1. PICK c : c \in cands
      BY DEF Field
    <3>2. Higher(c) \in Sets
      BY <3>1
    <3> QED
      BY <3>2
  <2> HIDE DEF Sets
  <2> QED
    BY <2>1, <2>2, <2>3
<1>2. PICK c \in cands : \A d \in cands : <<Higher(d), Higher(c)>> \notin StrictSubsetOrdering(cands)
  <2>1. PICK S \in Sets : \A T \in Sets : ~(<<T, S>> \in StrictSubsetOrdering(cands))
    <3> HIDE DEF Sets
    <3> QED
      BY <1>1, FS_StrictSubsetOrderingWellFounded, WFMin, Zenon
  <2>2. PICK c \in cands : S = Higher(c)
    OBVIOUS
  <2>3. \A d \in cands : Higher(d) \in Sets
    OBVIOUS
  <2> QED
    BY <2>1, <2>2, <2>3, Zenon
<1>3. ASSUME NEW d \in cands, d # c PROVE Above(c, d)
  <2>1. /\ c.combined \in Int /\ d.combined \in Int /\ Rank[c.move] \in Int /\ Rank[d.move] \in Int
        /\ Rank[c.move] # Rank[d.move]
    BY <1>3 DEF Field
  <2>2. SUFFICES ASSUME Above(d, c) PROVE FALSE
    BY <2>1 DEF Above
  <2>3. Higher(d) \subseteq Higher(c)
    <3>1. ASSUME NEW e \in cands, Above(e, d) PROVE Above(e, c)
      <4>1. e.combined \in Int /\ Rank[e.move] \in Int
        BY DEF Field
      <4> QED
        BY <2>1, <2>2, <3>1, <4>1 DEF Above
    <3> QED
      BY <3>1
  <2>4. d \in Higher(c) /\ d \notin Higher(d)
    BY <2>1, <2>2 DEF Above
  <2> QED
    BY <1>2, <2>3, <2>4 DEF StrictSubsetOrdering
<1> QED
  BY <1>3 DEF IsFirst, First

LEMMA FirstIsOne ==
    ASSUME NEW cands, Field(cands), NEW c, IsFirst(c, cands)
    PROVE  First(cands) = c
<1>1. IsFirst(First(cands), cands)
  BY FirstExists
<1> DEFINE d == First(cands)
<1>2. d \in cands /\ c \in cands
  BY <1>1 DEF IsFirst
<1>3. /\ c.combined \in Int /\ d.combined \in Int /\ Rank[c.move] \in Int /\ Rank[d.move] \in Int
  BY <1>2 DEF Field
<1> HIDE DEF d
<1>4. ~(Above(c, d) /\ Above(d, c))
  BY <1>3 DEF Above
<1> QED
  BY <1>1, <1>2, <1>4 DEF IsFirst, d

\* A rollout keeps a move of every position that has one.
LEMMA RolloutKeeps ==
    ASSUME NEW f \in Families, NEW n \in Nodes
    PROVE  /\ RolloutMoves[f][n] \subseteq Legal[n]
           /\ Legal[n] # {} => RolloutMoves[f][n] # {}
<1> DEFINE cand(m) == [move |-> m, combined |-> Plan[f][n][m]]
           cands == {cand(m) : m \in Legal[n]}
<1>1. RolloutMoves[f][n] = {m \in Legal[n] :
                              Cardinality({k \in Legal[n] : Above(cand(k), cand(m))}) < Cap}
  BY DEF RolloutMoves
<1>2. SUFFICES ASSUME Legal[n] # {} PROVE RolloutMoves[f][n] # {}
  BY <1>1
<1>3. IsFiniteSet(cands)
  <2> DEFINE g == [m \in Legal[n] |-> cand(m)]
  <2>1. DOMAIN g = Legal[n] /\ cands = {g[m] : m \in Legal[n]}
    OBVIOUS
  <2> HIDE DEF g
  <2> QED
    BY <2>1, ImageIsFinite
<1>4. Field(cands)
  <2>1. \A m \in Legal[n] : cand(m).combined \in Int /\ cand(m).move \in Moves /\ cand(m).move = m
    BY DEF Moves
  <2> HIDE DEF cand
  <2> QED
    BY <1>2, <1>3, <2>1 DEF Field
<1>5. PICK m \in Legal[n] : \A k \in Legal[n] : k # m => Above(cand(m), cand(k))
  BY <1>4, FirstExists DEF IsFirst
<1>6. ASSUME NEW k \in Legal[n] PROVE ~Above(cand(k), cand(m))
  <2>1. Plan[f][n][k] \in Int /\ Plan[f][n][m] \in Int /\ Rank[k] \in Int /\ Rank[m] \in Int
    BY DEF Moves
  <2> QED
    BY <1>5, <2>1 DEF Above
<1>7. {k \in Legal[n] : Above(cand(k), cand(m))} = {}
  BY <1>6
<1> QED
  BY <1>1, <1>7, FS_EmptySet

\* The moves remembered in a repertoire, and the candidates it gives.
Remembered(rows, f, n) == {m \in Legal[n] : <<Key[n], f, m>> \in DOMAIN rows}

Given(rows, f, n) ==
    IF Remembered(rows, f, n) # {}
    THEN {Candidate(f, n, m, rows[<<Key[n], f, m>>].score) : m \in Remembered(rows, f, n)}
    ELSE {Candidate(f, n, m, Plan[f][n][m]) : m \in RolloutMoves[f][n]}

Scored(rows) == \A r \in DOMAIN rows : rows[r].score \in Int

LEMMA CandidatesAreGiven ==
    ASSUME NEW f, NEW n
    PROVE  Candidates(f, n) = Given(db, f, n) /\ Challenger(f, n) = First(Given(db, f, n))
BY DEF Candidates, Given, RepertoireMoves, Remembered, Challenger, First

LEMMA CandidateOf ==
    ASSUME NEW f \in Families, NEW n \in Nodes, NEW m \in Legal[n], NEW plan \in Int
    PROVE  LET c == Candidate(f, n, m, plan)
           IN  /\ c.move = m /\ c.combined \in Int /\ c.combined >= plan
               /\ c.combined = plan + c.engine /\ c.engine \in Nat
BY DEF Candidate

LEMMA GivenIsField ==
    ASSUME NEW rows, Scored(rows), NEW f \in Families, NEW n \in Nodes, Legal[n] # {}
    PROVE  Field(Given(rows, f, n)) /\ \A c \in Given(rows, f, n) : c.move \in Legal[n]
<1>1. CASE Remembered(rows, f, n) # {}
  <2> DEFINE plan(m) == rows[<<Key[n], f, m>>].score
             Cand(m) == Candidate(f, n, m, plan(m))
  <2>1. Given(rows, f, n) = {Cand(m) : m \in Remembered(rows, f, n)}
    BY <1>1 DEF Given
  <2>2. IsFiniteSet(Remembered(rows, f, n))
    BY FS_Subset DEF Remembered
  <2>3. IsFiniteSet({Cand(m) : m \in Remembered(rows, f, n)})
    <3> DEFINE g == [m \in Remembered(rows, f, n) |-> Cand(m)]
    <3>1. DOMAIN g = Remembered(rows, f, n) /\ \A m \in Remembered(rows, f, n) : g[m] = Cand(m)
      OBVIOUS
    <3> HIDE DEF g, Cand
    <3>2. IsFiniteSet({g[m] : m \in Remembered(rows, f, n)})
      BY <2>2, <3>1, ImageIsFinite
    <3>3. {g[m] : m \in Remembered(rows, f, n)} = {Cand(m) : m \in Remembered(rows, f, n)}
      BY <3>1
    <3> QED
      BY <3>2, <3>3
  <2>4. ASSUME NEW m \in Remembered(rows, f, n)
        PROVE  m \in Legal[n] /\ m \in Moves /\ Cand(m).move = m /\ Cand(m).combined \in Int
    BY CandidateOf DEF Remembered, Scored, Moves
  <2> HIDE DEF Cand
  <2> QED
    BY <1>1, <2>1, <2>3, <2>4 DEF Field
<1>2. CASE Remembered(rows, f, n) = {}
  <2> DEFINE Cand(m) == Candidate(f, n, m, Plan[f][n][m])
  <2>1. Given(rows, f, n) = {Cand(m) : m \in RolloutMoves[f][n]}
    BY <1>2 DEF Given
  <2>2. IsFiniteSet(RolloutMoves[f][n]) /\ RolloutMoves[f][n] # {}
    BY RolloutKeeps, FS_Subset
  <2>3. IsFiniteSet({Cand(m) : m \in RolloutMoves[f][n]})
    <3> DEFINE g == [m \in RolloutMoves[f][n] |-> Cand(m)]
    <3>1. DOMAIN g = RolloutMoves[f][n] /\ \A m \in RolloutMoves[f][n] : g[m] = Cand(m)
      OBVIOUS
    <3> HIDE DEF g, Cand
    <3>2. IsFiniteSet({g[m] : m \in RolloutMoves[f][n]})
      BY <2>2, <3>1, ImageIsFinite
    <3>3. {g[m] : m \in RolloutMoves[f][n]} = {Cand(m) : m \in RolloutMoves[f][n]}
      BY <3>1
    <3> QED
      BY <3>2, <3>3
  <2>4. ASSUME NEW m \in RolloutMoves[f][n]
        PROVE  m \in Legal[n] /\ m \in Moves /\ Cand(m).move = m /\ Cand(m).combined \in Int
    BY CandidateOf, RolloutKeeps DEF Moves
  <2> HIDE DEF Cand
  <2> QED
    BY <2>1, <2>2, <2>3, <2>4 DEF Field
<1> QED
  BY <1>1, <1>2

\* The challenger is a legal move, whatever is remembered.
LEMMA ChallengerIsLegal ==
    ASSUME Scored(db), NEW f \in Families, NEW n \in Nodes, Legal[n] # {}
    PROVE  /\ IsFirst(Challenger(f, n), Given(db, f, n))
           /\ Challenger(f, n).move \in Legal[n] /\ Challenger(f, n).combined \in Int
BY CandidatesAreGiven, GivenIsField, FirstExists DEF IsFirst, Field

-----------------------------------------------------------------------------
(* The instances.                                                          *)

Going == {"ask", "decide", "remember", "send"}
Whys == {None, "outside_suite", "book_or_color_lock", "no_challenger", "fortify_rejected",
         "wrapper_override"}

AnswersTyped == answer \in [Apps -> [move : Moves \cup {NullMove, None}, why : Whys, score : Int]]

\* What the GUI waits for: a `stop` read after the answer is answered as well,
\* so that one bestmove too many may have been printed.
Owes ==
    \A a \in Apps :
        /\ pc[a] \in Going => owed[a] = 1 \/ (owed[a] = 0 /\ stops[a] = 0)
        /\ pc[a] = "loop" => owed[a] = 0 \/ (owed[a] = -1 /\ stops[a] = 0)
        /\ pc[a] = "closed" => owed[a] \in {-1, 0} /\ stops[a] = 0

\* An override under way is of an instance that decides.
OverridesDecided ==
    \A a \in Apps :
        /\ pc[a] = "remember" => answer[a].why = "wrapper_override"
        /\ pc[a] \in {"remember", "send"} /\ answer[a].why = "wrapper_override" =>
             Decides(board[a]) /\ answer[a].move \in Legal[Node(a)]

TypeInv == TypeOK /\ AnswersTyped /\ Owes /\ OverridesDecided

LEMMA MovesOfNodes == \A n \in Nodes : Legal[n] \subseteq Moves
BY DEF Moves

\* Decides says which exit and which family.
Suite(f, n) == (f = "qgd" /\ n = WhiteExit) \/ (f = "petroff" /\ n = BlackExit)

LEMMA DecidesAtExits ==
    ASSUME NEW g \in Boards, Decides(g)
    PROVE  Suite(FamilyOf[g], NodeOf[g]) /\ FamilyOf[g] \in Families /\ NodeOf[g] \in Nodes
<1>1. NodeOf[g] \in {WhiteExit, BlackExit} /\ FamilyOf[g] # "unknown"
      /\ LockColour(FamilyOf[g]) = Side(NodeOf[g])
  BY DEF Decides, BookComplete
<1>2. FamilyOf[g] = IF NodeOf[g] = WhiteExit \/ IsPrefix(g.line, WhiteSeed) THEN "qgd"
                    ELSE IF NodeOf[g] = BlackExit \/ IsPrefix(g.line, BlackSeed) THEN "petroff"
                    ELSE "unknown"
  BY DEF FamilyOf
<1>3. CASE NodeOf[g] = WhiteExit
  BY <1>2, <1>3 DEF Suite, Families
<1>4. CASE NodeOf[g] = BlackExit /\ BlackExit # WhiteExit
  <2>1. Side(NodeOf[g]) = "black"
    BY <1>4 DEF Side
  <2>2. FamilyOf[g] # "qgd"
    BY <1>1, <2>1 DEF LockColour
  <2> QED
    BY <1>2, <1>4, <2>2 DEF Suite, Families
<1> QED
  BY <1>1, <1>3, <1>4

\* The two outcomes of Decide.
LEMMA DecideTaken ==
    ASSUME TypeInv, NEW a \in Apps, Decide(a)
    PROVE  /\ pc[a] = "decide" /\ UNCHANGED <<board, engine, base, stops, owed, db, played>>
           /\ \/ /\ pc' = [pc EXCEPT ![a] = "send"]
                 /\ \E why \in Whys \ {"wrapper_override"} :
                      answer' = [answer EXCEPT ![a] = [move |-> base[a].move, why |-> why, score |-> 0]]
              \/ LET f == FamilyOf[board[a]]
                     c == Challenger(f, Node(a))
                 IN  /\ pc' = [pc EXCEPT ![a] = "remember"]
                     /\ answer' = [answer EXCEPT ![a] =
                          [move |-> c.move, why |-> "wrapper_override", score |-> c.combined]]
                     /\ Decides(board[a]) /\ Legal[Node(a)] # {}
                     /\ c.move \in Legal[Node(a)] /\ c.combined \in Int
<1> DEFINE g == board[a]
           f == FamilyOf[g]
           n == NodeOf[g]
<1>1. pc[a] = "decide" /\ UNCHANGED <<board, engine, base, stops, owed, db, played>>
  BY DEF Decide
<1>2. g \in Boards /\ Node(a) = n
  BY DEF TypeInv, TypeOK, Node
<1>3. CASE ~Overrides(f, g, n)
  <2>1. KeepReason(f, g, n) \in Whys \ {"wrapper_override"}
    BY DEF KeepReason, Whys, WrapperAssumption
  <2>2. /\ pc' = [pc EXCEPT ![a] = "send"]
        /\ answer' = [answer EXCEPT ![a] =
                        [move |-> base[a].move, why |-> KeepReason(f, g, n), score |-> 0]]
    BY <1>3 DEF Decide
  <2> HIDE DEF f, g, n
  <2> QED
    BY <1>1, <2>1, <2>2
<1>4. CASE Overrides(f, g, n)
  <2>1. /\ pc' = [pc EXCEPT ![a] = "remember"]
        /\ answer' = [answer EXCEPT ![a] =
                        [move |-> Challenger(f, n).move, why |-> "wrapper_override",
                         score |-> Challenger(f, n).combined]]
    BY <1>4 DEF Decide
  <2>2. Decides(g) /\ Legal[n] # {}
    BY <1>4 DEF Overrides
  <2>3. Scored(db)
    BY DEF TypeInv, TypeOK, Scored
  <2>4. Challenger(f, n).move \in Legal[n] /\ Challenger(f, n).combined \in Int
    BY <1>2, <2>2, <2>3, DecidesAtExits, ChallengerIsLegal
  <2> QED
    BY <1>1, <1>2, <2>1, <2>2, <2>4
<1> QED
  BY <1>3, <1>4

LEMMA TypeInit == Init => TypeInv
<1> SUFFICES ASSUME Init PROVE TypeInv
  OBVIOUS
<1>1. TypeOK
  <2>1. \A r \in DOMAIN db : db[r] \in [score : Int, visits : Nat \ {0}]
    BY DEF Init
  <2>2. DOMAIN db \subseteq Rows
    BY DEF Init
  <2>3. \A a \in Apps : answer[a].move \in Moves \cup {NullMove, None}
    BY DEF Init, NoAnswer
  <2>4. base \in [Apps -> [move : Moves \cup {NullMove, None}, ponder : Moves \cup {None}]]
    BY DEF Init, NoBase
  <2>5. board \in [Apps -> Boards]
    BY DEF Init, Boards
  <2> QED
    BY <2>1, <2>2, <2>3, <2>4, <2>5 DEF Init, TypeOK
<1>2. AnswersTyped
  BY DEF Init, AnswersTyped, NoAnswer, Whys
<1>3. Owes /\ OverridesDecided
  BY DEF Init, Owes, OverridesDecided, Going
<1> QED
  BY <1>1, <1>2, <1>3 DEF TypeInv

LEMMA AnswersTypedStep == TypeInv /\ [Next]_vars => AnswersTyped'
<1> SUFFICES ASSUME TypeInv, [Next]_vars PROVE AnswersTyped'
  OBVIOUS
<1>0. AnswersTyped
  BY DEF TypeInv
<1> USE <1>0 DEF AnswersTyped
<1>1. ASSUME NEW a \in Apps, SetPosition(a) PROVE AnswersTyped'
  BY <1>1 DEF SetPosition, Reads
<1>2. ASSUME NEW a \in Apps, UciNewGame(a) PROVE AnswersTyped'
  BY <1>2 DEF UciNewGame, Reads
<1>3. ASSUME NEW a \in Apps, Go(a) PROVE AnswersTyped'
  BY <1>3 DEF Go, Reads
<1>4. ASSUME NEW a \in Apps, GuiStop(a) PROVE AnswersTyped'
  BY <1>4 DEF GuiStop
<1>5. ASSUME NEW a \in Apps, AnswerStop(a) PROVE AnswersTyped'
  BY <1>5 DEF AnswerStop
<1>6. ASSUME NEW a \in Apps, Quit(a) PROVE AnswersTyped'
  BY <1>6 DEF Quit, Reads
<1>7. ASSUME NEW a \in Apps, StartEngine(a) PROVE AnswersTyped'
  BY <1>7 DEF StartEngine
<1>8. ASSUME NEW a \in Apps, EngineAnswers(a) PROVE AnswersTyped'
  BY <1>8 DEF EngineAnswers, Based
<1>9. ASSUME NEW a \in Apps, EngineFails(a) PROVE AnswersTyped'
  BY <1>9 DEF EngineFails, FailsWhen, Based
<1>10. ASSUME NEW a \in Apps, Decide(a) PROVE AnswersTyped'
  <2>1. base[a].move \in Moves \cup {NullMove, None} /\ Legal[Node(a)] \subseteq Moves
    BY MovesOfNodes, BoardsAreOnNodes DEF TypeInv, TypeOK, Node
  <2>2. PICK entry \in [move : Moves \cup {NullMove, None}, why : Whys, score : Int] :
          answer' = [answer EXCEPT ![a] = entry]
    <3> DEFINE c == Challenger(FamilyOf[board[a]], Node(a))
               Kept(why) == [move |-> base[a].move, why |-> why, score |-> 0]
               Overriding == [move |-> c.move, why |-> "wrapper_override", score |-> c.combined]
    <3>1. CASE \E why \in Whys \ {"wrapper_override"} : answer' = [answer EXCEPT ![a] = Kept(why)]
      <4>1. PICK why \in Whys : answer' = [answer EXCEPT ![a] = Kept(why)]
        BY <3>1
      <4>2. Kept(why) \in [move : Moves \cup {NullMove, None}, why : Whys, score : Int]
        BY <2>1
      <4> QED
        BY <4>1, <4>2
    <3>2. CASE answer' = [answer EXCEPT ![a] = Overriding]
               /\ c.move \in Legal[Node(a)] /\ c.combined \in Int
      BY <2>1, <3>2 DEF Whys
    <3> QED
      BY <1>10, <3>1, <3>2, DecideTaken
  <2> QED
    BY <2>2
<1>11. ASSUME NEW a \in Apps, Remember(a) PROVE AnswersTyped'
  BY <1>11 DEF Remember
<1>12. ASSUME NEW a \in Apps, Send(a) PROVE AnswersTyped'
  BY <1>12 DEF Send, NoAnswer, Whys
<1>13. ASSUME NEW a \in Apps, EngineDies(a) PROVE AnswersTyped'
  BY <1>13 DEF EngineDies
<1>14. ASSUME NEW a \in Apps, Restart(a) PROVE AnswersTyped'
  BY <1>14 DEF Restart, NoAnswer, Whys
<1>15. CASE UNCHANGED vars
  BY <1>15 DEF vars
<1> QED
  BY <1>1, <1>2, <1>3, <1>4, <1>5, <1>6, <1>7, <1>8, <1>9, <1>10, <1>11, <1>12, <1>13, <1>14, <1>15 DEF Next, Turn, Command, GoStep

LEMMA OwesStep == TypeInv /\ [Next]_vars => Owes'
<1> SUFFICES ASSUME TypeInv, [Next]_vars PROVE Owes'
  OBVIOUS
<1>0. /\ Owes /\ stops \in [Apps -> 0 .. 1] /\ owed \in [Apps -> -1 .. 1]
      /\ pc \in [Apps -> Going \cup {"loop", "closed"}]
  BY DEF TypeInv, TypeOK, Going
<1> USE <1>0 DEF Owes, Going
<1>1. ASSUME NEW a \in Apps, SetPosition(a) PROVE Owes'
  BY <1>1 DEF SetPosition, Reads
<1>2. ASSUME NEW a \in Apps, UciNewGame(a) PROVE Owes'
  BY <1>2 DEF UciNewGame, Reads
<1>3. ASSUME NEW a \in Apps, Go(a) PROVE Owes'
  BY <1>3 DEF Go, Reads
<1>4. ASSUME NEW a \in Apps, GuiStop(a) PROVE Owes'
  BY <1>4 DEF GuiStop
<1>5. ASSUME NEW a \in Apps, AnswerStop(a) PROVE Owes'
  BY <1>5 DEF AnswerStop
<1>6. ASSUME NEW a \in Apps, Quit(a) PROVE Owes'
  BY <1>6 DEF Quit, Reads
<1>7. ASSUME NEW a \in Apps, StartEngine(a) PROVE Owes'
  BY <1>7 DEF StartEngine
<1>8. ASSUME NEW a \in Apps, EngineAnswers(a) PROVE Owes'
  BY <1>8 DEF EngineAnswers, Based
<1>9. ASSUME NEW a \in Apps, EngineFails(a) PROVE Owes'
  BY <1>9 DEF EngineFails, FailsWhen, Based
<1>10. ASSUME NEW a \in Apps, Decide(a) PROVE Owes'
  BY <1>10, DecideTaken
<1>11. ASSUME NEW a \in Apps, Remember(a) PROVE Owes'
  BY <1>11 DEF Remember
<1>12. ASSUME NEW a \in Apps, Send(a) PROVE Owes'
  BY <1>12 DEF Send
<1>13. ASSUME NEW a \in Apps, EngineDies(a) PROVE Owes'
  BY <1>13 DEF EngineDies
<1>14. ASSUME NEW a \in Apps, Restart(a) PROVE Owes'
  BY <1>14 DEF Restart
<1>15. CASE UNCHANGED vars
  BY <1>15 DEF vars
<1> QED
  BY <1>1, <1>2, <1>3, <1>4, <1>5, <1>6, <1>7, <1>8, <1>9, <1>10, <1>11, <1>12, <1>13, <1>14, <1>15 DEF Next, Turn, Command, GoStep

LEMMA OverridesDecidedStep == TypeInv /\ [Next]_vars => OverridesDecided'
<1> SUFFICES ASSUME TypeInv, [Next]_vars PROVE OverridesDecided'
  OBVIOUS
<1>0. /\ OverridesDecided /\ AnswersTyped /\ board \in [Apps -> Boards]
      /\ pc \in [Apps -> Going \cup {"loop", "closed"}]
  BY DEF TypeInv, TypeOK, Going
<1> USE <1>0 DEF OverridesDecided, AnswersTyped, Going, Node, Decides, BookComplete
<1>1. ASSUME NEW a \in Apps, SetPosition(a) PROVE OverridesDecided'
  BY <1>1 DEF SetPosition, Reads
<1>2. ASSUME NEW a \in Apps, UciNewGame(a) PROVE OverridesDecided'
  BY <1>2 DEF UciNewGame, Reads
<1>3. ASSUME NEW a \in Apps, Go(a) PROVE OverridesDecided'
  BY <1>3 DEF Go, Reads
<1>4. ASSUME NEW a \in Apps, GuiStop(a) PROVE OverridesDecided'
  BY <1>4 DEF GuiStop
<1>5. ASSUME NEW a \in Apps, AnswerStop(a) PROVE OverridesDecided'
  BY <1>5 DEF AnswerStop
<1>6. ASSUME NEW a \in Apps, Quit(a) PROVE OverridesDecided'
  BY <1>6 DEF Quit, Reads
<1>7. ASSUME NEW a \in Apps, StartEngine(a) PROVE OverridesDecided'
  BY <1>7 DEF StartEngine
<1>8. ASSUME NEW a \in Apps, EngineAnswers(a) PROVE OverridesDecided'
  BY <1>8 DEF EngineAnswers, Based
<1>9. ASSUME NEW a \in Apps, EngineFails(a) PROVE OverridesDecided'
  BY <1>9 DEF EngineFails, FailsWhen, Based
<1>10. ASSUME NEW a \in Apps, Decide(a) PROVE OverridesDecided'
  BY <1>10, DecideTaken
<1>11. ASSUME NEW a \in Apps, Remember(a) PROVE OverridesDecided'
  BY <1>11 DEF Remember
<1>12. ASSUME NEW a \in Apps, Send(a) PROVE OverridesDecided'
  BY <1>12 DEF Send
<1>13. ASSUME NEW a \in Apps, EngineDies(a) PROVE OverridesDecided'
  BY <1>13 DEF EngineDies
<1>14. ASSUME NEW a \in Apps, Restart(a) PROVE OverridesDecided'
  BY <1>14 DEF Restart
<1>15. CASE UNCHANGED vars
  BY <1>15 DEF vars
<1> QED
  BY <1>1, <1>2, <1>3, <1>4, <1>5, <1>6, <1>7, <1>8, <1>9, <1>10, <1>11, <1>12, <1>13, <1>14, <1>15 DEF Next, Turn, Command, GoStep

LEMMA TypeOKStep == TypeInv /\ [Next]_vars => TypeOK'
<1> SUFFICES ASSUME TypeInv, [Next]_vars PROVE TypeOK'
  OBVIOUS
<1>0. /\ TypeOK /\ Owes /\ \A a \in Apps : Node(a) \in Nodes /\ Legal[Node(a)] \subseteq Moves
      /\ \A a \in Apps : answer'[a].move \in Moves \cup {NullMove, None}
  BY AnswersTypedStep, BoardsAreOnNodes, MovesOfNodes DEF TypeInv, TypeOK, Node, AnswersTyped
<1> USE <1>0 DEF TypeOK
<1>1. ASSUME NEW a \in Apps, SetPosition(a) PROVE TypeOK'
  BY <1>1 DEF SetPosition, Reads, Boards
<1>2. ASSUME NEW a \in Apps, UciNewGame(a) PROVE TypeOK'
  BY <1>2 DEF UciNewGame, Reads, Boards
<1>3. ASSUME NEW a \in Apps, Go(a) PROVE TypeOK'
  <2>1. owed[a] \in {-1, 0}
    BY <1>3 DEF Go, Reads, Owes
  <2> QED
    BY <1>3, <2>1 DEF Go
<1>4. ASSUME NEW a \in Apps, GuiStop(a) PROVE TypeOK'
  BY <1>4 DEF GuiStop
<1>5. ASSUME NEW a \in Apps, AnswerStop(a) PROVE TypeOK'
  <2>1. owed[a] = 0
    BY <1>5 DEF AnswerStop, Owes
  <2> QED
    BY <1>5, <2>1 DEF AnswerStop
<1>6. ASSUME NEW a \in Apps, Quit(a) PROVE TypeOK'
  BY <1>6 DEF Quit, Reads
<1>7. ASSUME NEW a \in Apps, StartEngine(a) PROVE TypeOK'
  BY <1>7 DEF StartEngine
<1>8. ASSUME NEW a \in Apps, EngineAnswers(a) PROVE TypeOK'
  <2> DEFINE n == EngineNode(a)
  <2>1. n \in Nodes
    BY <1>8, BoardsAreOnNodes DEF EngineAnswers, EngineNode
  <2>2. \A m \in Legal[n] : m \in Moves /\ Legal[Child[n][m]] \subseteq Moves
    BY <2>1, MovesOfNodes
  <2>3. \E m \in Moves \cup {NullMove}, p \in Moves \cup {None} : Based(a, m, p)
    BY <1>8, <2>2 DEF EngineAnswers
  <2> QED
    BY <1>8, <2>3 DEF EngineAnswers, Based
<1>9. ASSUME NEW a \in Apps, EngineFails(a) PROVE TypeOK'
  <2>1. \E m \in Moves \cup {NullMove} : Based(a, m, None)
    BY <1>9 DEF EngineFails, FailsWhen, FallbackMoves
  <2> QED
    BY <1>9, <2>1 DEF EngineFails, FailsWhen, Based
<1>10. ASSUME NEW a \in Apps, Decide(a) PROVE TypeOK'
  <2>1. UNCHANGED <<board, engine, base, stops, owed, db, played>>
    BY <1>10, DecideTaken
  <2>2. pc' = [pc EXCEPT ![a] = "send"] \/ pc' = [pc EXCEPT ![a] = "remember"]
    BY <1>10, DecideTaken
  <2> QED
    BY <2>1, <2>2
<1>11. ASSUME NEW a \in Apps, Remember(a) PROVE TypeOK'
  <2>1. Row(a) \in Rows /\ answer[a].score \in Int
    <3>1. /\ FamilyOf[board[a]] \in Families /\ answer[a].move \in Legal[Node(a)]
          /\ answer[a].score \in Int
      BY <1>11, DecidesAtExits DEF TypeInv, OverridesDecided, Remember, AnswersTyped
    <3> QED
      BY <3>1 DEF Row, Rows
  <2>2. DOMAIN db' \subseteq Rows
    BY <1>11, <2>1 DEF Remember
  <2>3. ASSUME NEW r \in DOMAIN db' PROVE db'[r] \in [score : Int, visits : Nat \ {0}]
    <3> DEFINE visits == IF r \in DOMAIN db THEN db[r].visits + 1 ELSE 1
    <3>1. CASE r = Row(a)
      <4>1. db'[r] = [score |-> answer[a].score, visits |-> visits]
        BY <1>11, <3>1 DEF Remember
      <4>2. visits \in Nat \ {0}
        OBVIOUS
      <4> HIDE DEF visits
      <4> QED
        BY <2>1, <4>1, <4>2
    <3>2. CASE r # Row(a)
      <4>1. r \in DOMAIN db /\ db'[r] = db[r]
        BY <1>11, <3>2 DEF Remember
      <4> QED
        BY <4>1
    <3> QED
      BY <3>1, <3>2
  <2> QED
    BY <1>11, <2>2, <2>3 DEF Remember
<1>12. ASSUME NEW a \in Apps, Send(a) PROVE TypeOK'
  <2>1. owed' \in [Apps -> -1 .. 1]
    BY <1>12 DEF Send, Owes, Going
  <2>2. played' \in [Nodes -> Moves \cup {None}]
    BY <1>12 DEF Send, TypeInv, OverridesDecided
  <2>3. base' \in [Apps -> [move : Moves \cup {NullMove, None}, ponder : Moves \cup {None}]]
    BY <1>12 DEF Send, NoBase
  <2> QED
    BY <1>12, <2>1, <2>2, <2>3 DEF Send
<1>13. ASSUME NEW a \in Apps, EngineDies(a) PROVE TypeOK'
  BY <1>13 DEF EngineDies
<1>14. ASSUME NEW a \in Apps, Restart(a) PROVE TypeOK'
  BY <1>14 DEF Restart, NoBase, Boards
<1>15. CASE UNCHANGED vars
  BY <1>15 DEF vars
<1> QED
  BY <1>1, <1>2, <1>3, <1>4, <1>5, <1>6, <1>7, <1>8, <1>9, <1>10, <1>11, <1>12, <1>13, <1>14, <1>15 DEF Next, Turn, Command, GoStep

LEMMA TypeStep == TypeInv /\ [Next]_vars => TypeInv'
BY TypeOKStep, AnswersTypedStep, OwesStep, OverridesDecidedStep DEF TypeInv

LEMMA TypeInvariant == Spec => []TypeInv
BY TypeInit, TypeStep, PTL DEF Spec

\* Type correctness.  It rests on what the GUI is owed: never less than one
\* bestmove too many, which the `stop` read after the answer costs.
THEOREM TypeCorrect == Spec => []TypeOK
<1>1. TypeInv => TypeOK
  BY DEF TypeInv
<1> QED
  BY <1>1, TypeInvariant, PTL

-----------------------------------------------------------------------------
(* What is printed is legal.                                               *)

Fits(n, m) == m \in Legal[n] \/ (Legal[n] = {} /\ m = NullMove)

\* A move that is legal where the board is, from the dialogue on.
Fitting ==
    \A a \in Apps :
        /\ pc[a] = "decide" => Fits(Node(a), base[a].move)
        /\ pc[a] \in {"remember", "send"} => Fits(Node(a), answer[a].move)

LEMMA FittingStep ==
    ASSUME \A g \in Games : g.root = Startpos
    PROVE  TypeInv /\ Fitting /\ [Next]_vars => Fitting'
<1> SUFFICES ASSUME TypeInv, Fitting, [Next]_vars PROVE Fitting'
  OBVIOUS
<1>0. /\ board \in [Apps -> Boards] /\ AnswersTyped
      /\ pc \in [Apps -> Going \cup {"loop", "closed"}]
      /\ base \in [Apps -> [move : Moves \cup {NullMove, None}, ponder : Moves \cup {None}]]
  BY DEF TypeInv, TypeOK, Going
<1> USE <1>0 DEF Fitting, Going, Node, AnswersTyped
<1>1. ASSUME NEW a \in Apps, SetPosition(a) PROVE Fitting'
  BY <1>1 DEF SetPosition, Reads
<1>2. ASSUME NEW a \in Apps, UciNewGame(a) PROVE Fitting'
  BY <1>2 DEF UciNewGame, Reads
<1>3. ASSUME NEW a \in Apps, Go(a) PROVE Fitting'
  BY <1>3 DEF Go, Reads
<1>4. ASSUME NEW a \in Apps, GuiStop(a) PROVE Fitting'
  BY <1>4 DEF GuiStop
<1>5. ASSUME NEW a \in Apps, AnswerStop(a) PROVE Fitting'
  BY <1>5 DEF AnswerStop
<1>6. ASSUME NEW a \in Apps, Quit(a) PROVE Fitting'
  BY <1>6 DEF Quit, Reads
<1>7. ASSUME NEW a \in Apps, StartEngine(a) PROVE Fitting'
  BY <1>7 DEF StartEngine
<1>8. ASSUME NEW a \in Apps, EngineAnswers(a) PROVE Fitting'
  <2>1. EngineNode(a) = Node(a)
    BY BoardsAreOnNodes DEF EngineNode
  <2>2. PICK m, p : Fits(Node(a), m) /\ Based(a, m, p)
    BY <1>8, <2>1 DEF EngineAnswers, Fits
  <2> QED
    BY <1>8, <2>2 DEF EngineAnswers, Based
<1>9. ASSUME NEW a \in Apps, EngineFails(a) PROVE Fitting'
  <2>1. PICK m : Fits(Node(a), m) /\ Based(a, m, None)
    BY <1>9 DEF EngineFails, FailsWhen, FallbackMoves, Fits
  <2> QED
    BY <1>9, <2>1 DEF EngineFails, FailsWhen, Based
<1>10. ASSUME NEW a \in Apps, Decide(a) PROVE Fitting'
  <2>1. Fits(Node(a), base[a].move) /\ UNCHANGED <<board, base>>
    BY <1>10, DecideTaken
  <2>2. answer'[a].move = base[a].move \/ answer'[a].move \in Legal[Node(a)]
    <3> DEFINE c == Challenger(FamilyOf[board[a]], Node(a))
    <3>1. \/ \E why : answer' = [answer EXCEPT ![a] = [move |-> base[a].move, why |-> why, score |-> 0]]
          \/ /\ answer' = [answer EXCEPT ![a] =
                    [move |-> c.move, why |-> "wrapper_override", score |-> c.combined]]
             /\ c.move \in Legal[Node(a)]
      BY <1>10, DecideTaken
    <3> HIDE DEF c
    <3>2. \A entry : answer' = [answer EXCEPT ![a] = entry] => answer'[a] = entry
      OBVIOUS
    <3> QED
      BY <3>1, <3>2
  <2>3. \A b \in Apps \ {a} : answer'[b] = answer[b] /\ pc'[b] = pc[b]
    BY <1>10, DecideTaken
  <2>4. pc'[a] \in {"remember", "send"}
    BY <1>10, DecideTaken
  <2> QED
    BY <2>1, <2>2, <2>3, <2>4 DEF Fits
<1>11. ASSUME NEW a \in Apps, Remember(a) PROVE Fitting'
  BY <1>11 DEF Remember
<1>12. ASSUME NEW a \in Apps, Send(a) PROVE Fitting'
  BY <1>12 DEF Send
<1>13. ASSUME NEW a \in Apps, EngineDies(a) PROVE Fitting'
  BY <1>13 DEF EngineDies
<1>14. ASSUME NEW a \in Apps, Restart(a) PROVE Fitting'
  BY <1>14 DEF Restart
<1>15. CASE UNCHANGED vars
  BY <1>15 DEF vars
<1> QED
  BY <1>1, <1>2, <1>3, <1>4, <1>5, <1>6, <1>7, <1>8, <1>9, <1>10, <1>11, <1>12, <1>13, <1>14, <1>15 DEF Next, Turn, Command, GoStep

\* While every game the GUI sets up starts from the start position, the move
\* printed is legal, whoever chose it.  With a game from a FEN it need not be:
\* the engine is sent the moves alone.
THEOREM LegalAnswers ==
    ASSUME \A g \in Games : g.root = Startpos
    PROVE  Spec => []AnswerIsLegal
<1>1. Init => Fitting
  BY DEF Init, Fitting
<1>2. Fitting => AnswerIsLegal
  BY DEF Fitting, Fits, AnswerIsLegal
<1>3. TypeInv /\ Fitting /\ [Next]_vars => Fitting'
  BY FittingStep
<1> QED
  BY <1>1, <1>2, <1>3, TypeInvariant, PTL DEF Spec

-----------------------------------------------------------------------------
(* The same move for ever.                                                 *)

\* An override of instance a, decided and not yet printed.
Overriding(a) == pc[a] \in {"remember", "send"} /\ answer[a].why = "wrapper_override"

\* m is the favourite at a suite exit: it leads the other moves remembered
\* there already with the score `low`, and no instance, however late, writes
\* a lower one.
Favoured(f, n, m, low) ==
    /\ IF Remembered(db, f, n) = {}
       THEN low = 0 /\ First(Given(db, f, n)).move = m
       ELSE m \in Remembered(db, f, n) /\ db[<<Key[n], f, m>>].score >= low
    /\ \A k \in Remembered(db, f, n) \ {m} :
          Above(Candidate(f, n, m, low), Candidate(f, n, k, db[<<Key[n], f, k>>].score))
    /\ \A a \in Apps : Overriding(a) /\ Node(a) = n =>
          answer[a].move = m /\ answer[a].score >= low
    /\ played[n] \in {None, m}

Settled ==
    /\ \A n \in Nodes : played[n] # None => Legal[n] # {} /\ \E f \in Families : Suite(f, n)
    /\ \A f \in Families, n \in Nodes :
          Suite(f, n) /\ Legal[n] # {} => \E m \in Legal[n], low \in Int : Favoured(f, n, m, low)

\* The favourite is the challenger, with the score that it is favoured with
\* or a better one.
LEMMA FavouriteLeads ==
    ASSUME TypeInv, NEW f \in Families, NEW n \in Nodes, NEW m \in Legal[n], NEW low \in Int,
           Favoured(f, n, m, low)
    PROVE  Challenger(f, n).move = m /\ Challenger(f, n).combined >= low
<1>0. Scored(db) /\ Field(Given(db, f, n)) /\ Challenger(f, n) = First(Given(db, f, n))
  BY GivenIsField, CandidatesAreGiven DEF TypeInv, TypeOK, Scored
<1>1. CASE Remembered(db, f, n) = {}
  <2>1. low = 0 /\ Challenger(f, n).move = m
    BY <1>0, <1>1 DEF Favoured
  <2>2. Challenger(f, n) \in Given(db, f, n)
    BY <1>0, FirstExists DEF IsFirst
  <2>3. PICK k \in RolloutMoves[f][n] : Challenger(f, n) = Candidate(f, n, k, Plan[f][n][k])
    BY <1>1, <2>2 DEF Given
  <2>4. k \in Legal[n] /\ Plan[f][n][k] \in Nat
    BY RolloutKeeps
  <2> QED
    BY <2>1, <2>3, <2>4 DEF Candidate
<1>2. CASE Remembered(db, f, n) # {}
  <2> DEFINE score(k) == db[<<Key[n], f, k>>].score
             Cand(k) == Candidate(f, n, k, score(k))
             first == Candidate(f, n, m, low)
  <2>1. m \in Remembered(db, f, n) /\ score(m) >= low
    BY <1>2 DEF Favoured
  <2>2. Given(db, f, n) = {Cand(k) : k \in Remembered(db, f, n)}
    BY <1>2 DEF Given
  <2>3. \A k \in Remembered(db, f, n) : k \in Legal[n] /\ score(k) \in Int
    BY <1>0 DEF Remembered, Scored
  <2>4. /\ Cand(m).move = m /\ Cand(m).combined >= score(m) /\ Cand(m).combined \in Int
        /\ first.move = m /\ first.combined \in Int /\ Cand(m).combined >= first.combined
    <3>1. m \in Legal[n] /\ score(m) \in Int
      BY <2>1, <2>3
    <3> HIDE DEF score
    <3>2. PICK e \in Nat : \A plan \in Int : Candidate(f, n, m, plan).combined = plan + e
      BY DEF Candidate
    <3>3. \A plan : Candidate(f, n, m, plan).move = m
      BY DEF Candidate
    <3>4. Cand(m).combined = score(m) + e /\ first.combined = low + e
      BY <3>1, <3>2
    <3> QED
      BY <2>1, <3>1, <3>3, <3>4
  <2>5. ASSUME NEW k \in Remembered(db, f, n), k # m PROVE Above(Cand(m), Cand(k))
    <3>1. Above(first, Cand(k))
      BY <2>5 DEF Favoured
    <3>2. Cand(k).combined \in Int
      BY <2>3, CandidateOf
    <3> HIDE DEF Cand, first
    <3> QED
      BY <2>4, <3>1, <3>2 DEF Above
  <2>6. IsFirst(Cand(m), Given(db, f, n))
    <3> HIDE DEF Cand
    <3> QED
      BY <2>1, <2>2, <2>5 DEF IsFirst
  <2>7. Challenger(f, n) = Cand(m)
    BY <1>0, <2>6, FirstIsOne
  <2> HIDE DEF Cand
  <2> QED
    BY <2>1, <2>3, <2>4, <2>7
<1> QED
  BY <1>1, <1>2

\* At first the favourite is the first of the rows, or of the rollout.
LEMMA SettledInit == Init => Settled
<1> SUFFICES ASSUME Init PROVE Settled
  OBVIOUS
<1>1. \A n \in Nodes : played[n] = None
  BY DEF Init
<1>2. \A a \in Apps : ~Overriding(a)
  BY DEF Init, Overriding
<1>3. Scored(db)
  BY TypeInit DEF TypeInv, TypeOK, Scored
<1>4. ASSUME NEW f \in Families, NEW n \in Nodes, Legal[n] # {}
      PROVE  \E m \in Legal[n], low \in Int : Favoured(f, n, m, low)
  <2> DEFINE c == First(Given(db, f, n))
             score(k) == db[<<Key[n], f, k>>].score
             Cand(k) == Candidate(f, n, k, score(k))
  <2>1. IsFirst(c, Given(db, f, n)) /\ c.move \in Legal[n]
    BY <1>3, <1>4, GivenIsField, FirstExists DEF IsFirst
  <2>2. CASE Remembered(db, f, n) = {}
    <3>1. Favoured(f, n, c.move, 0)
      BY <1>1, <1>2, <2>2 DEF Favoured
    <3> QED
      BY <2>1, <3>1
  <2>3. CASE Remembered(db, f, n) # {}
    <3>1. Given(db, f, n) = {Cand(k) : k \in Remembered(db, f, n)}
      BY <2>3 DEF Given
    <3>2. PICK m \in Remembered(db, f, n) : c = Cand(m)
      BY <2>1, <3>1 DEF IsFirst
    <3>3. \A k \in Remembered(db, f, n) : k \in Legal[n] /\ score(k) \in Int /\ Cand(k).move = k
      BY <1>3 DEF Remembered, Scored, Candidate
    <3>4. ASSUME NEW k \in Remembered(db, f, n) \ {m} PROVE Above(Cand(m), Cand(k))
      <4>1. Cand(k) # Cand(m) /\ Cand(k) \in Given(db, f, n)
        BY <3>1, <3>3
      <4> HIDE DEF Cand, c
      <4> QED
        BY <2>1, <3>2, <4>1 DEF IsFirst
    <3>5. Favoured(f, n, m, score(m))
      <4>1. \A k \in Remembered(db, f, n) \ {m} :
              Above(Candidate(f, n, m, score(m)), Candidate(f, n, k, db[<<Key[n], f, k>>].score))
        BY <3>4
      <4>2. score(m) >= score(m)
        BY <3>3
      <4> QED
        BY <1>1, <1>2, <2>3, <4>1, <4>2 DEF Favoured
    <3> QED
      BY <3>3, <3>5
  <2> QED
    BY <2>2, <2>3
<1> QED
  BY <1>1, <1>4 DEF Settled

\* A suite exit has one family, and a family one exit.
LEMMA SuiteIsOne ==
    ASSUME NEW f, NEW g, NEW n, NEW k, Suite(f, n), Suite(g, k)
    PROVE  f = g <=> n = k
BY DEF Suite

\* A step that neither writes a row nor prints nor decides an override.
LEMMA SettledQuiet ==
    ASSUME Settled, UNCHANGED <<db, played>>,
           \A b \in Apps : Overriding(b)' =>
               Overriding(b) /\ board'[b] = board[b] /\ answer'[b] = answer[b]
    PROVE  Settled'
<1>1. \A f, n, m, low : Favoured(f, n, m, low) => Favoured(f, n, m, low)'
  <2> SUFFICES ASSUME NEW f, NEW n, NEW m, NEW low, Favoured(f, n, m, low)
               PROVE  Favoured(f, n, m, low)'
    OBVIOUS
  <2>1. Remembered(db, f, n)' = Remembered(db, f, n)
    OBVIOUS
  <2>2. \A a \in Apps : Overriding(a)' /\ Node(a)' = n =>
          answer'[a].move = m /\ answer'[a].score >= low
    BY DEF Favoured, Node
  <2> QED
    BY <2>1, <2>2 DEF Favoured
<1> QED
  BY <1>1 DEF Settled

\* An override is of the challenger, and so of the favourite.
LEMMA SettledDecide ==
    ASSUME TypeInv, Settled, NEW a \in Apps, Decide(a)
    PROVE  Settled'
<1> DEFINE f0 == FamilyOf[board[a]]
           c == Challenger(f0, Node(a))
<1>0. board[a] \in Boards /\ Node(a) = NodeOf[board[a]] /\ AnswersTyped
      /\ pc \in [Apps -> Going \cup {"loop", "closed"}]
  BY DEF TypeInv, TypeOK, Node, Going
<1>1. pc[a] = "decide" /\ UNCHANGED <<board, engine, base, stops, owed, db, played>>
  BY DecideTaken
<1>2. CASE \E why \in Whys \ {"wrapper_override"} :
             answer' = [answer EXCEPT ![a] = [move |-> base[a].move, why |-> why, score |-> 0]]
           /\ pc' = [pc EXCEPT ![a] = "send"]
  <2>1. \A b \in Apps : Overriding(b)' =>
          Overriding(b) /\ board'[b] = board[b] /\ answer'[b] = answer[b]
    BY <1>0, <1>1, <1>2 DEF Overriding, AnswersTyped
  <2> QED
    BY <1>1, <2>1, SettledQuiet
<1>3. CASE /\ pc' = [pc EXCEPT ![a] = "remember"]
           /\ answer' = [answer EXCEPT ![a] =
                [move |-> c.move, why |-> "wrapper_override", score |-> c.combined]]
           /\ Decides(board[a]) /\ Legal[Node(a)] # {}
  <2>1. Suite(f0, Node(a)) /\ f0 \in Families /\ Node(a) \in Nodes
    BY <1>0, <1>3, DecidesAtExits
  <2>2. ASSUME NEW f \in Families, NEW n \in Nodes, Suite(f, n),
               NEW m \in Legal[n], NEW low \in Int, Favoured(f, n, m, low)
        PROVE  Favoured(f, n, m, low)'
    <3>1. ASSUME NEW b \in Apps, Overriding(b)', Node(b)' = n
          PROVE  answer'[b].move = m /\ answer'[b].score >= low
      <4>1. Node(b) = n
        BY <1>1, <3>1 DEF Node
      <4>2. CASE b = a
        <5>1. f = f0 /\ n = Node(a)
          BY <2>1, <2>2, <4>1, <4>2, SuiteIsOne
        <5>2. c.move = m /\ c.combined >= low
          BY <2>2, <5>1, FavouriteLeads
        <5>3. answer'[a] = [move |-> c.move, why |-> "wrapper_override", score |-> c.combined]
          BY <1>0, <1>3 DEF AnswersTyped
        <5> HIDE DEF c
        <5> QED
          BY <4>2, <5>2, <5>3
      <4>3. CASE b # a
        <5>1. Overriding(b) /\ answer'[b] = answer[b]
          BY <1>0, <1>3, <3>1, <4>3 DEF Overriding, AnswersTyped
        <5> QED
          BY <2>2, <4>1, <5>1 DEF Favoured
      <4> QED
        BY <4>2, <4>3
    <3>2. Remembered(db, f, n)' = Remembered(db, f, n)
      BY <1>1
    <3> QED
      BY <1>1, <2>2, <3>1, <3>2 DEF Favoured
  <2> QED
    BY <1>1, <2>2 DEF Settled
<1> QED
  BY <1>2, <1>3, DecideTaken

\* The row written is the favourite's, with a score no lower than it is
\* favoured with, and of one exit only.
LEMMA SettledRemember ==
    ASSUME TypeInv, Settled, NEW a \in Apps, Remember(a)
    PROVE  Settled'
<1> DEFINE f0 == FamilyOf[board[a]]
           n0 == Node(a)
           m0 == answer[a].move
<1>0. board[a] \in Boards /\ Node(a) = NodeOf[board[a]]
      /\ pc \in [Apps -> Going \cup {"loop", "closed"}]
  BY DEF TypeInv, TypeOK, Node, Going
<1>1. /\ Overriding(a) /\ UNCHANGED <<board, answer, played>> /\ Row(a) = <<Key[n0], f0, m0>>
      /\ DOMAIN db' = DOMAIN db \cup {Row(a)} /\ db'[Row(a)].score = answer[a].score
      /\ \A r \in DOMAIN db \ {Row(a)} : db'[r] = db[r]
  BY DEF Remember, Overriding, TypeInv, OverridesDecided, Row
<1>2. Suite(f0, n0) /\ f0 \in Families /\ n0 \in Nodes /\ m0 \in Legal[n0]
  BY <1>0, <1>1, DecidesAtExits DEF TypeInv, OverridesDecided, Overriding
<1>3. \A b \in Apps : Overriding(b)' => Overriding(b) /\ Node(b)' = Node(b)
  BY <1>0, <1>1 DEF Remember, Overriding, Node
<1> HIDE DEF f0, n0, m0
<1>4. ASSUME NEW f \in Families, NEW n \in Nodes, Suite(f, n),
             NEW m \in Legal[n], NEW low \in Int, Favoured(f, n, m, low)
      PROVE  Favoured(f, n, m, low)'
  <2>1. \A b \in Apps : Overriding(b)' /\ Node(b)' = n => answer'[b].move = m /\ answer'[b].score >= low
    BY <1>1, <1>3, <1>4 DEF Favoured
  <2>2. played'[n] \in {None, m}
    BY <1>1, <1>4 DEF Favoured
  <2>3. CASE f # f0
    <3>1. \A k : <<Key[n], f, k>> # Row(a)
      BY <1>1, <2>3
    <3>2. Remembered(db, f, n)' = Remembered(db, f, n)
      BY <1>1, <3>1 DEF Remembered
    <3>3. \A k \in Remembered(db, f, n) : db'[<<Key[n], f, k>>] = db[<<Key[n], f, k>>]
      BY <1>1, <3>1 DEF Remembered
    <3>4. Remembered(db, f, n) = {} => Given(db, f, n)' = Given(db, f, n)
      BY <3>2 DEF Given
    <3>5. Remembered(db, f, n) = {} => First(Given(db, f, n))' = First(Given(db, f, n))
      BY <3>4 DEF First
    <3> QED
      BY <1>4, <2>1, <2>2, <3>2, <3>3, <3>5 DEF Favoured
  <2>4. CASE f = f0
    <3>1. n = n0
      BY <1>2, <1>4, <2>4, SuiteIsOne
    <3>2. m0 = m /\ answer[a].score >= low
      BY <1>1, <1>4, <3>1 DEF Favoured, m0, n0
    <3>3. Row(a) = <<Key[n], f, m>>
      BY <1>1, <2>4, <3>1, <3>2
    <3>4. Remembered(db, f, n)' = Remembered(db, f, n) \cup {m}
      BY <1>1, <3>3 DEF Remembered
    <3>5. \A k \in Remembered(db, f, n) \ {m} : db'[<<Key[n], f, k>>] = db[<<Key[n], f, k>>]
      BY <1>1, <3>3 DEF Remembered
    <3>6. db'[<<Key[n], f, m>>].score >= low
      BY <1>1, <3>2, <3>3
    <3>7. \A k \in Remembered(db, f, n)' \ {m} :
            Above(Candidate(f, n, m, low), Candidate(f, n, k, db'[<<Key[n], f, k>>].score))
      BY <1>4, <3>4, <3>5 DEF Favoured
    <3> QED
      BY <2>1, <2>2, <3>4, <3>6, <3>7 DEF Favoured
  <2> QED
    BY <2>3, <2>4
<1> QED
  BY <1>1, <1>4 DEF Settled

\* What is printed as an override is the favourite.
LEMMA SettledSend ==
    ASSUME TypeInv, Settled, NEW a \in Apps, Send(a)
    PROVE  Settled' /\ \A n \in Nodes : played[n] # None => played'[n] = played[n]
<1>0. board[a] \in Boards /\ Node(a) = NodeOf[board[a]] /\ AnswersTyped
      /\ pc \in [Apps -> Going \cup {"loop", "closed"}] /\ played \in [Nodes -> Moves \cup {None}]
  BY DEF TypeInv, TypeOK, Node, Going
<1>1. UNCHANGED <<board, db>>
  BY DEF Send
<1>2. \A b \in Apps : Overriding(b)' =>
        Overriding(b) /\ board'[b] = board[b] /\ answer'[b] = answer[b]
  BY <1>0 DEF Send, Overriding, AnswersTyped, NoAnswer
<1>3. CASE ~Overriding(a)
  <2>1. played' = played
    BY <1>3 DEF Send, Overriding
  <2> QED
    BY <1>1, <1>2, <2>1, SettledQuiet
<1>4. CASE Overriding(a)
  <2> DEFINE f0 == FamilyOf[board[a]]
             n0 == Node(a)
             m0 == answer[a].move
  <2>1. Suite(f0, n0) /\ f0 \in Families /\ n0 \in Nodes /\ m0 \in Legal[n0]
    BY <1>0, <1>4, DecidesAtExits DEF TypeInv, OverridesDecided, Overriding
  <2>2. played' = [played EXCEPT ![n0] = m0]
    BY <1>4 DEF Send, Overriding
  <2>3. PICK mf \in Legal[n0], lf \in Int : Favoured(f0, n0, mf, lf)
    BY <2>1 DEF Settled
  <2>4. m0 = mf /\ played[n0] \in {None, m0}
    BY <1>4, <2>3 DEF Favoured
  <2>5. ASSUME NEW f \in Families, NEW n \in Nodes, Suite(f, n),
               NEW m \in Legal[n], NEW low \in Int, Favoured(f, n, m, low)
        PROVE  Favoured(f, n, m, low)'
    <3>1. played'[n] \in {None, m}
      <4>1. CASE n = n0
        BY <1>0, <1>4, <2>2, <2>5, <4>1 DEF Favoured
      <4>2. CASE n # n0
        BY <1>0, <2>2, <2>5, <4>2 DEF Favoured
      <4> QED
        BY <4>1, <4>2
    <3>2. \A b \in Apps : Overriding(b)' /\ Node(b)' = n => answer'[b].move = m /\ answer'[b].score >= low
      BY <1>2, <2>5 DEF Favoured, Node
    <3>3. Remembered(db, f, n)' = Remembered(db, f, n)
      BY <1>1
    <3> QED
      BY <1>1, <2>5, <3>1, <3>2, <3>3 DEF Favoured
  <2> HIDE DEF f0, n0, m0
  <2>6. Settled'
    BY <1>0, <2>1, <2>2, <2>5, ZenonT(60) DEF Settled
  <2> QED
    BY <1>0, <2>2, <2>4, <2>6
<1> QED
  BY <1>3, <1>4

LEMMA SettledStep ==
    TypeInv /\ Settled /\ [Next]_vars =>
        Settled' /\ \A n \in Nodes : played[n] # None => played'[n] = played[n]
<1> SUFFICES ASSUME TypeInv, Settled, [Next]_vars
             PROVE  Settled' /\ \A n \in Nodes : played[n] # None => played'[n] = played[n]
  OBVIOUS
<1> DEFINE Quiet == /\ UNCHANGED <<db, played>>
                    /\ \A b \in Apps : Overriding(b)' =>
                         Overriding(b) /\ board'[b] = board[b] /\ answer'[b] = answer[b]
<1>0. /\ board \in [Apps -> Boards] /\ AnswersTyped
      /\ pc \in [Apps -> Going \cup {"loop", "closed"}]
  BY DEF TypeInv, TypeOK, Going
<1> USE <1>0 DEF Overriding, Going, AnswersTyped
<1>1. ASSUME NEW a \in Apps, SetPosition(a) PROVE Quiet
  BY <1>1 DEF SetPosition, Reads
<1>2. ASSUME NEW a \in Apps, UciNewGame(a) PROVE Quiet
  BY <1>2 DEF UciNewGame, Reads
<1>3. ASSUME NEW a \in Apps, Go(a) PROVE Quiet
  BY <1>3 DEF Go, Reads
<1>4. ASSUME NEW a \in Apps, GuiStop(a) PROVE Quiet
  BY <1>4 DEF GuiStop
<1>5. ASSUME NEW a \in Apps, AnswerStop(a) PROVE Quiet
  BY <1>5 DEF AnswerStop
<1>6. ASSUME NEW a \in Apps, Quit(a) PROVE Quiet
  BY <1>6 DEF Quit, Reads
<1>7. ASSUME NEW a \in Apps, StartEngine(a) PROVE Quiet
  BY <1>7 DEF StartEngine
<1>8. ASSUME NEW a \in Apps, EngineAnswers(a) PROVE Quiet
  BY <1>8 DEF EngineAnswers, Based
<1>9. ASSUME NEW a \in Apps, EngineFails(a) PROVE Quiet
  BY <1>9 DEF EngineFails, FailsWhen, Based
<1>10. ASSUME NEW a \in Apps, Decide(a) PROVE Settled' /\ played' = played
  BY <1>10, SettledDecide, DecideTaken
<1>11. ASSUME NEW a \in Apps, Remember(a) PROVE Settled' /\ played' = played
  <2>1. played' = played
    BY <1>11 DEF Remember
  <2> QED
    BY <1>11, <2>1, SettledRemember
<1>12. ASSUME NEW a \in Apps, Send(a)
       PROVE  Settled' /\ \A n \in Nodes : played[n] # None => played'[n] = played[n]
  BY <1>12, SettledSend
<1>13. ASSUME NEW a \in Apps, EngineDies(a) PROVE Quiet
  BY <1>13 DEF EngineDies
<1>14. ASSUME NEW a \in Apps, Restart(a) PROVE Quiet
  BY <1>14 DEF Restart
<1>15. CASE UNCHANGED vars
  <2>1. Quiet
    BY <1>15 DEF vars
  <2> QED
    BY <2>1, SettledQuiet
<1>16. Quiet => Settled' /\ played' = played
  BY SettledQuiet
<1> HIDE DEF Quiet
<1> QED
  BY <1>1, <1>2, <1>3, <1>4, <1>5, <1>6, <1>7, <1>8, <1>9, <1>10, <1>11, <1>12, <1>13, <1>14, <1>15, <1>16 DEF Next, Turn, Command, GoStep

\* Once the wrapper has overridden at a node it plays the same move there ever
\* after, although instances decide on what they have read and write later,
\* and are killed and restarted between the two.
THEOREM OneFavouriteForEver == Spec => SameMoveForever
<1>1. TypeInv /\ Settled /\ [Next]_vars => Settled'
  BY SettledStep
<1>2. TypeInv /\ Settled /\ [Next]_vars =>
        [\A n \in Nodes : played[n] # None => played'[n] = played[n]]_vars
  BY SettledStep
<1> QED
  BY <1>1, <1>2, SettledInit, TypeInvariant, PTL DEF Spec, SameMoveForever

=============================================================================
