----------------------------- MODULE CounterLine -----------------------------
(***************************************************************************)
(* The CounterLine wrapper: instances of the UCI frontend (uci_app.py),    *)
(* each with its own base Stockfish subprocess (engine_pool.py), sharing   *)
(* one repertoire database (repertoire_db.py).  A `go` runs from the       *)
(* dialogue with the subprocess through the arbitration of the move        *)
(* (opening_lock.py, rollout.py, fortify.py, determine.py) to the printed  *)
(* bestmove, while instances run side by side, subprocesses die and        *)
(* instances are killed and restarted.                                     *)
(*                                                                         *)
(* Chess is a finite graph: a node is a position with its move counters,   *)
(* what a FEN says; key[n] is its Polyglot key, which the counters do not  *)
(* enter.                                                                  *)
(***************************************************************************)
EXTENDS Integers, Sequences, FiniteSets

CONSTANTS Apps,          \* instances of the frontend
          Nodes, Startpos,
          White,         \* nodes with White to move
          Legal,         \* Legal[n]: the legal moves of n
          Child,         \* Child[n][m]: the node m leads to
          Key,           \* Key[n]: its Polyglot key
          Rank,          \* Rank[m]: place of m in the order of UCI strings
          WhiteSeed, BlackSeed,      \* the two seed lines
          WhiteExit, BlackExit,      \* the nodes of the two exit FENs
          Plan,          \* Plan[f][n][m]: score_move for family f, a sum of bonuses
          Games,         \* what the GUI sets up: a root node and a line from it
          SeedRows,      \* what populate_repertoire_db.py stores
          Cap,           \* candidates kept by a rollout
          MinGain, MaxRegression,
          MaxVisits,     \* bound of the model: visits counted per row
          None

Families == {"qgd", "petroff"}
Moves == UNION {Legal[n] : n \in Nodes}
NullMove == "0000"       \* also the "(none)" of an engine without a move

\* What a row of the repertoire is for: a position, a family and a move.
Rows == {<<Key[n], f, m>> : n \in Nodes, f \in Families, m \in Moves}

Step(n, m) == IF n # None /\ m \in Legal[n] THEN Child[n][m] ELSE None

\* The node a line leads to, or None if it is not a legal line.
Walk(root, line) ==
    LET at[i \in 0 .. Len(line)] ==
          IF i = 0 THEN root ELSE Step(at[i-1], line[i])
    IN  at[Len(line)]

StartGame == [root |-> Startpos, line |-> <<>>]
Boards == Games \cup {StartGame}
NodeOf == [g \in Boards |-> Walk(g.root, g.line)]

ASSUME WrapperAssumption ==
    /\ Startpos \in Nodes /\ White \subseteq Nodes
    /\ WhiteExit \in White /\ BlackExit \in Nodes \ White
    /\ \A n \in Nodes : IsFiniteSet(Legal[n]) /\ \A m \in Legal[n] : Child[n][m] \in Nodes
    /\ \A g \in Games : g.line \in Seq(Moves) /\ Walk(g.root, g.line) \in Nodes
    /\ \A m, k \in Moves : Rank[m] \in Int /\ (Rank[m] = Rank[k] => m = k)
    /\ \A f \in Families, n \in Nodes : \A m \in Legal[n] : Plan[f][n][m] \in Nat
    /\ None \notin Nodes \cup Moves /\ NullMove \notin Moves
    /\ Cap \in Nat \ {0} /\ MinGain \in Nat /\ MaxRegression \in Nat
    /\ DOMAIN SeedRows \subseteq Rows
    /\ \A r \in DOMAIN SeedRows : SeedRows[r] \in [score : Int, visits : Nat \ {0}]

VARIABLES
    pc,       \* pc[a]: where a is in its loop
    board,    \* board[a]: root and move stack of its board
    engine,   \* engine[a]: its subprocess: "none" (never started), "up", "dead"
    base,     \* base[a]: the base move and its ponder move
    answer,   \* answer[a]: the decision taken, and why
    stops,    \* stops[a]: `stop` commands waiting in its input
    owed,     \* owed[a]: bestmoves the GUI is waiting for
    db,       \* the rows of the repertoire, by key, family and move
    played    \* history: played[n] is the last override at n

vars == <<pc, board, engine, base, answer, stops, owed, db, played>>

NoAnswer == [move |-> None, why |-> None, score |-> 0]
NoBase == [move |-> None, ponder |-> None]
Node(a) == NodeOf[board[a]]

Init ==
    /\ pc = [a \in Apps |-> "loop"]
    /\ board = [a \in Apps |-> StartGame]
    /\ engine = [a \in Apps |-> "none"]
    /\ base = [a \in Apps |-> NoBase]
    /\ answer = [a \in Apps |-> NoAnswer]
    /\ stops = [a \in Apps |-> 0]
    /\ owed = [a \in Apps |-> 0]
    /\ db \in {<<>>, SeedRows}
    /\ played = [n \in Nodes |-> None]

-----------------------------------------------------------------------------
(* opening_lock.py                                                         *)

IsPrefix(line, seed) ==
    Len(line) <= Len(seed) /\ line = SubSeq(seed, 1, Len(line))

FamilyOf ==
    [g \in Boards |->
        IF NodeOf[g] = WhiteExit \/ IsPrefix(g.line, WhiteSeed) THEN "qgd"
        ELSE IF NodeOf[g] = BlackExit \/ IsPrefix(g.line, BlackSeed) THEN "petroff"
        ELSE "unknown"]

BookComplete(g) == NodeOf[g] \in {WhiteExit, BlackExit}

LockColour(f) == IF f = "qgd" THEN "white" ELSE IF f = "petroff" THEN "black" ELSE None

Side(n) == IF n \in White THEN "white" ELSE "black"

\* The wrapper takes a decision of its own only here.
Decides(g) ==
    /\ FamilyOf[g] # "unknown"
    /\ BookComplete(g)
    /\ LockColour(FamilyOf[g]) = Side(NodeOf[g])

-----------------------------------------------------------------------------
(* rollout.py, repertoire.py, fortify.py                                   *)

\* Candidates are sorted by combined score, then by move.
Below(c, d) ==
    c.combined < d.combined \/ (c.combined = d.combined /\ Rank[c.move] < Rank[d.move])

Above(c, d) ==
    c.combined > d.combined \/ (c.combined = d.combined /\ Rank[c.move] > Rank[d.move])

\* The moves among the first Cap by plan score.
RolloutMoves ==
    [f \in Families |-> [n \in Nodes |->
        LET cand(m) == [move |-> m, combined |-> Plan[f][n][m]]
        IN  {m \in Legal[n] :
                Cardinality({k \in Legal[n] : Above(cand(k), cand(m))}) < Cap}]]

RepertoireMoves(f, n) == {m \in Legal[n] : <<Key[n], f, m>> \in DOMAIN db}

\* annotate_with_engine_scores: the "engine score" of a candidate is the
\* plan score of the rollout, or 0 if the rollout has dropped the move.
Candidate(f, n, m, plan) ==
    LET score == IF m \in RolloutMoves[f][n] THEN Plan[f][n][m] ELSE 0
    IN  [move |-> m, engine |-> score, combined |-> plan + score]

\* Moves remembered for the position replace the rollout altogether.
Candidates(f, n) ==
    IF RepertoireMoves(f, n) # {}
    THEN {Candidate(f, n, m, db[<<Key[n], f, m>>].score) : m \in RepertoireMoves(f, n)}
    ELSE {Candidate(f, n, m, Plan[f][n][m]) : m \in RolloutMoves[f][n]}

Challenger(f, n) ==
    LET cands == Candidates(f, n)
    IN  CHOOSE c \in cands : \A d \in cands : d # c => Above(c, d)

\* The base move enters the comparison with both scores 0.
Accept(c) == c.combined - 0 >= MinGain /\ 0 - c.engine <= MaxRegression

-----------------------------------------------------------------------------
(* Commands, handled one at a time: nothing is read while a `go` runs.     *)

Reads(a) == pc[a] = "loop" /\ stops[a] = 0

SetPosition(a) ==
    /\ Reads(a)
    /\ \E g \in Games : board' = [board EXCEPT ![a] = g]
    /\ UNCHANGED <<pc, engine, base, answer, stops, owed, db, played>>

UciNewGame(a) ==
    /\ Reads(a)
    /\ board' = [board EXCEPT ![a] = StartGame]
    /\ UNCHANGED <<pc, engine, base, answer, stops, owed, db, played>>

Go(a) ==
    /\ Reads(a)
    /\ \A row \in DOMAIN db : db[row].visits < MaxVisits
    /\ pc' = [pc EXCEPT ![a] = "ask"]
    /\ owed' = [owed EXCEPT ![a] = @ + 1]
    /\ UNCHANGED <<board, engine, base, answer, stops, db, played>>

\* A GUI sends `stop` while it waits; it is read after the answer was given,
\* and answered again.
GuiStop(a) ==
    /\ pc[a] # "loop" /\ owed[a] > 0 /\ stops[a] = 0
    /\ stops' = [stops EXCEPT ![a] = 1]
    /\ UNCHANGED <<pc, board, engine, base, answer, owed, db, played>>

AnswerStop(a) ==
    /\ pc[a] = "loop" /\ stops[a] = 1
    /\ stops' = [stops EXCEPT ![a] = 0]
    /\ owed' = [owed EXCEPT ![a] = @ - 1]
    /\ UNCHANGED <<pc, board, engine, base, answer, db, played>>

\* quit, or the end of the input: the subprocess is told to quit.
Quit(a) ==
    /\ Reads(a)
    /\ pc' = [pc EXCEPT ![a] = "closed"]
    /\ engine' = [engine EXCEPT ![a] = "none"]
    /\ UNCHANGED <<board, base, answer, stops, owed, db, played>>

-----------------------------------------------------------------------------
(* choose_move: first the base engine is asked.                            *)

Based(a, m, ponder) ==
    /\ base' = [base EXCEPT ![a] = [move |-> m, ponder |-> ponder]]
    /\ pc' = [pc EXCEPT ![a] = "decide"]

\* The first legal move the board generates, whichever that is.
FallbackNull(n) == {NullMove}

FallbackMoves(n) == IF Legal[n] = {} THEN {NullMove} ELSE Legal[n]

\* The subprocess is started on the first use.
StartEngine(a) ==
    /\ pc[a] = "ask" /\ engine[a] = "none"
    /\ engine' = [engine EXCEPT ![a] = "up"]
    /\ UNCHANGED <<pc, board, base, answer, stops, owed, db, played>>

\* It is sent the move stack, from the start position whatever the root is,
\* and answers for the node that leads to.
EngineNodeOf == [g \in Boards |-> Walk(Startpos, g.line)]
EngineNode(a) == EngineNodeOf[board[a]]

EngineAnswers(a) ==
    /\ pc[a] = "ask" /\ engine[a] = "up"
    /\ EngineNode(a) # None
    /\ LET n == EngineNode(a) IN
          IF Legal[n] = {} THEN Based(a, NullMove, None)
          ELSE \E m \in Legal[n] :
                  \E p \in Legal[Child[n][m]] \cup {None} : Based(a, m, p)
    /\ UNCHANGED <<board, engine, answer, stops, owed, db, played>>

\* A line that is illegal for it ends the subprocess, with an error; it may
\* also end by itself at any time.
EngineDies(a) ==
    /\ engine[a] = "up"
    /\ engine' = [engine EXCEPT ![a] = "dead"]
    /\ UNCHANGED <<pc, board, base, answer, stops, owed, db, played>>

\* The binary cannot be started, or the dialogue meets a dead process (which
\* is never started anew): an exception, and a move of the wrapper's own.
FailsWhen(a, states) ==
    /\ pc[a] = "ask" /\ engine[a] \in states
    /\ \E m \in FallbackMoves(Node(a)) : Based(a, m, None)
    /\ UNCHANGED <<board, engine, answer, stops, owed, db, played>>

FailsUnstarted(a) == FailsWhen(a, {"none"})

EngineFails(a) == FailsWhen(a, {"none", "dead"})

-----------------------------------------------------------------------------
(* choose_move: the arbitration.                                           *)

Overrides(f, g, n) == Decides(g) /\ Legal[n] # {} /\ Accept(Challenger(f, n))

KeepReason(f, g, n) ==
    CASE f = "unknown"   -> "outside_suite"
      [] f # "unknown" /\ ~Decides(g) -> "book_or_color_lock"
      [] Decides(g) /\ Legal[n] = {}  -> "no_challenger"
      [] OTHER -> "fortify_rejected"

\* Reads the repertoire, in a transaction of its own.
Decide(a) ==
    /\ pc[a] = "decide"
    /\ LET g == board[a]
           f == FamilyOf[g]
           n == NodeOf[g]
       IN  \/ /\ ~Overrides(f, g, n)
              /\ answer' = [answer EXCEPT ![a] =
                    [move |-> base[a].move, why |-> KeepReason(f, g, n), score |-> 0]]
              /\ pc' = [pc EXCEPT ![a] = "send"]
           \/ /\ Overrides(f, g, n)
              /\ answer' = [answer EXCEPT ![a] =
                    [move |-> Challenger(f, n).move, why |-> "wrapper_override",
                     score |-> Challenger(f, n).combined]]
              /\ pc' = [pc EXCEPT ![a] = "remember"]
    /\ UNCHANGED <<board, engine, base, stops, owed, db, played>>

\* upsert, in another transaction: the score is replaced, the visits counted.
Row(a) == <<Key[Node(a)], FamilyOf[board[a]], answer[a].move>>

Remember(a) ==
    /\ pc[a] = "remember"
    /\ db' = [r \in DOMAIN db \cup {Row(a)} |->
                IF r = Row(a) THEN [score |-> answer[a].score,
                                    visits |-> IF r \in DOMAIN db THEN db[r].visits + 1 ELSE 1]
                ELSE db[r]]
    /\ pc' = [pc EXCEPT ![a] = "send"]
    /\ UNCHANGED <<board, engine, base, answer, stops, owed, played>>

\* The ponder move printed is the base engine's, whichever move was chosen.
Send(a) ==
    /\ pc[a] = "send"
    /\ owed' = [owed EXCEPT ![a] = @ - 1]
    /\ played' = IF answer[a].why = "wrapper_override"
                 THEN [played EXCEPT ![Node(a)] = answer[a].move] ELSE played
    /\ pc' = [pc EXCEPT ![a] = "loop"]
    /\ answer' = [answer EXCEPT ![a] = NoAnswer]
    /\ base' = [base EXCEPT ![a] = NoBase]
    /\ UNCHANGED <<board, engine, stops, db>>

\* An instance is killed, its subprocess with it, and the GUI starts another.
Restart(a) ==
    /\ pc' = [pc EXCEPT ![a] = "loop"]
    /\ board' = [board EXCEPT ![a] = StartGame]
    /\ engine' = [engine EXCEPT ![a] = "none"]
    /\ base' = [base EXCEPT ![a] = NoBase]
    /\ answer' = [answer EXCEPT ![a] = NoAnswer]
    /\ stops' = [stops EXCEPT ![a] = 0]
    /\ owed' = [owed EXCEPT ![a] = 0]
    /\ UNCHANGED <<db, played>>

-----------------------------------------------------------------------------
GoStep(a) ==
    \/ StartEngine(a) \/ EngineAnswers(a) \/ EngineFails(a)
    \/ Decide(a) \/ Remember(a) \/ Send(a)

Command(a) == SetPosition(a) \/ UciNewGame(a) \/ Go(a) \/ GuiStop(a) \/ Quit(a)

Turn(a) == Command(a) \/ AnswerStop(a) \/ GoStep(a) \/ EngineDies(a) \/ Restart(a)

Next == \E a \in Apps : Turn(a)

Spec == Init /\ [][Next]_vars

\* A `go` is carried on and an engine that lives answers; one that is sent
\* an illegal line ends.  No command is sure to arrive.
Fairness ==
    \A a \in Apps : /\ WF_vars(GoStep(a))
                    /\ WF_vars(EngineNode(a) = None /\ EngineDies(a))

FairSpec == Spec /\ Fairness

-----------------------------------------------------------------------------
(* Properties.                                                             *)

\* Types of the instances' variables and of the repertoire.
TypeOK ==
    /\ pc \in [Apps -> {"loop", "ask", "decide", "remember", "send", "closed"}]
    /\ board \in [Apps -> Boards]
    /\ engine \in [Apps -> {"none", "up", "dead"}]
    /\ base \in [Apps -> [move : Moves \cup {NullMove, None}, ponder : Moves \cup {None}]]
    /\ \A a \in Apps : answer[a].move \in Moves \cup {NullMove, None}
    /\ stops \in [Apps -> 0 .. 1] /\ owed \in [Apps -> -1 .. 1]
    /\ DOMAIN db \subseteq Rows
    /\ \A r \in DOMAIN db : db[r] \in [score : Int, visits : Nat \ {0}]
    /\ played \in [Nodes -> Moves \cup {None}]

\* The bestmove printed for a `go` is a legal move of the position the GUI
\* has set up, whoever chose it: base engine, fallback or repertoire.
AnswerIsLegal ==
    \A a \in Apps : pc[a] = "send" =>
        \/ answer[a].move \in Legal[Node(a)]
        \/ Legal[Node(a)] = {} /\ answer[a].move = NullMove

\* "Repeated suite nodes reuse prior good moves": once the wrapper has
\* overridden at a node it plays the same move there ever after, in every
\* instance, across restarts, and although two instances may write the row
\* from one reading of it.
SameMoveForever ==
    [][\A n \in Nodes : played[n] # None => played'[n] = played[n]]_vars

\* Every `go` is answered, also when the subprocess dies under it.
GoAnswered == \A a \in Apps : pc[a] = "ask" ~> pc[a] = "loop"

=============================================================================
