---------------------------- MODULE MCCounterLine ----------------------------
(* CounterLine with seed lines of two moves, the plan scores that           *)
(* plan_score.py gives at the real exits, and one reply to every move.      *)
EXTENDS CounterLine, TLC

CONSTANT a1              \* the instance that may be alone
VARIABLE company         \* whether the others run too

Edges == [
    start  |-> [d4 |-> "afterD4", e4 |-> "blackExit"],
    afterD4 |-> [d5 |-> "whiteExit", c5 |-> "off"],
    whiteExit |-> [re1 |-> "re1", f3 |-> "f3", a3 |-> "a3", h3 |-> "h3"],
    blackExit |-> [bf6 |-> "bf6", be6 |-> "be6", dxc4 |-> "dxc4"],
    off |-> [dxc5 |-> "mate"],
    re1 |-> [nh5 |-> "mate"], f3 |-> [ng6 |-> "mate"], a3 |-> [nh5 |-> "mate"],
    h3 |-> [ng6 |-> "mate"],
    bf6 |-> [qc2 |-> "mate"], be6 |-> [qb3 |-> "mate"], dxc4 |-> [bxc4 |-> "mate"],
    mate |-> <<>>]

AllNodes == DOMAIN Edges
WhiteToMove == {"start", "whiteExit", "off", "bf6", "be6", "dxc4"}
WhiteBook == <<"d4", "d5">>
BlackBook == <<"e4">>
LegalMoves == [n \in AllNodes |-> DOMAIN Edges[n]]

Keys == [n \in AllNodes |-> n]

AllMoves == UNION {DOMAIN Edges[n] : n \in AllNodes}
Strings == <<"a3", "be6", "d4", "d5", "c5", "dxc5", "dxc4", "bxc4", "e4", "bf6", "re1", "f3", "h3",
             "nh5", "ng6", "qc2", "qb3">>
Ranks == [m \in AllMoves |-> CHOOSE i \in DOMAIN Strings : Strings[i] = m]

\* score_move: 10 and 4 for the move, 18 and 6 for the pieces in place.
QgdScore == [re1 |-> 32, f3 |-> 28, a3 |-> 28]
PetroffScore == [bf6 |-> 20, be6 |-> 20, dxc4 |-> 16]
Plans == [f \in {"qgd", "petroff"} |-> [n \in AllNodes |-> [m \in DOMAIN Edges[n] |->
    IF f = "qgd" THEN IF m \in DOMAIN QgdScore THEN QgdScore[m] ELSE 18
    ELSE IF m \in DOMAIN PetroffScore THEN PetroffScore[m] ELSE 6]]]

\* populate_repertoire_db.py
Seeds ==
    LET row(n, f, m, s) == <<n, f, m>> :> [score |-> s, visits |-> 1]
    IN  row("whiteExit", "qgd", "f3", 18) @@ row("whiteExit", "qgd", "a3", 12)
          @@ row("blackExit", "petroff", "be6", 18) @@ row("blackExit", "petroff", "dxc4", 12)

Game(root, line) == [root |-> root, line |-> line]

\* Games from the start position: in the book, at its ends, past one, off it.
Lines == {Game("start", <<"d4">>), Game("start", <<"d4", "d5">>), Game("start", <<"e4">>),
          Game("start", <<"d4", "c5">>), Game("start", <<"d4", "c5", "dxc5">>)}
FenGame == {Game("re1", <<>>)}

\* One instance in all the games, or all of them where they meet, at an exit,
\* with no stop from their GUIs.
MeetingPlace == {StartGame, Game("start", <<"d4", "d5">>)}
MCInit == Init /\ company \in BOOLEAN
MCNext ==
    /\ IF company
       THEN Next /\ stops' = stops /\ \A a \in Apps : board'[a] \in MeetingPlace
       ELSE Turn(a1)
    /\ UNCHANGED company
MCSpec == MCInit /\ [][MCNext]_<<vars, company>> /\ Fairness
=============================================================================
