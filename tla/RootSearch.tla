------------------------------ MODULE RootSearch ------------------------------
(***************************************************************************)
(* Worker::iterative_deepening (search.cpp) on the list of root moves: the *)
(* iterations, the MultiPV lines, the aspiration window, the scores that   *)
(* the root node leaves in the list move by move, and a stop at any        *)
(* moment, after which the list still has to give an answer.               *)
(*                                                                         *)
(* The search below the root is external here: the value of a move is any  *)
(* of Values, in any relation to earlier ones.  Module Search has the      *)
(* recursion.                                                              *)
(***************************************************************************)
EXTENDS Integers, Sequences, SequencesExt, FiniteSets

CONSTANTS RootList,        \* root moves in the order rank_root_moves leaves
          Rank,            \* their tbRank
          Values, Inf,     \* scores, and VALUE_INFINITE
          LossAt,          \* greatest score that is_loss
          MultiPV, Delta,  \* the option, and the first aspiration delta
          SkillDepth,      \* 1 + level of a handicapped engine, 0 without handicap
          MaxDepth         \* bound: limits.depth or MAX_PLY

Moves == Range(RootList)
NoMove == "none"

ASSUME RootAssumption ==
    /\ Inf \in Nat /\ Values \subseteq (1 - Inf) .. (Inf - 1)
    /\ RootList \in Seq(Moves) /\ IsInjective(RootList) /\ RootList # <<>>
    /\ Rank \in [Moves -> Int]
    /\ \A i, j \in DOMAIN RootList : i < j => Rank[RootList[i]] >= Rank[RootList[j]]
    /\ {MultiPV, Delta, MaxDepth} \subseteq Nat \ {0} /\ SkillDepth \in Nat
    /\ NoMove \notin Moves

VARIABLES
    phase,        \* "iterate", "line", "window", "moves", "sort", "settle" or "answered"
    rootMoves,    \* sequence of records, the best first
    rootDepth, completedDepth,
    pvIdx, pvFirst, pvLast,
    window,       \* alpha, beta, delta of the aspiration loop
    node,         \* the root node being searched: what is left, best value, alpha
    lastBest,     \* lastBestPV[0] and lastBestScore
    skillBest,
    stop,
    proven        \* history: scores a completed iteration gave to the best move

vars == <<phase, rootMoves, rootDepth, completedDepth, pvIdx, pvFirst, pvLast,
          window, node, lastBest, skillBest, stop, proven>>

Min2(x, y) == IF x < y THEN x ELSE y
Max2(x, y) == IF x > y THEN x ELSE y
IsLoss(v) == v <= LossAt
IsDecisive(v) == IsLoss(v) \/ IsLoss(-v)

Size == Len(rootMoves)
Handicap == SkillDepth > 0
Lines == Min2(IF Handicap THEN Max2(MultiPV, 4) ELSE MultiPV, Size)
RootMove(m) == [move |-> m, score |-> -Inf, previous |-> -Inf, inexact |-> FALSE]
Idle == [left |-> {}, first |-> FALSE, best |-> -Inf, alpha |-> -Inf]

(* RootMove::operator<, and stable_sort of the moves lo .. hi - 1 by it    *)
(* (indices count from 0 in the code).                                     *)
Ahead(r, s) == IF r.score # s.score THEN r.score > s.score ELSE r.previous > s.previous

SortedPart(part) ==
    LET place == [i \in DOMAIN part |->
                    1 + Cardinality({j \in DOMAIN part : Ahead(part[j], part[i])
                                        \/ (j < i /\ ~Ahead(part[i], part[j]))})]
    IN  [k \in DOMAIN part |-> part[CHOOSE i \in DOMAIN part : place[i] = k]]

StableSort(list, lo, hi) ==
    SubSeq(list, 1, lo) \o SortedPart(SubSeq(list, lo + 1, hi)) \o SubSeq(list, hi + 1, Len(list))

MoveToFront(list, m) ==
    LET k == CHOOSE i \in DOMAIN list : list[i].move = m
    IN  [i \in DOMAIN list |-> IF i = 1 THEN list[k] ELSE IF i <= k THEN list[i - 1] ELSE list[i]]

IndexOf(m) == CHOOSE i \in 1 .. Size : rootMoves[i].move = m

Init ==
    /\ phase = "iterate"
    /\ rootMoves = [i \in DOMAIN RootList |-> RootMove(RootList[i])]
    /\ rootDepth = 0 /\ completedDepth = 0
    /\ pvIdx = 0 /\ pvFirst = 0 /\ pvLast = 0
    /\ window = [alpha |-> -Inf, beta |-> Inf, delta |-> Delta]
    /\ node = Idle
    /\ lastBest = [move |-> NoMove, score |-> -Inf]
    /\ skillBest = NoMove
    /\ stop = FALSE
    /\ proven = {}

Iterate ==
    /\ phase = "iterate"
    /\ rootDepth < MaxDepth /\ ~stop
    /\ rootDepth' = rootDepth + 1
    /\ rootMoves' = [i \in 1 .. Size |-> [rootMoves[i] EXCEPT !.previous = rootMoves[i].score]]
    /\ pvIdx' = 0 /\ pvFirst' = 0 /\ pvLast' = 0
    /\ phase' = "line"
    /\ UNCHANGED <<completedDepth, window, node, lastBest, skillBest, stop, proven>>

(* The lines of one tablebase rank are searched among themselves.          *)
EndOfRank(first) ==
    CHOOSE k \in (first + 1) .. Size :
        /\ \A i \in (first + 1) .. k : Rank[rootMoves[i].move] = Rank[rootMoves[first + 1].move]
        /\ k < Size => Rank[rootMoves[k + 1].move] # Rank[rootMoves[first + 1].move]

Opened(avg, delta) ==
    [alpha |-> Max2(avg - delta, -Inf), beta |-> Min2(avg + delta, Inf), delta |-> delta]

(* The running average is some mean of earlier values of the move; before  *)
(* there is one, the mean square it starts from makes the window full.     *)
StartLine ==
    /\ phase = "line" /\ pvIdx < Lines
    /\ IF pvIdx = pvLast
       THEN pvFirst' = pvLast /\ pvLast' = EndOfRank(pvLast)
       ELSE UNCHANGED <<pvFirst, pvLast>>
    /\ \E avg \in Values :
         window' = IF rootDepth = 1 THEN Opened(-Inf, 2 * Inf) ELSE Opened(avg, Delta)
    /\ phase' = "window"
    /\ UNCHANGED <<rootMoves, rootDepth, completedDepth, pvIdx, node, lastBest, skillBest,
                   stop, proven>>

(* search<Root>: all moves of the rank not yet in an earlier line.         *)
SearchRoot ==
    /\ phase = "window"
    /\ node' = [left |-> {rootMoves[i].move : i \in (pvIdx + 1) .. pvLast},
                first |-> TRUE, best |-> -Inf, alpha |-> window.alpha]
    /\ phase' = "moves"
    /\ UNCHANGED <<rootMoves, rootDepth, completedDepth, pvIdx, pvFirst, pvLast, window,
                   lastBest, skillBest, stop, proven>>

Returns(value) == phase' = "sort" /\ node' = [node EXCEPT !.left = {}, !.best = value]

(* ProbCut of the root returns a fail high and scores no root move.        *)
RootProbCut ==
    /\ phase = "moves" /\ node.first
    /\ ~IsDecisive(window.beta)
    /\ \E value \in Values : value >= window.beta /\ Returns(value)
    /\ UNCHANGED <<rootMoves, rootDepth, completedDepth, pvIdx, pvFirst, pvLast, window,
                   lastBest, skillBest, stop, proven>>

Scored(m, value) ==
    IF node.first \/ value > node.alpha
    THEN [rootMoves EXCEPT ![IndexOf(m)].score = value,
                           ![IndexOf(m)].inexact = value >= window.beta \/ value <= node.alpha]
    ELSE [rootMoves EXCEPT ![IndexOf(m)].score = -Inf]

(* Step 20: the first move is that of rootMoves[pvIdx]; a stop leaves the  *)
(* list as it is.                                                          *)
SearchRootMove ==
    /\ phase = "moves" /\ node.left # {} /\ ~stop
    /\ \E m \in IF node.first THEN {rootMoves[pvIdx + 1].move} ELSE node.left, value \in Values :
        /\ rootMoves' = Scored(m, value)
        /\ IF value >= window.beta
           THEN Returns(Max2(node.best, value))
           ELSE /\ node' = [left |-> node.left \ {m}, first |-> FALSE,
                            best |-> Max2(node.best, value), alpha |-> Max2(node.alpha, value)]
                /\ UNCHANGED phase
    /\ UNCHANGED <<rootDepth, completedDepth, pvIdx, pvFirst, pvLast, window, lastBest,
                   skillBest, stop, proven>>

RootDone ==
    /\ phase = "moves" /\ node.left = {} /\ ~stop
    /\ phase' = "sort"
    /\ UNCHANGED <<rootMoves, rootDepth, completedDepth, pvIdx, pvFirst, pvLast, window, node,
                   lastBest, skillBest, stop, proven>>

(* An aborted root node returns VALUE_ZERO.                                *)
RootAborted ==
    /\ phase = "moves" /\ stop
    /\ Returns(0)
    /\ UNCHANGED <<rootMoves, rootDepth, completedDepth, pvIdx, pvFirst, pvLast, window,
                   lastBest, skillBest, stop, proven>>

Constant(delta) == delta
Grown(delta) == delta + delta \div 3

Lowered(w, best) ==
    [alpha |-> Max2(best - w.delta, -Inf), beta |-> w.alpha, delta |-> Grown(w.delta)]
Raised(w, best) ==
    [alpha |-> Max2(w.beta - w.delta, w.alpha), beta |-> Min2(best + w.delta, Inf),
     delta |-> Grown(w.delta)]

FinishLine(sorted) ==
    /\ rootMoves' = StableSort(sorted, pvFirst, pvIdx + 1)
    /\ IF stop \/ pvIdx + 1 = Lines THEN phase' = "settle" /\ UNCHANGED pvIdx
                                    ELSE phase' = "line" /\ pvIdx' = pvIdx + 1
    /\ UNCHANGED window

(* After each search of the root: sort, then widen or go on.               *)
SortAndJudge ==
    /\ phase = "sort"
    /\ LET sorted == StableSort(rootMoves, pvIdx, pvLast)
           again(w) == /\ window' = w /\ phase' = "window"
                       /\ rootMoves' = sorted /\ UNCHANGED pvIdx
       IN  IF stop THEN FinishLine(sorted)
           ELSE IF node.best <= window.alpha THEN again(Lowered(window, node.best))
           ELSE IF node.best >= window.beta THEN again(Raised(window, node.best))
           ELSE FinishLine(sorted)
    /\ node' = Idle
    /\ UNCHANGED <<rootDepth, completedDepth, pvFirst, pvLast, lastBest, skillBest, stop, proven>>

(* An aborted iteration must not leave an unproven loss at the front: the  *)
(* last best move comes back with its score, or the score is inexact.      *)
FrontUnproven(done, front) == done # rootDepth /\ front.score # -Inf /\ IsLoss(front.score)

Unsettled(done, list) == list
Settled(done, list) ==
    IF ~FrontUnproven(done, list[1]) THEN list
    ELSE IF lastBest.move # NoMove
    THEN [MoveToFront(list, lastBest.move) EXCEPT ![1].score = lastBest.score]
    ELSE [list EXCEPT ![1].inexact = TRUE]

(* Skill::pick_best returns one of the first lines.                        *)
Pickable(list) == {list[i].move : i \in 1 .. Lines}

Settle ==
    /\ phase = "settle"
    /\ LET done == IF stop THEN completedDepth ELSE rootDepth
           list == Settled(done, rootMoves)
       IN  /\ completedDepth' = done
           /\ rootMoves' = list
           /\ lastBest' = IF ~FrontUnproven(done, rootMoves[1]) /\ lastBest.move # list[1].move
                          THEN [move |-> list[1].move, score |-> list[1].score] ELSE lastBest
           /\ proven' = IF stop THEN proven ELSE proven \cup {<<list[1].move, list[1].score>>}
           /\ IF rootDepth = SkillDepth THEN skillBest' \in Pickable(list) ELSE UNCHANGED skillBest
    /\ phase' = "iterate"
    /\ UNCHANGED <<rootDepth, pvIdx, pvFirst, pvLast, window, node, stop>>

Swapped(list, m) ==
    LET i == CHOOSE i \in DOMAIN list : list[i].move = m
    IN  [list EXCEPT ![1] = list[i], ![i] = list[1]]

(* The loop ends; the handicap may put another line first.                 *)
Answer ==
    /\ phase = "iterate"
    /\ stop \/ rootDepth = MaxDepth
    /\ phase' = "answered"
    /\ IF ~Handicap THEN UNCHANGED <<rootMoves, skillBest>>
       ELSE \E m \in IF skillBest # NoMove THEN {skillBest} ELSE Pickable(rootMoves) :
              rootMoves' = Swapped(rootMoves, m) /\ skillBest' = m
    /\ UNCHANGED <<rootDepth, completedDepth, pvIdx, pvFirst, pvLast, window, node, lastBest,
                   stop, proven>>

(* check_time, the time manager after an iteration, a found mate, the      *)
(* user; the first iteration is never cut short by the clock, but by the   *)
(* user it may be.                                                         *)
RaiseStop ==
    /\ ~stop /\ phase # "answered"
    /\ stop' = TRUE
    /\ UNCHANGED <<phase, rootMoves, rootDepth, completedDepth, pvIdx, pvFirst, pvLast, window,
                   node, lastBest, skillBest, proven>>

Step == Iterate \/ StartLine \/ SearchRoot \/ RootProbCut \/ SearchRootMove \/ RootDone
        \/ RootAborted \/ SortAndJudge \/ Settle \/ Answer

Next == Step \/ RaiseStop

Spec == Init /\ [][Next]_vars
FairSpec == Spec /\ WF_vars(Step)

(* ---- properties ------------------------------------------------------- *)

(* A loss shown as the score of the best move is one a completed iteration *)
(* gave it, or is marked as inexact.                                       *)
LossIsProven ==
    phase \in {"iterate", "answered"} /\ rootMoves[1].score # -Inf /\ IsLoss(rootMoves[1].score)
        /\ ~(phase = "answered" /\ Handicap)
      => <<rootMoves[1].move, rootMoves[1].score>> \in proven \/ rootMoves[1].inexact

(* However the values of the moves contradict each other, every line gets  *)
(* its score: the aspiration window grows until it holds the value.        *)
LineEnds == phase = "window" ~> phase \in {"settle", "line"}
=============================================================================
