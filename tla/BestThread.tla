------------------------------ MODULE BestThread ------------------------------
(***************************************************************************)
(* ThreadPool::get_best_thread (thread.cpp): after a search on N threads   *)
(* the main thread picks the one whose bestmove is sent.  Three loops over *)
(* the threads: the least score, the votes of the moves, the choice.       *)
(* Thread 1 is the main thread; rm[t] is what the search has left in       *)
(* rootMoves[0] of thread t and its completed depth.                       *)
(***************************************************************************)
EXTENDS Integers, FiniteSetsExt

CONSTANTS N,               \* number of threads
          Moves,
          Results,         \* what searches may leave
          WinScore,        \* VALUE_TB_WIN_IN_MAX_PLY
          Infinity,        \* VALUE_INFINITE
          NoValue          \* VALUE_NONE

Result == [score : -Infinity .. Infinity,
           bound : BOOLEAN,          \* scoreLowerbound or scoreUpperbound
           depth : Nat,              \* completedDepth
           move : Moves,             \* pv[0]
           full : BOOLEAN]           \* pv.size() > 2

ASSUME BestThreadAssumption ==
    /\ N \in Nat \ {0} /\ Results \subseteq Result
    /\ WinScore \in Nat \ {0} /\ Infinity \in Nat /\ NoValue \in Nat
    /\ WinScore < Infinity /\ Infinity < NoValue

Threads == 1 .. N

VARIABLES phase,    \* the loop: "min", "vote", "pick", then "done"
          i,        \* the thread it has come to
          rm, minScore, votes,
          best      \* bestThread

vars == <<phase, i, rm, minScore, votes, best>>

Init ==
    /\ phase = "min" /\ i = 1
    /\ rm \in [Threads -> Results]
    /\ minScore = NoValue
    /\ votes = [m \in Moves |-> 0]
    /\ best = 1

-----------------------------------------------------------------------------
IsWin(t) == rm[t].score >= WinScore
IsLoss(t) == rm[t].score <= -WinScore

\* Aborted searches may leave inexact win scores; loss scores are inexact
\* only for threads that have not finished an iteration, or bounds.
ProvenWin(t) == IsWin(t) /\ ~rm[t].bound
ProvenLoss(t) == rm[t].score # -Infinity /\ IsLoss(t) /\ ~rm[t].bound

VotingValue(t) == (rm[t].score - minScore + 14) * rm[t].depth

\* What decides between equal votes: nothing, if the line is truncated.
Weight(t) == IF rm[t].full THEN VotingValue(t) ELSE 0

Vote(t) == votes[rm[t].move]

\* The loop goes on to the next thread, or to what comes after it.
Advance(next) ==
    IF i = N THEN phase' = next /\ i' = 1 ELSE phase' = phase /\ i' = i + 1

FindMin ==
    /\ phase = "min"
    /\ minScore' = IF rm[i].score < minScore THEN rm[i].score ELSE minScore
    /\ Advance("vote")
    /\ UNCHANGED <<rm, votes, best>>

TakeVote(sum) ==
    /\ phase = "vote"
    /\ votes' = [votes EXCEPT ![rm[i].move] = sum]
    /\ Advance("pick")
    /\ UNCHANGED <<rm, minScore, best>>

CountVote == TakeVote(votes[rm[i].move] + VotingValue(i))

OutVotes(t) == Vote(t) > Vote(best) \/ (Vote(t) = Vote(best) /\ Weight(t) > Weight(best))

\* A thread takes the place of the best one so far.  The mutants: the
\* longest line to a loss is kept; the threads' own values decide.
BetterIfLonger(t) ==
    IF ProvenWin(best) THEN ProvenWin(t) /\ rm[t].score > rm[best].score
    ELSE IF ProvenLoss(best) THEN ProvenLoss(t) /\ rm[t].score > rm[best].score
    ELSE ProvenWin(t) \/ ProvenLoss(t) \/ (~IsLoss(t) /\ OutVotes(t))

BetterByWeight(t) ==
    IF ProvenWin(best) THEN ProvenWin(t) /\ rm[t].score > rm[best].score
    ELSE IF ProvenLoss(best) THEN ProvenLoss(t) /\ rm[t].score < rm[best].score
    ELSE ProvenWin(t) \/ ProvenLoss(t) \/ (~IsLoss(t) /\ Weight(t) > Weight(best))

Better(t) ==
    IF ProvenWin(best) THEN ProvenWin(t) /\ rm[t].score > rm[best].score
    ELSE IF ProvenLoss(best) THEN ProvenLoss(t) /\ rm[t].score < rm[best].score
    ELSE ProvenWin(t) \/ ProvenLoss(t) \/ (~IsLoss(t) /\ OutVotes(t))

Pick ==
    /\ phase = "pick"
    /\ best' = IF Better(i) THEN i ELSE best
    /\ Advance("done")
    /\ UNCHANGED <<rm, minScore, votes>>

\* bestThread has been returned.
Returned == phase = "done" /\ UNCHANGED vars

Next == FindMin \/ CountVote \/ Pick \/ Returned

Spec == Init /\ [][Next]_vars

-----------------------------------------------------------------------------
(* Properties.                                                             *)

\* Types of the loops' variables.
TypeOK ==
    /\ phase \in {"min", "vote", "pick", "done"} /\ i \in Threads
    /\ rm \in [Threads -> Results]
    /\ minScore \in Int /\ votes \in [Moves -> Int]
    /\ best \in Threads

SomeWin == \E t \in Threads : ProvenWin(t)
SomeLoss == \E t \in Threads : ProvenLoss(t)

\* "Make sure we pick the shortest mate": with a proven win among the threads
\* (and no proven loss, which a sound search does not give at the same time)
\* the choice is a proven win of the highest score.
ShortestMate ==
    phase = "done" /\ SomeWin /\ ~SomeLoss =>
        /\ ProvenWin(best)
        /\ \A t \in Threads : ProvenWin(t) => rm[t].score <= rm[best].score

\* "Make sure we pick the shortest mated": the same of a proven loss.
ShortestMated ==
    phase = "done" /\ SomeLoss /\ ~SomeWin =>
        /\ ProvenLoss(best)
        /\ \A t \in Threads : ProvenLoss(t) => rm[best].score <= rm[t].score

\* With nothing proven, no thread that is not losing has a move with more
\* votes than the choice, whatever the order the threads are looked at.
MostVoted ==
    phase = "done" /\ ~SomeWin /\ ~SomeLoss =>
        \A t \in Threads : ~IsLoss(t) => Vote(t) <= Vote(best)

\* "We make sure not to pick a thread with truncated principal variation":
\* with nothing proven, it is picked only if all threads with as many votes,
\* and a completed iteration, have truncated ones or are losing.
FullLinePreferred ==
    phase = "done" /\ ~SomeWin /\ ~SomeLoss /\ ~rm[best].full =>
        \A t \in Threads :
            ~IsLoss(t) /\ Vote(t) = Vote(best) /\ rm[t].depth > 0 => ~rm[t].full

\* A helper with a losing score that is not proven is never picked: an
\* aborted search must not replace the main thread's move.
NoAbortedLoss ==
    best # 1 /\ IsLoss(best) => ProvenLoss(best)
=============================================================================
