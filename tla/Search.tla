-------------------------------- MODULE Search --------------------------------
(***************************************************************************)
(* The recursion of Worker::search and Worker::qsearch over one position   *)
(* (search.cpp): the frames of the calls with the StateInfo and the pv     *)
(* array each holds, the search stack they share, the chain of positions   *)
(* made and unmade, the accumulators pushed and popped with it, and the    *)
(* stop that may be raised between any two steps.                          *)
(*                                                                         *)
(* A value is abstracted to where it lies in the window of the node that   *)
(* receives it (low: <= alpha, in, high: >= beta) and to whether it can be *)
(* trusted: a search that was cut short returns an arbitrary one.  Depths, *)
(* margins and histories only decide which alternatives are taken, so they *)
(* are choices here; that a move does not end in mate or in a tablebase    *)
(* score is a choice too.                                                  *)
(***************************************************************************)
EXTENDS Integers, Sequences

CONSTANTS Moves,
          PseudoLegal,     \* of the positions at each ply: all moves, and those
          Tactical,        \* that ProbCut and qsearch generate
          NoMove, NullMove,
          MaxPly,          \* MAX_PLY
          VerifyPlies      \* least 3 * (depth - R) / 4 of a verified null move

ASSUME SearchAssumption ==
    /\ PseudoLegal \in [0 .. MaxPly -> SUBSET Moves] /\ PseudoLegal[0] # {}
    /\ Tactical \in [0 .. MaxPly -> SUBSET Moves]
    /\ \A p \in 0 .. MaxPly : Tactical[p] \subseteq PseudoLegal[p]
    /\ MaxPly \in Nat \ {0} /\ VerifyPlies \in Nat \ {0}
    /\ NoMove \notin Moves /\ NullMove \notin Moves /\ NoMove # NullMove

VARIABLES
    stack,       \* live calls of search and qsearch, innermost last
    ret,         \* what the last call returned, until its caller takes it
    pos,         \* moves made on the position, each with the owner of its StateInfo
    acc,         \* accumulatorStack: one element per push
    ss,          \* the search stack, by ply
    nmpMinPly,
    stop,
    effects      \* history: what the last step stored, and which pv it touched

vars == <<stack, ret, pos, acc, ss, nmpMinPly, stop, effects>>

Plies == 0 .. (MaxPly + 1)
Root == "Root"
PV == "PV"
NonPV == "NonPV"
Classes(node) == IF node = NonPV THEN {"low", "high"} ELSE {"low", "in", "high"}
NoValue == [c |-> "none", ok |-> TRUE]

(* A pv array lives in a frame of the stack, 0 being iterative_deepening,  *)
(* and holds the line after some move of that frame.                       *)
NullOwner == -1
Dangling == -2
PvOf(owner, m) == [owner |-> owner, line |-> m]
NullPtr == PvOf(NullOwner, NoMove)

Height == Len(stack)
Top == stack[Height]
IsPv(f) == f.node # NonPV
SetTop(f) == [stack EXCEPT ![Height] = f]

Generated(fn, ply) == IF fn = "search" THEN PseudoLegal[ply] ELSE Tactical[ply]

Frame(fn, node, ply, cut) ==
    [fn |-> fn, node |-> node, ply |-> ply, cut |-> cut, pc |-> "enter",
     excluded |-> NoMove, ttMove |-> NoMove, left |-> Generated(fn, ply), moveCount |-> 0,
     best |-> "none", ok |-> TRUE, move |-> NoMove]

Init ==
    /\ stack = <<>> /\ ret = NoValue
    /\ pos = <<>> /\ acc = <<>>
    /\ ss = [p \in Plies |-> [move |-> NoMove, excluded |-> NoMove,
                              pv |-> IF p = 0 THEN PvOf(0, NoMove) ELSE NullPtr]]
    /\ nmpMinPly = 0
    /\ stop = FALSE
    /\ effects = {}

(* The class of a child's value for its parent, whose window it inverts.   *)
Flip(c) == CASE c = "low" -> "high" [] c = "high" -> "low" [] c = "in" -> "in"

Better(c, d) == IF "high" \in {c, d} THEN "high"
                ELSE IF "in" \in {c, d} THEN "in"
                ELSE IF "low" \in {c, d} THEN "low" ELSE "none"

Stored(site, ok) == [kind |-> "tt", site |-> site, ok |-> ok]
RootScored(ok) == [kind |-> "root", site |-> "root", ok |-> ok]
PvRead(ptr, m) == [kind |-> "pv", site |-> "child", ok |-> ptr \in {NullPtr, PvOf(Height, m)}]
PvFollowed(ptr, m) == [kind |-> "pv", site |-> "root", ok |-> ptr = PvOf(Height, m)]
PvWritten(ptr) == [kind |-> "pv", site |-> "own", ok |-> ptr.owner \in 0 .. (Height - 1)]

(* ---- making and unmaking a move ------------------------------------- *)

Made(m) == Append(pos, [move |-> m, st |-> Height])
Unmade == SubSeq(pos, 1, Len(pos) - 1)
Popped == SubSeq(acc, 1, Len(acc) - 1)

Do(m) ==
    /\ pos' = Made(m)
    /\ acc' = Append(acc, m)

Undo ==
    /\ pos' = Unmade
    /\ acc' = Popped

DoNullPushing == pos' = Made(NullMove) /\ acc' = Append(acc, NullMove)
DoNull == pos' = Made(NullMove) /\ UNCHANGED acc
UndoNull == pos' = Unmade /\ UNCHANGED acc

(* ---- calling and returning ------------------------------------------- *)

Call(caller, callee) ==
    /\ stack' = Append(SetTop(caller), [callee EXCEPT !.excluded = ss'[callee.ply].excluded])
    /\ ret' = NoValue

Go(f) == stack' = SetTop(f) /\ ret' = NoValue

(* The frame goes: what still points into it dangles.                      *)
Leave(v, chain, searchStack) ==
    /\ stack' = SubSeq(stack, 1, Height - 1)
    /\ ret' = v
    /\ pos' = [i \in DOMAIN chain |->
                 IF chain[i].st = Height THEN [chain[i] EXCEPT !.st = Dangling] ELSE chain[i]]
    /\ ss' = [p \in Plies |->
                 IF searchStack[p].pv.owner = Height
                 THEN [searchStack[p] EXCEPT !.pv = PvOf(Dangling, NoMove)]
                 ELSE searchStack[p]]

Return(c, ok) == Leave([c |-> c, ok |-> ok], pos, ss) /\ UNCHANGED <<acc, nmpMinPly>>

Running(fn, pcs) == Height > 0 /\ ret = NoValue /\ Top.fn = fn /\ Top.pc \in pcs
Returned(pc) == Height > 0 /\ ret # NoValue /\ Top.pc = pc

(* ---- entry of a node: Steps 1 to 8 ----------------------------------- *)

(* A stopped search returns at the next node, whatever the value is worth. *)
Aborted ==
    /\ Running("search", {"enter"}) /\ Top.node # Root /\ stop
    /\ \E c \in Classes(Top.node) : Return(c, FALSE)
    /\ effects' = {}

(* Repetition, draw, greatest ply, mate distance: known at once.           *)
Immediate ==
    /\ \E fn \in {"search", "qsearch"} : Running(fn, {"enter"})
    /\ Top.node # Root
    /\ \E c \in Classes(Top.node) : Return(c, TRUE)
    /\ effects' = {}

Enters(fn) ==
    /\ Running(fn, {"enter"})
    /\ Top.node = Root \/ Top.ply < MaxPly
    /\ fn = "search" /\ stop => Top.node = Root

(* A value of the transposition table, or futility of the child node.      *)
Cutoff ==
    /\ \E fn \in {"search", "qsearch"} : Enters(fn)
    /\ ~IsPv(Top)
    /\ \/ Top.excluded = NoMove /\ \E c \in Classes(NonPV) : Return(c, TRUE)
       \/ Top.fn = "search" /\ Return("high", TRUE)
    /\ effects' = {}

TablebaseCutoff ==
    /\ Enters("search") /\ Top.node # Root /\ Top.excluded = NoMove
    /\ \E c \in Classes(Top.node) : Return(c, TRUE)
    /\ effects' = {Stored("tablebase", TRUE)}

Razor ==
    /\ Enters("search") /\ ~IsPv(Top)
    /\ Go(Frame("qsearch", NonPV, Top.ply, FALSE))
    /\ effects' = {}
    /\ UNCHANGED <<pos, acc, ss, nmpMinPly>>

(* In check the early pruning is skipped.                                  *)
Open ==
    /\ Enters("search")
    /\ \E m \in PseudoLegal[Top.ply] \cup {NoMove}, pc \in {"prune", "moves"}, ttHit \in BOOLEAN :
        /\ Top.node = Root => m # NoMove
        /\ ttHit \/ m = NoMove \/ Top.node = Root
        /\ Go([Top EXCEPT !.pc = pc, !.ttMove = m])
        /\ effects' = IF ttHit \/ Top.excluded # NoMove \/ pc = "moves" THEN {}
                      ELSE {Stored("eval", TRUE)}
    /\ UNCHANGED <<pos, acc, ss, nmpMinPly>>

(* ---- Step 9: null move ------------------------------------------------ *)

Children == {"search", "qsearch"}
Next1(f) == f.ply + 1

NullMoveForgetsMinPly(f) == f.cut /\ f.excluded = NoMove
NullMoveAllowed(f) == f.cut /\ f.excluded = NoMove /\ f.ply >= nmpMinPly

TryNullMove ==
    /\ Running("search", {"prune"})
    /\ NullMoveAllowed(Top)
    /\ DoNull
    /\ ss' = [ss EXCEPT ![Top.ply].move = NullMove]
    /\ \E fn \in Children :
         Call([Top EXCEPT !.pc = "null"], Frame(fn, NonPV, Next1(Top), FALSE))
    /\ effects' = {}
    /\ UNCHANGED nmpMinPly

(* A fail high is returned, at high depth after a verification search of   *)
(* the same node, in which no null move is tried for some plies.           *)
NullMoveReturned ==
    /\ Returned("null")
    /\ \/ /\ ret.c = "low"
          /\ Leave([c |-> "high", ok |-> ret.ok], Unmade, ss)
          /\ UNCHANGED <<acc, nmpMinPly>>
       \/ /\ ret.c = "low" /\ nmpMinPly = 0
          /\ UndoNull
          /\ nmpMinPly' = Top.ply + VerifyPlies
          /\ UNCHANGED ss
          /\ Call([Top EXCEPT !.pc = "verify", !.ok = ret.ok],
                  Frame("search", NonPV, Top.ply, FALSE))
       \/ /\ UndoNull
          /\ Go([Top EXCEPT !.pc = "probcut"])
          /\ UNCHANGED <<ss, nmpMinPly>>
    /\ effects' = {}

VerificationReturned ==
    /\ Returned("verify")
    /\ nmpMinPly' = 0
    /\ IF ret.c = "high"
       THEN Leave([c |-> "high", ok |-> Top.ok], pos, ss)
       ELSE Go([Top EXCEPT !.pc = "probcut", !.ok = TRUE]) /\ UNCHANGED <<pos, ss>>
    /\ effects' = {}
    /\ UNCHANGED acc

(* ---- Step 11: ProbCut ------------------------------------------------- *)

ProbCut ==
    /\ Running("search", {"prune", "probcut"})
    /\ \E m \in (Top.left \cap Tactical[Top.ply]) \ {Top.excluded} :
        /\ Do(m)
        /\ ss' = [ss EXCEPT ![Top.ply].move = m]
        /\ Call([Top EXCEPT !.pc = "probcutQ", !.left = @ \ {m}, !.move = m],
                Frame("qsearch", NonPV, Next1(Top), FALSE))
    /\ effects' = {}
    /\ UNCHANGED nmpMinPly

(* The capture held: saved as a lower bound, and returned unless decisive. *)
ProbCutHeld ==
    /\ acc' = Popped
    /\ \/ Leave([c |-> "high", ok |-> ret.ok], Unmade, ss)
       \/ Go([Top EXCEPT !.pc = "probcut", !.move = NoMove]) /\ pos' = Unmade /\ UNCHANGED ss
    /\ effects' = {Stored("probcut", ret.ok)}
    /\ UNCHANGED nmpMinPly

ProbCutReturned ==
    /\ \E pc \in {"probcutQ", "probcutS"} : Returned(pc)
    /\ \/ /\ ret.c = "low" /\ Top.pc = "probcutQ"
          /\ UNCHANGED <<pos, acc, ss, nmpMinPly>>
          /\ Call([Top EXCEPT !.pc = "probcutS"],
                  Frame("search", NonPV, Next1(Top), ~Top.cut))
          /\ effects' = {}
       \/ ret.c = "low" /\ ProbCutHeld
       \/ /\ ret.c = "high"
          /\ Undo
          /\ Go([Top EXCEPT !.pc = "probcut", !.move = NoMove])
          /\ effects' = {}
          /\ UNCHANGED <<ss, nmpMinPly>>

(* ---- Steps 12 to 15: the moves ---------------------------------------- *)

StartMoves ==
    /\ Running("search", {"prune", "probcut"})
    /\ Go([Top EXCEPT !.pc = "moves", !.left = PseudoLegal[Top.ply]])
    /\ effects' = {}
    /\ UNCHANGED <<pos, acc, ss, nmpMinPly>>

SmallProbCut ==
    /\ Running("search", {"moves"}) /\ Top.left = PseudoLegal[Top.ply]
    /\ Return("high", TRUE)
    /\ effects' = {}

(* The move of the table comes first.                                      *)
Pickable(f) == IF f.ttMove \in f.left THEN {f.ttMove} ELSE f.left
Remaining(f, m) == f.left \ {m}
Counted(f, m) == [f EXCEPT !.left = Remaining(f, m), !.moveCount = IF @ = 2 THEN 2 ELSE @ + 1]

(* Excluded, illegal, or at the root not of this line; or pruned, never    *)
(* before some move has kept the side to move from a loss.                 *)
PassOver ==
    /\ \E fn \in Children : Running(fn, {"moves"})
    /\ \E m \in Pickable(Top) :
        \/ /\ Top.node # Root \/ m # Top.ttMove
           /\ Go([Top EXCEPT !.left = @ \ {m}])
        \/ /\ m # Top.excluded /\ Top.node # Root /\ Top.best # "none"
           /\ Go(Counted(Top, m))
    /\ effects' = {}
    /\ UNCHANGED <<pos, acc, ss, nmpMinPly>>

(* Step 16 and the call of the child by Step 17, 18 or the full PV search. *)
ChildOf(f, step, fn, cut) ==
    Call([f EXCEPT !.pc = step], Frame(fn, IF step = "pv" THEN PV ELSE NonPV, Next1(f), cut))

FirstSearch(f) ==
    \/ f.moveCount > 1 /\ ChildOf(f, "lmr", "search", TRUE)
    \/ (~IsPv(f) \/ f.moveCount > 1) /\ \E fn \in Children : ChildOf(f, "full", fn, ~f.cut)
    \/ IsPv(f) /\ f.moveCount = 1 /\ \E fn \in Children : ChildOf(f, "pv", fn, FALSE)

(* A PV node forgets the array of the move before, or lends its own.       *)
ChildPvKept(f, old) == IF IsPv(f) /\ f.moveCount = 1 THEN PvOf(Height, f.move) ELSE old
ChildPv(f, old) ==
    IF ~IsPv(f) THEN old ELSE IF f.moveCount = 1 THEN PvOf(Height, f.move) ELSE NullPtr

MakeMove(f, searchStack) ==
    /\ Do(f.move)
    /\ ss' = [searchStack EXCEPT ![f.ply].move = f.move,
                                 ![Next1(f)].pv = ChildPv(f, @)]
    /\ FirstSearch(f)

PickMove ==
    /\ Running("search", {"moves"})
    /\ \E m \in Pickable(Top) \ {Top.excluded} :
        LET f == [Counted(Top, m) EXCEPT !.move = m]
        IN  \/ MakeMove(f, ss)
            \/ /\ Top.node # Root /\ m = Top.ttMove /\ Top.excluded = NoMove
               /\ ss' = [ss EXCEPT ![Top.ply].excluded = m,
                                   ![Next1(Top)].pv = IF IsPv(Top) THEN NullPtr ELSE @]
               /\ Call([f EXCEPT !.pc = "singular"], Frame("search", NonPV, Top.ply, Top.cut))
               /\ UNCHANGED <<pos, acc>>
    /\ effects' = {}
    /\ UNCHANGED nmpMinPly

Including(f) == [ss EXCEPT ![f.ply].excluded = NoMove]

SingularReturned ==
    /\ Returned("singular")
    /\ \/ MakeMove(Top, Including(Top))
       \/ /\ ret.c = "high"
          /\ Leave(ret, pos, Including(Top))
          /\ UNCHANGED acc
    /\ effects' = {}
    /\ UNCHANGED nmpMinPly

(* ---- Steps 17 to 20: after the child ---------------------------------- *)

AboveAlpha(c) == c \in {"in", "high"}

(* A zero-window search that beats alpha is repeated, at full depth after  *)
(* a reduction, and with the full window in a PV node.                     *)
Research ==
    /\ \E step \in {"lmr", "full"} : Returned(step)
    /\ ret.c = "low"
    /\ \/ /\ Top.pc = "lmr" /\ UNCHANGED ss
          /\ \E fn \in Children : ChildOf(Top, "full", fn, ~Top.cut)
       \/ /\ IsPv(Top)
          /\ ss' = [ss EXCEPT ![Next1(Top)].pv = PvOf(Height, Top.move)]
          /\ \E fn \in Children : ChildOf(Top, "pv", fn, FALSE)
    /\ effects' = {}
    /\ UNCHANGED <<pos, acc, nmpMinPly>>

(* Only an equal value not above alpha may be promoted by inc.             *)
Improves(f, c) == {AboveAlpha(c)} \cup (IF c = "low" /\ f.best = "low" THEN {TRUE} ELSE {})

Scored(f, c, improves) ==
    LET child == ss[Next1(f)].pv
    IN  IF f.node = Root
        THEN {RootScored(ret.ok)}
             \cup (IF f.moveCount = 1 \/ AboveAlpha(c) THEN {PvFollowed(child, f.move)} ELSE {})
        ELSE IF IsPv(f) /\ improves THEN {PvRead(child, f.move), PvWritten(ss[f.ply].pv)}
        ELSE {}

SearchedMove(c) ==
    LET f == [Top EXCEPT !.best = Better(@, c), !.ok = @ /\ ret.ok, !.move = NoMove,
                         !.pc = IF c = "high" THEN "done" ELSE "moves"]
    IN  /\ Undo
        /\ Go(f)
        /\ \E improves \in Improves(Top, c) : effects' = Scored(Top, c, improves)
        /\ UNCHANGED <<ss, nmpMinPly>>

InterruptedBelowRoot(f) == stop /\ f.node # Root
Interrupted(f) == stop

MoveReturned ==
    /\ \E step \in {"lmr", "full", "pv"} : Returned(step)
    /\ Top.pc = "pv" \/ ~IsPv(Top) \/ ret.c = "high"
    /\ IF Interrupted(Top)
       THEN /\ \E c \in Classes(Top.node) : Leave([c |-> c, ok |-> FALSE], Unmade, ss)
            /\ acc' = Popped
            /\ effects' = {}
            /\ UNCHANGED nmpMinPly
       ELSE SearchedMove(Flip(ret.c))

(* Step 21 and the final save, which an excluded move or a later PV line   *)
(* of the root suppresses.                                                 *)
Finish ==
    /\ Running("search", {"moves", "done"})
    /\ Top.pc = "moves" => Top.left = {}
    /\ Top.node = Root => Top.moveCount > 0
    /\ \E c \in Classes(Top.node) :
        /\ Top.moveCount > 0 => c = Top.best
        /\ Top.moveCount = 0 /\ Top.excluded # NoMove => c = "low"
        /\ Return(c, Top.ok)
    /\ \E saved \in BOOLEAN :
        /\ Top.excluded # NoMove => ~saved
        /\ Top.excluded = NoMove /\ Top.node # Root => saved
        /\ effects' = IF saved THEN {Stored("node", Top.ok)} ELSE {}

(* ---- qsearch ---------------------------------------------------------- *)

StandPat ==
    /\ Enters("qsearch")
    /\ Return("high", TRUE)
    /\ \E ttHit \in BOOLEAN :
        effects' = (IF ttHit THEN {} ELSE {Stored("standpat", TRUE)})
                   \cup (IF IsPv(Top) THEN {PvWritten(ss[Top.ply].pv)} ELSE {})

QOpen ==
    /\ Enters("qsearch")
    /\ \E m \in PseudoLegal[Top.ply] \cup {NoMove}, best \in {"none", "low", "in"} \ (IF IsPv(Top) THEN {} ELSE {"in"}) :
        Go([Top EXCEPT !.pc = "moves", !.ttMove = m, !.best = best])
    /\ ss' = [ss EXCEPT ![Next1(Top)].pv = IF IsPv(Top) THEN PvOf(Height, NoMove) ELSE @]
    /\ effects' = IF IsPv(Top) THEN {PvWritten(ss[Top.ply].pv)} ELSE {}
    /\ UNCHANGED <<pos, acc, nmpMinPly>>

QMove ==
    /\ Running("qsearch", {"moves"})
    /\ \E m \in Pickable(Top) :
        /\ Do(m)
        /\ ss' = [ss EXCEPT ![Top.ply].move = m,
                            ![Next1(Top)].pv.line = IF IsPv(Top) THEN m ELSE @]
        /\ Call([Counted(Top, m) EXCEPT !.pc = "q", !.move = m],
                Frame("qsearch", Top.node, Next1(Top), FALSE))
    /\ effects' = {}
    /\ UNCHANGED nmpMinPly

QMoveReturned ==
    /\ Returned("q")
    /\ LET c == Flip(ret.c)
       IN  /\ Go([Top EXCEPT !.pc = IF c = "high" THEN "done" ELSE "moves",
                             !.best = Better(@, c), !.ok = @ /\ ret.ok, !.move = NoMove])
           /\ effects' = IF IsPv(Top) /\ AboveAlpha(c)
                         THEN {PvRead(ss[Next1(Top)].pv, Top.move), PvWritten(ss[Top.ply].pv)} ELSE {}
    /\ Undo
    /\ UNCHANGED <<ss, nmpMinPly>>

(* Mate of a side in check is not saved.                                   *)
QFinish ==
    /\ Running("qsearch", {"moves", "done"})
    /\ Top.pc = "moves" => Top.left = {}
    /\ IF Top.best = "none"
       THEN (\E c \in Classes(Top.node) : Return(c, TRUE)) /\ effects' = {}
       ELSE Return(Top.best, Top.ok) /\ effects' = {Stored("qnode", Top.ok)}

(* ---- the caller and the environment ---------------------------------- *)

(* iterative_deepening searches the root again unless stopped; a stopped   *)
(* one ends, and the next `go` starts from reset flags.                    *)
CallRoot ==
    /\ Height = 0
    /\ stack' = <<Frame("search", Root, 0, FALSE)>>
    /\ ret' = NoValue
    /\ stop' = FALSE
    /\ nmpMinPly' = IF stop THEN 0 ELSE nmpMinPly
    /\ effects' = {}
    /\ UNCHANGED <<pos, acc, ss>>

(* The clock, the node budget or the user, at any moment.                  *)
RaiseStop ==
    /\ Height > 0 /\ ~stop
    /\ stop' = TRUE
    /\ UNCHANGED <<stack, ret, pos, acc, ss, nmpMinPly, effects>>

Step ==
    /\ \/ Aborted \/ Immediate \/ Cutoff \/ TablebaseCutoff \/ Razor \/ Open
       \/ TryNullMove \/ NullMoveReturned \/ VerificationReturned
       \/ ProbCut \/ ProbCutReturned \/ StartMoves \/ SmallProbCut
       \/ PassOver \/ PickMove \/ SingularReturned \/ Research \/ MoveReturned \/ Finish
       \/ StandPat \/ QOpen \/ QMove \/ QMoveReturned \/ QFinish
    /\ UNCHANGED stop

Next == CallRoot \/ Step \/ RaiseStop

Spec == Init /\ [][Next]_vars

(* ---- properties ------------------------------------------------------- *)

Between == {"enter", "prune", "probcut", "moves", "done", "verify", "singular"}
NotNull(e) == e.move # NullMove

(* One accumulator for each move that moves pieces, in their order.        *)
PushedInOrder ==
    \E at \in [DOMAIN acc -> DOMAIN pos] :
        /\ \A i \in DOMAIN acc : NotNull(pos[at[i]]) /\ acc[i] = pos[at[i]].move
        /\ \A i, j \in DOMAIN acc : i < j => at[i] < at[j]
        /\ \A k \in DOMAIN pos : NotNull(pos[k]) => \E i \in DOMAIN acc : at[i] = k

(* On every path through a node, cut short or not, the position is back at *)
(* the node's own ply when the node reads it: the moves made are those the *)
(* search stack says lead here, the accumulators are of just those that    *)
(* move pieces, and each StateInfo of the chain is in a frame that still   *)
(* lives and holds no other.                                               *)
PositionIsOfNode ==
    /\ Height > 0 /\ Top.pc \in Between => Len(pos) = Top.ply
    /\ Height = 0 => pos = <<>>
    /\ \A i \in DOMAIN pos : pos[i].st \in 1 .. Height
    /\ \A i, j \in DOMAIN pos : i < j => pos[i].st < pos[j].st
    /\ \A i \in DOMAIN pos : ss[i - 1].move = pos[i].move
    /\ PushedInOrder

(* update_pv and the root only follow the line of the move they score, and *)
(* write only arrays of frames that still live, whichever searches of the  *)
(* same node and of the moves before came in between.                      *)
PvArraysLive == \A e \in effects : e.kind = "pv" => e.ok

(* Two null moves never follow one another, and no null move is tried in   *)
(* the plies a verification search forbids it, nor is one verified within. *)
NullMovesApart ==
    /\ \A i \in 1 .. (Len(pos) - 1) : pos[i].move = NullMove => pos[i + 1].move # NullMove
    /\ \A i, j \in DOMAIN stack :
         i < j /\ stack[i].pc = "verify" =>
           /\ stack[j].pc # "verify"
           /\ stack[j].pc = "null" => stack[j].ply >= stack[i].ply + VerifyPlies

(* "If a stop occurred, the return value of the search cannot be trusted": *)
(* no score of a root move, and outside ProbCut no entry of the table, is  *)
(* derived from a search that was cut short.                               *)
OnlyFinishedSearchesCount ==
    \A e \in effects : e.kind \in {"tt", "root"} /\ e.site # "probcut" => e.ok
=============================================================================
