----------------------------- MODULE SearchProofs -----------------------------
(***************************************************************************)
(* Proofs about Search, for any tree of moves, any MAX_PLY and any number  *)
(* of plies a verified null move forbids the next one: whatever nests in   *)
(* whatever and wherever the stop comes, the position, the accumulators,   *)
(* the pv arrays and the scores a node uses are its own.                   *)
(*                                                                         *)
(* Every step of a call does one of three things to the frames: the node   *)
(* goes on, descends into a child, or leaves; that is shown of each action *)
(* once, and the invariant is shown of the three.                          *)
(*                                                                         *)
(* And about the table that the nodes share, TranspositionTable.           *)
(***************************************************************************)
EXTENDS Search, TranspositionTable, SequenceTheorems, NaturalsInduction,
        WellFoundedInduction, TLAPS

\* A frame that waits for a child has its move made, or waits for another
\* search of its own position.
Moving == {"null", "probcutQ", "probcutS", "lmr", "full", "pv", "q"}
Calls == Moving \cup {"verify", "singular"}
AtNode == {"enter", "prune", "probcut", "moves", "done"}
Quiet == {"enter", "moves", "q", "done"}

AnyMove == Moves \cup {NoMove}
FrameType ==
    [fn : Children, node : {Root, PV, NonPV}, ply : 0 .. MaxPly, cut : BOOLEAN,
     pc : Calls \cup AtNode, excluded : AnyMove, ttMove : AnyMove, left : SUBSET Moves,
     moveCount : 0 .. 2, best : {"none", "low", "in", "high"}, ok : BOOLEAN, move : AnyMove]
MadeType == [move : Moves \cup {NullMove}, st : Int]
EntryType == [move : AnyMove \cup {NullMove}, excluded : AnyMove, pv : [owner : Int, line : AnyMove]]

TypeInv ==
    /\ stack \in Seq(FrameType)
    /\ ret \in {NoValue} \cup [c : {"low", "in", "high"}, ok : BOOLEAN]
    /\ pos \in Seq(MadeType) /\ acc \in Seq(Moves)
    /\ ss \in [Plies -> EntryType]
    /\ nmpMinPly \in Nat /\ stop \in BOOLEAN

\* The move a waiting frame has made, and by how much its child is deeper.
Mover(f) == IF f.pc = "null" THEN NullMove ELSE f.move
Deeper(f) == IF f.pc \in Moving THEN 1 ELSE 0

\* The frames lie on one path: all but the innermost wait, and each is as
\* deep as the moves made before it.
FrameOk(f) ==
    /\ f.pc # "enter" => f.ply < MaxPly
    /\ f.node = Root => f.ply = 0 /\ f.fn = "search"
    /\ f.fn = "qsearch" => f.pc \in Quiet
    /\ f.pc = "q" => f.fn = "qsearch"
    /\ f.pc = "null" => f.cut
    /\ f.pc \in Calls \ {"null", "verify"} => f.move \in Moves

Path ==
    /\ Height > 0 => stack[1].ply = 0
    /\ \A i \in 1 .. Height : FrameOk(stack[i])
    /\ \A i \in 1 .. (Height - 1) :
          /\ stack[i].pc \in Calls
          /\ stack[i + 1].ply = stack[i].ply + Deeper(stack[i])
    /\ \A i, j \in 1 .. Height : i < j =>
          stack[i].ply + Deeper(stack[i]) <= stack[j].ply

\* The chain of positions is that of the frames that have made a move.
Chain ==
    /\ Len(pos) = IF Height = 0 THEN 0 ELSE Top.ply + Deeper(Top)
    /\ \A i \in 1 .. Height : stack[i].pc \in Moving => pos[stack[i].ply + 1].st = i
    /\ \A k \in 1 .. Len(pos) :
          /\ pos[k].st \in 1 .. Height
          /\ stack[pos[k].st].pc \in Moving
          /\ stack[pos[k].st].ply = k - 1
          /\ pos[k].move = Mover(stack[pos[k].st])
          /\ pos[k].move = ss[k - 1].move

\* What the pv pointer below frame f, the i-th, has to be.
PvLent(f, ptr, i) ==
    /\ f.pc = "pv" => ptr = PvOf(i, f.move)
    /\ IsPv(f) /\ f.pc \in {"lmr", "full"} => ptr = NullPtr /\ f.moveCount = 2
    /\ IsPv(f) /\ f.pc = "q" => ptr = PvOf(i, f.move)
    /\ IsPv(f) /\ f.fn = "qsearch" /\ f.pc # "enter" => ptr.owner = i

\* Whose array a pv pointer refers to while its owner can be asked for it.
PvHeld ==
    /\ ss[0].pv.owner = 0
    /\ \A i \in 1 .. Height : IsPv(stack[i]) => ss[stack[i].ply].pv.owner \in 0 .. (i - 1)
    /\ \A i \in 1 .. Height :
          stack[i].ply < MaxPly => PvLent(stack[i], ss[Next1(stack[i])].pv, i)

\* Null moves: no child of one tries the next, and a verified one is alone.
NullOnce ==
    /\ \A i, j \in 1 .. Height :
          i < j /\ stack[i].pc = "null" /\ stack[j].ply = stack[i].ply + 1 => ~stack[j].cut
    /\ \A i \in 1 .. Height :
          stack[i].pc = "verify" => nmpMinPly = stack[i].ply + VerifyPlies
    /\ \A i, j \in 1 .. Height : i < j /\ stack[i].pc = "verify" =>
          /\ stack[j].pc # "verify"
          /\ stack[j].pc = "null" => stack[j].ply >= stack[i].ply + VerifyPlies

\* A value that cannot be trusted comes with the stop, and from no qsearch.
Trusted ==
    /\ ~ret.ok => stop
    /\ \A i \in 1 .. Height : ~stack[i].ok => stack[i].pc = "verify" /\ stop
    /\ \A i \in 1 .. (Height - 1) : stack[i].pc = "q" => stack[i + 1].fn = "qsearch"
    /\ Height > 0 /\ ret # NoValue /\ Top.pc = "q" => ret.ok

IInv ==
    /\ Path
    /\ Chain
    /\ PushedInOrder
    /\ PvHeld
    /\ NullOnce
    /\ Trusted

-----------------------------------------------------------------------------
(* What a step does to the frames.                                         *)

Going == stack'[Height]     \* the frame of the node after the step
Child == stack'[Height + 1]

Below == \A i \in 1 .. (Height - 1) : stack'[i] = stack[i]
PvKept(p) == ss'[p].pv = ss[p].pv
MoveKept(p) == ss'[p].move = ss[p].move

\* The move of the frame, if it has made one, is taken back.
Settled ==
    IF Top.pc \in Moving
    THEN /\ pos' = Unmade
         /\ acc' = IF Top.pc = "null" THEN acc ELSE Popped
    ELSE pos' = pos /\ acc' = acc

\* A verification ends with its search.
Unverified == nmpMinPly' = IF Top.pc = "verify" THEN 0 ELSE nmpMinPly

GoesOn ==
    /\ Height > 0 /\ stack' \in Seq(FrameType) /\ Len(stack') = Height /\ Below
    /\ Going.pc \in AtNode /\ FrameOk(Going)
    /\ Going.ply = Top.ply /\ Going.node = Top.node /\ Going.ok
    /\ Going.cut => Top.cut
    /\ Top.fn = "qsearch" => Going.fn = "qsearch"
    /\ ret' = NoValue /\ Settled /\ Unverified
    /\ ss' \in [Plies -> EntryType]
    /\ \A p \in Plies : MoveKept(p) /\ (PvKept(p) \/ (Top.ply < MaxPly /\ p = Next1(Top)))
    /\ Top.ply < MaxPly => PvLent(Going, ss'[Next1(Top)].pv, Height)

\* The frame becomes f: whether it makes a move, changes none or takes one back.
MakesMove(f) ==
    IF f.pc \notin Moving THEN Settled /\ MoveKept(Top.ply)
    ELSE IF Top.pc \in Moving
         THEN /\ pos' = pos /\ acc' = acc /\ MoveKept(Top.ply)
              /\ Mover(f) = Mover(Top) /\ f.pc # "null"
         ELSE /\ pos' = Made(Mover(f))
              /\ acc' = IF f.pc = "null" THEN acc ELSE Append(acc, f.move)
              /\ ss'[Top.ply].move = Mover(f)
              /\ Mover(f) \in Moves \cup {NullMove}
              /\ f.pc # "null" => f.move \in Moves

Descends ==
    /\ Height > 0 /\ stack' \in Seq(FrameType) /\ Len(stack') = Height + 1 /\ Below
    /\ Going.pc \in Calls /\ FrameOk(Going)
    /\ Going.ply = Top.ply /\ Going.node = Top.node /\ Going.cut = Top.cut
    /\ Going.fn = Top.fn
    /\ Going.ok \/ (Going.pc = "verify" /\ stop)
    /\ Child.pc = "enter" /\ Child.ok
    /\ Child.ply = Top.ply + Deeper(Going)
    /\ Child.node # Root
    /\ Child.cut => Going.pc # "null" /\ (Child.ply = Top.ply => Top.cut)
    /\ Going.pc = "q" => Child.fn = "qsearch"
    /\ ret' = NoValue
    /\ MakesMove(Going)
    /\ ss' \in [Plies -> EntryType]
    /\ \A p \in Plies : /\ p # Top.ply => MoveKept(p)
                        /\ p # Next1(Top) => PvKept(p)
    /\ PvLent(Going, ss'[Next1(Top)].pv, Height)
    /\ IsPv(Child) => Child.ply = Next1(Top) /\ ss'[Next1(Top)].pv.owner = Height
    /\ Top.pc # "verify"
    /\ Going.pc = "null" => Top.ply >= nmpMinPly
    /\ IF Going.pc = "verify"
       THEN nmpMinPly = 0 /\ nmpMinPly' = Top.ply + VerifyPlies
       ELSE nmpMinPly' = nmpMinPly

Forgotten(chain) ==
    [i \in DOMAIN chain |->
        IF chain[i].st = Height THEN [chain[i] EXCEPT !.st = Dangling] ELSE chain[i]]

Leaves ==
    /\ Height > 0 /\ stack' \in Seq(FrameType) /\ Len(stack') = Height - 1 /\ Below
    /\ ret' \in [c : {"low", "in", "high"}, ok : BOOLEAN]
    /\ ~ret'.ok => stop /\ Top.fn = "search"
    /\ IF Top.pc \in Moving
       THEN pos' = Forgotten(Unmade) /\ acc' = (IF Top.pc = "null" THEN acc ELSE Popped)
       ELSE pos' = Forgotten(pos) /\ acc' = acc
    /\ ss' \in [Plies -> EntryType]
    /\ \A p \in Plies : MoveKept(p) /\ (PvKept(p) \/ ss[p].pv.owner = Height)
    /\ Unverified

Threefold == GoesOn \/ Descends \/ Leaves

-----------------------------------------------------------------------------
(* The stack and the chain, element by element.                            *)

LEMMA Sizes ==
    ASSUME TypeInv
    PROVE  /\ Height \in Nat /\ Len(pos) \in Nat /\ Len(acc) \in Nat
           /\ \A i \in 1 .. Height : stack[i] \in FrameType
           /\ \A k \in 1 .. Len(pos) : pos[k] \in MadeType
           /\ DOMAIN pos = 1 .. Len(pos)
           /\ DOMAIN acc = 1 .. Len(acc)
  BY DEF TypeInv, Height

LEMMA SizesAfter ==
    ASSUME TypeInv'
    PROVE  DOMAIN pos' = 1 .. Len(pos') /\ DOMAIN acc' = 1 .. Len(acc')
  BY DEF TypeInv

LEMMA MaxPlyNat == MaxPly \in Nat /\ MaxPly > 0 /\ VerifyPlies \in Nat /\ VerifyPlies > 0
  BY SearchAssumption DEF SearchAssumption

\* What holds of the innermost frame of a search.
LEMMA TopParts ==
    ASSUME TypeInv, Path, Trusted, PvHeld, Height > 0
    PROVE  /\ Top \in FrameType /\ FrameOk(Top)
           /\ ~Top.ok => Top.pc = "verify" /\ stop
           /\ Top.ply < MaxPly => PvLent(Top, ss[Next1(Top)].pv, Height)
           /\ IsPv(Top) => ss[Top.ply].pv.owner \in 0 .. (Height - 1)
  BY Sizes DEF Path, Trusted, PvHeld, Top

LEMMA GoStep ==
    ASSUME TypeInv, Height > 0, NEW f \in FrameType, Go(f)
    PROVE  /\ stack' \in Seq(FrameType) /\ Len(stack') = Height /\ Below
           /\ Going = f /\ ret' = NoValue
  <1>1. Height \in Nat /\ stack \in Seq(FrameType)
    BY Sizes DEF TypeInv
  <1> QED
    BY <1>1 DEF Go, SetTop, Below, Going, Height

LEMMA CallStep ==
    ASSUME TypeInv, Height > 0, NEW caller \in FrameType, NEW callee \in FrameType,
           ss' \in [Plies -> EntryType], Call(caller, callee)
    PROVE  /\ stack' \in Seq(FrameType) /\ Len(stack') = Height + 1 /\ Below
           /\ Going = caller /\ ret' = NoValue
           /\ Child = [callee EXCEPT !.excluded = ss'[callee.ply].excluded]
  <1>1. Height \in Nat /\ stack \in Seq(FrameType)
    BY Sizes DEF TypeInv
  <1>2. callee.ply \in Plies
    BY MaxPlyNat DEF FrameType, Plies
  <1> DEFINE child == [callee EXCEPT !.excluded = ss'[callee.ply].excluded]
  <1>3. ss'[callee.ply].excluded \in AnyMove
    BY <1>2 DEF EntryType
  <1>4. child \in FrameType
    BY <1>3 DEF FrameType
  <1>5. stack' = Append(SetTop(caller), child)
    BY DEF Call
  <1>6. SetTop(caller) \in Seq(FrameType) /\ Len(SetTop(caller)) = Height
    BY <1>1 DEF SetTop, Height
  <1>7. \A i \in 1 .. Height : SetTop(caller)[i] = IF i = Height THEN caller ELSE stack[i]
    BY <1>1 DEF SetTop, Height
  <1> HIDE DEF child
  <1>8. stack' \in Seq(FrameType) /\ Len(stack') = Height + 1 /\ stack'[Height + 1] = child
    BY <1>1, <1>4, <1>5, <1>6
  <1>9. \A i \in 1 .. Height : stack'[i] = SetTop(caller)[i]
    BY <1>1, <1>4, <1>5, <1>6
  <1>10. Below /\ Going = caller
    BY <1>1, <1>7, <1>9 DEF Below, Going
  <1>11. ret' = NoValue
    BY DEF Call
  <1> QED
    BY <1>8, <1>10, <1>11 DEF Child, child

LEMMA LeaveStep ==
    ASSUME TypeInv, Height > 0, NEW v, NEW chain \in Seq(MadeType),
           NEW searchStack \in [Plies -> EntryType], Leave(v, chain, searchStack)
    PROVE  /\ stack' \in Seq(FrameType) /\ Len(stack') = Height - 1 /\ Below
           /\ ret' = v /\ pos' = Forgotten(chain)
           /\ ss' \in [Plies -> EntryType]
           /\ \A p \in Plies :
                /\ ss'[p].move = searchStack[p].move
                /\ ss'[p].pv = searchStack[p].pv \/ searchStack[p].pv.owner = Height
  <1>1. Height \in Nat /\ stack \in Seq(FrameType)
    BY Sizes DEF TypeInv
  <1>2. stack' \in Seq(FrameType) /\ Len(stack') = Height - 1 /\ Below
    <2>1. stack' = SubSeq(stack, 1, Height - 1)
      BY DEF Leave
    <2>2. 1 \in Nat /\ Height - 1 \in Nat /\ Height - 1 <= Len(stack)
      BY <1>1 DEF Height
    <2>3. \A i \in 1 .. (Height - 1) : stack[i] \in FrameType
      BY Sizes
    <2>4. /\ stack' \in Seq(FrameType) /\ Len(stack') = Height - 1
          /\ \A i \in 1 .. (Height - 1) : stack'[i] = stack[i]
      BY <1>1, <2>1, <2>2, <2>3, SMT
    <2> QED
      BY <2>4 DEF Below
  <1>3. ret' = v /\ pos' = Forgotten(chain)
    BY DEF Leave, Forgotten
  <1>4. ss' = [p \in Plies |->
                 IF searchStack[p].pv.owner = Height
                 THEN [searchStack[p] EXCEPT !.pv = PvOf(Dangling, NoMove)]
                 ELSE searchStack[p]]
    BY DEF Leave
  <1>5. ASSUME NEW p \in Plies
        PROVE  /\ ss'[p] \in EntryType
               /\ ss'[p].move = searchStack[p].move
               /\ ss'[p].pv = searchStack[p].pv \/ searchStack[p].pv.owner = Height
    <2>1. searchStack[p] \in EntryType
      OBVIOUS
    <2> QED
      <3>1. CASE searchStack[p].pv.owner = Height
        <4>1. ss'[p] = [searchStack[p] EXCEPT !.pv = PvOf(Dangling, NoMove)]
          BY <1>4, <3>1
        <4>2. PvOf(Dangling, NoMove) \in [owner : Int, line : AnyMove]
          BY DEF PvOf, Dangling, AnyMove
        <4> QED
          BY <2>1, <3>1, <4>1, <4>2 DEF EntryType
      <3>2. CASE searchStack[p].pv.owner # Height
        BY <1>4, <2>1, <3>2
      <3> QED
        BY <3>1, <3>2
  <1>6. ss' \in [Plies -> EntryType]
    BY <1>4, <1>5
  <1> QED
    BY <1>2, <1>3, <1>5, <1>6

-----------------------------------------------------------------------------
(* A push and a pop of the accumulators go with a move made and unmade.    *)

\* Accumulator i, of a of them, is of the at[i]-th of the n moves made.
Orders(at, a, n, pushed, chain) ==
    /\ at \in [1 .. a -> 1 .. n]
    /\ \A i \in 1 .. a : NotNull(chain[at[i]]) /\ pushed[i] = chain[at[i]].move
    /\ \A i, j \in 1 .. a : i < j => at[i] < at[j]
    /\ \A k \in 1 .. n : NotNull(chain[k]) => \E i \in 1 .. a : at[i] = k

LEMMA OrderIn ==
    ASSUME TypeInv, PushedInOrder
    PROVE  \E at : Orders(at, Len(acc), Len(pos), acc, pos)
  <1>1. DOMAIN acc = 1 .. Len(acc) /\ DOMAIN pos = 1 .. Len(pos)
    BY Sizes
  <1>2. PICK at \in [DOMAIN acc -> DOMAIN pos] :
        /\ \A i \in DOMAIN acc : NotNull(pos[at[i]]) /\ acc[i] = pos[at[i]].move
        /\ \A i, j \in DOMAIN acc : i < j => at[i] < at[j]
        /\ \A k \in DOMAIN pos : NotNull(pos[k]) => \E i \in DOMAIN acc : at[i] = k
    BY DEF PushedInOrder
  <1>3. Orders(at, Len(acc), Len(pos), acc, pos)
    BY <1>1, <1>2 DEF Orders
  <1> QED
    BY <1>3

LEMMA OrderOut ==
    ASSUME NEW at, NEW a, NEW n, DOMAIN acc' = 1 .. a, DOMAIN pos' = 1 .. n,
           Orders(at, a, n, acc', pos')
    PROVE  PushedInOrder'
  <1>1. at \in [DOMAIN acc' -> DOMAIN pos']
    BY DEF Orders
  <1>2. /\ \A i \in DOMAIN acc' : NotNull(pos'[at[i]]) /\ acc'[i] = pos'[at[i]].move
        /\ \A i, j \in DOMAIN acc' : i < j => at[i] < at[j]
        /\ \A k \in DOMAIN pos' : NotNull(pos'[k]) => \E i \in DOMAIN acc' : at[i] = k
    BY Zenon DEF Orders
  <1> QED
    BY <1>1, <1>2, Zenon DEF PushedInOrder, NotNull

SameMoves(n) == \A k \in 1 .. n : pos'[k].move = pos[k].move

LEMMA OrderKept ==
    ASSUME TypeInv, TypeInv', PushedInOrder,
           acc' = acc, Len(pos') = Len(pos), SameMoves(Len(pos))
    PROVE  PushedInOrder'
  <1>1. PICK at : Orders(at, Len(acc), Len(pos), acc, pos)
    BY OrderIn
  <1>2. DOMAIN acc' = 1 .. Len(acc) /\ DOMAIN pos' = 1 .. Len(pos)
    BY Sizes, SizesAfter
  <1>3. Orders(at, Len(acc), Len(pos), acc', pos')
    BY <1>1 DEF SameMoves, NotNull, Orders
  <1> QED
    BY <1>2, <1>3, OrderOut

LEMMA OrderPushed ==
    ASSUME TypeInv, TypeInv', PushedInOrder, NEW m \in Moves,
           acc' = Append(acc, m), pos' = Made(m)
    PROVE  PushedInOrder'
  <1>1. PICK at : Orders(at, Len(acc), Len(pos), acc, pos)
    BY OrderIn
  <1> DEFINE n == Len(pos)
  <1> DEFINE a == Len(acc)
  <1>2. n \in Nat /\ a \in Nat /\ pos \in Seq(MadeType) /\ acc \in Seq(Moves)
    BY Sizes DEF TypeInv
  <1>3. /\ Len(pos') = n + 1 /\ Len(acc') = a + 1
        /\ \A k \in 1 .. n : pos'[k] = pos[k]
        /\ \A i \in 1 .. a : acc'[i] = acc[i]
        /\ pos'[n + 1].move = m /\ acc'[a + 1] = m
    BY <1>2 DEF Made
  <1>4. DOMAIN acc' = 1 .. (a + 1) /\ DOMAIN pos' = 1 .. (n + 1)
    BY <1>3, SizesAfter
  <1>5. m # NullMove
    BY SearchAssumption DEF SearchAssumption
  <1> HIDE DEF n, a
  <1> DEFINE at2 == [i \in 1 .. (a + 1) |-> IF i = a + 1 THEN n + 1 ELSE at[i]]
  <1>6. at \in [1 .. a -> 1 .. n]
    BY <1>1 DEF Orders, n, a
  <1>7. at2 \in [1 .. (a + 1) -> 1 .. (n + 1)]
    BY <1>2, <1>6
  <1>8. \A i \in 1 .. (a + 1) : NotNull(pos'[at2[i]]) /\ acc'[i] = pos'[at2[i]].move
    <2> SUFFICES ASSUME NEW i \in 1 .. (a + 1)
                 PROVE  NotNull(pos'[at2[i]]) /\ acc'[i] = pos'[at2[i]].move
      OBVIOUS
    <2>1. CASE i = a + 1
      BY <1>2, <1>3, <1>5, <2>1 DEF NotNull
    <2>2. CASE i \in 1 .. a
      <3>1. at2[i] = at[i] /\ at[i] \in 1 .. n
        BY <1>2, <1>6, <2>2
      <3>2. NotNull(pos[at[i]]) /\ acc[i] = pos[at[i]].move
        BY <1>1, <2>2 DEF Orders, a
      <3> QED
        BY <1>3, <2>2, <3>1, <3>2 DEF NotNull
    <2>3. i = a + 1 \/ i \in 1 .. a
      BY <1>2
    <2> HIDE DEF at2
    <2> QED
      BY <2>1, <2>2, <2>3
  <1>9. \A i, j \in 1 .. (a + 1) : i < j => at2[i] < at2[j]
    <2>1. \A i, j \in 1 .. a : i < j => at[i] < at[j]
      BY <1>1 DEF Orders, a
    <2> QED
      BY <1>2, <1>6, <2>1
  <1>10. \A k \in 1 .. (n + 1) : NotNull(pos'[k]) => \E i \in 1 .. (a + 1) : at2[i] = k
    <2> SUFFICES ASSUME NEW k \in 1 .. (n + 1), NotNull(pos'[k])
                 PROVE  \E i \in 1 .. (a + 1) : at2[i] = k
      OBVIOUS
    <2>1. CASE k = n + 1
      BY <1>2, <2>1
    <2>2. CASE k \in 1 .. n
      <3>1. PICK i \in 1 .. a : at[i] = k
        BY <1>1, <1>3, <2>2 DEF Orders, NotNull, n, a
      <3> QED
        BY <1>2, <3>1
    <2> QED
      BY <1>2, <2>1, <2>2
  <1> HIDE DEF at2
  <1>11. Orders(at2, a + 1, n + 1, acc', pos')
    BY <1>7, <1>8, <1>9, <1>10 DEF Orders
  <1> QED
    BY <1>4, <1>11, OrderOut

LEMMA OrderOfNull ==
    ASSUME TypeInv, TypeInv', PushedInOrder,
           acc' = acc, pos' = Made(NullMove)
    PROVE  PushedInOrder'
  <1>1. PICK at : Orders(at, Len(acc), Len(pos), acc, pos)
    BY OrderIn
  <1>2. Len(pos) \in Nat /\ Len(acc) \in Nat /\ pos \in Seq(MadeType)
    BY Sizes DEF TypeInv
  <1>3. /\ Len(pos') = Len(pos) + 1 /\ \A k \in 1 .. Len(pos) : pos'[k] = pos[k]
        /\ pos'[Len(pos) + 1].move = NullMove
    BY <1>2 DEF Made
  <1>4. DOMAIN acc' = 1 .. Len(acc) /\ DOMAIN pos' = 1 .. (Len(pos) + 1)
    BY <1>3, SizesAfter
  <1>5. at \in [1 .. Len(acc) -> 1 .. (Len(pos) + 1)]
    BY <1>1, <1>2 DEF Orders
  <1>6. \A i \in 1 .. Len(acc) : NotNull(pos'[at[i]]) /\ acc[i] = pos'[at[i]].move
    BY <1>1, <1>3 DEF NotNull, Orders
  <1>7. \A k \in 1 .. (Len(pos) + 1) : NotNull(pos'[k]) => \E i \in 1 .. Len(acc) : at[i] = k
    BY <1>1, <1>2, <1>3 DEF NotNull, Orders
  <1>8. \A i, j \in 1 .. Len(acc) : i < j => at[i] < at[j]
    BY <1>1 DEF Orders
  <1>9. Orders(at, Len(acc), Len(pos) + 1, acc', pos')
    BY <1>5, <1>6, <1>7, <1>8 DEF Orders
  <1> QED
    BY <1>4, <1>9, OrderOut

LEMMA OrderPopped ==
    ASSUME TypeInv, TypeInv', PushedInOrder, Len(pos) > 0,
           Len(pos') = Len(pos) - 1, SameMoves(Len(pos) - 1),
           acc' = IF NotNull(pos[Len(pos)]) THEN Popped ELSE acc
    PROVE  PushedInOrder'
  <1>1. PICK at : Orders(at, Len(acc), Len(pos), acc, pos)
    BY OrderIn
  <1> DEFINE n == Len(pos)
  <1> DEFINE a == Len(acc)
  <1>2. n \in Nat /\ n > 0 /\ a \in Nat /\ acc \in Seq(Moves)
    BY Sizes DEF TypeInv
  <1>3. DOMAIN pos' = 1 .. (n - 1)
    BY SizesAfter
  <1>4. SameMoves(n - 1)
    OBVIOUS
  <1>5. at \in [1 .. a -> 1 .. n]
    BY <1>1 DEF Orders
  <1>6. CASE ~NotNull(pos[n])
    <2>1. acc' = acc /\ DOMAIN acc' = 1 .. a
      BY <1>6, Sizes
    <2>2. \A i \in 1 .. a : at[i] # n
      BY <1>1, <1>6 DEF Orders
    <2> HIDE DEF n, a
    <2>3. at \in [1 .. a -> 1 .. (n - 1)]
      BY <1>2, <1>5, <2>2
    <2>4. \A i \in 1 .. a : NotNull(pos'[at[i]]) /\ acc'[i] = pos'[at[i]].move
      <3> SUFFICES ASSUME NEW i \in 1 .. a
                   PROVE  NotNull(pos'[at[i]]) /\ acc'[i] = pos'[at[i]].move
        OBVIOUS
      <3>1. at[i] \in 1 .. (n - 1)
        BY <2>3
      <3>2. NotNull(pos[at[i]]) /\ acc[i] = pos[at[i]].move
        BY <1>1 DEF Orders, a
      <3> QED
        BY <1>4, <2>1, <3>1, <3>2 DEF NotNull, SameMoves
    <2>5. \A k \in 1 .. (n - 1) : NotNull(pos'[k]) => \E i \in 1 .. a : at[i] = k
      BY <1>1, <1>2, <1>4 DEF Orders, NotNull, SameMoves, n, a
    <2>6. \A i, j \in 1 .. a : i < j => at[i] < at[j]
      BY <1>1 DEF Orders, a
    <2>7. Orders(at, a, n - 1, acc', pos')
      BY <2>3, <2>4, <2>5, <2>6 DEF Orders
    <2> QED
      BY <1>3, <2>1, <2>7, OrderOut
  <1>7. CASE NotNull(pos[n])
    <2>1. PICK z \in 1 .. a : at[z] = n
      BY <1>1, <1>2, <1>7 DEF Orders
    <2>2. z = a
      <3>1. a \in 1 .. a /\ at[a] \in 1 .. n
        BY <1>2, <1>5, <2>1
      <3>2. z < a => at[z] < at[a]
        BY <1>1, <3>1 DEF Orders
      <3> HIDE DEF n, a
      <3> QED
        BY <1>2, <2>1, <3>1, <3>2
    <2>3. acc' = Popped /\ a > 0
      BY <1>2, <1>7, <2>1
    <2>4. Len(acc') = a - 1 /\ \A i \in 1 .. (a - 1) : acc'[i] = acc[i]
      <3>1. acc' = SubSeq(acc, 1, a - 1) /\ a - 1 \in Nat /\ a - 1 <= Len(acc)
        BY <1>2, <2>3 DEF Popped
      <3>2. \A i \in 1 .. a : acc[i] \in Moves
        BY <1>2
      <3> HIDE DEF a
      <3> QED
        BY <1>2, <3>1, <3>2, SMT
    <2>5. DOMAIN acc' = 1 .. (a - 1)
      BY <2>4, SizesAfter
    <2> DEFINE at2 == [i \in 1 .. (a - 1) |-> at[i]]
    <2>6. \A i, j \in 1 .. a : i < j => at[i] < at[j]
      BY <1>1 DEF Orders
    <2> HIDE DEF n, a
    <2>7. at2 \in [1 .. (a - 1) -> 1 .. (n - 1)]
      <3> SUFFICES ASSUME NEW i \in 1 .. (a - 1)
                   PROVE  at[i] \in 1 .. (n - 1)
        OBVIOUS
      <3>1. i \in 1 .. a /\ i < a /\ a \in 1 .. a
        BY <1>2
      <3>2. at[i] \in 1 .. n /\ at[i] < at[a]
        BY <1>5, <2>6, <3>1
      <3> QED
        BY <1>2, <2>1, <2>2, <3>2
    <2>8. \A i \in 1 .. (a - 1) : NotNull(pos'[at2[i]]) /\ acc'[i] = pos'[at2[i]].move
      <3> SUFFICES ASSUME NEW i \in 1 .. (a - 1)
                   PROVE  NotNull(pos'[at2[i]]) /\ acc'[i] = pos'[at2[i]].move
        OBVIOUS
      <3>1. at2[i] \in 1 .. (n - 1) /\ at2[i] = at[i] /\ i \in 1 .. a
        BY <1>2, <2>7
      <3>2. NotNull(pos[at[i]]) /\ acc[i] = pos[at[i]].move
        BY <1>1, <3>1 DEF Orders, a
      <3> HIDE DEF at2
      <3> QED
        BY <1>4, <2>4, <3>1, <3>2 DEF NotNull, SameMoves
    <2>9. \A k \in 1 .. (n - 1) : NotNull(pos'[k]) => \E i \in 1 .. (a - 1) : at2[i] = k
      <3> SUFFICES ASSUME NEW k \in 1 .. (n - 1), NotNull(pos'[k])
                   PROVE  \E i \in 1 .. (a - 1) : at2[i] = k
        OBVIOUS
      <3>1. NotNull(pos[k]) /\ k \in 1 .. n /\ k # n
        BY <1>2, <1>4 DEF NotNull, SameMoves
      <3>2. PICK i \in 1 .. a : at[i] = k
        BY <1>1, <3>1 DEF Orders, n, a
      <3> QED
        BY <1>2, <2>1, <2>2, <3>1, <3>2
    <2>10. \A i, j \in 1 .. (a - 1) : i < j => at2[i] < at2[j]
      BY <1>2, <2>6
    <2> HIDE DEF at2
    <2>11. Orders(at2, a - 1, n - 1, acc', pos')
      BY <2>7, <2>8, <2>9, <2>10 DEF Orders
    <2> QED
      BY <1>3, <2>5, <2>11, OrderOut
  <1> QED
    BY <1>6, <1>7

-----------------------------------------------------------------------------
(* The chain of positions below the innermost frame.                       *)

LEMMA FrameParts ==
    ASSUME NEW f \in FrameType
    PROVE  /\ f.fn \in Children /\ f.node \in {Root, PV, NonPV} /\ f.ply \in 0 .. MaxPly
           /\ f.cut \in BOOLEAN /\ f.pc \in Calls \cup AtNode /\ f.excluded \in AnyMove
           /\ f.ttMove \in AnyMove /\ f.left \in SUBSET Moves /\ f.moveCount \in 0 .. 2
           /\ f.best \in {"none", "low", "in", "high"} /\ f.ok \in BOOLEAN /\ f.move \in AnyMove
           /\ f.ply \in Nat /\ Deeper(f) \in {0, 1}
  BY MaxPlyNat DEF FrameType, Deeper

LEMMA Dropped ==
    ASSUME NEW S, NEW s \in Seq(S), Len(s) > 0
    PROVE  /\ SubSeq(s, 1, Len(s) - 1) \in Seq(S)
           /\ Len(SubSeq(s, 1, Len(s) - 1)) = Len(s) - 1
           /\ \A i \in 1 .. (Len(s) - 1) : SubSeq(s, 1, Len(s) - 1)[i] = s[i]
  <1> DEFINE n == Len(s) - 1
  <1>1. n \in Nat /\ 1 \in Int /\ n \in Int /\ \A i \in 1 .. n : s[i] \in S
    OBVIOUS
  <1> HIDE DEF n
  <1>2. /\ SubSeq(s, 1, n) \in Seq(S)
        /\ Len(SubSeq(s, 1, n)) = IF 1 <= n THEN n - 1 + 1 ELSE 0
        /\ \A i \in 1 .. n - 1 + 1 : SubSeq(s, 1, n)[i] = s[1 + i - 1]
    BY <1>1, SubSeqProperties
  <1>3. /\ Len(SubSeq(s, 1, n)) = n
        /\ \A i \in 1 .. n : SubSeq(s, 1, n)[i] = s[i]
    BY <1>1, <1>2
  <1> QED
    BY <1>2, <1>3 DEF n

LEMMA Forgetting ==
    ASSUME NEW chain \in Seq(MadeType), TypeInv
    PROVE  /\ Forgotten(chain) \in Seq(MadeType) /\ Len(Forgotten(chain)) = Len(chain)
           /\ \A k \in 1 .. Len(chain) : /\ Forgotten(chain)[k].move = chain[k].move
                                         /\ chain[k].st # Height => Forgotten(chain)[k] = chain[k]
  <1>1. \A k \in 1 .. Len(chain) : chain[k] \in MadeType
    OBVIOUS
  <1>2. DOMAIN Forgotten(chain) = 1 .. Len(chain)
    BY DEF Forgotten
  <1>3. ASSUME NEW k \in 1 .. Len(chain)
        PROVE  /\ Forgotten(chain)[k] \in MadeType
               /\ Forgotten(chain)[k].move = chain[k].move
               /\ chain[k].st # Height => Forgotten(chain)[k] = chain[k]
    <2>1. Forgotten(chain)[k] =
             IF chain[k].st = Height THEN [chain[k] EXCEPT !.st = Dangling] ELSE chain[k]
      BY DEF Forgotten
    <2> QED
      BY <1>1, <2>1 DEF MadeType, Dangling
  <1>4. Forgotten(chain) = [k \in 1 .. Len(chain) |-> Forgotten(chain)[k]]
    BY <1>2 DEF Forgotten
  <1> QED
    BY <1>3, <1>4, LenProperties

\* The last of the chain is the innermost frame's if it has made a move,
\* and only then.
LEMMA TopOfChain ==
    ASSUME TypeInv, Path, Chain, Height > 0
    PROVE  /\ Top.pc \in Moving =>
                /\ Len(pos) = Top.ply + 1
                /\ pos[Len(pos)].st = Height /\ pos[Len(pos)].move = Mover(Top)
                /\ NotNull(pos[Len(pos)]) <=> Top.pc # "null"
           /\ Top.pc \notin Moving => Len(pos) = Top.ply
           /\ Top.ply \in Nat /\ Top.ply <= Len(pos)
           /\ \A k \in 1 .. Top.ply : pos[k].st \in 1 .. (Height - 1)
  <1>1. Height \in Nat /\ Height \in 1 .. Height /\ Top = stack[Height] /\ Top \in FrameType
    BY Sizes DEF Top
  <1>2. Top.ply \in Nat /\ Top.ply <= Len(pos)
    BY <1>1, FrameParts DEF Chain, Deeper
  <1>3. ASSUME NEW k \in 1 .. Top.ply
        PROVE  pos[k].st \in 1 .. (Height - 1)
    <2>1. k \in 1 .. Len(pos) /\ k - 1 # Top.ply
      BY <1>2
    <2>2. pos[k].st \in 1 .. Height /\ stack[pos[k].st].ply = k - 1
      BY <2>1 DEF Chain
    <2> QED
      BY <1>1, <2>1, <2>2
  <1>4. CASE Top.pc \in Moving
    <2>1. Len(pos) = Top.ply + 1
      BY <1>1, <1>4 DEF Chain, Deeper
    <2>2. pos[Len(pos)].st = Height /\ pos[Len(pos)].move = Mover(Top)
      BY <1>1, <1>2, <1>4, <2>1 DEF Chain
    <2>3. Mover(Top) = NullMove <=> Top.pc = "null"
      BY <1>1, FrameParts, SearchAssumption DEF SearchAssumption, Mover, AnyMove
    <2>4. NotNull(pos[Len(pos)]) <=> Top.pc # "null"
      BY <2>2, <2>3 DEF NotNull
    <2> QED
      BY <1>2, <1>3, <1>4, <2>1, <2>2, <2>4
  <1>5. CASE Top.pc \notin Moving
    BY <1>1, <1>2, <1>3, <1>5 DEF Chain, Deeper
  <1> QED
    BY <1>4, <1>5

\* With its move taken back, the position is the node's own.
LEMMA SettledChain ==
    ASSUME TypeInv, Path, Chain, Height > 0, Settled
    PROVE  /\ pos' \in Seq(MadeType) /\ acc' \in Seq(Moves) /\ Len(pos') = Top.ply
           /\ \A k \in 1 .. Top.ply : pos'[k] = pos[k]
           /\ PushedInOrder /\ TypeInv' => PushedInOrder'
  <1>1. pos \in Seq(MadeType) /\ acc \in Seq(Moves) /\ Top.ply \in Nat
    BY TopOfChain DEF TypeInv
  <1>2. CASE Top.pc \in Moving
    <2>1. /\ Len(pos) = Top.ply + 1 /\ pos' = Unmade
          /\ acc' = IF NotNull(pos[Len(pos)]) THEN Popped ELSE acc
      BY <1>2, TopOfChain DEF Settled
    <2>2. /\ Unmade \in Seq(MadeType) /\ Len(Unmade) = Top.ply
          /\ \A k \in 1 .. Top.ply : Unmade[k] = pos[k]
      BY <1>1, <2>1, Dropped DEF Unmade
    <2>3. SameMoves(Len(pos) - 1)
      BY <1>1, <2>1, <2>2 DEF SameMoves
    <2>4. PushedInOrder /\ TypeInv' => PushedInOrder'
      BY <1>1, <2>1, <2>2, <2>3, OrderPopped
    <2>5. acc' \in Seq(Moves)
      BY <1>1, <2>1 DEF Popped
    <2> QED
      BY <2>1, <2>2, <2>4, <2>5
  <1>3. CASE Top.pc \notin Moving
    <2>1. pos' = pos /\ acc' = acc /\ Len(pos) = Top.ply
      BY <1>3, TopOfChain DEF Settled
    <2> QED
      BY <1>1, <2>1, OrderKept DEF SameMoves
  <1> QED
    BY <1>2, <1>3

\* No StateInfo of a frame that leaves is left in the chain.
LEMMA LeavesSettled ==
    ASSUME TypeInv, Path, Chain, Leaves
    PROVE  Settled
  <1>1. Height > 0 /\ pos \in Seq(MadeType) /\ Height \in Nat
    BY Sizes DEF Leaves, TypeInv
  <1>2. ASSUME NEW chain \in Seq(MadeType), Len(chain) = Top.ply,
               \A k \in 1 .. Top.ply : chain[k] = pos[k]
        PROVE  Forgotten(chain) = chain
    <2>1. \A k \in 1 .. Len(chain) : chain[k].st # Height
      BY <1>1, <1>2, TopOfChain
    <2>2. /\ Forgotten(chain) \in Seq(MadeType) /\ Len(Forgotten(chain)) = Len(chain)
          /\ \A k \in 1 .. Len(chain) : Forgotten(chain)[k] = chain[k]
      BY <2>1, Forgetting
    <2> QED
      BY <2>2, SeqEqual
  <1>3. CASE Top.pc \in Moving
    <2>1. Len(pos) = Top.ply + 1 /\ Top.ply \in Nat
      BY <1>1, <1>3, TopOfChain
    <2>2. /\ Unmade \in Seq(MadeType) /\ Len(Unmade) = Top.ply
          /\ \A k \in 1 .. Top.ply : Unmade[k] = pos[k]
      BY <1>1, <2>1, Dropped DEF Unmade
    <2> QED
      BY <1>2, <1>3, <2>2 DEF Leaves, Settled
  <1>4. CASE Top.pc \notin Moving
    <2>1. Len(pos) = Top.ply
      BY <1>1, <1>4, TopOfChain
    <2> QED
      BY <1>1, <1>2, <1>4, <2>1 DEF Leaves, Settled
  <1> QED
    BY <1>3, <1>4

\* The frames below the innermost one keep their part of the chain.
LEMMA ChainBelow ==
    ASSUME TypeInv, Path, Chain, Height > 0, Below,
           \A k \in 1 .. Top.ply : pos'[k] = pos[k],
           \A p \in Plies : p < Top.ply => MoveKept(p)
    PROVE  /\ \A i \in 1 .. (Height - 1) :
                stack'[i].pc \in Moving => pos'[stack'[i].ply + 1].st = i
           /\ \A k \in 1 .. Top.ply :
                /\ pos'[k].st \in 1 .. (Height - 1)
                /\ stack'[pos'[k].st].pc \in Moving
                /\ stack'[pos'[k].st].ply = k - 1
                /\ pos'[k].move = Mover(stack'[pos'[k].st])
                /\ pos'[k].move = ss'[k - 1].move
  <1>1. Height \in Nat /\ Top = stack[Height] /\ Top \in FrameType /\ Height \in 1 .. Height
    BY Sizes DEF Top
  <1>2. ASSUME NEW i \in 1 .. (Height - 1), stack'[i].pc \in Moving
        PROVE  pos'[stack'[i].ply + 1].st = i
    <2>1. stack'[i] = stack[i] /\ i \in 1 .. Height /\ stack[i] \in FrameType
      BY <1>1, Sizes DEF Below
    <2>2. stack[i].ply + 1 <= Top.ply /\ stack[i].ply \in Nat
      BY <1>1, <1>2, <2>1, FrameParts DEF Path, Deeper
    <2>3. pos[stack[i].ply + 1].st = i
      BY <1>2, <2>1 DEF Chain
    <2> QED
      BY <1>1, <2>1, <2>2, <2>3, FrameParts
  <1>3. ASSUME NEW k \in 1 .. Top.ply
        PROVE  /\ pos'[k].st \in 1 .. (Height - 1)
               /\ stack'[pos'[k].st].pc \in Moving
               /\ stack'[pos'[k].st].ply = k - 1
               /\ pos'[k].move = Mover(stack'[pos'[k].st])
               /\ pos'[k].move = ss'[k - 1].move
    <2>1. k \in 1 .. Len(pos) /\ pos[k].st \in 1 .. (Height - 1) /\ pos'[k] = pos[k]
      BY <1>1, TopOfChain, Sizes
    <2>2. /\ stack[pos[k].st].pc \in Moving /\ stack[pos[k].st].ply = k - 1
          /\ pos[k].move = Mover(stack[pos[k].st]) /\ pos[k].move = ss[k - 1].move
      BY <2>1 DEF Chain
    <2>3. stack'[pos[k].st] = stack[pos[k].st]
      BY <2>1 DEF Below
    <2>4. k - 1 \in Plies /\ k - 1 < Top.ply
      BY <1>1, FrameParts, MaxPlyNat DEF Plies
    <2>5. ss'[k - 1].move = ss[k - 1].move
      BY <2>4 DEF MoveKept
    <2> QED
      BY <2>1, <2>2, <2>3, <2>5
  <1> QED
    BY <1>2, <1>3

-----------------------------------------------------------------------------
(* The three kinds of step keep the invariant.                             *)

LEMMA GoesOnTypes ==
    ASSUME TypeInv, Path, Chain, GoesOn, UNCHANGED stop
    PROVE  TypeInv'
  <1>1. Height > 0 /\ stack' \in Seq(FrameType) /\ ret' = NoValue
        /\ ss' \in [Plies -> EntryType]
    BY DEF GoesOn
  <1>2. pos' \in Seq(MadeType) /\ acc' \in Seq(Moves)
    BY <1>1, SettledChain DEF GoesOn
  <1>3. nmpMinPly' \in Nat /\ stop' \in BOOLEAN
    BY DEF GoesOn, Unverified, TypeInv
  <1> QED
    BY <1>1, <1>2, <1>3 DEF TypeInv, NoValue

LEMMA LeavesTypes ==
    ASSUME TypeInv, Path, Chain, Leaves, UNCHANGED stop
    PROVE  TypeInv'
  <1>1. Height > 0 /\ stack' \in Seq(FrameType)
        /\ ret' \in [c : {"low", "in", "high"}, ok : BOOLEAN]
        /\ ss' \in [Plies -> EntryType]
    BY DEF Leaves
  <1>2. pos' \in Seq(MadeType) /\ acc' \in Seq(Moves)
    BY <1>1, LeavesSettled, SettledChain
  <1>3. nmpMinPly' \in Nat /\ stop' \in BOOLEAN
    BY DEF Leaves, Unverified, TypeInv
  <1> QED
    BY <1>1, <1>2, <1>3 DEF TypeInv

LEMMA DescendsTypes ==
    ASSUME TypeInv, Path, Chain, Descends, UNCHANGED stop
    PROVE  TypeInv'
  <1>1. Height > 0 /\ stack' \in Seq(FrameType) /\ ret' = NoValue
        /\ ss' \in [Plies -> EntryType]
    BY DEF Descends
  <1>2. pos \in Seq(MadeType) /\ acc \in Seq(Moves) /\ Height \in Nat
    BY Sizes DEF TypeInv
  <1>3. pos' \in Seq(MadeType) /\ acc' \in Seq(Moves)
    <2>1. CASE Going.pc \notin Moving
      <3>1. Settled
        BY <2>1 DEF Descends, MakesMove
      <3> QED
        BY <1>1, <3>1, SettledChain
    <2>2. CASE Going.pc \in Moving /\ Top.pc \in Moving
      BY <1>2, <2>2 DEF Descends, MakesMove
    <2>3. CASE Going.pc \in Moving /\ Top.pc \notin Moving
      <3>1. /\ pos' = Made(Mover(Going)) /\ Mover(Going) \in Moves \cup {NullMove}
            /\ acc' = IF Going.pc = "null" THEN acc ELSE Append(acc, Going.move)
            /\ Going.pc # "null" => Going.move \in Moves
        BY <2>3 DEF Descends, MakesMove
      <3>2. [move |-> Mover(Going), st |-> Height] \in MadeType
        BY <1>2, <3>1 DEF MadeType
      <3> QED
        BY <1>2, <3>1, <3>2 DEF Made
    <2> QED
      BY <2>1, <2>2, <2>3
  <1>4. nmpMinPly' \in Nat /\ stop' \in BOOLEAN
    <2>1. Top.ply \in Nat
      BY <1>1, TopOfChain
    <2> QED
      BY <2>1, MaxPlyNat DEF Descends, TypeInv
  <1> QED
    BY <1>1, <1>3, <1>4 DEF TypeInv, NoValue

LEMMA GoesOnPath ==
    ASSUME TypeInv, Path, GoesOn
    PROVE  Path'
  <1>1. /\ Height \in Nat /\ Height > 0 /\ Height' = Height
        /\ Going.pc \in AtNode /\ FrameOk(Going) /\ Going.ply = Top.ply
        /\ \A i \in 1 .. (Height - 1) : stack'[i] = stack[i]
    BY Sizes DEF GoesOn, Below, Height
  <1>2. stack'[Height].ply = stack[Height].ply /\ FrameOk(stack'[Height])
    BY <1>1 DEF Going, Top
  <1>3. Deeper(stack'[Height]) = 0
    BY <1>1 DEF Going, Deeper, Moving, AtNode
  <1>4. Height > 0 => stack'[1].ply = 0
    BY <1>1, <1>2 DEF Path
  <1>5. \A i \in 1 .. Height : FrameOk(stack'[i])
    BY <1>1, <1>2 DEF Path
  <1>6. \A i \in 1 .. (Height - 1) :
           stack'[i].pc \in Calls /\ stack'[i + 1].ply = stack'[i].ply + Deeper(stack'[i])
    BY <1>1, <1>2 DEF Path
  <1>7. \A i, j \in 1 .. Height : i < j =>
           stack'[i].ply + Deeper(stack'[i]) <= stack'[j].ply
    BY <1>1, <1>2 DEF Path
  <1> QED
    BY <1>1, <1>4, <1>5, <1>6, <1>7 DEF Path

LEMMA LeavesPath ==
    ASSUME TypeInv, Path, Leaves
    PROVE  Path'
  <1>1. /\ Height \in Nat /\ Height > 0 /\ Height' = Height - 1
        /\ \A i \in 1 .. (Height - 1) : stack'[i] = stack[i]
    BY Sizes DEF Leaves, Below, Height
  <1>2. Height' > 0 => stack'[1].ply = 0
    BY <1>1 DEF Path
  <1>3. \A i \in 1 .. Height' : FrameOk(stack'[i])
    BY <1>1 DEF Path
  <1>4. \A i \in 1 .. (Height' - 1) :
           stack'[i].pc \in Calls /\ stack'[i + 1].ply = stack'[i].ply + Deeper(stack'[i])
    BY <1>1 DEF Path
  <1>5. \A i, j \in 1 .. Height' : i < j =>
           stack'[i].ply + Deeper(stack'[i]) <= stack'[j].ply
    BY <1>1 DEF Path
  <1> QED
    BY <1>2, <1>3, <1>4, <1>5 DEF Path

LEMMA DescendsPath ==
    ASSUME TypeInv, Path, Descends
    PROVE  Path'
  <1>1. /\ Height \in Nat /\ Height > 0 /\ Height' = Height + 1
        /\ Going.pc \in Calls /\ FrameOk(Going) /\ Going.ply = Top.ply
        /\ \A i \in 1 .. (Height - 1) : stack'[i] = stack[i]
        /\ Child.pc = "enter" /\ Child.node # Root
        /\ Child.ply = Top.ply + Deeper(Going)
    BY Sizes DEF Descends, Below, Height
  <1>2. /\ stack'[Height].ply = stack[Height].ply /\ FrameOk(stack'[Height])
        /\ stack'[Height].pc \in Calls
        /\ stack'[Height + 1].ply = stack'[Height].ply + Deeper(stack'[Height])
    BY <1>1 DEF Going, Top, Child
  <1>3. FrameOk(stack'[Height + 1])
    BY <1>1 DEF FrameOk, Child, Quiet, Calls, Moving
  <1>4. stack'[1].ply = 0
    BY <1>1, <1>2 DEF Path
  <1>5. \A i \in 1 .. Height' : FrameOk(stack'[i])
    BY <1>1, <1>2, <1>3 DEF Path
  <1>6. \A i \in 1 .. (Height' - 1) :
           stack'[i].pc \in Calls /\ stack'[i + 1].ply = stack'[i].ply + Deeper(stack'[i])
    BY <1>1, <1>2 DEF Path
  <1>7. \A i, j \in 1 .. Height : i < j =>
           stack'[i].ply + Deeper(stack'[i]) <= stack'[j].ply
    BY <1>1, <1>2 DEF Path
  <1>8. \A i \in 1 .. Height :
           stack'[i].ply + Deeper(stack'[i]) <= stack'[Height + 1].ply
    <2>1. stack'[Height].ply <= stack'[Height + 1].ply
      <3>1. Top.ply \in Nat /\ Deeper(Going) \in {0, 1}
        BY <1>1, Sizes, FrameParts DEF Top, Deeper
      <3> QED
        BY <1>1, <1>2, <3>1 DEF Going, Top
    <2>2. \A i \in 1 .. (Height - 1) : /\ stack'[i].ply \in Nat
                                       /\ Deeper(stack'[i]) \in {0, 1}
      BY <1>1, Sizes, FrameParts
    <2>3. stack'[Height].ply \in Nat /\ Deeper(stack'[Height]) \in {0, 1}
      BY <1>1, <1>2, Sizes, FrameParts DEF Deeper
    <2>4. \A i \in 1 .. (Height - 1) :
             stack'[i].ply + Deeper(stack'[i]) <= stack'[Height].ply
      BY <1>1, <1>7
    <2> QED
      BY <1>1, <1>2, <2>1, <2>2, <2>3, <2>4
  <1>9. \A i, j \in 1 .. Height' : i < j =>
           stack'[i].ply + Deeper(stack'[i]) <= stack'[j].ply
    BY <1>1, <1>7, <1>8
  <1> QED
    BY <1>1, <1>4, <1>5, <1>6, <1>9 DEF Path

LEMMA GoesOnChain ==
    ASSUME TypeInv, Path, Chain, GoesOn
    PROVE  Chain'
  <1>1. /\ Height \in Nat /\ Height > 0 /\ Height' = Height /\ Below /\ Settled
        /\ Top' = Going /\ Going.pc \notin Moving /\ Going.ply = Top.ply
        /\ \A p \in Plies : MoveKept(p)
    BY Sizes DEF GoesOn, Height, Top, Going, AtNode, Moving
  <1>2. /\ Len(pos') = Top.ply /\ Top.ply \in Nat
        /\ \A k \in 1 .. Top.ply : pos'[k] = pos[k]
    BY <1>1, SettledChain, TopOfChain
  <1>3. /\ \A i \in 1 .. (Height - 1) :
              stack'[i].pc \in Moving => pos'[stack'[i].ply + 1].st = i
        /\ \A k \in 1 .. Top.ply :
              /\ pos'[k].st \in 1 .. (Height - 1)
              /\ stack'[pos'[k].st].pc \in Moving
              /\ stack'[pos'[k].st].ply = k - 1
              /\ pos'[k].move = Mover(stack'[pos'[k].st])
              /\ pos'[k].move = ss'[k - 1].move
    BY <1>1, <1>2, ChainBelow
  <1>4. Len(pos') = IF Height' = 0 THEN 0 ELSE Top'.ply + Deeper(Top')
    BY <1>1, <1>2 DEF Deeper
  <1>5. \A i \in 1 .. Height : stack'[i].pc \in Moving => pos'[stack'[i].ply + 1].st = i
    BY <1>1, <1>3 DEF Going
  <1> QED
    BY <1>1, <1>2, <1>3, <1>4, <1>5 DEF Chain, Mover, Deeper

LEMMA LeavesChain ==
    ASSUME TypeInv, Path, Chain, Leaves
    PROVE  Chain'
  <1>1. /\ Height \in Nat /\ Height > 0 /\ Height' = Height - 1 /\ Below /\ Settled
        /\ \A p \in Plies : MoveKept(p)
    BY Sizes, LeavesSettled DEF Leaves, Height
  <1>2. /\ Len(pos') = Top.ply /\ Top.ply \in Nat
        /\ \A k \in 1 .. Top.ply : pos'[k] = pos[k]
    BY <1>1, SettledChain, TopOfChain
  <1>3. /\ \A i \in 1 .. (Height - 1) :
              stack'[i].pc \in Moving => pos'[stack'[i].ply + 1].st = i
        /\ \A k \in 1 .. Top.ply :
              /\ pos'[k].st \in 1 .. (Height - 1)
              /\ stack'[pos'[k].st].pc \in Moving
              /\ stack'[pos'[k].st].ply = k - 1
              /\ pos'[k].move = Mover(stack'[pos'[k].st])
              /\ pos'[k].move = ss'[k - 1].move
    BY <1>1, <1>2, ChainBelow
  <1>4. Len(pos') = IF Height' = 0 THEN 0 ELSE Top'.ply + Deeper(Top')
    <2>1. CASE Height = 1
      BY <1>1, <1>2, <2>1 DEF Path, Top
    <2>2. CASE Height > 1
      <3>1. Top' = stack[Height - 1] /\ Top = stack[Height]
        BY <1>1, <2>2 DEF Top, Below
      <3>2. stack[(Height - 1) + 1].ply = stack[Height - 1].ply + Deeper(stack[Height - 1])
        BY <1>1, <2>2 DEF Path
      <3>3. Top.ply = Top'.ply + Deeper(Top')
        BY <1>1, <3>1, <3>2 DEF Deeper
      <3> QED
        BY <1>1, <1>2, <2>2, <3>3
    <2> QED
      BY <1>1, <2>1, <2>2
  <1> QED
    BY <1>1, <1>2, <1>3, <1>4 DEF Chain, Mover, Deeper

LEMMA DescendsChain ==
    ASSUME TypeInv, Path, Chain, Descends
    PROVE  Chain'
  <1>1. /\ Height \in Nat /\ Height > 0 /\ Height' = Height + 1 /\ Below
        /\ Top' = Child /\ Child.pc = "enter" /\ Child.pc \notin Moving
        /\ Going.ply = Top.ply /\ Child.ply = Top.ply + Deeper(Going)
        /\ \A p \in Plies : p # Top.ply => MoveKept(p)
        /\ stack'[Height] = Going /\ stack'[Height + 1] = Child
    BY Sizes DEF Descends, Height, Top, Going, Child, Moving
  <1>2. Top.ply \in Nat /\ pos \in Seq(MadeType) /\ Top.ply \in Plies
    <2>1. Top \in FrameType
      BY <1>1, Sizes DEF Top
    <2> QED
      BY <2>1, MaxPlyNat, FrameParts DEF TypeInv, Plies
  <1>3. /\ Len(pos') = Top.ply + Deeper(Going)
        /\ \A k \in 1 .. Top.ply : pos'[k] = pos[k]
        /\ Going.pc \in Moving => /\ pos'[Top.ply + 1].st = Height
                                  /\ pos'[Top.ply + 1].move = Mover(Going)
                                  /\ pos'[Top.ply + 1].move = ss'[Top.ply].move
    <2>1. CASE Going.pc \notin Moving
      <3>1. Settled
        BY <2>1 DEF Descends, MakesMove
      <3> QED
        BY <1>1, <1>2, <2>1, <3>1, SettledChain DEF Deeper
    <2>2. CASE Going.pc \in Moving /\ Top.pc \in Moving
      <3>1. pos' = pos /\ MoveKept(Top.ply) /\ Mover(Going) = Mover(Top)
        BY <2>2 DEF Descends, MakesMove
      <3>2. /\ Len(pos) = Top.ply + 1 /\ pos[Top.ply + 1].st = Height
            /\ pos[Top.ply + 1].move = Mover(Top)
        BY <1>1, <2>2, TopOfChain
      <3>3. pos[Top.ply + 1].move = ss[(Top.ply + 1) - 1].move
        BY <1>2, <3>2 DEF Chain
      <3>4. ss[(Top.ply + 1) - 1] = ss[Top.ply]
        BY <1>2
      <3> QED
        BY <2>2, <3>1, <3>2, <3>3, <3>4 DEF MoveKept, Deeper
    <2>3. CASE Going.pc \in Moving /\ Top.pc \notin Moving
      <3>1. /\ pos' = Made(Mover(Going)) /\ ss'[Top.ply].move = Mover(Going)
            /\ Mover(Going) \in Moves \cup {NullMove}
        BY <2>3 DEF Descends, MakesMove
      <3>2. Len(pos) = Top.ply
        BY <1>1, <2>3, TopOfChain
      <3> DEFINE e == [move |-> Mover(Going), st |-> Height]
      <3>3. e \in MadeType /\ e.move = Mover(Going) /\ e.st = Height
        BY <1>1, <3>1 DEF MadeType
      <3>4. pos' = Append(pos, e)
        BY <3>1 DEF Made
      <3> HIDE DEF e
      <3>5. /\ Len(pos') = Top.ply + 1 /\ pos'[Top.ply + 1] = e
            /\ \A k \in 1 .. Top.ply : pos'[k] = pos[k]
        BY <1>2, <3>2, <3>3, <3>4
      <3> QED
        BY <2>3, <3>1, <3>3, <3>5 DEF Deeper
    <2> QED
      BY <2>1, <2>2, <2>3
  <1>4. /\ \A i \in 1 .. (Height - 1) :
              stack'[i].pc \in Moving => pos'[stack'[i].ply + 1].st = i
        /\ \A k \in 1 .. Top.ply :
              /\ pos'[k].st \in 1 .. (Height - 1)
              /\ stack'[pos'[k].st].pc \in Moving
              /\ stack'[pos'[k].st].ply = k - 1
              /\ pos'[k].move = Mover(stack'[pos'[k].st])
              /\ pos'[k].move = ss'[k - 1].move
    <2>1. \A p \in Plies : p < Top.ply => MoveKept(p)
      BY <1>1, <1>2
    <2> QED
      BY <1>1, <1>3, <2>1, ChainBelow
  <1>5. Len(pos') = IF Height' = 0 THEN 0 ELSE Top'.ply + Deeper(Top')
    <2>1. Deeper(Child) = 0 /\ Child.ply \in Nat
      BY <1>1, <1>2 DEF Deeper
    <2> QED
      BY <1>1, <1>3, <2>1
  <1>6. \A i \in 1 .. Height' : stack'[i].pc \in Moving => pos'[stack'[i].ply + 1].st = i
    <2> SUFFICES ASSUME NEW i \in 1 .. (Height + 1), stack'[i].pc \in Moving
                 PROVE  pos'[stack'[i].ply + 1].st = i
      BY <1>1
    <2>1. i \in 1 .. (Height - 1) \/ i = Height \/ i = Height + 1
      BY <1>1
    <2> QED
      BY <1>1, <1>3, <1>4, <2>1
  <1>7. ASSUME NEW k \in 1 .. Len(pos')
        PROVE  /\ pos'[k].st \in 1 .. Height'
               /\ stack'[pos'[k].st].pc \in Moving
               /\ stack'[pos'[k].st].ply = k - 1
               /\ pos'[k].move = Mover(stack'[pos'[k].st])
               /\ pos'[k].move = ss'[k - 1].move
    <2>1. CASE k \in 1 .. Top.ply
      BY <1>1, <1>4, <2>1
    <2>2. CASE k = Top.ply + 1 /\ Going.pc \in Moving
      <3>1. pos'[k].st = Height /\ k - 1 = Top.ply
        BY <1>2, <1>3, <2>2
      <3> QED
        BY <1>1, <1>3, <2>2, <3>1
    <2> QED
      BY <1>2, <1>3, <2>1, <2>2 DEF Deeper
  <1> QED
    BY <1>5, <1>6, <1>7 DEF Chain

LEMMA GoesOnOrder ==
    ASSUME TypeInv, TypeInv', Path, Chain, PushedInOrder, GoesOn
    PROVE  PushedInOrder'
  BY SettledChain DEF GoesOn

LEMMA LeavesOrder ==
    ASSUME TypeInv, TypeInv', Path, Chain, PushedInOrder, Leaves
    PROVE  PushedInOrder'
  <1>1. Height > 0
    BY DEF Leaves
  <1> QED
    BY <1>1, LeavesSettled, SettledChain

LEMMA DescendsOrder ==
    ASSUME TypeInv, TypeInv', Path, Chain, PushedInOrder, Descends
    PROVE  PushedInOrder'
  <1>1. Height > 0
    BY DEF Descends
  <1>2. CASE Going.pc \notin Moving
    <2>1. Settled
      BY <1>2 DEF Descends, MakesMove
    <2> QED
      BY <1>1, <2>1, SettledChain
  <1>3. CASE Going.pc \in Moving /\ Top.pc \in Moving
    <2>1. pos' = pos /\ acc' = acc
      BY <1>3 DEF Descends, MakesMove
    <2> QED
      BY <2>1, OrderKept DEF SameMoves
  <1>4. CASE Going.pc \in Moving /\ Top.pc \notin Moving
    <2>1. /\ pos' = Made(Mover(Going))
          /\ acc' = IF Going.pc = "null" THEN acc ELSE Append(acc, Going.move)
          /\ Going.pc # "null" => Going.move \in Moves
      BY <1>4 DEF Descends, MakesMove
    <2>2. CASE Going.pc = "null"
      BY <2>1, <2>2, OrderOfNull DEF Mover
    <2>3. CASE Going.pc # "null"
      BY <2>1, <2>3, OrderPushed DEF Mover
    <2> QED
      BY <2>2, <2>3
  <1> QED
    BY <1>2, <1>3, <1>4

\* Where two frames are of one ply the outer one waits for a search of the
\* same position.
LEMMA PliesRise ==
    ASSUME TypeInv, Path, Height > 0
    PROVE  /\ Height \in Nat /\ Top = stack[Height] /\ Top \in FrameType /\ FrameOk(Top)
           /\ Top.ply \in Nat /\ Top.ply \in Plies /\ Top.ply \in 0 .. MaxPly
           /\ \A i \in 1 .. (Height - 1) :
                /\ stack[i] \in FrameType /\ FrameOk(stack[i])
                /\ stack[i].ply \in Nat /\ stack[i].ply \in Plies
                /\ stack[i].ply <= Top.ply
                /\ stack[i].ply = Top.ply => stack[i].pc \in {"verify", "singular"}
                /\ stack[i].pc \in Moving => stack[i].ply + 1 <= Top.ply
  <1>1. /\ Height \in Nat /\ Height \in 1 .. Height /\ Top = stack[Height]
        /\ \A i \in 1 .. Height : stack[i] \in FrameType
    BY Sizes DEF Top
  <1>2. \A i \in 1 .. Height : stack[i].ply \in Nat /\ stack[i].ply \in 0 .. MaxPly
    BY <1>1, FrameParts
  <1>3. \A i \in 1 .. Height : stack[i].ply \in Plies
    BY <1>2, MaxPlyNat DEF Plies
  <1>4. \A i \in 1 .. Height : FrameOk(stack[i])
    BY DEF Path
  <1>5. ASSUME NEW i \in 1 .. (Height - 1)
        PROVE  /\ stack[i].ply <= Top.ply
               /\ stack[i].ply = Top.ply => stack[i].pc \in {"verify", "singular"}
               /\ stack[i].pc \in Moving => stack[i].ply + 1 <= Top.ply
    <2>1. stack[i].ply + Deeper(stack[i]) <= Top.ply
      BY <1>1 DEF Path
    <2>2. stack[i].pc \in Calls
      BY DEF Path
    <2>3. stack[i].ply \in Nat /\ Top.ply \in Nat
      BY <1>1, <1>2
    <2>4. CASE stack[i].pc \in Moving
      BY <2>1, <2>3, <2>4 DEF Deeper
    <2>5. CASE stack[i].pc \notin Moving
      BY <2>1, <2>2, <2>3, <2>5 DEF Deeper, Calls
    <2> QED
      BY <2>4, <2>5
  <1> QED
    BY <1>1, <1>2, <1>3, <1>4, <1>5

\* A frame that waits for a search of its own position says nothing of the
\* pointer below it.
LEMMA NothingLent ==
    ASSUME NEW f \in FrameType, FrameOk(f), f.pc \in {"verify", "singular", "enter"}, NEW ptr, NEW i
    PROVE  PvLent(f, ptr, i)
  BY DEF PvLent, FrameOk, Quiet

\* The pointer below a frame deeper down is its own business.
LEMMA LentBelow ==
    ASSUME TypeInv, Path, PvHeld, Height > 0, Below,
           \A p \in Plies : p # Next1(Top) => PvKept(p)
    PROVE  /\ ss'[0].pv.owner = 0
           /\ \A i \in 1 .. (Height - 1) :
                /\ IsPv(stack'[i]) => ss'[stack'[i].ply].pv.owner \in 0 .. (i - 1)
                /\ stack'[i].ply < MaxPly => PvLent(stack'[i], ss'[Next1(stack'[i])].pv, i)
           /\ IsPv(Top) => ss'[Top.ply].pv.owner \in 0 .. (Height - 1)
  <1>1. /\ Height \in Nat /\ Height \in 1 .. Height /\ Top = stack[Height]
        /\ Top.ply \in Nat /\ Top.ply \in Plies /\ Top.ply \in 0 .. MaxPly
        /\ \A i \in 1 .. (Height - 1) :
              /\ stack[i] \in FrameType /\ FrameOk(stack[i])
              /\ stack[i].ply \in Nat /\ stack[i].ply \in Plies /\ stack[i].ply <= Top.ply
              /\ stack[i].ply = Top.ply => stack[i].pc \in {"verify", "singular"}
    BY PliesRise
  <1>2. 0 \in Plies /\ 0 # Next1(Top) /\ Top.ply # Next1(Top)
    BY <1>1, MaxPlyNat DEF Plies, Next1
  <1>3. ss'[0].pv.owner = 0
    BY <1>2 DEF PvKept, PvHeld
  <1>4. IsPv(Top) => ss'[Top.ply].pv.owner \in 0 .. (Height - 1)
    BY <1>1, <1>2 DEF PvKept, PvHeld
  <1>5. ASSUME NEW i \in 1 .. (Height - 1)
        PROVE  /\ IsPv(stack'[i]) => ss'[stack'[i].ply].pv.owner \in 0 .. (i - 1)
               /\ stack'[i].ply < MaxPly => PvLent(stack'[i], ss'[Next1(stack'[i])].pv, i)
    <2>1. stack'[i] = stack[i] /\ i \in 1 .. Height
      BY <1>1 DEF Below
    <2>2. PvKept(stack[i].ply)
      BY <1>1 DEF Next1
    <2>3. IsPv(stack'[i]) => ss'[stack'[i].ply].pv.owner \in 0 .. (i - 1)
      BY <2>1, <2>2 DEF PvKept, PvHeld
    <2>4. CASE stack[i].ply = Top.ply
      BY <1>1, <2>1, <2>3, <2>4, NothingLent
    <2>5. CASE stack[i].ply # Top.ply
      <3>1. Next1(stack[i]) \in Plies /\ Next1(stack[i]) # Next1(Top)
        BY <1>1, <2>5, MaxPlyNat DEF Next1, Plies
      <3>2. stack[i].ply < MaxPly => PvLent(stack[i], ss[Next1(stack[i])].pv, i)
        BY <2>1 DEF PvHeld
      <3> QED
        BY <2>1, <2>3, <3>1, <3>2 DEF PvKept, Next1
    <2> QED
      BY <2>4, <2>5
  <1> QED
    BY <1>3, <1>4, <1>5

LEMMA GoesOnPv ==
    ASSUME TypeInv, Path, PvHeld, GoesOn
    PROVE  PvHeld'
  <1>1. /\ Height \in Nat /\ Height > 0 /\ Height' = Height /\ Below
        /\ Going.ply = Top.ply /\ Going.node = Top.node /\ stack'[Height] = Going
        /\ Top.ply < MaxPly => PvLent(Going, ss'[Next1(Top)].pv, Height)
    BY Sizes DEF GoesOn, Height, Going
  <1>2. \A p \in Plies : p # Next1(Top) => PvKept(p)
    BY DEF GoesOn
  <1>3. \A i \in 1 .. (Height - 1) :
          /\ IsPv(stack'[i]) => ss'[stack'[i].ply].pv.owner \in 0 .. (i - 1)
          /\ stack'[i].ply < MaxPly => PvLent(stack'[i], ss'[Next1(stack'[i])].pv, i)
    BY <1>1, <1>2, LentBelow
  <1>4. IsPv(Top) => ss'[Top.ply].pv.owner \in 0 .. (Height - 1)
    BY <1>1, <1>2, LentBelow
  <1>5. ss'[0].pv.owner = 0
    BY <1>1, <1>2, LentBelow
  <1>6. \A i \in 1 .. Height : IsPv(stack'[i]) => ss'[stack'[i].ply].pv.owner \in 0 .. (i - 1)
    BY <1>1, <1>3, <1>4 DEF IsPv
  <1>7. \A i \in 1 .. Height :
          stack'[i].ply < MaxPly => PvLent(stack'[i], ss'[Next1(stack'[i])].pv, i)
    BY <1>1, <1>3 DEF Next1
  <1> QED
    BY <1>1, <1>5, <1>6, <1>7 DEF PvHeld, IsPv, Next1, PvLent

LEMMA DescendsPv ==
    ASSUME TypeInv, Path, PvHeld, Descends
    PROVE  PvHeld'
  <1>1. /\ Height \in Nat /\ Height > 0 /\ Height' = Height + 1 /\ Below
        /\ Going.ply = Top.ply /\ Going.node = Top.node /\ stack'[Height] = Going
        /\ PvLent(Going, ss'[Next1(Top)].pv, Height)
        /\ stack'[Height + 1] = Child /\ Child.pc = "enter"
        /\ IsPv(Child) => Child.ply = Next1(Top) /\ ss'[Next1(Top)].pv.owner = Height
    BY Sizes DEF Descends, Height, Going, Child
  <1>2. \A p \in Plies : p # Next1(Top) => PvKept(p)
    BY DEF Descends
  <1>3. \A i \in 1 .. (Height - 1) :
          /\ IsPv(stack'[i]) => ss'[stack'[i].ply].pv.owner \in 0 .. (i - 1)
          /\ stack'[i].ply < MaxPly => PvLent(stack'[i], ss'[Next1(stack'[i])].pv, i)
    BY <1>1, <1>2, LentBelow
  <1>4. IsPv(Top) => ss'[Top.ply].pv.owner \in 0 .. (Height - 1)
    BY <1>1, <1>2, LentBelow
  <1>5. ss'[0].pv.owner = 0
    BY <1>1, <1>2, LentBelow
  <1>6. \A ptr : PvLent(Child, ptr, Height + 1)
    BY <1>1 DEF PvLent
  <1>7. \A i \in 1 .. (Height + 1) :
          IsPv(stack'[i]) => ss'[stack'[i].ply].pv.owner \in 0 .. (i - 1)
    <2> SUFFICES ASSUME NEW i \in 1 .. (Height + 1), IsPv(stack'[i])
                 PROVE  ss'[stack'[i].ply].pv.owner \in 0 .. (i - 1)
      OBVIOUS
    <2>1. i \in 1 .. (Height - 1) \/ i = Height \/ i = Height + 1
      BY <1>1
    <2> QED
      BY <1>1, <1>3, <1>4, <2>1 DEF IsPv
  <1>8. \A i \in 1 .. (Height + 1) :
          stack'[i].ply < MaxPly => PvLent(stack'[i], ss'[Next1(stack'[i])].pv, i)
    <2> SUFFICES ASSUME NEW i \in 1 .. (Height + 1), stack'[i].ply < MaxPly
                 PROVE  PvLent(stack'[i], ss'[Next1(stack'[i])].pv, i)
      OBVIOUS
    <2>1. i \in 1 .. (Height - 1) \/ i = Height \/ i = Height + 1
      BY <1>1
    <2>2. CASE i = Height
      BY <1>1, <2>2 DEF Next1
    <2> QED
      BY <1>1, <1>3, <1>6, <2>1, <2>2
  <1> QED
    BY <1>1, <1>5, <1>7, <1>8 DEF PvHeld, IsPv, Next1, PvLent

LEMMA LeavesPv ==
    ASSUME TypeInv, Path, PvHeld, Leaves
    PROVE  PvHeld'
  <1>1. /\ Height \in Nat /\ Height > 0 /\ Height' = Height - 1
        /\ \A i \in 1 .. (Height - 1) : stack'[i] = stack[i]
        /\ \A p \in Plies : PvKept(p) \/ ss[p].pv.owner = Height
    BY Sizes DEF Leaves, Height, Below
  <1>2. ss'[0].pv.owner = 0
    <2>1. 0 \in Plies
      BY MaxPlyNat DEF Plies
    <2> QED
      BY <1>1, <2>1 DEF PvHeld, PvKept
  <1>3. \A i \in 1 .. (Height - 1) : /\ stack[i].ply \in Nat /\ stack[i].ply \in Plies
                                     /\ i \in 1 .. Height /\ i # Height
    BY <1>1, PliesRise
  <1>4. \A i \in 1 .. (Height - 1) :
          IsPv(stack'[i]) => ss'[stack'[i].ply].pv.owner \in 0 .. (i - 1)
    BY <1>1, <1>3 DEF PvHeld, PvKept
  <1>5. ASSUME NEW i \in 1 .. (Height - 1), stack'[i].ply < MaxPly
        PROVE  PvLent(stack'[i], ss'[Next1(stack'[i])].pv, i)
    <2>1. Next1(stack[i]) \in Plies
      BY <1>1, <1>3, <1>5, MaxPlyNat DEF Next1, Plies
    <2>2. PvLent(stack[i], ss[Next1(stack[i])].pv, i)
      BY <1>1, <1>3, <1>5 DEF PvHeld
    <2>3. CASE PvKept(Next1(stack[i]))
      BY <1>1, <2>2, <2>3 DEF PvKept
    <2>4. CASE ss[Next1(stack[i])].pv.owner = Height
      <3> DEFINE ptr == ss[Next1(stack[i])].pv
      <3>1. ptr.owner = Height /\ PvLent(stack[i], ptr, i)
        BY <2>2, <2>4
      <3>2. ptr # PvOf(i, stack[i].move) /\ ptr.owner # i /\ ptr # NullPtr
        BY <1>1, <1>3, <3>1 DEF PvOf, NullPtr, NullOwner
      <3> HIDE DEF ptr
      <3>3. \A other : PvLent(stack[i], other, i)
        BY <3>1, <3>2 DEF PvLent
      <3> QED
        BY <1>1, <3>3
    <2> QED
      BY <1>1, <2>1, <2>3, <2>4
  <1> QED
    BY <1>1, <1>2, <1>4, <1>5 DEF PvHeld, IsPv, Next1, PvLent

LEMMA GoesOnNull ==
    ASSUME TypeInv, Path, NullOnce, GoesOn
    PROVE  NullOnce'
  <1>1. /\ Height \in Nat /\ Height > 0 /\ Height' = Height
        /\ \A i \in 1 .. (Height - 1) : stack'[i] = stack[i]
        /\ Going.pc \in AtNode /\ Going.ply = Top.ply
        /\ Going.cut => Top.cut
        /\ stack'[Height] = Going /\ Top = stack[Height] /\ Unverified
    BY Sizes DEF GoesOn, Height, Below, Going, Top
  <1>2. Going.pc \notin {"null", "verify"}
    BY <1>1 DEF AtNode
  <1>3. \A i, j \in 1 .. Height :
          i < j /\ stack'[i].pc = "null" /\ stack'[j].ply = stack'[i].ply + 1 => ~stack'[j].cut
    BY <1>1 DEF NullOnce
  <1>4. \A i \in 1 .. Height : stack'[i].pc = "verify" => nmpMinPly' = stack'[i].ply + VerifyPlies
    <2> SUFFICES ASSUME NEW i \in 1 .. Height, stack'[i].pc = "verify"
                 PROVE  nmpMinPly' = stack'[i].ply + VerifyPlies
      OBVIOUS
    <2>1. i \in 1 .. (Height - 1) /\ i < Height /\ Height \in 1 .. Height
      BY <1>1, <1>2
    <2>2. Top.pc # "verify"
      BY <1>1, <2>1 DEF NullOnce
    <2> QED
      BY <1>1, <2>1, <2>2 DEF NullOnce, Unverified
  <1>5. \A i, j \in 1 .. Height : i < j /\ stack'[i].pc = "verify" =>
          /\ stack'[j].pc # "verify"
          /\ stack'[j].pc = "null" => stack'[j].ply >= stack'[i].ply + VerifyPlies
    BY <1>1, <1>2 DEF NullOnce
  <1> QED
    BY <1>1, <1>3, <1>4, <1>5 DEF NullOnce

LEMMA LeavesNull ==
    ASSUME TypeInv, Path, NullOnce, Leaves
    PROVE  NullOnce'
  <1>1. /\ Height \in Nat /\ Height > 0 /\ Height' = Height - 1
        /\ \A i \in 1 .. (Height - 1) : stack'[i] = stack[i]
        /\ Top = stack[Height] /\ Unverified
    BY Sizes DEF Leaves, Height, Below, Top
  <1>2. \A i, j \in 1 .. Height' :
          i < j /\ stack'[i].pc = "null" /\ stack'[j].ply = stack'[i].ply + 1 => ~stack'[j].cut
    BY <1>1 DEF NullOnce
  <1>3. \A i \in 1 .. Height' : stack'[i].pc = "verify" => nmpMinPly' = stack'[i].ply + VerifyPlies
    <2> SUFFICES ASSUME NEW i \in 1 .. (Height - 1), stack'[i].pc = "verify"
                 PROVE  nmpMinPly' = stack'[i].ply + VerifyPlies
      BY <1>1
    <2>1. i \in 1 .. Height /\ i < Height /\ Height \in 1 .. Height
      BY <1>1
    <2>2. Top.pc # "verify"
      BY <1>1, <2>1 DEF NullOnce
    <2> QED
      BY <1>1, <2>1, <2>2 DEF NullOnce, Unverified
  <1>4. \A i, j \in 1 .. Height' : i < j /\ stack'[i].pc = "verify" =>
          /\ stack'[j].pc # "verify"
          /\ stack'[j].pc = "null" => stack'[j].ply >= stack'[i].ply + VerifyPlies
    BY <1>1 DEF NullOnce
  <1> QED
    BY <1>2, <1>3, <1>4 DEF NullOnce

LEMMA DescendsNull ==
    ASSUME TypeInv, Path, NullOnce, Descends
    PROVE  NullOnce'
  <1>1. /\ Height \in Nat /\ Height > 0 /\ Height' = Height + 1
        /\ \A i \in 1 .. (Height - 1) : stack'[i] = stack[i]
        /\ Going.ply = Top.ply /\ Going.cut = Top.cut
        /\ stack'[Height] = Going /\ Top = stack[Height]
        /\ stack'[Height + 1] = Child /\ Child.pc = "enter"
        /\ Child.ply = Top.ply + Deeper(Going)
        /\ Child.cut => Going.pc # "null" /\ (Child.ply = Top.ply => Top.cut)
        /\ Top.pc # "verify" /\ Height \in 1 .. Height
    BY Sizes DEF Descends, Height, Below, Going, Top, Child
  <1>2. /\ Going.pc = "null" => Top.ply >= nmpMinPly
        /\ Going.pc = "verify" => nmpMinPly = 0 /\ nmpMinPly' = Top.ply + VerifyPlies
        /\ Going.pc # "verify" => nmpMinPly' = nmpMinPly
    BY DEF Descends
  <1>3. /\ Top.ply \in Nat
        /\ \A i \in 1 .. (Height - 1) : stack[i].ply \in Nat /\ stack[i].ply <= Top.ply
        /\ \A i \in 1 .. (Height - 1) : stack[i].pc = "null" => stack[i].ply + 1 <= Top.ply
    BY <1>1, PliesRise DEF Moving
  <1>4. Deeper(Going) \in {0, 1}
    BY DEF Deeper
  <1>5. \A i, j \in 1 .. Height : i < j =>
          (stack'[i].pc = "null" /\ stack'[j].ply = stack'[i].ply + 1 => ~stack'[j].cut)
    BY <1>1 DEF NullOnce
  <1>6. ASSUME NEW i \in 1 .. Height, stack'[i].pc = "null",
               Child.ply = stack'[i].ply + 1
        PROVE  ~Child.cut
    <2>1. CASE i = Height
      BY <1>1, <1>6, <2>1
    <2>2. CASE i \in 1 .. (Height - 1)
      <3>1. Child.ply = Top.ply /\ Top.ply = stack[i].ply + 1
        BY <1>1, <1>3, <1>4, <1>6, <2>2
      <3>2. ~Top.cut
        BY <1>1, <1>6, <2>2, <3>1 DEF NullOnce
      <3> QED
        BY <1>1, <3>1, <3>2
    <2> QED
      BY <1>1, <2>1, <2>2
  <1>7. \A i, j \in 1 .. (Height + 1) :
          i < j /\ stack'[i].pc = "null" /\ stack'[j].ply = stack'[i].ply + 1 => ~stack'[j].cut
    <2> SUFFICES ASSUME NEW i \in 1 .. (Height + 1), NEW j \in 1 .. (Height + 1),
                        i < j, stack'[i].pc = "null", stack'[j].ply = stack'[i].ply + 1
                 PROVE  ~stack'[j].cut
      BY Zenon
    <2>1. i \in 1 .. Height /\ (j \in 1 .. Height \/ j = Height + 1)
      BY <1>1
    <2>2. CASE j \in 1 .. Height
      BY <1>5, <2>1, <2>2
    <2>3. CASE j = Height + 1
      BY <1>1, <1>6, <2>1, <2>3
    <2> QED
      BY <2>1, <2>2, <2>3
  <1>8. ASSUME NEW i \in 1 .. (Height - 1), stack'[i].pc = "verify"
        PROVE  /\ Going.pc # "verify" /\ nmpMinPly' = stack'[i].ply + VerifyPlies
               /\ Going.pc = "null" => Going.ply >= stack'[i].ply + VerifyPlies
    <2>1. nmpMinPly = stack[i].ply + VerifyPlies /\ stack'[i] = stack[i] /\ stack[i].ply \in Nat
      BY <1>1, <1>3, <1>8 DEF NullOnce
    <2> QED
      BY <1>1, <1>2, <2>1, MaxPlyNat
  <1>9. \A i \in 1 .. (Height + 1) :
          stack'[i].pc = "verify" => nmpMinPly' = stack'[i].ply + VerifyPlies
    <2> SUFFICES ASSUME NEW i \in 1 .. (Height + 1), stack'[i].pc = "verify"
                 PROVE  nmpMinPly' = stack'[i].ply + VerifyPlies
      OBVIOUS
    <2>1. i \in 1 .. (Height - 1) \/ i = Height \/ i = Height + 1
      BY <1>1
    <2> QED
      BY <1>1, <1>2, <1>8, <2>1
  <1>10. \A i, j \in 1 .. (Height + 1) : i < j /\ stack'[i].pc = "verify" =>
          /\ stack'[j].pc # "verify"
          /\ stack'[j].pc = "null" => stack'[j].ply >= stack'[i].ply + VerifyPlies
    <2> SUFFICES ASSUME NEW i \in 1 .. (Height + 1), NEW j \in 1 .. (Height + 1),
                        i < j, stack'[i].pc = "verify"
                 PROVE  /\ stack'[j].pc # "verify"
                        /\ stack'[j].pc = "null" => stack'[j].ply >= stack'[i].ply + VerifyPlies
      BY Zenon
    <2>1. j \in 1 .. (Height - 1) \/ j = Height \/ j = Height + 1
      BY <1>1
    <2>2. CASE j \in 1 .. (Height - 1)
      BY <1>1, <2>2 DEF NullOnce
    <2>3. CASE j = Height
      BY <1>1, <1>8, <2>3
    <2>4. CASE j = Height + 1
      BY <1>1, <2>4
    <2> QED
      BY <2>1, <2>2, <2>3, <2>4
  <1> QED
    BY <1>1, <1>7, <1>9, <1>10 DEF NullOnce

LEMMA GoesOnTrusted ==
    ASSUME TypeInv, Trusted, GoesOn, UNCHANGED stop
    PROVE  Trusted'
  <1>1. /\ Height \in Nat /\ Height > 0 /\ Height' = Height
        /\ \A i \in 1 .. (Height - 1) : stack'[i] = stack[i]
        /\ stack'[Height] = Going /\ Going.ok /\ Going.pc \in AtNode /\ ret' = NoValue
    BY Sizes DEF GoesOn, Height, Below, Going
  <1>2. \A i \in 1 .. Height : ~stack'[i].ok => stack'[i].pc = "verify" /\ stop
    BY <1>1 DEF Trusted
  <1>3. \A i \in 1 .. (Height - 1) : stack'[i].pc = "q" => stack'[i + 1].fn = "qsearch"
    <2> SUFFICES ASSUME NEW i \in 1 .. (Height - 1), stack'[i].pc = "q"
                 PROVE  stack'[i + 1].fn = "qsearch"
      OBVIOUS
    <2>1. CASE i + 1 = Height
      <3>1. stack[i].pc = "q" /\ stack[i + 1] = Top
        BY <1>1, <2>1 DEF Top
      <3>2. Top.fn = "qsearch"
        BY <3>1 DEF Trusted
      <3> QED
        BY <1>1, <2>1, <3>2 DEF GoesOn
    <2>2. CASE i + 1 # Height
      BY <1>1, <2>2 DEF Trusted
    <2> QED
      BY <2>1, <2>2
  <1> QED
    BY <1>1, <1>2, <1>3 DEF Trusted, NoValue

LEMMA DescendsTrusted ==
    ASSUME TypeInv, Trusted, Descends, UNCHANGED stop
    PROVE  Trusted'
  <1>1. /\ Height \in Nat /\ Height > 0 /\ Height' = Height + 1
        /\ \A i \in 1 .. (Height - 1) : stack'[i] = stack[i]
        /\ stack'[Height] = Going /\ stack'[Height + 1] = Child /\ Child.ok /\ Child.pc = "enter"
        /\ Going.ok \/ (Going.pc = "verify" /\ stop)
        /\ Going.fn = Top.fn /\ ret' = NoValue
        /\ Going.pc = "q" => Child.fn = "qsearch"
    BY Sizes DEF Descends, Height, Below, Going, Child
  <1>2. \A i \in 1 .. (Height + 1) : ~stack'[i].ok => stack'[i].pc = "verify" /\ stop
    BY <1>1 DEF Trusted
  <1>3. \A i \in 1 .. Height : stack'[i].pc = "q" => stack'[i + 1].fn = "qsearch"
    <2> SUFFICES ASSUME NEW i \in 1 .. Height, stack'[i].pc = "q"
                 PROVE  stack'[i + 1].fn = "qsearch"
      OBVIOUS
    <2>1. CASE i = Height
      BY <1>1, <2>1
    <2>2. CASE i = Height - 1
      <3>1. stack[i].pc = "q" /\ stack[i + 1] = Top /\ i \in 1 .. (Height - 1)
        BY <1>1, <2>2 DEF Top
      <3>2. Top.fn = "qsearch"
        BY <3>1 DEF Trusted
      <3>3. i + 1 = Height
        BY <1>1, <2>2
      <3> QED
        BY <1>1, <3>2, <3>3
    <2>3. CASE i \in 1 .. (Height - 2)
      <3>1. stack'[i] = stack[i] /\ stack'[i + 1] = stack[i + 1] /\ i \in 1 .. (Height - 1)
        BY <1>1, <2>3
      <3> QED
        BY <3>1 DEF Trusted
    <2> QED
      BY <1>1, <2>1, <2>2, <2>3
  <1> QED
    BY <1>1, <1>2, <1>3 DEF Trusted, NoValue

LEMMA LeavesTrusted ==
    ASSUME TypeInv, Trusted, Leaves, UNCHANGED stop
    PROVE  Trusted'
  <1>1. /\ Height \in Nat /\ Height > 0 /\ Height' = Height - 1
        /\ \A i \in 1 .. (Height - 1) : stack'[i] = stack[i]
        /\ ~ret'.ok => stop /\ Top.fn = "search"
    BY Sizes DEF Leaves, Height, Below
  <1>2. \A i \in 1 .. (Height - 1) : ~stack'[i].ok => stack'[i].pc = "verify" /\ stop
    BY <1>1 DEF Trusted
  <1>3. \A i \in 1 .. (Height - 2) : stack'[i].pc = "q" => stack'[i + 1].fn = "qsearch"
    BY <1>1 DEF Trusted
  <1>4. Height' > 0 /\ Top'.pc = "q" => ret'.ok
    <2> SUFFICES ASSUME Height - 1 > 0, stack[Height - 1].pc = "q"
                 PROVE  ret'.ok
      BY <1>1 DEF Top
    <2>1. stack[(Height - 1) + 1].fn = "qsearch"
      BY <1>1 DEF Trusted
    <2>2. Top.fn = "qsearch"
      BY <1>1, <2>1 DEF Top
    <2> QED
      BY <1>1, <2>2
  <1> QED
    BY <1>1, <1>2, <1>3, <1>4 DEF Trusted, NoValue

-----------------------------------------------------------------------------
(* Every step of a call is of one of the three kinds.                      *)

LEMMA AtTop ==
    ASSUME TypeInv, IInv, Height > 0
    PROVE  /\ Top \in FrameType /\ FrameOk(Top) /\ Height \in Nat
           /\ ss \in [Plies -> EntryType] /\ acc \in Seq(Moves)
           /\ Top.ply \in Nat /\ Top.ply \in 0 .. MaxPly /\ Top.ply \in Plies
           /\ Next1(Top) \in Plies /\ Next1(Top) # Top.ply
           /\ PseudoLegal[Top.ply] \subseteq Moves /\ Tactical[Top.ply] \subseteq Moves
           /\ Top.pc # "verify" => Top.ok
           /\ ~Top.ok => stop
           /\ ~ret.ok => stop
           /\ ret # NoValue => ret.c \in {"low", "in", "high"} /\ ret.ok \in BOOLEAN
           /\ ret # NoValue /\ Top.pc = "q" => ret.ok
           /\ Top.ply < MaxPly =>
                /\ Next1(Top) \in 0 .. MaxPly
                /\ PvLent(Top, ss[Next1(Top)].pv, Height)
           /\ IsPv(Top) => ss[Top.ply].pv.owner \in 0 .. (Height - 1)
  <1>1. /\ Top \in FrameType /\ FrameOk(Top) /\ Height \in Nat
        /\ Top.ply \in Nat /\ Top.ply \in 0 .. MaxPly /\ Top.ply \in Plies
    BY PliesRise DEF IInv
  <1>2. Next1(Top) \in Plies /\ Next1(Top) # Top.ply
    BY <1>1, MaxPlyNat DEF Next1, Plies
  <1>3. PseudoLegal[Top.ply] \subseteq Moves /\ Tactical[Top.ply] \subseteq Moves
    BY <1>1, SearchAssumption DEF SearchAssumption
  <1>4. /\ ~Top.ok => Top.pc = "verify" /\ stop
        /\ Top.ply < MaxPly => PvLent(Top, ss[Next1(Top)].pv, Height)
        /\ IsPv(Top) => ss[Top.ply].pv.owner \in 0 .. (Height - 1)
    BY TopParts DEF IInv
  <1>5. /\ ss \in [Plies -> EntryType] /\ acc \in Seq(Moves)
        /\ ret # NoValue => ret.c \in {"low", "in", "high"} /\ ret.ok \in BOOLEAN
    BY DEF TypeInv
  <1>6. /\ ~ret.ok => stop
        /\ ret # NoValue /\ Top.pc = "q" => ret.ok
    BY DEF IInv, Trusted
  <1>7. Top.ply < MaxPly => Next1(Top) \in 0 .. MaxPly
    BY <1>1, MaxPlyNat DEF Next1
  <1> QED
    BY <1>1, <1>2, <1>3, <1>4, <1>5, <1>6, <1>7

LEMMA FrameMade ==
    ASSUME NEW fn \in Children, NEW node \in {Root, PV, NonPV}, NEW ply \in 0 .. MaxPly,
           NEW cut \in BOOLEAN
    PROVE  /\ Frame(fn, node, ply, cut) \in FrameType
           /\ Frame(fn, node, ply, cut).fn = fn /\ Frame(fn, node, ply, cut).node = node
           /\ Frame(fn, node, ply, cut).ply = ply /\ Frame(fn, node, ply, cut).cut = cut
           /\ Frame(fn, node, ply, cut).pc = "enter" /\ Frame(fn, node, ply, cut).ok
  <1>1. Generated(fn, ply) \in SUBSET Moves
    BY SearchAssumption DEF SearchAssumption, Generated
  <1> QED
    BY <1>1 DEF Frame, FrameType, AnyMove, AtNode, Calls

LEMMA AllFrameMade ==
    ASSUME NEW fn \in Children, NEW node \in {Root, PV, NonPV}, NEW ply \in 0 .. MaxPly
    PROVE  /\ Frame(fn, node, ply, FALSE) \in FrameType
           /\ Frame(fn, node, ply, FALSE).fn = fn /\ Frame(fn, node, ply, FALSE).node = node
           /\ Frame(fn, node, ply, FALSE).ply = ply /\ ~Frame(fn, node, ply, FALSE).cut
           /\ Frame(fn, node, ply, FALSE).pc = "enter" /\ Frame(fn, node, ply, FALSE).ok
  <1>1. Generated(fn, ply) \in SUBSET Moves
    BY SearchAssumption DEF SearchAssumption, Generated
  <1> QED
    BY <1>1 DEF Frame, FrameType, AnyMove, AtNode, Calls

\* A node goes on.
LEMMA ItGoesOn ==
    ASSUME TypeInv, Height > 0, NEW f \in FrameType, Go(f),
           f.pc \in AtNode, FrameOk(f), f.ply = Top.ply, f.node = Top.node, f.ok,
           f.cut => Top.cut, Top.fn = "qsearch" => f.fn = "qsearch",
           Settled, Unverified, ss' \in [Plies -> EntryType],
           \A p \in Plies : MoveKept(p) /\ (PvKept(p) \/ (Top.ply < MaxPly /\ p = Next1(Top))),
           Top.ply < MaxPly => PvLent(f, ss'[Next1(Top)].pv, Height)
    PROVE  GoesOn
  BY GoStep DEF GoesOn

\* A node of search says nothing of the pointer below it between its moves.
LEMMA NothingLentYet ==
    ASSUME NEW f \in FrameType, f.fn = "search", f.pc \in AtNode, NEW ptr, NEW i
    PROVE  PvLent(f, ptr, i)
  BY DEF PvLent, AtNode

LEMMA ItGoesOnUnchanged ==
    ASSUME TypeInv, IInv, Height > 0, NEW f \in FrameType, Go(f),
           f.pc \in AtNode, FrameOk(f), f.ply = Top.ply, f.node = Top.node, f.ok,
           f.cut => Top.cut, Top.fn = "qsearch" => f.fn = "qsearch",
           Settled, Unverified, UNCHANGED ss,
           f.fn = "search" \/ (Top.fn = "qsearch" /\ Top.pc # "enter") \/ ~IsPv(f)
    PROVE  GoesOn
  <1>1. /\ ss \in [Plies -> EntryType] /\ FrameOk(Top) /\ Top \in FrameType
        /\ Top.ply < MaxPly => PvLent(Top, ss[Next1(Top)].pv, Height)
    BY AtTop
  <1>2. ss' = ss
    OBVIOUS
  <1>3. /\ ss' \in [Plies -> EntryType]
        /\ \A p \in Plies : MoveKept(p) /\ PvKept(p)
    BY <1>1, <1>2 DEF MoveKept, PvKept
  <1>4. Top.ply < MaxPly => PvLent(f, ss'[Next1(Top)].pv, Height)
    <2>1. CASE f.fn = "search"
      BY <2>1, NothingLentYet
    <2>2. CASE Top.fn = "qsearch" /\ Top.pc # "enter"
      BY <1>1, <1>2, <2>2 DEF PvLent, AtNode, IsPv
    <2>3. CASE ~IsPv(f)
      BY <2>3 DEF PvLent, AtNode
    <2> QED
      BY <2>1, <2>2, <2>3
  <1> QED
    BY <1>3, <1>4, ItGoesOn

\* A node leaves with its move unmade or before it has made one.
LEMMA ItLeaves ==
    ASSUME TypeInv, IInv, Height > 0,
           NEW v \in [c : {"low", "in", "high"}, ok : BOOLEAN],
           NEW searchStack \in [Plies -> EntryType],
           \A p \in Plies : searchStack[p].move = ss[p].move /\ searchStack[p].pv = ss[p].pv,
           ~v.ok => stop /\ Top.fn = "search", Unverified,
           \/ /\ Top.pc \notin Moving /\ acc' = acc /\ Leave(v, pos, searchStack)
           \/ /\ Top.pc \in Moving /\ Leave(v, Unmade, searchStack)
              /\ acc' = IF Top.pc = "null" THEN acc ELSE Popped
    PROVE  Leaves
  <1>1. CASE Top.pc \notin Moving
    <2>1. pos \in Seq(MadeType)
      BY DEF TypeInv
    <2>2. Leave(v, pos, searchStack) /\ acc' = acc
      BY <1>1
    <2>3. /\ stack' \in Seq(FrameType) /\ Len(stack') = Height - 1 /\ Below
          /\ ret' = v /\ pos' = Forgotten(pos)
          /\ ss' \in [Plies -> EntryType]
          /\ \A p \in Plies : /\ ss'[p].move = searchStack[p].move
                              /\ ss'[p].pv = searchStack[p].pv \/ searchStack[p].pv.owner = Height
      BY <2>1, <2>2, LeaveStep
    <2>4. \A p \in Plies : MoveKept(p) /\ (PvKept(p) \/ ss[p].pv.owner = Height)
      BY <2>3 DEF MoveKept, PvKept
    <2> QED
      BY <1>1, <2>2, <2>3, <2>4 DEF Leaves
  <1>2. CASE Top.pc \in Moving
    <2>1. Unmade \in Seq(MadeType)
      <3>1. Len(pos) > 0 /\ pos \in Seq(MadeType)
        BY <1>2, TopOfChain DEF IInv, TypeInv
      <3> QED
        BY <3>1, Dropped DEF Unmade
    <2>2. Leave(v, Unmade, searchStack) /\ acc' = IF Top.pc = "null" THEN acc ELSE Popped
      BY <1>2
    <2>3. /\ stack' \in Seq(FrameType) /\ Len(stack') = Height - 1 /\ Below
          /\ ret' = v /\ pos' = Forgotten(Unmade)
          /\ ss' \in [Plies -> EntryType]
          /\ \A p \in Plies : /\ ss'[p].move = searchStack[p].move
                              /\ ss'[p].pv = searchStack[p].pv \/ searchStack[p].pv.owner = Height
      BY <2>1, <2>2, LeaveStep
    <2>4. \A p \in Plies : MoveKept(p) /\ (PvKept(p) \/ ss[p].pv.owner = Height)
      BY <2>3 DEF MoveKept, PvKept
    <2> QED
      BY <1>2, <2>2, <2>3, <2>4 DEF Leaves
  <1> QED
    BY <1>1, <1>2

LEMMA ItReturns ==
    ASSUME TypeInv, IInv, Height > 0, Top.pc \in AtNode,
           NEW c \in {"low", "in", "high"}, NEW ok \in BOOLEAN, Return(c, ok),
           ~ok => stop /\ Top.fn = "search"
    PROVE  Leaves
  <1>1. Top.pc \notin Moving /\ Top.pc # "verify"
    BY DEF AtNode, Moving
  <1>2. Leave([c |-> c, ok |-> ok], pos, ss) /\ acc' = acc /\ nmpMinPly' = nmpMinPly
    BY DEF Return
  <1>3. ss \in [Plies -> EntryType]
    BY AtTop
  <1>4. [c |-> c, ok |-> ok] \in [c : {"low", "in", "high"}, ok : BOOLEAN]
    OBVIOUS
  <1>5. Unverified
    BY <1>1, <1>2 DEF Unverified
  <1> QED
    BY <1>1, <1>2, <1>3, <1>4, <1>5, ItLeaves

LEMMA ClassesKnown == \A node : Classes(node) \subseteq {"low", "in", "high"}
  BY DEF Classes

LEMMA LeavingAtOnce ==
    ASSUME TypeInv, IInv, Aborted \/ Immediate \/ Cutoff \/ TablebaseCutoff \/ SmallProbCut
    PROVE  Leaves
  <1>1. CASE Aborted
    <2>1. Height > 0 /\ Top.pc \in AtNode /\ stop /\ Top.fn = "search"
      BY <1>1 DEF Aborted, Running, AtNode
    <2>2. PICK c \in {"low", "in", "high"} : Return(c, FALSE)
      BY <1>1, ClassesKnown DEF Aborted
    <2> QED
      BY <2>1, <2>2, ItReturns
  <1>2. CASE Immediate
    <2>1. Height > 0 /\ Top.pc \in AtNode
      BY <1>2 DEF Immediate, Running, AtNode
    <2>2. PICK c \in {"low", "in", "high"} : Return(c, TRUE)
      BY <1>2, ClassesKnown DEF Immediate
    <2> QED
      BY <2>1, <2>2, ItReturns
  <1>3. CASE Cutoff
    <2>1. Height > 0 /\ Top.pc \in AtNode
      BY <1>3 DEF Cutoff, Enters, Running, AtNode
    <2>2. PICK c \in {"low", "in", "high"} : Return(c, TRUE)
      BY <1>3, ClassesKnown DEF Cutoff
    <2> QED
      BY <2>1, <2>2, ItReturns
  <1>4. CASE TablebaseCutoff
    <2>1. Height > 0 /\ Top.pc \in AtNode
      BY <1>4 DEF TablebaseCutoff, Enters, Running, AtNode
    <2>2. PICK c \in {"low", "in", "high"} : Return(c, TRUE)
      BY <1>4, ClassesKnown DEF TablebaseCutoff
    <2> QED
      BY <2>1, <2>2, ItReturns
  <1>5. CASE SmallProbCut
    <2>1. Height > 0 /\ Top.pc \in AtNode /\ Return("high", TRUE)
      BY <1>5 DEF SmallProbCut, Running, AtNode
    <2> QED
      BY <2>1, ItReturns
  <1> QED
    BY <1>1, <1>2, <1>3, <1>4, <1>5

LEMMA Finishing ==
    ASSUME TypeInv, IInv, Finish \/ StandPat \/ QFinish
    PROVE  Leaves
  <1>1. CASE Finish
    <2>1. Height > 0 /\ Top.pc \in AtNode /\ Top.pc # "verify"
      BY <1>1 DEF Finish, Running, AtNode
    <2>2. Top.ok /\ Top.ok \in BOOLEAN
      BY <2>1, AtTop, FrameParts
    <2>3. PICK c \in {"low", "in", "high"} : Return(c, Top.ok)
      BY <1>1, ClassesKnown DEF Finish
    <2> QED
      BY <2>1, <2>2, <2>3, ItReturns
  <1>2. CASE StandPat
    <2>1. Height > 0 /\ Top.pc \in AtNode /\ Return("high", TRUE)
      BY <1>2 DEF StandPat, Enters, Running, AtNode
    <2> QED
      BY <2>1, ItReturns
  <1>3. CASE QFinish
    <2>1. Height > 0 /\ Top.pc \in AtNode /\ Top.pc # "verify"
      BY <1>3 DEF QFinish, Running, AtNode
    <2>2. Top.ok /\ Top.ok \in BOOLEAN /\ Top.best \in {"none", "low", "in", "high"}
      BY <2>1, AtTop, FrameParts
    <2>3. PICK c \in {"low", "in", "high"} : Return(c, Top.ok) \/ Return(c, TRUE)
      <3>1. CASE Top.best = "none"
        BY <1>3, <3>1, ClassesKnown DEF QFinish
      <3>2. CASE Top.best # "none"
        BY <1>3, <2>2, <3>2 DEF QFinish
      <3> QED
        BY <3>1, <3>2
    <2> QED
      BY <2>1, <2>2, <2>3, ItReturns
  <1> QED
    BY <1>1, <1>2, <1>3

LEMMA Unmoved ==
    ASSUME Top.pc \notin Moving, Top.pc # "verify", UNCHANGED <<pos, acc, nmpMinPly>>
    PROVE  Settled /\ Unverified
  BY DEF Settled, Unverified

LEMMA RazorKind ==
    ASSUME TypeInv, IInv, Razor
    PROVE  GoesOn
  <1> DEFINE f == Frame("qsearch", NonPV, Top.ply, FALSE)
  <1>1. /\ Height > 0 /\ Top.pc = "enter" /\ Top.node = NonPV
        /\ Go(f) /\ UNCHANGED <<pos, acc, ss, nmpMinPly>>
    <2>1. Height > 0 /\ Top.pc = "enter" /\ Top.node # PV /\ Top.node # Root
      BY DEF Razor, Enters, Running, IsPv, NonPV, PV, Root
    <2>2. Top.node \in {Root, PV, NonPV}
      BY <2>1, AtTop, FrameParts
    <2> QED
      BY <2>1, <2>2 DEF Razor
  <1>2. /\ f \in FrameType /\ f.fn = "qsearch" /\ f.node = NonPV /\ f.ply = Top.ply
        /\ ~f.cut /\ f.pc = "enter" /\ f.ok
    <2>1. "qsearch" \in Children /\ NonPV \in {Root, PV, NonPV}
      BY DEF Children
    <2>2. Top.ply \in 0 .. MaxPly
      BY <1>1, AtTop
    <2>3. f \in FrameType
      BY <2>1, <2>2, AllFrameMade
    <2>4. /\ f.fn = "qsearch" /\ f.node = NonPV /\ f.ply = Top.ply
          /\ ~f.cut /\ f.pc = "enter" /\ f.ok
      BY DEF Frame
    <2> HIDE DEF f
    <2> QED
      BY <2>3, <2>4
  <1> HIDE DEF f
  <1>3. FrameOk(f) /\ ~IsPv(f) /\ f.pc \in AtNode
    BY <1>2 DEF FrameOk, IsPv, Quiet, Calls, Moving, AtNode, Root, NonPV
  <1>4. Settled /\ Unverified
    BY <1>1, Unmoved DEF Moving
  <1> QED
    BY <1>1, <1>2, <1>3, <1>4, ItGoesOnUnchanged

LEMMA OpenKind ==
    ASSUME TypeInv, IInv, Open
    PROVE  GoesOn
  <1>1. PICK m \in PseudoLegal[Top.ply] \cup {NoMove}, pc \in {"prune", "moves"} :
          Go([Top EXCEPT !.pc = pc, !.ttMove = m])
    BY DEF Open
  <1>2. /\ Height > 0 /\ Top.pc = "enter" /\ Top.fn = "search" /\ (Top.node = Root \/ Top.ply < MaxPly)
        /\ UNCHANGED <<pos, acc, ss, nmpMinPly>>
    BY DEF Open, Enters, Running
  <1> DEFINE f == [Top EXCEPT !.pc = pc, !.ttMove = m]
  <1>3. Top \in FrameType /\ FrameOk(Top) /\ Top.ok /\ m \in AnyMove
    BY <1>2, AtTop DEF AnyMove
  <1>4. /\ f \in FrameType /\ f.pc = pc /\ f.fn = "search" /\ f.ply = Top.ply
        /\ f.node = Top.node /\ f.ok /\ f.cut = Top.cut
    BY <1>2, <1>3 DEF FrameType, AtNode
  <1>5. Top.ply < MaxPly
    BY <1>2, <1>3, MaxPlyNat DEF FrameOk
  <1> HIDE DEF f
  <1>6. FrameOk(f)
    BY <1>3, <1>4, <1>5 DEF FrameOk, Calls, Moving
  <1>7. Settled /\ Unverified
    BY <1>2, Unmoved DEF Moving
  <1> QED
    BY <1>1, <1>2, <1>4, <1>6, <1>7, ItGoesOnUnchanged DEF AtNode, f

LEMMA StartMovesKind ==
    ASSUME TypeInv, IInv, StartMoves
    PROVE  GoesOn
  <1> DEFINE f == [Top EXCEPT !.pc = "moves", !.left = PseudoLegal[Top.ply]]
  <1>1. /\ Height > 0 /\ Top.pc \in {"prune", "probcut"} /\ Top.fn = "search"
        /\ Go(f) /\ UNCHANGED <<pos, acc, ss, nmpMinPly>>
    BY DEF StartMoves, Running
  <1>2. Top \in FrameType /\ FrameOk(Top) /\ Top.ok /\ PseudoLegal[Top.ply] \in SUBSET Moves
    BY <1>1, AtTop
  <1>3. /\ f \in FrameType /\ f.pc = "moves" /\ f.fn = "search" /\ f.ply = Top.ply
        /\ f.node = Top.node /\ f.ok /\ f.cut = Top.cut
    BY <1>1, <1>2 DEF FrameType, AtNode
  <1> HIDE DEF f
  <1>4. FrameOk(f)
    BY <1>1, <1>2, <1>3 DEF FrameOk, Calls, Moving
  <1>5. Settled /\ Unverified
    BY <1>1, Unmoved DEF Moving
  <1> QED
    BY <1>1, <1>3, <1>4, <1>5, ItGoesOnUnchanged DEF AtNode

LEMMA CountedFrame ==
    ASSUME NEW f \in FrameType, NEW m
    PROVE  /\ Counted(f, m) \in FrameType
           /\ Counted(f, m).pc = f.pc /\ Counted(f, m).fn = f.fn /\ Counted(f, m).ply = f.ply
           /\ Counted(f, m).node = f.node /\ Counted(f, m).ok = f.ok /\ Counted(f, m).cut = f.cut
           /\ Counted(f, m).move = f.move /\ Counted(f, m).excluded = f.excluded
           /\ Counted(f, m).moveCount \in {1, 2}
  <1>1. f.moveCount \in 0 .. 2 /\ f.left \in SUBSET Moves
    BY FrameParts
  <1>2. Remaining(f, m) \in SUBSET Moves
    BY <1>1 DEF Remaining
  <1> DEFINE n == IF f.moveCount = 2 THEN 2 ELSE f.moveCount + 1
  <1>3. n \in {1, 2} /\ n \in 0 .. 2
    BY <1>1
  <1>4. Counted(f, m) = [f EXCEPT !.left = Remaining(f, m), !.moveCount = n]
    BY DEF Counted
  <1> HIDE DEF n
  <1> QED
    BY <1>2, <1>3, <1>4, ZenonT(60) DEF FrameType

LEMMA PassOverKind ==
    ASSUME TypeInv, IInv, PassOver
    PROVE  GoesOn
  <1>1. PICK m : Go([Top EXCEPT !.left = @ \ {m}]) \/ Go(Counted(Top, m))
    BY DEF PassOver
  <1>2. /\ Height > 0 /\ Top.pc = "moves" /\ UNCHANGED <<pos, acc, ss, nmpMinPly>>
    BY DEF PassOver, Running
  <1>3. Top \in FrameType /\ FrameOk(Top) /\ Top.ok /\ Top.left \in SUBSET Moves
        /\ Top.fn \in Children
    BY <1>2, AtTop, FrameParts
  <1>4. PICK f : /\ Go(f) /\ f \in FrameType /\ f.pc = "moves" /\ f.fn = Top.fn
                 /\ f.ply = Top.ply /\ f.node = Top.node /\ f.ok /\ f.cut = Top.cut
    <2>1. CASE Go([Top EXCEPT !.left = @ \ {m}])
      <3> DEFINE f == [Top EXCEPT !.left = @ \ {m}]
      <3>1. /\ f \in FrameType /\ f.pc = "moves" /\ f.fn = Top.fn
            /\ f.ply = Top.ply /\ f.node = Top.node /\ f.ok /\ f.cut = Top.cut
        BY <1>2, <1>3 DEF FrameType
      <3> HIDE DEF f
      <3> QED
        BY <2>1, <3>1 DEF f
    <2>2. CASE Go(Counted(Top, m))
      BY <1>2, <1>3, <2>2, CountedFrame
    <2> QED
      BY <1>1, <2>1, <2>2
  <1>5. FrameOk(f)
    BY <1>2, <1>3, <1>4 DEF FrameOk, Calls, Moving
  <1>6. Settled /\ Unverified
    BY <1>2, Unmoved DEF Moving
  <1>7. f.fn = "search" \/ Top.fn = "qsearch"
    BY <1>3, <1>4 DEF Children
  <1> QED
    BY <1>2, <1>4, <1>5, <1>6, <1>7, ItGoesOnUnchanged DEF AtNode

LEMMA QOpenKind ==
    ASSUME TypeInv, IInv, QOpen
    PROVE  GoesOn
  <1>1. PICK m \in PseudoLegal[Top.ply] \cup {NoMove},
             best \in {"none", "low", "in"} :
          Go([Top EXCEPT !.pc = "moves", !.ttMove = m, !.best = best])
    BY DEF QOpen
  <1>2. /\ Height > 0 /\ Top.pc = "enter" /\ Top.fn = "qsearch"
        /\ (Top.node = Root \/ Top.ply < MaxPly)
        /\ ss' = [ss EXCEPT ![Next1(Top)].pv = IF IsPv(Top) THEN PvOf(Height, NoMove) ELSE @]
        /\ UNCHANGED <<pos, acc, nmpMinPly>>
    BY DEF QOpen, Enters, Running
  <1> DEFINE f == [Top EXCEPT !.pc = "moves", !.ttMove = m, !.best = best]
  <1>3. /\ Top \in FrameType /\ FrameOk(Top) /\ Top.ok /\ m \in AnyMove /\ Height \in Nat
        /\ ss \in [Plies -> EntryType] /\ Next1(Top) \in Plies
    BY <1>2, AtTop DEF AnyMove
  <1>4. /\ f \in FrameType /\ f.pc = "moves" /\ f.fn = "qsearch" /\ f.ply = Top.ply
        /\ f.node = Top.node /\ f.ok /\ f.cut = Top.cut
    BY <1>2, <1>3 DEF FrameType, AtNode
  <1>5. Top.ply < MaxPly
    BY <1>2, <1>3, MaxPlyNat DEF FrameOk
  <1> HIDE DEF f
  <1>6. FrameOk(f)
    BY <1>2, <1>3, <1>4, <1>5 DEF FrameOk, Calls, Moving, Quiet
  <1>7. Settled /\ Unverified
    BY <1>2, Unmoved DEF Moving
  <1> DEFINE ptr == IF IsPv(Top) THEN PvOf(Height, NoMove) ELSE ss[Next1(Top)].pv
  <1>8. ptr \in [owner : Int, line : AnyMove]
    BY <1>3 DEF PvOf, AnyMove, EntryType
  <1>9. IsPv(Top) => ptr.owner = Height
    BY DEF PvOf
  <1>10. ss' = [ss EXCEPT ![Next1(Top)].pv = ptr]
    BY <1>2
  <1> HIDE DEF ptr
  <1>11. /\ ss' \in [Plies -> EntryType] /\ ss'[Next1(Top)].pv = ptr
         /\ \A p \in Plies : MoveKept(p) /\ (PvKept(p) \/ p = Next1(Top))
    BY <1>3, <1>8, <1>10 DEF EntryType, MoveKept, PvKept
  <1>12. PvLent(f, ss'[Next1(Top)].pv, Height)
    BY <1>4, <1>9, <1>11 DEF PvLent, IsPv
  <1> QED
    BY <1>1, <1>2, <1>4, <1>5, <1>6, <1>7, <1>11, <1>12, ItGoesOn DEF AtNode, f

\* A node descends: a frame calls, and its own becomes caller.
LEMMA ItDescends ==
    ASSUME TypeInv, IInv, Height > 0, Top.pc # "verify",
           NEW caller \in FrameType, NEW callee \in FrameType, Call(caller, callee),
           caller.pc \in Calls, FrameOk(caller), caller.ply = Top.ply, caller.node = Top.node,
           caller.cut = Top.cut, caller.fn = Top.fn,
           caller.ok \/ (caller.pc = "verify" /\ stop),
           callee.pc = "enter", callee.ok, callee.node # Root,
           callee.ply = Top.ply + Deeper(caller),
           callee.cut => caller.pc # "null" /\ (callee.ply = Top.ply => Top.cut),
           caller.pc = "q" => callee.fn = "qsearch",
           MakesMove(caller), ss' \in [Plies -> EntryType],
           \A p \in Plies : (p # Top.ply => MoveKept(p)) /\ (p # Next1(Top) => PvKept(p)),
           PvLent(caller, ss'[Next1(Top)].pv, Height),
           IsPv(callee) => callee.ply = Next1(Top) /\ ss'[Next1(Top)].pv.owner = Height,
           caller.pc = "null" => Top.ply >= nmpMinPly,
           IF caller.pc = "verify"
           THEN nmpMinPly = 0 /\ nmpMinPly' = Top.ply + VerifyPlies
           ELSE nmpMinPly' = nmpMinPly
    PROVE  Descends
  <1>1. /\ stack' \in Seq(FrameType) /\ Len(stack') = Height + 1 /\ Below
        /\ Going = caller /\ ret' = NoValue
        /\ Child = [callee EXCEPT !.excluded = ss'[callee.ply].excluded]
    BY CallStep
  <1>2. /\ Child.pc = callee.pc /\ Child.ok = callee.ok /\ Child.node = callee.node
        /\ Child.ply = callee.ply /\ Child.cut = callee.cut /\ Child.fn = callee.fn
    BY <1>1 DEF FrameType
  <1>3. IsPv(Child) <=> IsPv(callee)
    BY <1>2 DEF IsPv
  <1> HIDE DEF Child, Going
  <1> QED
    BY <1>1, <1>2, <1>3 DEF Descends

\* Its move made, or still made, a node of search has a child searched.
LEMMA ChildSearched ==
    ASSUME TypeInv, IInv, Height > 0, Top.fn = "search",
           Top.pc \in {"moves", "singular", "lmr", "full"},
           NEW f \in FrameType, f.ply = Top.ply, f.node = Top.node, f.cut = Top.cut,
           f.fn = Top.fn, f.ok, f.move \in Moves,
           NEW step \in {"lmr", "full", "pv"}, NEW fn \in Children, NEW cut \in BOOLEAN,
           ChildOf(f, step, fn, cut),
           ss' \in [Plies -> EntryType],
           \A p \in Plies : (p # Top.ply => MoveKept(p)) /\ (p # Next1(Top) => PvKept(p)),
           step = "pv" => ss'[Next1(Top)].pv = PvOf(Height, f.move),
           IsPv(f) /\ step # "pv" => ss'[Next1(Top)].pv = NullPtr /\ f.moveCount = 2,
           IF Top.pc \in Moving
           THEN pos' = pos /\ acc' = acc /\ MoveKept(Top.ply) /\ f.move = Top.move
           ELSE Do(f.move) /\ ss'[Top.ply].move = f.move,
           nmpMinPly' = nmpMinPly
    PROVE  Descends
  <1> DEFINE caller == [f EXCEPT !.pc = step]
  <1> DEFINE callee == Frame(fn, IF step = "pv" THEN PV ELSE NonPV, Next1(f), cut)
  <1>1. /\ Top \in FrameType /\ FrameOk(Top) /\ Height \in Nat
        /\ Top.pc \notin {"enter", "verify", "null"} /\ Top.ply < MaxPly
        /\ Next1(Top) \in 0 .. MaxPly
    <2>1. Top \in FrameType /\ FrameOk(Top) /\ Height \in Nat
      BY AtTop
    <2>2. Top.ply < MaxPly
      BY <2>1 DEF FrameOk
    <2> QED
      BY <2>1, <2>2, AtTop
  <1>2. Next1(f) = Next1(Top)
    BY DEF Next1
  <1>3. /\ caller \in FrameType /\ caller.pc = step /\ caller.fn = Top.fn /\ caller.ply = Top.ply
        /\ caller.node = Top.node /\ caller.ok /\ caller.cut = Top.cut /\ caller.move = f.move
        /\ caller.moveCount = f.moveCount
    <2>1. step \in Calls \cup AtNode
      BY DEF Calls, Moving
    <2> QED
      BY <2>1 DEF FrameType
  <1> DEFINE node == IF step = "pv" THEN PV ELSE NonPV
  <1>4. /\ callee \in FrameType /\ callee.pc = "enter" /\ callee.ok /\ callee.node = node
        /\ callee.ply = Next1(Top)
    <2>1. node \in {Root, PV, NonPV}
      OBVIOUS
    <2>2. Next1(f) \in 0 .. MaxPly
      BY <1>1, <1>2
    <2> HIDE DEF node
    <2>3. callee \in FrameType
      BY <2>1, <2>2, FrameMade DEF node
    <2>4. callee.pc = "enter" /\ callee.ok /\ callee.node = node /\ callee.ply = Next1(f)
      BY DEF Frame, node
    <2> HIDE DEF callee
    <2> QED
      BY <1>2, <2>3, <2>4
  <1>5. Call(caller, callee)
    BY DEF ChildOf
  <1>6. callee.node # Root /\ (IsPv(callee) => step = "pv")
    BY <1>4 DEF IsPv, Root, PV, NonPV
  <1> HIDE DEF caller, callee, node
  <1>7. caller.pc \in Calls /\ caller.pc \in Moving /\ caller.pc \notin {"null", "verify", "q"}
    BY <1>3 DEF Calls, Moving
  <1>8. FrameOk(caller)
    BY <1>1, <1>3 DEF FrameOk, Quiet
  <1>9. callee.ply = Top.ply + Deeper(caller) /\ callee.ply # Top.ply
    BY <1>1, <1>4, <1>7, FrameParts DEF Deeper, Next1
  <1>10. MakesMove(caller)
    <2>1. Mover(caller) = f.move
      BY <1>3, <1>7 DEF Mover
    <2>2. CASE Top.pc \in Moving
      <3>1. pos' = pos /\ acc' = acc /\ MoveKept(Top.ply) /\ f.move = Top.move
        BY <2>2
      <3>2. Mover(Top) = Top.move
        BY <1>1 DEF Mover
      <3> QED
        BY <1>7, <2>1, <2>2, <3>1, <3>2 DEF MakesMove
    <2>3. CASE Top.pc \notin Moving
      <3>1. pos' = Made(f.move) /\ acc' = Append(acc, f.move) /\ ss'[Top.ply].move = f.move
        BY <2>3 DEF Do
      <3> QED
        BY <1>3, <1>7, <2>1, <2>3, <3>1 DEF MakesMove
    <2> QED
      BY <2>2, <2>3
  <1>11. PvLent(caller, ss'[Next1(Top)].pv, Height)
    <2>1. IsPv(caller) <=> IsPv(f)
      BY <1>3 DEF IsPv
    <2> QED
      BY <1>3, <2>1 DEF PvLent
  <1>12. IsPv(callee) => callee.ply = Next1(Top) /\ ss'[Next1(Top)].pv.owner = Height
    BY <1>4, <1>6 DEF PvOf
  <1> QED
    BY <1>1, <1>3, <1>4, <1>5, <1>6, <1>7, <1>8, <1>9, <1>10, <1>11, <1>12, ItDescends

LEMMA MakeMoveKind ==
    ASSUME TypeInv, IInv, Height > 0, Top.fn = "search", Top.pc \in {"moves", "singular"},
           NEW f \in FrameType, f.ply = Top.ply, f.node = Top.node, f.cut = Top.cut,
           f.fn = Top.fn, f.ok, f.move \in Moves,
           NEW searchStack \in [Plies -> EntryType],
           \A p \in Plies : searchStack[p].move = ss[p].move /\ searchStack[p].pv = ss[p].pv,
           MakeMove(f, searchStack), UNCHANGED nmpMinPly
    PROVE  Descends
  <1>1. /\ Height \in Nat /\ Top.ply \in Plies /\ Next1(Top) \in Plies /\ Next1(Top) # Top.ply
        /\ Next1(f) = Next1(Top)
    BY AtTop DEF Next1
  <1> DEFINE ptr == ChildPv(f, searchStack[Next1(Top)].pv)
  <1>2. /\ ss' = [searchStack EXCEPT ![Top.ply].move = f.move, ![Next1(Top)].pv = ptr]
        /\ Do(f.move) /\ FirstSearch(f)
    BY <1>1 DEF MakeMove
  <1>3. ptr \in [owner : Int, line : AnyMove]
    <2>1. searchStack[Next1(Top)].pv \in [owner : Int, line : AnyMove]
      BY <1>1 DEF EntryType
    <2>2. PvOf(Height, f.move) \in [owner : Int, line : AnyMove]
      BY <1>1 DEF PvOf, AnyMove
    <2>3. NullPtr \in [owner : Int, line : AnyMove]
      BY DEF NullPtr, PvOf, NullOwner, AnyMove
    <2> QED
      BY <2>1, <2>2, <2>3 DEF ChildPv
  <1>4. IsPv(f) => ptr = IF f.moveCount = 1 THEN PvOf(Height, f.move) ELSE NullPtr
    BY DEF ChildPv
  <1> HIDE DEF ptr
  <1>5. /\ ss' \in [Plies -> EntryType] /\ ss'[Next1(Top)].pv = ptr /\ ss'[Top.ply].move = f.move
        /\ \A p \in Plies : /\ p # Top.ply => ss'[p].move = searchStack[p].move
                            /\ p # Next1(Top) => ss'[p].pv = searchStack[p].pv
    <2> DEFINE at == Top.ply
    <2> DEFINE below == Next1(Top)
    <2>1. at \in Plies /\ below \in Plies /\ at # below
      BY <1>1
    <2>2. ss' = [searchStack EXCEPT ![at].move = f.move, ![below].pv = ptr]
      BY <1>2
    <2> HIDE DEF at, below
    <2>3. /\ ss'[at] = [searchStack[at] EXCEPT !.move = f.move]
          /\ ss'[below] = [searchStack[below] EXCEPT !.pv = ptr]
          /\ \A p \in Plies : p # at /\ p # below => ss'[p] = searchStack[p]
          /\ ss' = [p \in Plies |-> ss'[p]]
      BY <2>1, <2>2
    <2>4. \A p \in Plies : searchStack[p] \in EntryType
      OBVIOUS
    <2>5. /\ ss'[at] \in EntryType /\ ss'[at].move = f.move /\ ss'[at].pv = searchStack[at].pv
      BY <2>1, <2>3, <2>4, SMTT(40) DEF EntryType, AnyMove
    <2>6. /\ ss'[below] \in EntryType /\ ss'[below].pv = ptr
          /\ ss'[below].move = searchStack[below].move
      BY <1>3, <2>1, <2>3, <2>4 DEF EntryType
    <2>7. \A p \in Plies : ss'[p] \in EntryType
      BY <2>3, <2>4, <2>5, <2>6
    <2>8. ss' \in [Plies -> EntryType]
      BY <2>3, <2>7
    <2>9. \A p \in Plies : /\ p # at => ss'[p].move = searchStack[p].move
                           /\ p # below => ss'[p].pv = searchStack[p].pv
      BY <2>3, <2>5, <2>6
    <2> QED
      BY <2>5, <2>6, <2>8, <2>9 DEF at, below
  <1>6. \A p \in Plies : (p # Top.ply => MoveKept(p)) /\ (p # Next1(Top) => PvKept(p))
    BY <1>5 DEF MoveKept, PvKept
  <1>7. Top.pc \notin Moving
    BY DEF Moving
  <1>8. f.moveCount \in 0 .. 2 /\ f.cut \in BOOLEAN
    BY FrameParts
  <1>9. ASSUME NEW step \in {"lmr", "full", "pv"}, NEW fn \in Children, NEW cut \in BOOLEAN,
               ChildOf(f, step, fn, cut),
               step = "pv" => IsPv(f) /\ f.moveCount = 1,
               IsPv(f) /\ step # "pv" => f.moveCount > 1
        PROVE  Descends
    <2>1. step = "pv" => ss'[Next1(Top)].pv = PvOf(Height, f.move)
      BY <1>4, <1>5, <1>9
    <2>2. IsPv(f) /\ step # "pv" => ss'[Next1(Top)].pv = NullPtr /\ f.moveCount = 2
      BY <1>4, <1>5, <1>8, <1>9
    <2>3. Do(f.move) /\ ss'[Top.ply].move = f.move
      BY <1>2, <1>5
    <2> QED
      BY <1>5, <1>6, <1>7, <1>9, <2>1, <2>2, <2>3, ChildSearched
  <1>10. CASE f.moveCount > 1 /\ ChildOf(f, "lmr", "search", TRUE)
    BY <1>9, <1>10 DEF Children
  <1>11. CASE (~IsPv(f) \/ f.moveCount > 1) /\ \E fn \in Children : ChildOf(f, "full", fn, ~f.cut)
    <2>1. PICK fn \in Children : ChildOf(f, "full", fn, ~f.cut)
      BY <1>11
    <2> DEFINE cut == ~f.cut
    <2>2. cut \in BOOLEAN /\ ChildOf(f, "full", fn, cut)
      BY <2>1
    <2> HIDE DEF cut
    <2> QED
      BY <1>9, <1>11, <2>2
  <1>12. CASE IsPv(f) /\ f.moveCount = 1 /\ \E fn \in Children : ChildOf(f, "pv", fn, FALSE)
    <2>1. PICK fn \in Children : ChildOf(f, "pv", fn, FALSE)
      BY <1>12
    <2> QED
      BY <1>9, <1>12, <2>1
  <1> QED
    BY <1>2, <1>10, <1>11, <1>12 DEF FirstSearch

LEMMA ExcludedOnly ==
    ASSUME NEW searchStack \in [Plies -> EntryType], NEW at \in Plies, NEW m \in AnyMove
    PROVE  /\ [searchStack EXCEPT ![at].excluded = m] \in [Plies -> EntryType]
           /\ \A p \in Plies :
                /\ [searchStack EXCEPT ![at].excluded = m][p].move = searchStack[p].move
                /\ [searchStack EXCEPT ![at].excluded = m][p].pv = searchStack[p].pv
  <1> DEFINE after == [searchStack EXCEPT ![at].excluded = m]
  <1>1. \A p \in Plies : searchStack[p] \in EntryType
    OBVIOUS
  <1>2. /\ after = [p \in Plies |-> after[p]]
        /\ after[at] = [searchStack[at] EXCEPT !.excluded = m]
        /\ \A p \in Plies : p # at => after[p] = searchStack[p]
    OBVIOUS
  <1> HIDE DEF after
  <1>3. \A p \in Plies : /\ after[p] \in EntryType
                         /\ after[p].move = searchStack[p].move /\ after[p].pv = searchStack[p].pv
    BY <1>1, <1>2 DEF EntryType
  <1>4. after \in [Plies -> EntryType]
    BY <1>2, <1>3
  <1> QED
    BY <1>3, <1>4 DEF after

LEMMA MoveOnly ==
    ASSUME NEW at \in Plies, NEW m \in AnyMove \cup {NullMove}, ss \in [Plies -> EntryType],
           ss' = [ss EXCEPT ![at].move = m]
    PROVE  /\ ss' \in [Plies -> EntryType] /\ ss'[at].move = m
           /\ \A p \in Plies : (p # at => MoveKept(p)) /\ PvKept(p)
  <1>1. \A p \in Plies : ss[p] \in EntryType
    OBVIOUS
  <1>2. /\ ss' = [p \in Plies |-> ss'[p]]
        /\ ss'[at] = [ss[at] EXCEPT !.move = m]
        /\ \A p \in Plies : p # at => ss'[p] = ss[p]
    OBVIOUS
  <1>3. /\ \A p \in Plies : /\ ss'[p] \in EntryType /\ ss'[p].pv = ss[p].pv
                            /\ p # at => ss'[p].move = ss[p].move
        /\ ss'[at].move = m
    BY <1>1, <1>2 DEF EntryType
  <1>4. ss' \in [Plies -> EntryType]
    BY <1>2, <1>3
  <1> QED
    BY <1>3, <1>4 DEF MoveKept, PvKept

LEMMA TryNullMoveKind ==
    ASSUME TypeInv, IInv, TryNullMove
    PROVE  Descends
  <1> DEFINE caller == [Top EXCEPT !.pc = "null"]
  <1>1. /\ Height > 0 /\ Top.pc = "prune" /\ Top.fn = "search"
        /\ Top.cut /\ Top.ply >= nmpMinPly
        /\ pos' = Made(NullMove) /\ acc' = acc /\ nmpMinPly' = nmpMinPly
        /\ ss' = [ss EXCEPT ![Top.ply].move = NullMove]
    BY DEF TryNullMove, Running, NullMoveAllowed, DoNull
  <1>2. PICK fn \in Children : Call(caller, Frame(fn, NonPV, Next1(Top), FALSE))
    BY DEF TryNullMove
  <1> DEFINE callee == Frame(fn, NonPV, Next1(Top), FALSE)
  <1>3. /\ Top \in FrameType /\ FrameOk(Top) /\ Top.ok /\ Top.ply \in Plies /\ Top.ply \in Nat
        /\ ss \in [Plies -> EntryType]
    BY <1>1, AtTop
  <1>4. Top.ply < MaxPly /\ Next1(Top) \in 0 .. MaxPly
    BY <1>1, <1>3, AtTop DEF FrameOk
  <1>5. /\ caller \in FrameType /\ caller.pc = "null" /\ caller.fn = Top.fn /\ caller.ply = Top.ply
        /\ caller.node = Top.node /\ caller.ok /\ caller.cut = Top.cut
    BY <1>3 DEF FrameType, Calls, Moving
  <1>6. callee \in FrameType
    BY <1>4, AllFrameMade
  <1>7. /\ callee.pc = "enter" /\ callee.ok /\ callee.node = NonPV /\ ~callee.cut
        /\ callee.ply = Next1(Top)
    BY DEF Frame
  <1>8. Call(caller, callee)
    BY <1>2
  <1> HIDE DEF caller, callee
  <1>9. /\ ss' \in [Plies -> EntryType] /\ ss'[Top.ply].move = NullMove
        /\ \A p \in Plies : (p # Top.ply => MoveKept(p)) /\ PvKept(p)
    BY <1>1, <1>3, MoveOnly
  <1>10. FrameOk(caller)
    BY <1>1, <1>3, <1>4, <1>5 DEF FrameOk
  <1>11. MakesMove(caller)
    BY <1>1, <1>5, <1>9 DEF MakesMove, Mover, Moving
  <1>12. PvLent(caller, ss'[Next1(Top)].pv, Height)
    BY <1>1, <1>5 DEF PvLent
  <1>13. ~IsPv(callee) /\ callee.node # Root /\ callee.ply = Top.ply + Deeper(caller)
    BY <1>5, <1>7 DEF IsPv, NonPV, Root, Deeper, Moving, Next1
  <1> QED
    BY <1>1, <1>3, <1>5, <1>6, <1>7, <1>8, <1>9, <1>10, <1>11, <1>12, <1>13, ItDescends
       DEF Calls, Moving

LEMMA ProbCutKind ==
    ASSUME TypeInv, IInv, ProbCut
    PROVE  Descends
  <1>1. /\ Height > 0 /\ Top.pc \in {"prune", "probcut"} /\ Top.fn = "search"
        /\ nmpMinPly' = nmpMinPly
    BY DEF ProbCut, Running
  <1>2. /\ Top \in FrameType /\ FrameOk(Top) /\ Top.ok /\ Top.ply \in Plies /\ Top.ply \in Nat
        /\ ss \in [Plies -> EntryType] /\ Top.left \in SUBSET Moves
    BY <1>1, AtTop, FrameParts
  <1>3. PICK m \in Moves :
          /\ Do(m) /\ ss' = [ss EXCEPT ![Top.ply].move = m]
          /\ Call([Top EXCEPT !.pc = "probcutQ", !.left = @ \ {m}, !.move = m],
                  Frame("qsearch", NonPV, Next1(Top), FALSE))
    BY <1>2 DEF ProbCut
  <1> DEFINE caller == [Top EXCEPT !.pc = "probcutQ", !.left = @ \ {m}, !.move = m]
  <1> DEFINE callee == Frame("qsearch", NonPV, Next1(Top), FALSE)
  <1>4. Top.ply < MaxPly /\ Next1(Top) \in 0 .. MaxPly
    BY <1>1, <1>2, AtTop DEF FrameOk
  <1>5. /\ caller \in FrameType /\ caller.pc = "probcutQ" /\ caller.fn = Top.fn
        /\ caller.ply = Top.ply /\ caller.node = Top.node /\ caller.ok /\ caller.cut = Top.cut
        /\ caller.move = m
    BY <1>2 DEF FrameType, Calls, Moving, AnyMove
  <1>6. callee \in FrameType
    BY <1>4, AllFrameMade DEF Children
  <1>7. /\ callee.pc = "enter" /\ callee.ok /\ callee.node = NonPV /\ ~callee.cut
        /\ callee.ply = Next1(Top)
    BY DEF Frame
  <1>8. Call(caller, callee)
    BY <1>3
  <1> HIDE DEF caller, callee
  <1>9. /\ ss' \in [Plies -> EntryType] /\ ss'[Top.ply].move = m
        /\ \A p \in Plies : (p # Top.ply => MoveKept(p)) /\ PvKept(p)
    <2>1. m \in AnyMove \cup {NullMove}
      BY DEF AnyMove
    <2> QED
      BY <1>2, <1>3, <2>1, MoveOnly
  <1>10. FrameOk(caller)
    BY <1>1, <1>2, <1>4, <1>5 DEF FrameOk
  <1>11. MakesMove(caller)
    BY <1>1, <1>3, <1>5, <1>9 DEF MakesMove, Mover, Moving, Do
  <1>12. PvLent(caller, ss'[Next1(Top)].pv, Height)
    BY <1>1, <1>5 DEF PvLent
  <1>13. ~IsPv(callee) /\ callee.node # Root /\ callee.ply = Top.ply + Deeper(caller)
    BY <1>5, <1>7 DEF IsPv, NonPV, Root, Deeper, Moving, Next1
  <1> QED
    BY <1>1, <1>2, <1>5, <1>6, <1>7, <1>8, <1>9, <1>10, <1>11, <1>12, <1>13, ItDescends
       DEF Calls, Moving

LEMMA QMoveKind ==
    ASSUME TypeInv, IInv, QMove
    PROVE  Descends
  <1>1. /\ Height > 0 /\ Top.pc = "moves" /\ Top.fn = "qsearch" /\ nmpMinPly' = nmpMinPly
    BY DEF QMove, Running
  <1>2. /\ Top \in FrameType /\ FrameOk(Top) /\ Top.ok /\ Top.ply \in Plies /\ Top.ply \in Nat
        /\ ss \in [Plies -> EntryType] /\ Top.left \in SUBSET Moves /\ Height \in Nat
        /\ Next1(Top) \in Plies /\ Next1(Top) # Top.ply /\ Top.node \in {PV, NonPV}
    <2>1. Top.node \in {Root, PV, NonPV} /\ Top.left \in SUBSET Moves
      BY <1>1, AtTop, FrameParts
    <2>2. Top.node # Root
      BY <1>1, AtTop DEF FrameOk
    <2> QED
      BY <1>1, <2>1, <2>2, AtTop
  <1>3. PICK m \in Moves :
          /\ Do(m)
          /\ ss' = [ss EXCEPT ![Top.ply].move = m,
                              ![Next1(Top)].pv.line = IF IsPv(Top) THEN m ELSE @]
          /\ Call([Counted(Top, m) EXCEPT !.pc = "q", !.move = m],
                  Frame("qsearch", Top.node, Next1(Top), FALSE))
    BY <1>2, ZenonT(60) DEF QMove, Pickable
  <1> DEFINE caller == [Counted(Top, m) EXCEPT !.pc = "q", !.move = m]
  <1> DEFINE callee == Frame("qsearch", Top.node, Next1(Top), FALSE)
  <1>4. Top.ply < MaxPly /\ Next1(Top) \in 0 .. MaxPly
    BY <1>1, <1>2, AtTop DEF FrameOk
  <1>5. /\ caller \in FrameType /\ caller.pc = "q" /\ caller.fn = Top.fn
        /\ caller.ply = Top.ply /\ caller.node = Top.node /\ caller.ok /\ caller.cut = Top.cut
        /\ caller.move = m
    <2>1. /\ Counted(Top, m) \in FrameType /\ Counted(Top, m).fn = Top.fn
          /\ Counted(Top, m).ply = Top.ply /\ Counted(Top, m).node = Top.node
          /\ Counted(Top, m).ok = Top.ok /\ Counted(Top, m).cut = Top.cut
      BY <1>2, CountedFrame
    <2> QED
      BY <1>2, <2>1 DEF FrameType, Calls, Moving, AnyMove
  <1>6. callee \in FrameType
    BY <1>2, <1>4, AllFrameMade DEF Children
  <1>7. /\ callee.pc = "enter" /\ callee.ok /\ callee.node = Top.node /\ ~callee.cut
        /\ callee.ply = Next1(Top) /\ callee.fn = "qsearch"
    BY DEF Frame
  <1>8. Call(caller, callee)
    BY <1>3
  <1> HIDE DEF caller, callee
  <1>9. IsPv(Top) => ss[Next1(Top)].pv.owner = Height
    <2>1. PvLent(Top, ss[Next1(Top)].pv, Height)
      BY <1>1, <1>4, AtTop
    <2> QED
      BY <1>1, <2>1 DEF PvLent
  <1>10. /\ ss' \in [Plies -> EntryType] /\ ss'[Top.ply].move = m
         /\ \A p \in Plies : (p # Top.ply => MoveKept(p)) /\ (p # Next1(Top) => PvKept(p))
         /\ IsPv(Top) => ss'[Next1(Top)].pv = PvOf(Height, m)
    <2> DEFINE at == Top.ply
    <2> DEFINE below == Next1(Top)
    <2> DEFINE ptr == [ss[below].pv EXCEPT !.line = IF IsPv(Top) THEN m ELSE @]
    <2>1. at \in Plies /\ below \in Plies /\ at # below /\ ss \in [Plies -> EntryType]
      BY <1>2
    <2>2. ss' = [ss EXCEPT ![at].move = m, ![below].pv.line = IF IsPv(Top) THEN m ELSE @]
      BY <1>3
    <2> HIDE DEF at, below, ptr
    <2>3. /\ ss'[at] = [ss[at] EXCEPT !.move = m]
          /\ ss'[below] = [ss[below] EXCEPT !.pv = ptr]
          /\ \A p \in Plies : p # at /\ p # below => ss'[p] = ss[p]
          /\ ss' = [p \in Plies |-> ss'[p]]
      BY <2>1, <2>2 DEF ptr
    <2>4. \A p \in Plies : ss[p] \in EntryType
      BY <2>1
    <2>5. /\ ptr \in [owner : Int, line : AnyMove] /\ ptr.owner = ss[below].pv.owner
          /\ IsPv(Top) => ptr.line = m
      BY <2>1, <2>4 DEF ptr, EntryType, AnyMove
    <2>6. IsPv(Top) => ptr = PvOf(Height, m)
      BY <1>9, <2>5 DEF PvOf, below
    <2>7. ss'[at] \in EntryType /\ ss'[at].move = m /\ ss'[at].pv = ss[at].pv
      BY <2>1, <2>3, <2>4 DEF EntryType, AnyMove
    <2>8. ss'[below] \in EntryType /\ ss'[below].pv = ptr /\ ss'[below].move = ss[below].move
      BY <2>1, <2>3, <2>4, <2>5 DEF EntryType
    <2>9. \A p \in Plies : ss'[p] \in EntryType
      BY <2>3, <2>4, <2>7, <2>8
    <2>10. ss' \in [Plies -> EntryType]
      BY <2>3, <2>9
    <2>11. \A p \in Plies : (p # at => MoveKept(p)) /\ (p # below => PvKept(p))
      BY <2>3, <2>7, <2>8 DEF MoveKept, PvKept
    <2> QED
      BY <2>6, <2>7, <2>8, <2>10, <2>11 DEF at, below
  <1>11. FrameOk(caller)
    BY <1>1, <1>2, <1>4, <1>5 DEF FrameOk, Quiet
  <1>12. MakesMove(caller)
    BY <1>1, <1>3, <1>5, <1>10 DEF MakesMove, Mover, Moving, Do
  <1>13. PvLent(caller, ss'[Next1(Top)].pv, Height)
    BY <1>5, <1>10 DEF PvLent, IsPv, PvOf
  <1>14. /\ callee.node # Root /\ callee.ply = Top.ply + Deeper(caller)
         /\ IsPv(callee) => ss'[Next1(Top)].pv.owner = Height
    BY <1>2, <1>5, <1>7, <1>10 DEF IsPv, PV, NonPV, Root, Deeper, Moving, Next1, PvOf
  <1> QED
    BY <1>1, <1>2, <1>5, <1>6, <1>7, <1>8, <1>10, <1>11, <1>12, <1>13, <1>14, ItDescends
       DEF Calls, Moving

LEMMA PickMoveKind ==
    ASSUME TypeInv, IInv, PickMove
    PROVE  Descends
  <1>1. Height > 0 /\ Top.pc = "moves" /\ Top.fn = "search" /\ nmpMinPly' = nmpMinPly
    BY DEF PickMove, Running
  <1>2. /\ Top \in FrameType /\ FrameOk(Top) /\ Top.ok /\ Top.ply \in Plies /\ Top.ply \in Nat
        /\ ss \in [Plies -> EntryType] /\ Top.left \in SUBSET Moves /\ Height \in Nat
        /\ Next1(Top) \in Plies /\ Next1(Top) # Top.ply /\ Top.cut \in BOOLEAN
        /\ Top.ply \in 0 .. MaxPly
    BY <1>1, AtTop, FrameParts
  <1>3. PICK m \in Moves :
          LET f == [Counted(Top, m) EXCEPT !.move = m]
          IN  \/ MakeMove(f, ss)
              \/ /\ ss' = [ss EXCEPT ![Top.ply].excluded = m,
                                     ![Next1(Top)].pv = IF IsPv(Top) THEN NullPtr ELSE @]
                 /\ Call([f EXCEPT !.pc = "singular"], Frame("search", NonPV, Top.ply, Top.cut))
                 /\ UNCHANGED <<pos, acc>>
    BY <1>2 DEF PickMove, Pickable
  <1> DEFINE f == [Counted(Top, m) EXCEPT !.move = m]
  <1>4. /\ f \in FrameType /\ f.ply = Top.ply /\ f.node = Top.node /\ f.cut = Top.cut
        /\ f.fn = Top.fn /\ f.ok /\ f.move = m
    <2>1. /\ Counted(Top, m) \in FrameType /\ Counted(Top, m).fn = Top.fn
          /\ Counted(Top, m).ply = Top.ply /\ Counted(Top, m).node = Top.node
          /\ Counted(Top, m).ok = Top.ok /\ Counted(Top, m).cut = Top.cut
      BY <1>2, CountedFrame
    <2> QED
      BY <1>2, <2>1 DEF FrameType, AnyMove
  <1>5. CASE MakeMove(f, ss)
    <2> HIDE DEF f
    <2> QED
      BY <1>1, <1>2, <1>4, <1>5, MakeMoveKind
  <1>6. CASE /\ ss' = [ss EXCEPT ![Top.ply].excluded = m,
                                 ![Next1(Top)].pv = IF IsPv(Top) THEN NullPtr ELSE @]
             /\ Call([f EXCEPT !.pc = "singular"], Frame("search", NonPV, Top.ply, Top.cut))
             /\ UNCHANGED <<pos, acc>>
    <2> DEFINE caller == [f EXCEPT !.pc = "singular"]
    <2> DEFINE callee == Frame("search", NonPV, Top.ply, Top.cut)
    <2> HIDE DEF f
    <2>1. /\ caller \in FrameType /\ caller.pc = "singular" /\ caller.fn = Top.fn
          /\ caller.ply = Top.ply /\ caller.node = Top.node /\ caller.ok /\ caller.cut = Top.cut
          /\ caller.move = m
      BY <1>4 DEF FrameType, Calls
    <2>2. callee \in FrameType
      BY <1>2, FrameMade DEF Children
    <2>3. /\ callee.pc = "enter" /\ callee.ok /\ callee.node = NonPV /\ callee.cut = Top.cut
          /\ callee.ply = Top.ply
      BY DEF Frame
    <2>4. Call(caller, callee) /\ pos' = pos /\ acc' = acc
      BY <1>6
    <2> HIDE DEF caller, callee
    <2>5. /\ ss' \in [Plies -> EntryType]
          /\ \A p \in Plies : MoveKept(p) /\ (p # Next1(Top) => PvKept(p))
      <3> DEFINE at == Top.ply
      <3> DEFINE below == Next1(Top)
      <3> DEFINE ptr == IF IsPv(Top) THEN NullPtr ELSE ss[below].pv
      <3>1. at \in Plies /\ below \in Plies /\ at # below /\ ss \in [Plies -> EntryType]
        BY <1>2
      <3>2. ss' = [ss EXCEPT ![at].excluded = m, ![below].pv = ptr]
        BY <1>6
      <3>3. ptr \in [owner : Int, line : AnyMove]
        BY <3>1 DEF EntryType, NullPtr, NullOwner, PvOf, AnyMove
      <3> HIDE DEF at, below, ptr
      <3>4. /\ ss'[at] = [ss[at] EXCEPT !.excluded = m]
            /\ ss'[below] = [ss[below] EXCEPT !.pv = ptr]
            /\ \A p \in Plies : p # at /\ p # below => ss'[p] = ss[p]
            /\ ss' = [p \in Plies |-> ss'[p]]
        BY <3>1, <3>2
      <3>5. \A p \in Plies : ss[p] \in EntryType
        BY <3>1
      <3>6. ss'[at] \in EntryType /\ ss'[at].move = ss[at].move /\ ss'[at].pv = ss[at].pv
        BY <3>1, <3>4, <3>5 DEF EntryType, AnyMove
      <3>7. ss'[below] \in EntryType /\ ss'[below].move = ss[below].move
        BY <3>1, <3>3, <3>4, <3>5 DEF EntryType
      <3>8. \A p \in Plies : ss'[p] \in EntryType
        BY <3>4, <3>5, <3>6, <3>7
      <3>9. ss' \in [Plies -> EntryType]
        BY <3>4, <3>8
      <3> QED
        BY <3>4, <3>6, <3>7, <3>9 DEF MoveKept, PvKept, at, below
    <2>6. FrameOk(caller)
      BY <1>1, <1>2, <2>1 DEF FrameOk
    <2>7. MakesMove(caller)
      <3>1. caller.pc \notin Moving /\ Top.pc \notin Moving
        BY <1>1, <2>1 DEF Moving
      <3> QED
        BY <1>2, <2>4, <2>5, <3>1 DEF MakesMove, Settled
    <2>8. PvLent(caller, ss'[Next1(Top)].pv, Height)
      BY <2>1, <2>6, NothingLent
    <2>9. ~IsPv(callee) /\ callee.node # Root /\ callee.ply = Top.ply + Deeper(caller)
      BY <1>2, <2>1, <2>3 DEF IsPv, NonPV, Root, Deeper, Moving
    <2> QED
      BY <1>1, <1>2, <2>1, <2>2, <2>3, <2>4, <2>5, <2>6, <2>7, <2>8, <2>9, ItDescends DEF Calls
  <1> QED
    BY <1>3, <1>5, <1>6

LEMMA SingularKind ==
    ASSUME TypeInv, IInv, SingularReturned
    PROVE  Descends \/ Leaves
  <1>1. /\ Height > 0 /\ Top.pc = "singular" /\ ret # NoValue /\ nmpMinPly' = nmpMinPly
    BY DEF SingularReturned, Returned
  <1>2. /\ Top \in FrameType /\ FrameOk(Top) /\ Top.ok /\ Top.ply \in Plies
        /\ ss \in [Plies -> EntryType] /\ (~ret.ok => stop)
        /\ Top.fn = "search" /\ Top.move \in Moves
    <2>1. Top \in FrameType /\ FrameOk(Top) /\ Top.fn \in Children
      BY <1>1, AtTop, FrameParts
    <2>2. Top.fn = "search" /\ Top.move \in Moves
      BY <1>1, <2>1 DEF FrameOk, Children, Quiet, Calls
    <2> QED
      BY <1>1, <2>1, <2>2, AtTop
  <1> DEFINE searchStack == Including(Top)
  <1>3. /\ searchStack \in [Plies -> EntryType]
        /\ \A p \in Plies : searchStack[p].move = ss[p].move /\ searchStack[p].pv = ss[p].pv
    <2>1. NoMove \in AnyMove
      BY DEF AnyMove
    <2> QED
      BY <1>2, <2>1, ExcludedOnly DEF Including
  <1>4. \/ MakeMove(Top, searchStack)
        \/ Leave(ret, pos, searchStack) /\ acc' = acc
    BY DEF SingularReturned
  <1> HIDE DEF searchStack
  <1>5. CASE MakeMove(Top, searchStack)
    BY <1>1, <1>2, <1>3, <1>5, MakeMoveKind
  <1>6. CASE Leave(ret, pos, searchStack) /\ acc' = acc
    <2>1. ret \in [c : {"low", "in", "high"}, ok : BOOLEAN]
      BY <1>1 DEF TypeInv
    <2>2. Top.pc \notin Moving /\ Unverified
      BY <1>1 DEF Moving, Unverified
    <2> QED
      BY <1>1, <1>2, <1>3, <1>6, <2>1, <2>2, ItLeaves
  <1> QED
    BY <1>4, <1>5, <1>6

LEMMA ResearchKind ==
    ASSUME TypeInv, IInv, Research
    PROVE  Descends
  <1>1. /\ Height > 0 /\ Top.pc \in {"lmr", "full"} /\ ret # NoValue
        /\ pos' = pos /\ acc' = acc /\ nmpMinPly' = nmpMinPly
    BY DEF Research, Returned
  <1>2. /\ Top \in FrameType /\ FrameOk(Top) /\ Top.ok /\ Top.ply \in Plies /\ Height \in Nat
        /\ ss \in [Plies -> EntryType] /\ Next1(Top) \in Plies /\ Next1(Top) # Top.ply
        /\ Top.fn = "search" /\ Top.move \in Moves /\ Top.cut \in BOOLEAN
        /\ PvLent(Top, ss[Next1(Top)].pv, Height)
    <2>1. /\ Top \in FrameType /\ FrameOk(Top) /\ Top.fn \in Children /\ Top.cut \in BOOLEAN
          /\ Top.pc # "verify"
      BY <1>1, AtTop, FrameParts
    <2>2. Top.fn = "search" /\ Top.move \in Moves /\ Top.ply < MaxPly
      BY <1>1, <2>1 DEF FrameOk, Children, Quiet, Calls, Moving
    <2> QED
      BY <1>1, <2>1, <2>2, AtTop
  <1>3. Top.pc \in Moving /\ Top.pc \in {"moves", "singular", "lmr", "full"}
    BY <1>1 DEF Moving
  <1>4. CASE Top.pc = "lmr" /\ UNCHANGED ss /\ \E fn \in Children : ChildOf(Top, "full", fn, ~Top.cut)
    <2>1. PICK fn \in Children : ChildOf(Top, "full", fn, ~Top.cut)
      BY <1>4
    <2> DEFINE cut == ~Top.cut
    <2>2. cut \in BOOLEAN /\ ChildOf(Top, "full", fn, cut)
      BY <2>1
    <2> HIDE DEF cut
    <2>3. /\ ss' \in [Plies -> EntryType] /\ ss' = ss
          /\ \A p \in Plies : MoveKept(p) /\ PvKept(p)
      BY <1>2, <1>4 DEF MoveKept, PvKept
    <2>4. IsPv(Top) => ss'[Next1(Top)].pv = NullPtr /\ Top.moveCount = 2
      BY <1>2, <1>4, <2>3 DEF PvLent
    <2> QED
      BY <1>1, <1>2, <1>3, <2>2, <2>3, <2>4, ChildSearched
  <1>5. CASE /\ IsPv(Top)
             /\ ss' = [ss EXCEPT ![Next1(Top)].pv = PvOf(Height, Top.move)]
             /\ \E fn \in Children : ChildOf(Top, "pv", fn, FALSE)
    <2>1. PICK fn \in Children : ChildOf(Top, "pv", fn, FALSE)
      BY <1>5
    <2> DEFINE below == Next1(Top)
    <2> DEFINE ptr == PvOf(Height, Top.move)
    <2>2. ptr \in [owner : Int, line : AnyMove] /\ below \in Plies
      BY <1>2 DEF PvOf, AnyMove
    <2>3. ss' = [ss EXCEPT ![below].pv = ptr]
      BY <1>5
    <2> HIDE DEF below, ptr
    <2>4. /\ ss'[below] = [ss[below] EXCEPT !.pv = ptr]
          /\ \A p \in Plies : p # below => ss'[p] = ss[p]
          /\ ss' = [p \in Plies |-> ss'[p]]
      BY <1>2, <2>2, <2>3
    <2>5. \A p \in Plies : ss[p] \in EntryType
      BY <1>2
    <2>6. ss'[below] \in EntryType /\ ss'[below].pv = ptr /\ ss'[below].move = ss[below].move
      BY <2>2, <2>4, <2>5 DEF EntryType
    <2>7. \A p \in Plies : ss'[p] \in EntryType
      BY <2>4, <2>5, <2>6
    <2>8. ss' \in [Plies -> EntryType]
      BY <2>4, <2>7
    <2>9. \A p \in Plies : MoveKept(p) /\ (p # below => PvKept(p))
      BY <2>4, <2>6 DEF MoveKept, PvKept
    <2>10. ss'[Next1(Top)].pv = PvOf(Height, Top.move)
      BY <2>6 DEF below, ptr
    <2>11. FALSE \in BOOLEAN
      OBVIOUS
    <2>12. \A p \in Plies : MoveKept(p) /\ (p # Next1(Top) => PvKept(p))
      BY <2>9 DEF below
    <2> QED
      BY <1>1, <1>2, <1>3, <2>1, <2>8, <2>10, <2>11, <2>12, ChildSearched
  <1> QED
    BY <1>4, <1>5 DEF Research

\* Back from a child, a node of search takes its move back and goes on.
LEMMA SearchGoesOn ==
    ASSUME TypeInv, IInv, Height > 0, Top.pc \in Calls, Top.fn = "search",
           NEW f \in FrameType, Go(f), f.fn = Top.fn, f.ply = Top.ply, f.node = Top.node,
           f.cut = Top.cut, f.ok, f.pc \in {"probcut", "moves", "done"},
           Settled, Unverified, UNCHANGED ss
    PROVE  GoesOn
  <1>1. Top \in FrameType /\ FrameOk(Top)
    BY AtTop
  <1>2. Top.ply < MaxPly
    BY <1>1 DEF FrameOk, Calls, Moving
  <1>3. FrameOk(f) /\ f.pc \in AtNode
    BY <1>1, <1>2 DEF FrameOk, Calls, Moving, AtNode
  <1> QED
    BY <1>3, ItGoesOnUnchanged

\* Only calls of search wait for a verification, a singular or a null search.
LEMMA WaitingSearch ==
    ASSUME TypeInv, IInv, Height > 0, Top.pc \in Calls, Top.pc # "q"
    PROVE  Top.fn = "search"
  <1>1. Top \in FrameType /\ FrameOk(Top) /\ Top.fn \in Children
    BY AtTop, FrameParts
  <1> QED
    BY <1>1 DEF FrameOk, Children, Quiet, Calls, Moving

LEMMA NullMoveKind ==
    ASSUME TypeInv, IInv, NullMoveReturned
    PROVE  Threefold
  <1>1. /\ Height > 0 /\ Top.pc = "null" /\ ret # NoValue
        /\ Top.pc \in Calls /\ Top.pc \in Moving
    BY DEF NullMoveReturned, Returned, Calls, Moving
  <1>2. /\ Top \in FrameType /\ FrameOk(Top) /\ Top.ok /\ Top.ply \in 0 .. MaxPly /\ Top.ply \in Nat
        /\ ss \in [Plies -> EntryType] /\ Top.fn = "search" /\ (~ret.ok => stop)
        /\ ret.ok \in BOOLEAN
    BY <1>1, AtTop, WaitingSearch
  <1>3. CASE Leave([c |-> "high", ok |-> ret.ok], Unmade, ss) /\ UNCHANGED <<acc, nmpMinPly>>
    <2>1. [c |-> "high", ok |-> ret.ok] \in [c : {"low", "in", "high"}, ok : BOOLEAN]
      BY <1>2
    <2>2. Unverified /\ acc' = acc
      BY <1>1, <1>3 DEF Unverified
    <2> QED
      BY <1>1, <1>2, <1>3, <2>1, <2>2, ItLeaves DEF Threefold
  <1>4. CASE /\ nmpMinPly = 0 /\ UndoNull /\ nmpMinPly' = Top.ply + VerifyPlies /\ UNCHANGED ss
             /\ Call([Top EXCEPT !.pc = "verify", !.ok = ret.ok],
                     Frame("search", NonPV, Top.ply, FALSE))
    <2> DEFINE caller == [Top EXCEPT !.pc = "verify", !.ok = ret.ok]
    <2> DEFINE callee == Frame("search", NonPV, Top.ply, FALSE)
    <2>1. /\ caller \in FrameType /\ caller.pc = "verify" /\ caller.fn = Top.fn
          /\ caller.ply = Top.ply /\ caller.node = Top.node /\ caller.cut = Top.cut
          /\ caller.ok = ret.ok
      BY <1>2 DEF FrameType, Calls
    <2>2. callee \in FrameType
      BY <1>2, AllFrameMade DEF Children
    <2>3. /\ callee.pc = "enter" /\ callee.ok /\ callee.node = NonPV /\ ~callee.cut
          /\ callee.ply = Top.ply
      BY DEF Frame
    <2>4. Call(caller, callee)
      BY <1>4
    <2> HIDE DEF caller, callee
    <2>5. /\ ss' \in [Plies -> EntryType]
          /\ \A p \in Plies : MoveKept(p) /\ PvKept(p)
      BY <1>2, <1>4 DEF MoveKept, PvKept
    <2>6. FrameOk(caller)
      BY <1>1, <1>2, <2>1 DEF FrameOk
    <2>7. MakesMove(caller)
      <3>1. Settled
        BY <1>1, <1>4 DEF Settled, UndoNull
      <3>2. MoveKept(Top.ply)
        BY <1>4 DEF MoveKept
      <3> QED
        BY <2>1, <3>1, <3>2 DEF MakesMove, Moving
    <2>8. PvLent(caller, ss'[Next1(Top)].pv, Height)
      BY <2>1, <2>6, NothingLent
    <2>9. ~IsPv(callee) /\ callee.node # Root /\ callee.ply = Top.ply + Deeper(caller)
      BY <1>2, <2>1, <2>3 DEF IsPv, NonPV, Root, Deeper, Moving
    <2>10. Descends
      BY <1>1, <1>2, <1>4, <2>1, <2>2, <2>3, <2>4, <2>5, <2>6, <2>7, <2>8, <2>9, ItDescends
         DEF Calls
    <2> QED
      BY <2>10 DEF Threefold
  <1>5. CASE UndoNull /\ Go([Top EXCEPT !.pc = "probcut"]) /\ UNCHANGED <<ss, nmpMinPly>>
    <2> DEFINE f == [Top EXCEPT !.pc = "probcut"]
    <2>1. /\ f \in FrameType /\ f.pc = "probcut" /\ f.fn = Top.fn /\ f.ply = Top.ply
          /\ f.node = Top.node /\ f.cut = Top.cut /\ f.ok
      BY <1>2 DEF FrameType, AtNode
    <2>2. Go(f)
      BY <1>5
    <2> HIDE DEF f
    <2>3. Settled /\ Unverified
      BY <1>1, <1>5 DEF Settled, Unverified, UndoNull
    <2> QED
      BY <1>1, <1>2, <1>5, <2>1, <2>2, <2>3, SearchGoesOn DEF Threefold
  <1> QED
    BY <1>3, <1>4, <1>5 DEF NullMoveReturned

LEMMA VerificationKind ==
    ASSUME TypeInv, IInv, VerificationReturned
    PROVE  Threefold
  <1>1. /\ Height > 0 /\ Top.pc = "verify" /\ ret # NoValue /\ nmpMinPly' = 0 /\ acc' = acc
        /\ Top.pc \in Calls /\ Top.pc \notin Moving
    BY DEF VerificationReturned, Returned, Calls, Moving
  <1>2. /\ Top \in FrameType /\ FrameOk(Top) /\ (~Top.ok => stop) /\ Top.ok \in BOOLEAN
        /\ ss \in [Plies -> EntryType] /\ Top.fn = "search"
    BY <1>1, AtTop, WaitingSearch, FrameParts
  <1>3. Unverified
    BY <1>1 DEF Unverified
  <1>4. CASE Leave([c |-> "high", ok |-> Top.ok], pos, ss)
    <2>1. [c |-> "high", ok |-> Top.ok] \in [c : {"low", "in", "high"}, ok : BOOLEAN]
      BY <1>2
    <2> QED
      BY <1>1, <1>2, <1>3, <1>4, <2>1, ItLeaves DEF Threefold
  <1>5. CASE Go([Top EXCEPT !.pc = "probcut", !.ok = TRUE]) /\ UNCHANGED <<pos, ss>>
    <2> DEFINE f == [Top EXCEPT !.pc = "probcut", !.ok = TRUE]
    <2>1. /\ f \in FrameType /\ f.pc = "probcut" /\ f.fn = Top.fn /\ f.ply = Top.ply
          /\ f.node = Top.node /\ f.cut = Top.cut /\ f.ok
      BY <1>2 DEF FrameType, AtNode
    <2>2. Go(f) /\ Settled
      BY <1>1, <1>5 DEF Settled
    <2> HIDE DEF f
    <2> QED
      BY <1>1, <1>2, <1>3, <1>5, <2>1, <2>2, SearchGoesOn DEF Threefold
  <1> QED
    BY <1>4, <1>5 DEF VerificationReturned

LEMMA ProbCutReturnedKind ==
    ASSUME TypeInv, IInv, ProbCutReturned
    PROVE  Threefold
  <1>1. /\ Height > 0 /\ Top.pc \in {"probcutQ", "probcutS"} /\ ret # NoValue
        /\ Top.pc \in Calls /\ Top.pc \in Moving /\ Top.pc \notin {"null", "verify", "q"}
    BY DEF ProbCutReturned, Returned, Calls, Moving
  <1>2. /\ Top \in FrameType /\ FrameOk(Top) /\ Top.ok /\ Top.ply \in 0 .. MaxPly /\ Top.ply \in Nat
        /\ ss \in [Plies -> EntryType] /\ Top.fn = "search" /\ (~ret.ok => stop)
        /\ ret.ok \in BOOLEAN /\ Top.cut \in BOOLEAN /\ Top.move \in Moves
    <2>1. Top.move \in Moves
      BY <1>1, AtTop DEF FrameOk
    <2> QED
      BY <1>1, <2>1, AtTop, WaitingSearch, FrameParts
  <1>3. CASE /\ UNCHANGED <<pos, acc, ss, nmpMinPly>>
             /\ Call([Top EXCEPT !.pc = "probcutS"],
                     Frame("search", NonPV, Next1(Top), ~Top.cut))
    <2> DEFINE caller == [Top EXCEPT !.pc = "probcutS"]
    <2> DEFINE cut == ~Top.cut
    <2> DEFINE callee == Frame("search", NonPV, Next1(Top), cut)
    <2>1. /\ caller \in FrameType /\ caller.pc = "probcutS" /\ caller.fn = Top.fn
          /\ caller.ply = Top.ply /\ caller.node = Top.node /\ caller.cut = Top.cut
          /\ caller.ok /\ caller.move = Top.move
      BY <1>2 DEF FrameType, Calls, Moving
    <2>2. Top.ply < MaxPly /\ Next1(Top) \in 0 .. MaxPly
      <3>1. Top.ply < MaxPly
        BY <1>1, <1>2 DEF FrameOk
      <3> QED
        BY <1>1, <3>1, AtTop
    <2>3. cut \in BOOLEAN /\ Call(caller, callee)
      BY <1>3
    <2> HIDE DEF cut
    <2>4. callee \in FrameType
      BY <2>2, <2>3, FrameMade DEF Children
    <2>5. /\ callee.pc = "enter" /\ callee.ok /\ callee.node = NonPV /\ callee.ply = Next1(Top)
      BY DEF Frame
    <2> HIDE DEF caller, callee
    <2>6. /\ ss' \in [Plies -> EntryType]
          /\ \A p \in Plies : MoveKept(p) /\ PvKept(p)
      BY <1>2, <1>3 DEF MoveKept, PvKept
    <2>7. FrameOk(caller)
      BY <1>2, <2>1, <2>2 DEF FrameOk
    <2>8. MakesMove(caller)
      BY <1>1, <1>3, <2>1 DEF MakesMove, Moving, Mover, MoveKept
    <2>9. PvLent(caller, ss'[Next1(Top)].pv, Height)
      BY <1>2, <2>1 DEF PvLent
    <2>10. /\ ~IsPv(callee) /\ callee.node # Root /\ callee.ply = Top.ply + Deeper(caller)
           /\ callee.ply # Top.ply
      BY <1>2, <2>1, <2>5 DEF IsPv, NonPV, Root, Deeper, Moving, Next1
    <2>11. Descends
      BY <1>1, <1>2, <1>3, <2>1, <2>3, <2>4, <2>5, <2>6, <2>7, <2>8, <2>9, <2>10, ItDescends
         DEF Calls, Moving
    <2> QED
      BY <2>11 DEF Threefold
  <1>4. CASE Leave([c |-> "high", ok |-> ret.ok], Unmade, ss) /\ acc' = Popped /\ UNCHANGED nmpMinPly
    <2>1. [c |-> "high", ok |-> ret.ok] \in [c : {"low", "in", "high"}, ok : BOOLEAN]
      BY <1>2
    <2>2. Unverified
      BY <1>1, <1>4 DEF Unverified
    <2> QED
      BY <1>1, <1>2, <1>4, <2>1, <2>2, ItLeaves DEF Threefold
  <1>5. CASE /\ Go([Top EXCEPT !.pc = "probcut", !.move = NoMove])
             /\ pos' = Unmade /\ acc' = Popped /\ UNCHANGED <<ss, nmpMinPly>>
    <2> DEFINE f == [Top EXCEPT !.pc = "probcut", !.move = NoMove]
    <2>1. /\ f \in FrameType /\ f.pc = "probcut" /\ f.fn = Top.fn /\ f.ply = Top.ply
          /\ f.node = Top.node /\ f.cut = Top.cut /\ f.ok
      BY <1>2 DEF FrameType, AtNode, AnyMove
    <2>2. Go(f) /\ Settled /\ Unverified
      BY <1>1, <1>5 DEF Settled, Unverified
    <2> HIDE DEF f
    <2> QED
      BY <1>1, <1>2, <1>5, <2>1, <2>2, SearchGoesOn DEF Threefold
  <1> QED
    BY <1>3, <1>4, <1>5 DEF ProbCutReturned, ProbCutHeld, Undo

\* The class a value has for the parent, and the better of two classes.
LEMMA Flipped ==
    ASSUME NEW c \in {"low", "in", "high"}
    PROVE  Flip(c) \in {"low", "in", "high"} /\ (Flip(c) = "low" <=> c = "high")
  BY DEF Flip

LEMMA BetterKnown ==
    ASSUME NEW c, NEW d
    PROVE  Better(c, d) \in {"none", "low", "in", "high"}
  BY DEF Better

LEMMA ScoredFrame ==
    ASSUME NEW f \in FrameType, f.ok, ret.ok, NEW c
    PROVE  LET g == [f EXCEPT !.best = Better(@, c), !.ok = @ /\ ret.ok, !.move = NoMove,
                              !.pc = IF c = "high" THEN "done" ELSE "moves"]
           IN  /\ g \in FrameType /\ g.pc \in {"moves", "done"} /\ g.fn = f.fn /\ g.ply = f.ply
               /\ g.node = f.node /\ g.cut = f.cut /\ g.ok
  <1> DEFINE best == Better(f.best, c)
  <1> DEFINE pc == IF c = "high" THEN "done" ELSE "moves"
  <1> DEFINE g == [f EXCEPT !.best = best, !.ok = TRUE, !.move = NoMove, !.pc = pc]
  <1>1. best \in {"none", "low", "in", "high"} /\ pc \in {"moves", "done"}
    BY BetterKnown
  <1> HIDE DEF best, pc
  <1>2. /\ g \in FrameType /\ g.pc \in {"moves", "done"} /\ g.fn = f.fn /\ g.ply = f.ply
        /\ g.node = f.node /\ g.cut = f.cut /\ g.ok
    BY <1>1, ZenonT(60) DEF FrameType, AtNode, AnyMove
  <1>3. (f.ok /\ ret.ok) = TRUE
    OBVIOUS
  <1>4. g = [f EXCEPT !.best = Better(@, c), !.ok = @ /\ ret.ok, !.move = NoMove,
                      !.pc = IF c = "high" THEN "done" ELSE "moves"]
    BY <1>3, Zenon DEF best, pc
  <1> HIDE DEF g
  <1> QED
    BY <1>2, <1>4

LEMMA MoveReturnedKind ==
    ASSUME TypeInv, IInv, MoveReturned
    PROVE  Threefold
  <1>1. /\ Height > 0 /\ Top.pc \in {"lmr", "full", "pv"} /\ ret # NoValue
        /\ Top.pc \in Calls /\ Top.pc \in Moving /\ Top.pc \notin {"null", "verify", "q"}
    BY DEF MoveReturned, Returned, Calls, Moving
  <1>2. /\ Top \in FrameType /\ FrameOk(Top) /\ Top.ok /\ Top.best \in {"none", "low", "in", "high"}
        /\ ss \in [Plies -> EntryType] /\ Top.fn = "search" /\ (~ret.ok => stop)
        /\ ret.ok \in BOOLEAN
    BY <1>1, AtTop, WaitingSearch, FrameParts
  <1>3. CASE Interrupted(Top)
    <2>1. PICK c \in {"low", "in", "high"} : Leave([c |-> c, ok |-> FALSE], Unmade, ss)
      BY <1>3, ClassesKnown DEF MoveReturned
    <2>2. acc' = Popped /\ nmpMinPly' = nmpMinPly /\ stop
      BY <1>3 DEF MoveReturned, Interrupted
    <2>3. [c |-> c, ok |-> FALSE] \in [c : {"low", "in", "high"}, ok : BOOLEAN]
      OBVIOUS
    <2>4. Unverified
      BY <1>1, <2>2 DEF Unverified
    <2> QED
      BY <1>1, <1>2, <2>1, <2>2, <2>3, <2>4, ItLeaves DEF Threefold
  <1>4. CASE ~Interrupted(Top)
    <2> DEFINE c == Flip(ret.c)
    <2>1. SearchedMove(c) /\ ~stop /\ ret.ok
      BY <1>2, <1>4 DEF MoveReturned, Interrupted
    <2> HIDE DEF c
    <2> DEFINE f == [Top EXCEPT !.best = Better(@, c), !.ok = @ /\ ret.ok, !.move = NoMove,
                                !.pc = IF c = "high" THEN "done" ELSE "moves"]
    <2>2. /\ f \in FrameType /\ f.pc \in {"moves", "done"} /\ f.fn = Top.fn /\ f.ply = Top.ply
          /\ f.node = Top.node /\ f.cut = Top.cut /\ f.ok
      BY <1>2, <2>1, ScoredFrame
    <2>3. Go(f) /\ Undo /\ UNCHANGED <<ss, nmpMinPly>>
      BY <2>1 DEF SearchedMove
    <2> HIDE DEF f
    <2>4. Settled /\ Unverified
      BY <1>1, <2>3 DEF Settled, Unverified, Undo
    <2> QED
      BY <1>1, <1>2, <2>2, <2>3, <2>4, SearchGoesOn DEF Threefold
  <1> QED
    BY <1>3, <1>4

LEMMA QMoveReturnedKind ==
    ASSUME TypeInv, IInv, QMoveReturned
    PROVE  GoesOn
  <1>1. Height > 0 /\ Top.pc = "q" /\ ret # NoValue /\ Undo /\ UNCHANGED <<ss, nmpMinPly>>
    BY DEF QMoveReturned, Returned
  <1>2. /\ Top \in FrameType /\ FrameOk(Top) /\ Top.ok /\ ret.ok
        /\ Top.best \in {"none", "low", "in", "high"}
    BY <1>1, AtTop, FrameParts
  <1>3. Top.fn = "qsearch" /\ Top.ply < MaxPly
    BY <1>1, <1>2 DEF FrameOk
  <1> DEFINE c == Flip(ret.c)
  <1> DEFINE f == [Top EXCEPT !.pc = IF c = "high" THEN "done" ELSE "moves",
                              !.best = Better(@, c), !.ok = @ /\ ret.ok, !.move = NoMove]
  <1>4. Go(f)
    BY DEF QMoveReturned
  <1> HIDE DEF c
  <1>5. /\ f \in FrameType /\ f.pc \in {"moves", "done"} /\ f.fn = "qsearch" /\ f.ply = Top.ply
        /\ f.node = Top.node /\ f.cut = Top.cut /\ f.ok
    <2>1. f = [Top EXCEPT !.best = Better(@, c), !.ok = @ /\ ret.ok, !.move = NoMove,
                          !.pc = IF c = "high" THEN "done" ELSE "moves"]
      BY <1>2, Zenon DEF FrameType
    <2> DEFINE g == [Top EXCEPT !.best = Better(@, c), !.ok = @ /\ ret.ok, !.move = NoMove,
                                !.pc = IF c = "high" THEN "done" ELSE "moves"]
    <2>2. /\ g \in FrameType /\ g.pc \in {"moves", "done"} /\ g.fn = Top.fn /\ g.ply = Top.ply
          /\ g.node = Top.node /\ g.cut = Top.cut /\ g.ok
      BY <1>2, ScoredFrame
    <2>3. f = g
      BY <2>1
    <2> HIDE DEF f, g
    <2> QED
      BY <1>3, <2>2, <2>3
  <1> HIDE DEF f
  <1>6. Settled /\ Unverified
    BY <1>1 DEF Settled, Unverified, Undo, Moving
  <1>7. FrameOk(f) /\ f.pc \in AtNode
    BY <1>2, <1>3, <1>5 DEF FrameOk, Calls, Moving, Quiet, AtNode
  <1> QED
    BY <1>1, <1>2, <1>3, <1>4, <1>5, <1>6, <1>7, ItGoesOnUnchanged

LEMMA StepKinds ==
    ASSUME TypeInv, IInv, Step
    PROVE  Threefold
  BY LeavingAtOnce, Finishing, RazorKind, OpenKind, StartMovesKind, PassOverKind, QOpenKind,
     TryNullMoveKind, ProbCutKind, QMoveKind, PickMoveKind, SingularKind, ResearchKind,
     NullMoveKind, VerificationKind, ProbCutReturnedKind, MoveReturnedKind, QMoveReturnedKind
     DEF Step, Threefold

-----------------------------------------------------------------------------
(* What a step stores and which pv arrays it touches.                      *)

Honest(e) ==
    /\ e.kind = "pv" => e.ok
    /\ e.kind \in {"tt", "root"} /\ e.site # "probcut" => e.ok

LEMMA HonestKinds ==
    /\ \A site : Honest(Stored(site, TRUE))
    /\ \A ok : Honest(Stored("probcut", ok))
    /\ Honest(RootScored(TRUE))
    /\ \A ptr, m : ptr \in {NullPtr, PvOf(Height, m)} => Honest(PvRead(ptr, m))
    /\ \A ptr, m : ptr = PvOf(Height, m) => Honest(PvFollowed(ptr, m))
    /\ \A ptr : ptr.owner \in 0 .. (Height - 1) => Honest(PvWritten(ptr))
  BY DEF Honest, Stored, RootScored, PvRead, PvFollowed, PvWritten

LEMMA StoredHonest ==
    ASSUME TypeInv, IInv, Finish \/ QFinish
    PROVE  \A e \in effects' : Honest(e)
  <1>1. Height > 0 /\ Top.pc # "verify"
    BY DEF Finish, QFinish, Running
  <1>2. Top.ok = TRUE
    BY <1>1, AtTop, FrameParts
  <1>3. effects' \subseteq {Stored("node", TRUE), Stored("qnode", TRUE)}
    BY <1>2 DEF Finish, QFinish
  <1> QED
    BY <1>3, HonestKinds

LEMMA PvHonest ==
    ASSUME TypeInv, IInv, StandPat \/ QOpen
    PROVE  \A e \in effects' : Honest(e)
  <1>1. Height > 0
    BY DEF StandPat, QOpen, Enters, Running
  <1>2. IsPv(Top) => ss[Top.ply].pv.owner \in 0 .. (Height - 1)
    BY <1>1, AtTop
  <1>3. \A e \in effects' : \/ e = Stored("standpat", TRUE)
                            \/ IsPv(Top) /\ e = PvWritten(ss[Top.ply].pv)
    <2>1. CASE StandPat
      <3>1. PICK ttHit \in BOOLEAN :
              effects' = (IF ttHit THEN {} ELSE {Stored("standpat", TRUE)})
                         \cup (IF IsPv(Top) THEN {PvWritten(ss[Top.ply].pv)} ELSE {})
        BY <2>1 DEF StandPat
      <3>2. effects' \subseteq {Stored("standpat", TRUE)}
                              \cup (IF IsPv(Top) THEN {PvWritten(ss[Top.ply].pv)} ELSE {})
        BY <3>1, Zenon
      <3> QED
        BY <3>2
    <2>2. CASE QOpen
      BY <2>2 DEF QOpen
    <2> QED
      BY <2>1, <2>2
  <1> QED
    BY <1>2, <1>3, HonestKinds

LEMMA QHonest ==
    ASSUME TypeInv, IInv, QMoveReturned
    PROVE  \A e \in effects' : Honest(e)
  <1>1. Height > 0 /\ Top.pc = "q"
    BY DEF QMoveReturned, Returned
  <1>2. IsPv(Top) => ss[Top.ply].pv.owner \in 0 .. (Height - 1)
    BY <1>1, AtTop
  <1>3. IsPv(Top) => ss[Next1(Top)].pv = PvOf(Height, Top.move)
    <2>1. FrameOk(Top)
      BY <1>1, AtTop
    <2>2. Top.ply < MaxPly
      BY <1>1, <2>1 DEF FrameOk
    <2>3. PvLent(Top, ss[Next1(Top)].pv, Height)
      BY <1>1, <2>2, AtTop
    <2> QED
      BY <1>1, <2>3 DEF PvLent
  <1>4. \A e \in effects' :
          IsPv(Top) /\ e \in {PvRead(ss[Next1(Top)].pv, Top.move), PvWritten(ss[Top.ply].pv)}
    BY DEF QMoveReturned
  <1> QED
    BY <1>2, <1>3, <1>4, HonestKinds

LEMMA MoveHonest ==
    ASSUME TypeInv, IInv, MoveReturned
    PROVE  \A e \in effects' : Honest(e)
  <1>1. /\ Height > 0 /\ Top.pc \in {"lmr", "full", "pv"} /\ ret # NoValue
        /\ Top.pc = "pv" \/ ~IsPv(Top) \/ ret.c = "high"
    BY DEF MoveReturned, Returned
  <1>2. /\ Top \in FrameType /\ FrameOk(Top) /\ (~ret.ok => stop) /\ ret.ok \in BOOLEAN
        /\ ret.c \in {"low", "in", "high"}
        /\ IsPv(Top) => ss[Top.ply].pv.owner \in 0 .. (Height - 1)
        /\ PvLent(Top, ss[Next1(Top)].pv, Height)
    <2>1. Top \in FrameType /\ FrameOk(Top)
      BY <1>1, AtTop
    <2>2. Top.ply < MaxPly
      BY <1>1, <2>1 DEF FrameOk
    <2> QED
      BY <1>1, <2>1, <2>2, AtTop
  <1>3. CASE Interrupted(Top)
    BY <1>3 DEF MoveReturned
  <1>4. CASE ~Interrupted(Top)
    <2> DEFINE c == Flip(ret.c)
    <2> DEFINE child == ss[Next1(Top)].pv
    <2>1. SearchedMove(c) /\ ~stop
      BY <1>4 DEF MoveReturned, Interrupted
    <2>2. ret.ok = TRUE
      BY <1>2, <2>1
    <2>3. c = "low" <=> ret.c = "high"
      BY <1>2, Flipped
    <2> HIDE DEF c
    <2>4. PICK improves : effects' = Scored(Top, c, improves)
      BY <2>1 DEF SearchedMove
    <2>5. CASE Top.node = Root
      <3>1. IsPv(Top)
        BY <2>5 DEF IsPv, Root, NonPV
      <3>2. Top.pc = "pv" \/ (ret.c = "high" /\ Top.moveCount = 2)
        BY <1>1, <1>2, <3>1 DEF PvLent
      <3>3. Top.moveCount = 1 \/ AboveAlpha(c) => Top.pc = "pv"
        BY <2>3, <3>2 DEF AboveAlpha
      <3>4. Top.pc = "pv" => child = PvOf(Height, Top.move)
        BY <1>2 DEF PvLent
      <3>5. \A e \in effects' :
              \/ e = RootScored(TRUE)
              \/ (Top.moveCount = 1 \/ AboveAlpha(c)) /\ e = PvFollowed(child, Top.move)
        BY <2>2, <2>4, <2>5 DEF Scored
      <3> QED
        BY <3>3, <3>4, <3>5, HonestKinds
    <2>6. CASE Top.node # Root
      <3>1. \A e \in effects' :
              IsPv(Top) /\ e \in {PvRead(child, Top.move), PvWritten(ss[Top.ply].pv)}
        BY <2>4, <2>6 DEF Scored
      <3>2. IsPv(Top) => child \in {NullPtr, PvOf(Height, Top.move)}
        BY <1>1, <1>2 DEF PvLent
      <3> QED
        BY <1>2, <3>1, <3>2, HonestKinds
    <2> QED
      BY <2>5, <2>6
  <1> QED
    BY <1>3, <1>4

LEMMA StepHonest ==
    ASSUME TypeInv, IInv, Step
    PROVE  \A e \in effects' : Honest(e)
  <1>1. CASE TablebaseCutoff
    BY <1>1, HonestKinds DEF TablebaseCutoff
  <1>2. CASE Open
    <2>1. effects' \subseteq {Stored("eval", TRUE)}
      BY <1>2 DEF Open
    <2> QED
      BY <2>1, HonestKinds
  <1>3. CASE ProbCutReturned
    <2>1. effects' \subseteq {Stored("probcut", ret.ok)}
      BY <1>3 DEF ProbCutReturned, ProbCutHeld
    <2> QED
      BY <2>1, HonestKinds
  <1>4. CASE Finish \/ StandPat \/ QOpen \/ QFinish \/ MoveReturned \/ QMoveReturned
    BY <1>4, StoredHonest, PvHonest, MoveHonest, QHonest
  <1>5. CASE \/ Aborted \/ Immediate \/ Cutoff \/ Razor \/ TryNullMove \/ NullMoveReturned
             \/ VerificationReturned \/ ProbCut \/ StartMoves \/ SmallProbCut
             \/ PassOver \/ PickMove \/ SingularReturned \/ Research \/ QMove
    <2>1. effects' = {}
      BY <1>5 DEF Aborted, Immediate, Cutoff, Razor, TryNullMove, NullMoveReturned,
         VerificationReturned, ProbCut, StartMoves, SmallProbCut, PassOver, PickMove,
         SingularReturned, Research, QMove
    <2> QED
      BY <2>1
  <1> QED
    BY <1>1, <1>2, <1>3, <1>4, <1>5 DEF Step

-----------------------------------------------------------------------------
(* The theorems.                                                           *)

AllHonest == \A e \in effects : Honest(e)

LEMMA InvInit ==
    ASSUME Init
    PROVE  TypeInv /\ IInv /\ AllHonest
  <1>1. /\ stack = <<>> /\ Height = 0 /\ pos = <<>> /\ acc = <<>> /\ ret = NoValue
        /\ nmpMinPly = 0 /\ stop = FALSE /\ effects = {}
    BY DEF Init, Height
  <1>2. ss \in [Plies -> EntryType] /\ ss[0].pv.owner = 0
    <2>1. /\ ss = [p \in Plies |-> [move |-> NoMove, excluded |-> NoMove,
                                    pv |-> IF p = 0 THEN PvOf(0, NoMove) ELSE NullPtr]]
          /\ 0 \in Plies
      BY MaxPlyNat DEF Init, Plies
    <2>2. \A p \in Plies : ss[p] \in EntryType
      BY <2>1 DEF EntryType, AnyMove, PvOf, NullPtr, NullOwner
    <2> QED
      BY <2>1, <2>2 DEF PvOf
  <1>3. TypeInv
    <2>1. stack \in Seq(FrameType) /\ pos \in Seq(MadeType) /\ acc \in Seq(Moves)
      BY <1>1
    <2>2. stop \in BOOLEAN /\ nmpMinPly \in Nat /\ ret \in {NoValue}
      BY <1>1
    <2> QED
      BY <1>2, <2>1, <2>2 DEF TypeInv
  <1>4. PushedInOrder
    <2>1. DOMAIN acc = {} /\ DOMAIN pos = {}
      BY <1>1
    <2>2. <<>> \in [DOMAIN acc -> DOMAIN pos]
      BY <2>1
    <2> QED
      BY <2>1, <2>2 DEF PushedInOrder
  <1>5. Path /\ Chain /\ PvHeld /\ NullOnce /\ Trusted
    BY <1>1, <1>2 DEF Path, Chain, PvHeld, NullOnce, Trusted, NoValue
  <1> QED
    BY <1>1, <1>3, <1>4, <1>5 DEF IInv, AllHonest

LEMMA StepKeeps ==
    ASSUME TypeInv, IInv, Step
    PROVE  TypeInv' /\ IInv' /\ AllHonest'
  <1>1. Threefold /\ UNCHANGED stop /\ AllHonest'
    BY StepKinds, StepHonest DEF Step, AllHonest, Honest
  <1>2. Path /\ Chain /\ PushedInOrder /\ PvHeld /\ NullOnce /\ Trusted
    BY DEF IInv
  <1>3. CASE GoesOn
    <2>1. TypeInv'
      BY <1>1, <1>2, <1>3, GoesOnTypes
    <2> QED
      BY <1>1, <1>2, <1>3, <2>1, GoesOnPath, GoesOnChain, GoesOnOrder, GoesOnPv, GoesOnNull,
         GoesOnTrusted DEF IInv
  <1>4. CASE Descends
    <2>1. TypeInv'
      BY <1>1, <1>2, <1>4, DescendsTypes
    <2> QED
      BY <1>1, <1>2, <1>4, <2>1, DescendsPath, DescendsChain, DescendsOrder, DescendsPv,
         DescendsNull, DescendsTrusted DEF IInv
  <1>5. CASE Leaves
    <2>1. TypeInv'
      BY <1>1, <1>2, <1>5, LeavesTypes
    <2> QED
      BY <1>1, <1>2, <1>5, <2>1, LeavesPath, LeavesChain, LeavesOrder, LeavesPv, LeavesNull,
         LeavesTrusted DEF IInv
  <1> QED
    BY <1>1, <1>3, <1>4, <1>5 DEF Threefold

LEMMA CallRootKeeps ==
    ASSUME TypeInv, IInv, CallRoot
    PROVE  TypeInv' /\ IInv' /\ AllHonest'
  <1> DEFINE f == Frame("search", Root, 0, FALSE)
  <1>1. /\ Height = 0 /\ stack' = <<f>> /\ ret' = NoValue /\ stop' = FALSE /\ effects' = {}
        /\ nmpMinPly' \in {0, nmpMinPly} /\ pos' = pos /\ acc' = acc /\ ss' = ss
    BY DEF CallRoot
  <1>2. f \in FrameType
    <2>1. "search" \in Children /\ Root \in {Root, PV, NonPV} /\ 0 \in 0 .. MaxPly
      BY MaxPlyNat DEF Children
    <2> QED
      BY <2>1, AllFrameMade
  <1>3. /\ f.pc = "enter" /\ f.ok /\ f.node = Root /\ f.ply = 0 /\ f.fn = "search"
    BY DEF Frame
  <1> HIDE DEF f
  <1>4. Height' = 1 /\ stack'[1] = f /\ Top' = f /\ stack' \in Seq(FrameType)
    BY <1>1, <1>2 DEF Height, Top
  <1>5. TypeInv'
    <2>1. /\ pos \in Seq(MadeType) /\ acc \in Seq(Moves) /\ ss \in [Plies -> EntryType]
          /\ nmpMinPly \in Nat
      BY DEF TypeInv
    <2>2. nmpMinPly' \in Nat /\ ret' \in {NoValue}
      BY <1>1, <2>1
    <2>3. stop' \in BOOLEAN
      BY DEF CallRoot
    <2> QED
      BY <1>1, <1>4, <2>1, <2>2, <2>3 DEF TypeInv, NoValue
  <1>6. Len(pos) = 0
    BY <1>1 DEF IInv, Chain
  <1>7. PushedInOrder'
    BY <1>1, <1>5, OrderKept DEF IInv, SameMoves
  <1>8. Path'
    BY <1>3, <1>4 DEF Path, FrameOk, Quiet, Calls, Moving
  <1>9. Chain'
    BY <1>1, <1>3, <1>4, <1>6 DEF Chain, Deeper, Moving
  <1>10. PvHeld'
    <2>1. ss[0].pv.owner = 0
      BY DEF IInv, PvHeld
    <2>2. \A ptr : PvLent(f, ptr, 1)
      BY <1>3 DEF PvLent
    <2>3. \A i \in 1 .. 1 : i = 1
      OBVIOUS
    <2> QED
      BY <1>1, <1>3, <1>4, <2>1, <2>2, <2>3 DEF PvHeld, PvLent, IsPv, Next1
  <1>11. NullOnce'
    BY <1>3, <1>4 DEF NullOnce
  <1>12. Trusted'
    BY <1>1, <1>3, <1>4 DEF Trusted, NoValue
  <1> QED
    BY <1>1, <1>5, <1>7, <1>8, <1>9, <1>10, <1>11, <1>12 DEF IInv, AllHonest

LEMMA RaiseStopKeeps ==
    ASSUME TypeInv, IInv, AllHonest, RaiseStop
    PROVE  TypeInv' /\ IInv' /\ AllHonest'
  <1>1. stop' = TRUE /\ UNCHANGED <<stack, ret, pos, acc, ss, nmpMinPly, effects>>
    BY DEF RaiseStop
  <1>2. TypeInv'
    BY <1>1 DEF TypeInv
  <1>3. Path' /\ Chain'
    BY <1>1 DEF IInv, Path, Chain, Height, Top
  <1>4. PushedInOrder'
    BY <1>1, <1>2, OrderKept DEF IInv, SameMoves
  <1>5. PvHeld' /\ NullOnce'
    BY <1>1 DEF IInv, PvHeld, NullOnce, Height, PvLent, IsPv, Next1
  <1>6. Trusted'
    BY <1>1 DEF IInv, Trusted, Height, Top
  <1>7. AllHonest'
    BY <1>1 DEF AllHonest, Honest
  <1> QED
    BY <1>2, <1>3, <1>4, <1>5, <1>6, <1>7 DEF IInv

LEMMA StutterKeeps ==
    ASSUME TypeInv, IInv, AllHonest, UNCHANGED vars
    PROVE  TypeInv' /\ IInv' /\ AllHonest'
  <1>1. UNCHANGED <<stack, ret, pos, acc, ss, nmpMinPly, stop, effects>>
    BY DEF vars
  <1>2. TypeInv'
    BY <1>1 DEF TypeInv
  <1>3. Path' /\ Chain'
    BY <1>1 DEF IInv, Path, Chain, Height, Top
  <1>4. PushedInOrder'
    BY <1>1, <1>2, OrderKept DEF IInv, SameMoves
  <1>5. PvHeld' /\ NullOnce'
    BY <1>1 DEF IInv, PvHeld, NullOnce, Height, PvLent, IsPv, Next1
  <1>6. Trusted' /\ AllHonest'
    BY <1>1 DEF IInv, Trusted, Height, Top, AllHonest, Honest
  <1> QED
    BY <1>2, <1>3, <1>4, <1>5, <1>6 DEF IInv

\* Whatever is searched and whenever the stop comes, the frames lie on one
\* path, the position and the accumulators are that path's, every pv pointer
\* and null move has its frame, and every value its worth.
THEOREM Invariance == Spec => [](TypeInv /\ IInv /\ AllHonest)
  <1>1. Init => TypeInv /\ IInv /\ AllHonest
    BY InvInit
  <1>2. TypeInv /\ IInv /\ AllHonest /\ [Next]_vars => (TypeInv /\ IInv /\ AllHonest)'
    BY StepKeeps, CallRootKeeps, RaiseStopKeeps, StutterKeeps DEF Next
  <1> QED
    BY <1>1, <1>2, PTL DEF Spec

LEMMA PositionFollows ==
    ASSUME TypeInv, IInv
    PROVE  PositionIsOfNode
  <1>1. /\ Height \in Nat /\ Len(pos) \in Nat /\ DOMAIN pos = 1 .. Len(pos)
        /\ pos \in Seq(MadeType)
        /\ \A i \in 1 .. Height : stack[i] \in FrameType
    BY Sizes DEF TypeInv
  <1>2. Height > 0 /\ Top.pc \in Between => Len(pos) = Top.ply
    <2> SUFFICES ASSUME Height > 0, Top.pc \in Between
                 PROVE  Len(pos) = Top.ply
      OBVIOUS
    <2>1. Top.pc \notin Moving
      BY DEF Between, Moving
    <2> QED
      BY <2>1, TopOfChain DEF IInv
  <1>3. Height = 0 => pos = <<>>
    <2>1. Height = 0 => Len(pos) = 0
      BY DEF IInv, Chain
    <2> QED
      BY <1>1, <2>1
  <1>4. \A i \in DOMAIN pos : pos[i].st \in 1 .. Height
    BY <1>1 DEF IInv, Chain
  <1>5. ASSUME NEW i \in DOMAIN pos, NEW j \in DOMAIN pos, i < j
        PROVE  pos[i].st < pos[j].st
    <2> DEFINE a == pos[i].st
    <2> DEFINE b == pos[j].st
    <2>1. /\ a \in 1 .. Height /\ b \in 1 .. Height /\ stack[a].pc \in Moving
          /\ stack[a].ply = i - 1 /\ stack[b].pc \in Moving /\ stack[b].ply = j - 1
      BY <1>1 DEF IInv, Chain
    <2> HIDE DEF a, b
    <2>2. b < a => stack[b].ply + Deeper(stack[b]) <= stack[a].ply
      BY <2>1 DEF IInv, Path
    <2>3. ~(b < a)
      BY <1>1, <1>5, <2>1, <2>2 DEF Deeper
    <2>4. a # b
      BY <1>1, <1>5, <2>1
    <2>5. a < b
      BY <1>1, <2>1, <2>3, <2>4
    <2> QED
      BY <2>5 DEF a, b
  <1>6. \A i \in DOMAIN pos : ss[i - 1].move = pos[i].move
    BY <1>1 DEF IInv, Chain
  <1> QED
    BY <1>2, <1>3, <1>4, <1>5, <1>6 DEF PositionIsOfNode, IInv

LEMMA NullMovesFollow ==
    ASSUME TypeInv, IInv
    PROVE  NullMovesApart
  <1>1. /\ Height \in Nat /\ Len(pos) \in Nat /\ DOMAIN stack = 1 .. Height
        /\ \A i \in 1 .. Height : stack[i] \in FrameType
    BY Sizes DEF TypeInv, Height
  <1>2. ASSUME NEW i \in 1 .. (Len(pos) - 1), pos[i].move = NullMove, pos[i + 1].move = NullMove
        PROVE  FALSE
    <2> DEFINE a == pos[i].st
    <2> DEFINE b == pos[i + 1].st
    <2>1. i \in 1 .. Len(pos) /\ i + 1 \in 1 .. Len(pos) /\ i \in Nat
      BY <1>1
    <2>2. /\ a \in 1 .. Height /\ b \in 1 .. Height
          /\ stack[a].pc \in Moving /\ stack[a].ply = i - 1
          /\ stack[b].pc \in Moving /\ stack[b].ply = (i + 1) - 1
          /\ Mover(stack[a]) = NullMove /\ Mover(stack[b]) = NullMove
      BY <1>2, <2>1 DEF IInv, Chain
    <2> HIDE DEF a, b
    <2>3. stack[a].pc = "null" /\ stack[b].pc = "null"
      BY <1>1, <2>2, FrameParts, SearchAssumption DEF Mover, AnyMove, SearchAssumption
    <2>4. b < a => stack[b].ply + Deeper(stack[b]) <= stack[a].ply
      BY <2>2 DEF IInv, Path
    <2>5. a < b
      BY <1>1, <2>1, <2>2, <2>4 DEF Deeper
    <2>6. stack[b].ply = stack[a].ply + 1
      BY <2>1, <2>2
    <2>7. ~stack[b].cut
      BY <2>2, <2>3, <2>5, <2>6 DEF IInv, NullOnce
    <2>8. FrameOk(stack[b])
      BY <2>2 DEF IInv, Path
    <2> QED
      BY <2>3, <2>7, <2>8 DEF FrameOk
  <1>3. \A i, j \in 1 .. Height : i < j /\ stack[i].pc = "verify" =>
           /\ stack[j].pc # "verify"
           /\ stack[j].pc = "null" => stack[j].ply >= stack[i].ply + VerifyPlies
    BY DEF IInv, NullOnce
  <1> QED
    BY <1>1, <1>2, <1>3 DEF NullMovesApart

\* The position, the accumulators and the search stack are the node's own
\* whenever a node reads them.
THEOREM ReadsItsOwnPosition == Spec => []PositionIsOfNode
  <1>1. TypeInv /\ IInv /\ AllHonest => PositionIsOfNode
    BY PositionFollows
  <1> QED
    BY <1>1, Invariance, PTL

\* The pv that a node reads, follows or writes is of the move it scores and
\* in a frame that still lives.
THEOREM FollowsLivePv == Spec => []PvArraysLive
  <1>1. TypeInv /\ IInv /\ AllHonest => PvArraysLive
    BY DEF AllHonest, Honest, PvArraysLive
  <1> QED
    BY <1>1, Invariance, PTL

\* No null move answers a null move, and none is tried or verified in the
\* plies a verification search forbids it.
THEOREM NullMovesStayApart == Spec => []NullMovesApart
  <1>1. TypeInv /\ IInv /\ AllHonest => NullMovesApart
    BY NullMovesFollow
  <1> QED
    BY <1>1, Invariance, PTL

\* No root move is scored by a search that was cut short, and outside ProbCut
\* no entry of the table comes from one.
THEOREM ScoresAreOfFinishedSearches == Spec => []OnlyFinishedSearchesCount
  <1>1. TypeInv /\ IInv /\ AllHonest => OnlyFinishedSearchesCount
    BY DEF AllHonest, Honest, OnlyFinishedSearchesCount
  <1> QED
    BY <1>1, Invariance, PTL


-----------------------------------------------------------------------------
(* The transposition table, for any keys, any number of entries, searches   *)
(* and nodes, with the byte arithmetic of the code.                        *)

\* The widths of the code.
Widths == Byte = 256 /\ Delta = 8

-----------------------------------------------------------------------------
(* The slot a probe returns.                                               *)

\* Every nonempty set of naturals has a least element.
LEMMA Least ==
    ASSUME NEW S, S \subseteq Nat, S # {}
    PROVE  \E x \in S : \A y \in S : x <= y
<1>1. \E x \in S : \A y \in S : ~(<<y, x>> \in OpToRel(<, Nat))
  BY NatLessThanWellFounded, WFMin, Zenon
<1>2. \E x \in S : \A y \in S : ~(y < x)
  BY <1>1, Zenon DEF OpToRel
<1> QED
  BY <1>2

\* First returns a slot of its set.
LEMMA FirstIn ==
    ASSUME NEW S, S \subseteq Slots, S # {} PROVE First(S) \in S
<1>1. S \subseteq Nat
  BY TableAssumption DEF Slots
<1>2. \E s \in S : \A u \in S : s <= u
  BY <1>1, Least
<1> QED
  BY <1>2 DEF First

\* An age is a multiple of 8 within a byte.
LEMMA AgeRange ==
    ASSUME Widths, NEW g \in Int, NEW gb \in Int
    PROVE  RelativeAge(g, gb) \in 0 .. 255
BY DEF Widths, RelativeAge, Masked

\* A probe returns a slot of the cluster.
LEMMA ProbedSlotIn ==
    ASSUME Widths, TypeOK, NEW k \in Keys PROVE ProbedSlot(k) \in Slots
<1>1. CASE Matching(k) # {}
  BY <1>1, FirstIn DEF ProbedSlot, Matching
<1>2. CASE Matching(k) = {}
  <2> DEFINE W(s) == Worth(entry[s]) + 256
             T == {W(s) : s \in Slots}
             L == {s \in Slots : \A u \in Slots : Worth(entry[s]) <= Worth(entry[u])}
  <2>1. ASSUME NEW s \in Slots PROVE Worth(entry[s]) \in Int /\ W(s) \in Nat
    <3>1. gen8 \in Int /\ entry[s].gb \in Int /\ entry[s].depth \in Nat
      BY DEF TypeOK, Entry
    <3>2. RelativeAge(gen8, entry[s].gb) \in 0 .. 255
      BY <3>1, AgeRange
    <3> QED
      BY <3>1, <3>2 DEF Worth
  <2>2. 1 \in Slots
    BY TableAssumption DEF Slots
  <2>3. \E x \in T : \A y \in T : x <= y
    <3> HIDE DEF W
    <3> QED
      BY <2>1, <2>2, Least
  <2>4. L # {}
    <3>1. PICK s \in Slots : \A y \in T : W(s) <= y
      BY <2>3
    <3>2. \A u \in Slots : W(s) <= W(u)
      BY <3>1
    <3> QED
      BY <2>1, <3>2
  <2>5. First(L) \in L
    BY <2>4, FirstIn
  <2> QED
    BY <1>2, <2>5 DEF ProbedSlot, LeastWorth
<1> QED
  BY <1>1, <1>2

-----------------------------------------------------------------------------
(* Type correctness.  Generations are multiples of 8, so that a byte has    *)
(* room for the generation and the low bits.                               *)

Generations == \E q \in 0 .. 31 : gen8 = 8 * q

EntriesTyped == TypeOK /\ Generations

\* An empty table has the types, with any widths.
LEMMA TypeInit == Widths /\ TTInit => EntriesTyped
BY TableAssumption, EmptySeq DEF TTInit, EntriesTyped, Generations, TypeOK, Entry, Zero, Widths

\* Each action keeps the types.
LEMMA TypeStep == Widths /\ EntriesTyped /\ [TTNext]_ttVars => EntriesTyped'
<1> SUFFICES ASSUME Widths, EntriesTyped, [TTNext]_ttVars PROVE EntriesTyped'
  OBVIOUS
<1> USE DEF EntriesTyped, Generations
<1>1. ASSUME NEW k \in Keys, Probe(k) PROVE EntriesTyped'
  <2>1. [key |-> k, slot |-> ProbedSlot(k)] \in [key : Keys, slot : Slots]
    BY ProbedSlotIn
  <2>2. writers' \in Seq([key : Keys, slot : Slots])
    BY <1>1, <2>1, AppendProperties DEF Probe, TypeOK
  <2> QED
    BY <1>1, <2>2 DEF Probe, TypeOK
<1>2. ASSUME NEW d \in Depths, NEW low \in LowBits, NEW m \in TTMoves \cup {MoveNone},
             Write(d, low, m)
      PROVE  EntriesTyped'
  <2> DEFINE w == writers[Len(writers)]
  <2>1. w \in [key : Keys, slot : Slots]
    <3>1. writers \in Seq([key : Keys, slot : Slots]) /\ writers # <<>>
      BY <1>2 DEF Write, TypeOK
    <3>2. Len(writers) \in Nat /\ Len(writers) \in 1 .. Len(writers)
      BY <3>1, EmptySeq
    <3> QED
      BY <3>1, <3>2, ElementOfSeq
  <2> HIDE DEF w
  <2>2. PICK e \in Entry : e = entry[w.slot]
    BY <2>1 DEF TypeOK
  <2>3. w.key \in Nat /\ w.slot \in Slots /\ e.gb \in 0 .. 255
    <3>1. w.key \in Keys /\ w.slot \in Slots
      BY <2>1
    <3>2. entry[w.slot].gb \in 0 .. (Byte - 1)
      BY <3>1 DEF TypeOK
    <3>3. Byte - 1 = 255
      BY DEF Widths
    <3>4. e.gb \in 0 .. 255
      BY <2>2, <3>2, <3>3
    <3> QED
      BY <3>1, <3>4, TableAssumption
  <2>4. PICK mv : mv = SavedMove(e, w.key, m)
    OBVIOUS
  <2>5. mv \in TTMoves \cup {MoveNone}
    BY <2>2, <2>4 DEF SavedMove, Entry
  <2> DEFINE over == Overwrites(e, w.key, d, low)
             new == [key |-> w.key, depth |-> d, gb |-> gen8 + low, move |-> mv]
             old == [e EXCEPT !.move = mv]
             src == [data |-> IF over THEN w.key ELSE source[w.slot].data,
                     move |-> IF m # MoveNone THEN w.key ELSE source[w.slot].move]
  <2>6. /\ entry' = [entry EXCEPT ![w.slot] = IF over THEN new ELSE old]
        /\ source' = [source EXCEPT ![w.slot] = src]
        /\ born' = [born EXCEPT ![w.slot] = IF over THEN search ELSE @]
        /\ UNCHANGED <<gen8, writers, search>>
    BY <1>2, <2>2, <2>4 DEF Write, w
  <2>7. gen8 + low \in 0 .. 255 /\ d \in Nat
    <3>1. low \in 0 .. 7 /\ d \in Nat
      BY TableAssumption DEF Widths
    <3>2. PICK q \in 0 .. 31 : gen8 = 8 * q
      OBVIOUS
    <3> QED
      BY <3>1, <3>2
  <2>8. new \in Entry /\ new.gb \in 0 .. 255
    BY <2>3, <2>5, <2>7 DEF Entry
  <2>9. old \in Entry /\ old.gb \in 0 .. 255
    BY <2>2, <2>3, <2>5 DEF Entry
  <2>10. src \in [data : Nat, move : Nat]
    BY <2>3 DEF TypeOK
  <2> HIDE DEF new, old, src, over
  <2>11. /\ entry' \in [Slots -> Entry] /\ source' \in [Slots -> [data : Nat, move : Nat]]
         /\ born' \in [Slots -> Nat]
    BY <2>3, <2>6, <2>8, <2>9, <2>10 DEF TypeOK
  <2>12. \A s \in Slots : entry'[s].gb \in 0 .. (Byte - 1)
    <3> DEFINE written == IF over THEN new ELSE old
    <3>1. written.gb \in 0 .. 255
      BY <2>8, <2>9
    <3>2. entry' = [entry EXCEPT ![w.slot] = written]
      BY <2>6
    <3> HIDE DEF written
    <3>3. \A s \in Slots : entry'[s] = written \/ entry'[s] = entry[s]
      BY <2>3, <3>2 DEF TypeOK
    <3>4. \A s \in Slots : entry[s].gb \in 0 .. 255
      BY DEF TypeOK, Widths
    <3>5. Byte - 1 = 255
      BY DEF Widths
    <3> QED
      BY <3>1, <3>3, <3>4, <3>5
  <2> QED
    BY <2>6, <2>11, <2>12 DEF TypeOK
<1>3. CASE NodeReturns
  <2>1. writers' \in Seq([key : Keys, slot : Slots])
    <3>1. writers \in Seq([key : Keys, slot : Slots])
      BY DEF TypeOK
    <3>2. Len(writers) \in Nat
      BY <3>1, LenProperties
    <3>3. \A n \in 1 .. Len(writers) - 1 : writers[n] \in [key : Keys, slot : Slots]
      <4>1. ASSUME NEW n \in 1 .. Len(writers) - 1 PROVE n \in 1 .. Len(writers)
        BY <3>2
      <4> QED
        BY <3>1, <4>1, ElementOfSeq
    <3> QED
      BY <1>3, <3>2, <3>3, SubSeqProperties DEF NodeReturns
  <2> QED
    BY <1>3, <2>1 DEF NodeReturns, TypeOK
<1>4. CASE NewSearch
  <2>1. \E q \in 0 .. 31 : gen8' = 8 * q
    <3>1. PICK q \in 0 .. 31 : gen8 = 8 * q
      OBVIOUS
    <3>2. gen8' = (8 * q + 8) % 256
      BY <1>4, <3>1 DEF NewSearch, NextGen, Widths
    <3>3. CASE q = 31
      BY <3>2, <3>3
    <3>4. CASE q \in 0 .. 30
      BY <3>2, <3>4
    <3> QED
      BY <3>1, <3>3, <3>4
  <2>2. gen8' \in 0 .. (Byte - 1)
    BY <2>1 DEF Widths
  <2>3. TypeOK'
    BY <1>4, <2>2 DEF NewSearch, TypeOK
  <2>4. Generations'
    BY <2>1
  <2> QED
    BY <2>3, <2>4
<1>5. CASE Clear
  BY <1>5, TableAssumption DEF Clear, Cleared, TypeOK, Entry, Zero, Widths
<1>6. CASE UNCHANGED ttVars
  BY <1>6 DEF ttVars, TypeOK
<1> QED
  BY <1>1, <1>2, <1>3, <1>4, <1>5, <1>6 DEF TTNext

\* Type correctness of the cluster, for the widths of the code.
THEOREM TypeCorrect == ASSUME Widths PROVE TTSpec => []TypeOK
<1>1. TTInit => EntriesTyped
  BY TypeInit
<1>2. EntriesTyped /\ [TTNext]_ttVars => EntriesTyped'
  BY TypeStep
<1> QED
  BY <1>1, <1>2, PTL DEF TTSpec, EntriesTyped

-----------------------------------------------------------------------------
(* One position per entry.                                                 *)

EmptyIsZero == \A s \in Slots : ~Occupied(entry[s]) => entry[s] = Zero

OneInv == EntriesTyped /\ EmptyIsZero /\ EntryIsOnePosition

\* A write leaves data and move of its own key, or those of the entry if it
\* was for that key already.
LEMMA WriteKeepsOne ==
    ASSUME Widths, OneInv, NEW d \in Depths, NEW low \in LowBits, NEW m \in TTMoves \cup {MoveNone},
           Write(d, low, m), EntriesTyped'
    PROVE  (EmptyIsZero /\ EntryIsOnePosition)'
<1> DEFINE w == writers[Len(writers)]
           over == Overwrites(entry[w.slot], w.key, d, low)
<1>1. w \in [key : Keys, slot : Slots]
  <2>1. writers \in Seq([key : Keys, slot : Slots]) /\ writers # <<>>
    BY DEF Write, OneInv, EntriesTyped, TypeOK
  <2>2. Len(writers) \in 1 .. Len(writers)
    BY <2>1, EmptySeq
  <2> QED
    BY <2>1, <2>2, ElementOfSeq
<1>2. PICK e \in Entry : e = entry[w.slot]
  BY <1>1 DEF OneInv, EntriesTyped, TypeOK
<1> DEFINE mv == SavedMove(e, w.key, m)
<1>3. /\ entry'[w.slot] = IF over THEN [key |-> w.key, depth |-> d, gb |-> gen8 + low, move |-> mv]
                          ELSE [e EXCEPT !.move = mv]
      /\ source'[w.slot] =
            [data |-> IF over THEN w.key ELSE source[w.slot].data,
             move |-> IF m # MoveNone THEN w.key ELSE source[w.slot].move]
      /\ \A s \in Slots : s # w.slot => entry'[s] = entry[s] /\ source'[s] = source[s]
  BY <1>1, <1>2 DEF Write, OneInv, EntriesTyped, TypeOK
<1>4. over \/ w.key = e.key
  BY <1>2 DEF Overwrites
<1>5. ~Occupied(e) => over
  <2> SUFFICES ASSUME ~Occupied(e) PROVE d + 2 * PvBit(low) > e.depth - 4
    BY <1>2 DEF Overwrites
  <2>1. e.depth = 0 /\ d \in Nat \ {0}
    BY TableAssumption DEF Occupied
  <2>2. low \in 0 .. 7
    BY TableAssumption DEF Widths
  <2> QED
    BY <2>1, <2>2 DEF PvBit
<1> HIDE DEF w, over
<1>6. ASSUME NEW s \in Slots, s # w.slot
      PROVE  /\ ~Occupied(entry'[s]) => entry'[s] = Zero
             /\ Occupied(entry'[s]) =>
                    /\ source'[s].data = entry'[s].key
                    /\ entry'[s].move # MoveNone => source'[s].move = entry'[s].key
  BY <1>3, <1>6 DEF OneInv, EmptyIsZero, EntryIsOnePosition
<1>7. /\ Occupied(entry'[w.slot])
      /\ source'[w.slot].data = entry'[w.slot].key
      /\ entry'[w.slot].move # MoveNone => source'[w.slot].move = entry'[w.slot].key
  <2>1. Occupied(e) => /\ source[w.slot].data = e.key
                       /\ e.move # MoveNone => source[w.slot].move = e.key
    BY <1>1, <1>2 DEF OneInv, EntryIsOnePosition
  <2>2. ~Occupied(e) => e = Zero
    BY <1>1, <1>2 DEF OneInv, EmptyIsZero
  <2>3. CASE over
    <3>1. entry'[w.slot].key = w.key /\ entry'[w.slot].depth = d /\ entry'[w.slot].move = mv
      BY <1>3, <2>3
    <3>2. source'[w.slot].data = w.key
      BY <1>3, <2>3
    <3>3. d # 0
      BY TableAssumption
    <3>4. mv # MoveNone => source'[w.slot].move = w.key
      BY <1>3, <2>1, <2>2 DEF SavedMove, Zero
    <3> QED
      BY <3>1, <3>2, <3>3, <3>4 DEF Occupied
  <2>4. CASE ~over
    <3>1. Occupied(e) /\ w.key = e.key
      BY <1>4, <1>5, <2>4
    <3>2. entry'[w.slot].key = e.key /\ entry'[w.slot].depth = e.depth /\ entry'[w.slot].move = mv
      BY <1>2, <1>3, <2>4 DEF Entry
    <3>3. source'[w.slot].data = e.key
      BY <1>3, <2>1, <2>4, <3>1
    <3>4. mv # MoveNone => source'[w.slot].move = e.key
      BY <1>3, <2>1, <3>1 DEF SavedMove
    <3> QED
      BY <3>1, <3>2, <3>3, <3>4 DEF Occupied
  <2> QED
    BY <2>3, <2>4
<1> QED
  BY <1>6, <1>7 DEF EmptyIsZero, EntryIsOnePosition

\* Every entry that is not empty holds what was saved for its key: a writer
\* that is used late does no harm to that.
THEOREM OnePosition == ASSUME Widths PROVE TTSpec => []EntryIsOnePosition
<1>1. TTInit => OneInv
  BY TypeInit DEF TTInit, OneInv, EmptyIsZero, EntryIsOnePosition, Occupied, Zero
<1>2. OneInv /\ [TTNext]_ttVars => OneInv'
  <2> SUFFICES ASSUME OneInv, [TTNext]_ttVars PROVE OneInv'
    OBVIOUS
  <2>1. EntriesTyped'
    BY TypeStep DEF OneInv
  <2>2. ASSUME NEW d \in Depths, NEW low \in LowBits, NEW m \in TTMoves \cup {MoveNone},
               Write(d, low, m)
        PROVE  OneInv'
    BY <2>1, <2>2, WriteKeepsOne DEF OneInv
  <2>3. CASE Clear
    BY <2>1, <2>3 DEF Clear, Cleared, OneInv, EmptyIsZero, EntryIsOnePosition, Occupied, Zero
  <2>4. CASE (\E k \in Keys : Probe(k)) \/ NodeReturns \/ NewSearch \/ UNCHANGED ttVars
    BY <2>1, <2>4 DEF Probe, NodeReturns, NewSearch, ttVars, OneInv, EmptyIsZero, EntryIsOnePosition, Occupied
  <2> QED
    BY <2>2, <2>3, <2>4 DEF TTNext
<1> QED
  BY <1>1, <1>2, PTL DEF TTSpec, OneInv

-----------------------------------------------------------------------------
(* The age of entries.                                                     *)

\* Remainders of a count that grows by one, and of a difference.
LEMMA NextRemainder ==
    ASSUME NEW n \in Nat
    PROVE  (n + 1) % 32 = IF n % 32 = 31 THEN 0 ELSE (n % 32) + 1
OBVIOUS

LEMMA DifferenceRemainder ==
    ASSUME NEW n \in Nat, NEW b \in 0 .. n
    PROVE  (n - b) % 32 = IF n % 32 >= b % 32 THEN (n % 32) - (b % 32) ELSE (n % 32) - (b % 32) + 32
<1>1. \A k \in Int, r \in 0 .. 31 : (32 * k + r) % 32 = r
  OBVIOUS
<1>2. ASSUME NEW k \in Nat
      PROVE  \E c \in Int : k = 32 * c + (k % 32)
  <2>1. k = 32 * (k \div 32) + (k % 32)
    OBVIOUS
  <2>2. k \div 32 \in Int
    OBVIOUS
  <2> QED
    BY <2>1, <2>2
<1> DEFINE x == n % 32   y == b % 32
<1>3. n \in Nat /\ b \in Nat /\ x \in 0 .. 31 /\ y \in 0 .. 31
  OBVIOUS
<1>p. PICK p \in Int : n = 32 * p + x
  BY <1>2
<1>q. PICK q \in Int : b = 32 * q + y
  BY <1>2, <1>3
<1> SUFFICES (n - b) % 32 = IF x >= y THEN x - y ELSE x - y + 32
  OBVIOUS
<1> HIDE DEF x, y
<1>4. CASE x >= y
  <2>1. n - b = 32 * (p - q) + (x - y) /\ p - q \in Int /\ x - y \in 0 .. 31
    BY <1>3, <1>p, <1>q, <1>4
  <2>2. (n - b) % 32 = x - y
    BY <1>1, <2>1
  <2> QED
    BY <1>4, <2>2
<1>5. CASE ~(x >= y)
  <2>1. n - b = 32 * (p - q - 1) + (x - y + 32) /\ p - q - 1 \in Int /\ x - y + 32 \in 0 .. 31
    BY <1>3, <1>p, <1>q, <1>5
  <2>2. (n - b) % 32 = x - y + 32
    BY <1>1, <2>1
  <2> QED
    BY <1>5, <2>2
<1> QED
  BY <1>4, <1>5

\* The age computed from two generations is their difference in the cycle,
\* whatever the low bits of the entry.
LEMMA AgeOfGenerations ==
    ASSUME Widths, NEW a \in 0 .. 31, NEW b \in 0 .. 31, NEW low \in 0 .. 7
    PROVE  RelativeAge(8 * a, 8 * b + low) = 8 * (IF a >= b THEN a - b ELSE a - b + 32)
BY DEF Widths, RelativeAge, Masked

\* Generations count searches in the cycle of 32.
AgeInv ==
    /\ gen8 = 8 * (search % 32)
    /\ \A s \in Slots : Occupied(entry[s]) =>
          /\ born[s] \in 0 .. search
          /\ \E low \in 0 .. 7 : entry[s].gb = 8 * (born[s] % 32) + low

\* Only a save gives an entry a generation, and it is the current one.
LEMMA AgeStep == Widths /\ EntriesTyped /\ AgeInv /\ [TTNext]_ttVars => AgeInv'
<1> SUFFICES ASSUME Widths, EntriesTyped, AgeInv, [TTNext]_ttVars PROVE AgeInv'
  OBVIOUS
<1>0. search \in Nat /\ born \in [Slots -> Nat] /\ entry \in [Slots -> Entry]
  BY DEF EntriesTyped, TypeOK
<1>1. CASE NewSearch
  <2>1. gen8' = (8 * (search % 32) + 8) % 256
    BY <1>1 DEF AgeInv, NewSearch, NextGen, Widths
  <2>2. gen8' = 8 * ((search + 1) % 32)
    BY <1>0, <2>1, NextRemainder
  <2> QED
    BY <1>0, <1>1, <2>2, SMTT(40) DEF NewSearch, AgeInv, Occupied
<1>2. ASSUME NEW d \in Depths, NEW low \in LowBits, NEW m \in TTMoves \cup {MoveNone},
             Write(d, low, m)
      PROVE  AgeInv'
  <2> DEFINE w == writers[Len(writers)]
             over == Overwrites(entry[w.slot], w.key, d, low)
  <2>1. /\ UNCHANGED <<gen8, search>>
        /\ \A s \in Slots : s # w.slot => entry'[s] = entry[s] /\ born'[s] = born[s]
    BY <1>0, <1>2 DEF Write
  <2>2. ASSUME w.slot \in Slots, over
        PROVE  born'[w.slot] = search /\ entry'[w.slot].gb = gen8 + low
    BY <1>0, <1>2, <2>2 DEF Write
  <2>3. ASSUME w.slot \in Slots, ~over
        PROVE  /\ born'[w.slot] = born[w.slot] /\ entry'[w.slot].gb = entry[w.slot].gb
               /\ entry'[w.slot].depth = entry[w.slot].depth
    <3>1. PICK e \in Entry : e = entry[w.slot]
      BY <1>0, <2>3
    <3>2. entry'[w.slot] = [e EXCEPT !.move = SavedMove(e, w.key, m)]
      BY <1>0, <1>2, <2>3, <3>1 DEF Write
    <3>3. born'[w.slot] = born[w.slot]
      BY <1>0, <1>2, <2>3 DEF Write
    <3> QED
      BY <3>1, <3>2, <3>3 DEF Entry
  <2>4. low \in 0 .. 7
    BY TableAssumption DEF Widths
  <2> HIDE DEF w, over
  <2>5. ASSUME NEW s \in Slots, Occupied(entry'[s])
        PROVE  /\ born'[s] \in 0 .. search
               /\ \E l \in 0 .. 7 : entry'[s].gb = 8 * (born'[s] % 32) + l
    <3>1. CASE s = w.slot /\ over
      <4>1. born'[s] = search /\ entry'[s].gb = gen8 + low
        BY <2>2, <3>1
      <4>2. gen8 = 8 * (search % 32)
        BY DEF AgeInv
      <4> QED
        BY <1>0, <2>4, <4>1, <4>2
    <3>2. CASE s = w.slot /\ ~over
      BY <2>3, <2>5, <3>2 DEF AgeInv, Occupied
    <3>3. CASE s # w.slot
      BY <2>1, <2>5, <3>3 DEF AgeInv
    <3> QED
      BY <3>1, <3>2, <3>3
  <2> QED
    BY <2>1, <2>5 DEF AgeInv
<1>3. CASE Clear
  BY <1>3 DEF Clear, Cleared, AgeInv, Occupied, Zero
<1>4. CASE (\E k \in Keys : Probe(k)) \/ NodeReturns \/ UNCHANGED ttVars
  BY <1>4 DEF Probe, NodeReturns, ttVars, AgeInv
<1> QED
  BY <1>1, <1>2, <1>3, <1>4 DEF TTNext

\* The age of an entry is the number of searches since it was written, modulo
\* the cycle of 32.
THEOREM AgeCorrect == ASSUME Widths PROVE TTSpec => []AgeIsTrue
<1>1. TTInit => EntriesTyped /\ AgeInv
  BY TypeInit DEF TTInit, AgeInv, Occupied, Zero
<1>2. EntriesTyped /\ AgeInv /\ [TTNext]_ttVars => (EntriesTyped /\ AgeInv)'
  BY TypeStep, AgeStep
<1>3. EntriesTyped /\ AgeInv => AgeIsTrue
  <2> SUFFICES ASSUME EntriesTyped, AgeInv, NEW s \in Slots, Occupied(entry[s])
               PROVE  RelativeAge(gen8, entry[s].gb) = 8 * ((search - born[s]) % 32)
    <3>1. Delta = 8 /\ Cycle = 32
      BY DEF Widths, Cycle
    <3> QED
      BY <3>1 DEF AgeIsTrue
  <2>1. search \in Nat /\ born[s] \in 0 .. search
    BY DEF EntriesTyped, TypeOK, AgeInv
  <2>2. PICK low \in 0 .. 7 : entry[s].gb = 8 * (born[s] % 32) + low
    BY DEF AgeInv
  <2>3. search % 32 \in 0 .. 31 /\ born[s] % 32 \in 0 .. 31
    BY <2>1
  <2>4. gen8 = 8 * (search % 32)
    BY DEF AgeInv
  <2> DEFINE a == search % 32
             b == born[s] % 32
  <2>5. RelativeAge(8 * a, 8 * b + low) = 8 * (IF a >= b THEN a - b ELSE a - b + 32)
    BY <2>3, AgeOfGenerations
  <2>6. (search - born[s]) % 32 = IF a >= b THEN a - b ELSE a - b + 32
    <3>1. PICK n \in Nat : n = search
      BY <2>1
    <3>2. PICK c \in 0 .. n : c = born[s]
      BY <2>1, <3>1
    <3>3. (n - c) % 32 = IF n % 32 >= c % 32 THEN (n % 32) - (c % 32) ELSE (n % 32) - (c % 32) + 32
      BY DifferenceRemainder
    <3> QED
      BY <3>1, <3>2, <3>3
  <2> HIDE DEF a, b
  <2> QED
    BY <2>2, <2>4, <2>5, <2>6 DEF a, b
<1> QED
  BY <1>1, <1>2, <1>3, PTL DEF TTSpec
=============================================================================
