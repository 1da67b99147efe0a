--------------------------- MODULE ThreadPoolProofs ---------------------------
(***************************************************************************)
(* The threads of the pool after and before a search: the choice of the    *)
(* best one, for any number of threads and any results of their searches,  *)
(* and the replicas they read, for all machines, policies and numbers of   *)
(* threads.                                                                *)
(***************************************************************************)
EXTENDS BestThread, Numa, FiniteSetTheorems, SequenceTheorems, NaturalsInduction,
        WellFoundedInduction, TLAPS

-----------------------------------------------------------------------------
(* The choice.                                                             *)

\* The threads the third loop has looked at.  The main thread counts: the
\* choice starts from it.
Seen == IF phase = "done" THEN Threads
        ELSE IF phase = "pick" THEN {1} \cup 1 .. (i - 1) ELSE {1}

\* The threads the first loop has looked at.
Measured == IF phase = "min" THEN 1 .. (i - 1) ELSE Threads

MinIsLeast == \A t \in Measured : minScore <= rm[t].score

\* What the choice is among the threads seen; at the end it is the choice
\* among all.
WinSeen ==
    ~SomeLoss => \A t \in Seen : ProvenWin(t) =>
        ProvenWin(best) /\ rm[t].score <= rm[best].score

LossSeen ==
    ~SomeWin => \A t \in Seen : ProvenLoss(t) =>
        ProvenLoss(best) /\ rm[best].score <= rm[t].score

VotesSeen ==
    ~SomeWin /\ ~SomeLoss => \A t \in Seen : ~IsLoss(t) => ~OutVotes(t)

\* Before the third loop the choice is the main thread, the only one seen.
OnlyMain == phase \in {"min", "vote"} => best = 1

Chosen == WinSeen /\ LossSeen /\ VotesSeen /\ NoAbortedLoss

IInv == TypeOK /\ MinIsLeast /\ OnlyMain /\ Chosen

USE DEF Threads

-----------------------------------------------------------------------------
\* Voting values are integers: scores and depths are.
LEMMA ValueInt ==
    ASSUME TypeOK PROVE \A t \in Threads : /\ VotingValue(t) \in Int
                                           /\ Weight(t) \in Int
                                           /\ Vote(t) \in Int
                                           /\ rm[t] \in Result
<1>1. ASSUME NEW t \in Threads
      PROVE  rm[t] \in Result /\ VotingValue(t) \in Int /\ Vote(t) \in Int
  <2>1. rm[t] \in Result
    BY <1>1, BestThreadAssumption DEF TypeOK
  <2>2. rm[t].score \in Int /\ rm[t].depth \in Int /\ rm[t].move \in Moves
    BY <2>1, BestThreadAssumption DEF Result
  <2> QED
    BY <2>1, <2>2 DEF TypeOK, VotingValue, Vote
<1> QED
  BY <1>1 DEF Weight

\* The loops' variables keep their types.
LEMMA TypeInit == Init => TypeOK
BY BestThreadAssumption DEF Init, TypeOK

\* Each step of the loops keeps the types.
LEMMA TypeStep == TypeOK /\ [Next]_vars => TypeOK'
<1> SUFFICES ASSUME TypeOK, [Next]_vars PROVE TypeOK'
  OBVIOUS
<1>1. CASE FindMin
  <2>1. rm[i].score \in Int
    BY ValueInt, BestThreadAssumption DEF TypeOK, Result
  <2> QED
    BY <1>1, <2>1, BestThreadAssumption DEF TypeOK, FindMin, Advance
<1>2. CASE CountVote
  <2>1. rm[i].move \in Moves /\ votes[rm[i].move] + VotingValue(i) \in Int
    BY ValueInt DEF TypeOK, Result, Vote
  <2> QED
    BY <1>2, <2>1, BestThreadAssumption DEF TypeOK, CountVote, TakeVote, Advance
<1>3. CASE Pick
  BY <1>3, BestThreadAssumption DEF TypeOK, Pick, Advance
<1>4. CASE Returned \/ UNCHANGED vars
  BY <1>4 DEF Returned, vars, TypeOK
<1> QED
  BY <1>1, <1>2, <1>3, <1>4 DEF Next

\* Type correctness of the three loops.
THEOREM TypeCorrect == Spec => []TypeOK
BY TypeInit, TypeStep, PTL DEF Spec

-----------------------------------------------------------------------------
\* While nothing but the main thread has been seen there is nothing to compare.
LEMMA MainAlone == TypeOK /\ best = 1 /\ Seen = {1} => Chosen
<1> SUFFICES ASSUME TypeOK, best = 1, Seen = {1} PROVE Chosen
  OBVIOUS
<1>1. rm[1].score \in Int /\ Vote(1) \in Int /\ Weight(1) \in Int
  BY ValueInt, BestThreadAssumption DEF Result
<1> QED
  BY <1>1 DEF Chosen, WinSeen, LossSeen, VotesSeen, OutVotes, NoAbortedLoss

\* The invariant holds before the first loop: nothing has been seen.
LEMMA InvInit == Init => IInv
<1> SUFFICES ASSUME Init PROVE IInv
  OBVIOUS
<1>1. TypeOK
  BY TypeInit
<1>2. best = 1 /\ Seen = {1} /\ MinIsLeast
  BY DEF Init, Seen, MinIsLeast, Measured
<1> QED
  BY <1>1, <1>2, MainAlone DEF IInv, OnlyMain

\* The first loop finds the least score.
LEMMA MinStep == IInv /\ [Next]_vars => MinIsLeast'
<1> SUFFICES ASSUME IInv, [Next]_vars PROVE MinIsLeast'
  OBVIOUS
<1>1. TypeOK /\ MinIsLeast /\ \A t \in Threads : rm[t].score \in Int
  BY ValueInt, BestThreadAssumption DEF IInv, Result
<1>2. CASE FindMin
  BY <1>1, <1>2, BestThreadAssumption
     DEF FindMin, Advance, MinIsLeast, Measured, TypeOK
<1>3. CASE CountVote
  BY <1>1, <1>3, BestThreadAssumption
     DEF CountVote, TakeVote, Advance, MinIsLeast, Measured, TypeOK
<1>4. CASE Pick
  BY <1>1, <1>4, BestThreadAssumption DEF Pick, Advance, MinIsLeast, Measured, TypeOK
<1>5. CASE Returned \/ UNCHANGED vars
  BY <1>1, <1>5 DEF Returned, vars, MinIsLeast, Measured
<1> QED
  BY <1>2, <1>3, <1>4, <1>5 DEF Next

\* The third loop: what it has chosen holds for the thread it looks at and
\* goes on to hold for those it has seen.
LEMMA PickStep == IInv /\ Pick => Chosen'
<1> SUFFICES ASSUME IInv, Pick PROVE Chosen'
  OBVIOUS
<1>1. /\ TypeOK /\ phase = "pick" /\ i \in Threads /\ best \in Threads
      /\ WinSeen /\ LossSeen /\ VotesSeen /\ NoAbortedLoss
  BY DEF IInv, Chosen, TypeOK, Pick
<1>2. /\ UNCHANGED <<rm, minScore, votes>>
      /\ best' = IF Better(i) THEN i ELSE best
  BY DEF Pick
<1>3. Seen' = Seen \cup {i} /\ Seen \subseteq Threads /\ 1 \in Seen
  BY <1>1, BestThreadAssumption DEF Pick, Advance, Seen
<1>4. \A t \in Threads : /\ rm[t].score \in Int /\ Vote(t) \in Int /\ Weight(t) \in Int
                         /\ IsLoss(t) => ~IsWin(t)
  BY <1>1, ValueInt, BestThreadAssumption DEF Result, IsLoss, IsWin
<1>5. /\ SomeWin' = SomeWin /\ SomeLoss' = SomeLoss
      /\ \A t : /\ ProvenWin(t)' = ProvenWin(t) /\ ProvenLoss(t)' = ProvenLoss(t)
                /\ IsLoss(t)' = IsLoss(t)
                /\ Vote(t)' = Vote(t) /\ Weight(t)' = Weight(t)
  BY <1>2 DEF SomeWin, SomeLoss, ProvenWin, ProvenLoss, IsWin, IsLoss, Vote, Weight, VotingValue
<1>6. WinSeen'
  <2> SUFFICES ASSUME ~SomeLoss, NEW t \in Seen \cup {i}, ProvenWin(t)
               PROVE  ProvenWin(best') /\ rm[t].score <= rm[best'].score
    BY <1>2, <1>3, <1>5 DEF WinSeen, ProvenWin, IsWin
  <2>1. ~ProvenLoss(best)
    BY <1>1 DEF SomeLoss
  <2>2. CASE Better(i)
    BY <1>1, <1>2, <1>3, <1>4, <2>1, <2>2 DEF WinSeen, Better
  <2>3. CASE ~Better(i)
    BY <1>1, <1>2, <1>3, <1>4, <2>1, <2>3 DEF WinSeen, Better
  <2> QED
    BY <2>2, <2>3
<1>7. LossSeen'
  <2> SUFFICES ASSUME ~SomeWin, NEW t \in Seen \cup {i}, ProvenLoss(t)
               PROVE  ProvenLoss(best') /\ rm[best'].score <= rm[t].score
    BY <1>2, <1>3, <1>5 DEF LossSeen, ProvenLoss, IsLoss
  <2>1. ~ProvenWin(best)
    BY <1>1 DEF SomeWin
  <2>2. CASE Better(i)
    BY <1>1, <1>2, <1>3, <1>4, <2>1, <2>2 DEF LossSeen, Better, ProvenWin, SomeWin
  <2>3. CASE ~Better(i)
    BY <1>1, <1>2, <1>3, <1>4, <2>1, <2>3 DEF LossSeen, Better
  <2> QED
    BY <2>2, <2>3
<1>8. VotesSeen'
  <2> SUFFICES ASSUME ~SomeWin, ~SomeLoss, NEW t \in Seen \cup {i}, ~IsLoss(t)
               PROVE  ~(Vote(t) > Vote(best') \/ (Vote(t) = Vote(best') /\ Weight(t) > Weight(best')))
    BY <1>2, <1>3, <1>5 DEF VotesSeen, OutVotes, Vote, Weight, VotingValue
  <2>1. \A u \in Threads : ~ProvenWin(u) /\ ~ProvenLoss(u)
    BY DEF SomeWin, SomeLoss
  <2>2. Better(i) <=> ~IsLoss(i) /\ OutVotes(i)
    BY <1>1, <2>1 DEF Better
  <2>3. t \in Seen => ~OutVotes(t)
    BY <1>1 DEF VotesSeen
  <2>4. CASE Better(i)
    <3>1. best' = i /\ OutVotes(i) /\ (t = i \/ ~OutVotes(t))
      BY <1>2, <2>2, <2>3, <2>4
    <3> DEFINE v(u) == Vote(u)
               w(u) == Weight(u)
    <3>2. \A u \in {t, i, best} : v(u) \in Int /\ w(u) \in Int
      BY <1>1, <1>3, <1>4
    <3>3. /\ v(i) > v(best) \/ (v(i) = v(best) /\ w(i) > w(best))
          /\ t = i \/ ~(v(t) > v(best) \/ (v(t) = v(best) /\ w(t) > w(best)))
      BY <3>1 DEF OutVotes
    <3> HIDE DEF v, w
    <3>4. ~(v(t) > v(i) \/ (v(t) = v(i) /\ w(t) > w(i)))
      BY <3>2, <3>3
    <3> QED
      BY <3>1, <3>4 DEF v, w
  <2>5. CASE ~Better(i)
    BY <1>1, <1>2, <1>3, <1>4, <2>2, <2>3, <2>5 DEF OutVotes
  <2> QED
    BY <2>4, <2>5
<1>9. NoAbortedLoss'
  <2>1. Better(i) /\ IsLoss(i) => ProvenLoss(i)
    BY <1>1, <1>4 DEF Better, ProvenWin, ProvenLoss
  <2> QED
    BY <1>1, <1>2, <2>1 DEF NoAbortedLoss, IsLoss, ProvenLoss
<1> QED
  BY <1>6, <1>7, <1>8, <1>9 DEF Chosen

\* Each step of the loops keeps the invariant.
LEMMA InvStep == IInv /\ [Next]_vars => IInv'
<1> SUFFICES ASSUME IInv, [Next]_vars PROVE IInv'
  OBVIOUS
<1>1. TypeOK' /\ MinIsLeast'
  BY TypeStep, MinStep DEF IInv
<1>2. CASE FindMin \/ CountVote
  <2>1. OnlyMain' /\ (best = 1)' /\ (Seen = {1})'
    BY <1>2, BestThreadAssumption
       DEF IInv, TypeOK, OnlyMain, FindMin, CountVote, TakeVote, Advance, Seen
  <2>2. Chosen'
    BY <1>1, <2>1, MainAlone, PTL
  <2> QED
    BY <1>1, <2>1, <2>2 DEF IInv
<1>3. CASE Pick
  <2>1. OnlyMain'
    BY <1>3 DEF Pick, Advance, OnlyMain
  <2> QED
    BY <1>1, <1>3, <2>1, PickStep DEF IInv
<1>4. CASE Returned \/ UNCHANGED vars
  <2>1. UNCHANGED vars
    BY <1>4 DEF Returned
  <2>2. OnlyMain' /\ Seen' = Seen
    BY <2>1 DEF IInv, OnlyMain, Seen, vars
  <2>3. Chosen'
    BY <2>1, <2>2 DEF IInv, Chosen, WinSeen, LossSeen, VotesSeen, NoAbortedLoss, OutVotes,
      SomeWin, SomeLoss, ProvenWin, ProvenLoss, IsWin, IsLoss, Vote, Weight, VotingValue, vars
  <2> QED
    BY <1>1, <2>2, <2>3 DEF IInv
<1> QED
  BY <1>2, <1>3, <1>4 DEF Next

\* The invariant of the three loops.
THEOREM Invariance == Spec => []IInv
BY InvInit, InvStep, PTL DEF Spec

-----------------------------------------------------------------------------
\* A proven win is found if there is one, and the shortest of them.
THEOREM WinsFound == Spec => []ShortestMate
<1>1. IInv => ShortestMate
  BY DEF IInv, Chosen, WinSeen, Seen, ShortestMate, SomeWin
<1> QED
  BY <1>1, Invariance, PTL

\* A proven loss is found if there is one, and the shortest of them.
THEOREM LossesFound == Spec => []ShortestMated
<1>1. IInv => ShortestMated
  BY DEF IInv, Chosen, LossSeen, Seen, ShortestMated, SomeLoss
<1> QED
  BY <1>1, Invariance, PTL

\* Otherwise no thread that is not losing has a move with more votes.
THEOREM VotesCount == Spec => []MostVoted
<1>1. IInv => MostVoted
  <2> SUFFICES ASSUME IInv, phase = "done", ~SomeWin, ~SomeLoss,
                      NEW t \in Threads, ~IsLoss(t)
               PROVE  Vote(t) <= Vote(best)
    BY DEF MostVoted
  <2>1. ~OutVotes(t)
    BY DEF IInv, Chosen, VotesSeen, Seen
  <2>2. Vote(t) \in Int /\ Vote(best) \in Int
    BY ValueInt DEF IInv, TypeOK
  <2> QED
    BY <2>1, <2>2 DEF OutVotes
<1> QED
  BY <1>1, Invariance, PTL

\* The helper of an aborted iteration is not picked for its losing score.
THEOREM AbortedLossesIgnored == Spec => []NoAbortedLoss
BY Invariance, PTL DEF IInv, Chosen

\* A full line is preferred to a truncated one: a thread that has completed
\* an iteration has a positive voting value.
THEOREM FullLines == Spec => []FullLinePreferred
<1>1. IInv => FullLinePreferred
  <2> SUFFICES ASSUME IInv, phase = "done", ~SomeWin, ~SomeLoss, ~rm[best].full,
                      NEW t \in Threads, ~IsLoss(t), Vote(t) = Vote(best),
                      rm[t].depth > 0, rm[t].full
               PROVE  FALSE
    BY DEF FullLinePreferred
  <2>1. rm[t].score \in Int /\ rm[t].depth \in Int /\ minScore \in Int
    BY ValueInt, BestThreadAssumption, SMTT(40) DEF IInv, TypeOK, Result
  <2>2. minScore <= rm[t].score
    BY DEF IInv, MinIsLeast, Measured
  <2>3. VotingValue(t) > 0
    <3>1. rm[t].score - minScore + 14 > 0 /\ rm[t].score - minScore + 14 \in Int
      BY <2>1, <2>2
    <3>2. \A x, y \in Int : x > 0 /\ y > 0 => x * y > 0
      OBVIOUS
    <3> QED
      BY <2>1, <3>1, <3>2 DEF VotingValue
  <2>4. Weight(t) > Weight(best)
    BY <2>3 DEF Weight
  <2>5. ~OutVotes(t)
    BY DEF IInv, Chosen, VotesSeen, Seen
  <2> QED
    BY <2>4, <2>5 DEF OutVotes
<1> QED
  BY <1>1, Invariance, PTL

-----------------------------------------------------------------------------
(* The replicas.  A thread reads the replica of its own node and of the    *)
(* networks loaded last.  The invariant says where an instance can be on   *)
(* its way: absent, half assigned by a thread that holds the mutex, or a   *)
(* replica of the first instance.  How threads are distributed does not    *)
(* matter to it: a thread that is bound has found a processor of its node, *)
(* so the node exists.                                                     *)

Steps == {"idle", "check", "lock", "make", "read"}
Instances(n) == {None, Half, Replica(loaded, n)}

\* There is room for the first instance, which is always there, and for the
\* node of each thread.
RoomForAll ==
    /\ 1 \in Room(config)
    /\ DOMAIN replicas = Room(config)
    /\ \A t \in DOMAIN pool : pool[t].node \in Room(config)

InstancesOnTheirWay ==
    /\ loaded \in {"first", "second"}
    /\ replicas = [n \in DOMAIN replicas |-> replicas[n]]
    /\ replicas[1] = Replica(loaded, 1)
    /\ \A n \in DOMAIN replicas : replicas[n] \in Instances(n)
    /\ \A n \in DOMAIN replicas :
           replicas[n] = Half => \E t \in DOMAIN pool : pc[t] = "make" /\ pool[t].node = n

RestIsIdle == task = "rest" => \A t \in DOMAIN pool : pc[t] = "idle"

NodesInv ==
    /\ pc \in [DOMAIN pool -> Steps]
    /\ RoomForAll
    /\ InstancesOnTheirWay
    /\ RestIsIdle
    /\ ReplicasAreCurrent

-----------------------------------------------------------------------------
(* Replicas, room and nodes.                                               *)

\* A replica of a network is neither absent nor half assigned.
LEMMA ReplicasDiffer ==
    ASSUME NEW net \in {"first", "second"}, NEW n
    PROVE  Replica(net, n) # None /\ Replica(net, n) # Half /\ None # Half
           /\ Replica(net, n).net = net
BY DEF Replica, None, Half

\* A node with a processor of the machine has room for its instance.
LEMMA BindableHasRoom ==
    ASSUME NEW cfg, NEW n, Bindable(cfg, n)
    PROVE  n \in Room(cfg)
<1>1. n \in DOMAIN cfg.nodes
  BY DEF Bindable, Node
<1>2. CASE RequiresReplication(cfg)
  BY <1>1, <1>2 DEF Room
<1>3. CASE ~RequiresReplication(cfg)
  BY <1>1, <1>3 DEF Room, RequiresReplication
<1>4. QED
  BY <1>2, <1>3

\* A configuration whose first node can be bound to, when replicas are needed,
\* has room for the first instance.
LEMMA FirstHasRoom ==
    ASSUME NEW cfg, RequiresReplication(cfg) => Bindable(cfg, 1)
    PROVE  1 \in Room(cfg)
BY BindableHasRoom DEF Room

\* What prepare_replicate_from leaves: the first instance and nothing else.
LEMMA Prepared ==
    ASSUME NEW cfg, NEW net \in {"first", "second"}, 1 \in Room(cfg)
    PROVE  LET made == PrepareFrom(net, cfg)
           IN  /\ DOMAIN made = Room(cfg)
               /\ made = [n \in DOMAIN made |-> made[n]]
               /\ made[1] = Replica(net, 1)
               /\ \A n \in DOMAIN made : made[n] \in {None, Replica(net, n)}
BY DEF PrepareFrom

-----------------------------------------------------------------------------
(* ThreadPool::set.                                                        *)

\* Whatever instances it starts from, if they are absent or current, the new
\* threads find room and current replicas.
LEMMA SetKeeps ==
    ASSUME NEW cfg, NEW option, NEW threads, NEW instances,
           NodesInv, task = "rest",
           1 \in Room(cfg), DOMAIN instances = Room(cfg),
           instances[1] = Replica(loaded, 1),
           \A n \in DOMAIN instances : instances[n] \in {None, Replica(loaded, n)},
           Set(cfg, option, threads, instances)
    PROVE  NodesInv'
<1> DEFINE bind == DoBindThreads(cfg, option, threads)
           ns == IF bind THEN Distribute(cfg, threads) ELSE [t \in 1 .. threads |-> 1]
           stuck == bind /\ \E t \in DOMAIN ns : ~Bindable(cfg, ns[t])
<1>1. CASE stuck
  <2>1. Exit
    BY <1>1 DEF Set
  <2>2. QED
    BY <2>1 DEF Exit, NodesInv, RoomForAll, InstancesOnTheirWay, Instances, RestIsIdle,
                ReplicasAreCurrent, Instance
<1>2. CASE ~stuck
  <2>1. /\ pool' = Placed(ns)
        /\ replicas' = EnsureEach(instances, Placed(ns))
        /\ config' = cfg
        /\ pc' = [t \in DOMAIN ns |-> "check"]
        /\ task' = "clear"
        /\ loaded' = loaded
    BY <1>2 DEF Set, AllBegin
  <2>2. ASSUME NEW t \in DOMAIN ns
        PROVE  ns[t] \in Room(cfg)
    <3>1. CASE bind
      BY <1>2, <3>1, BindableHasRoom
    <3>2. CASE ~bind
      BY <3>2
    <3>3. QED
      BY <3>1, <3>2
  <2> HIDE DEF ns
  <2>3. DOMAIN pool' = DOMAIN ns /\ \A t \in DOMAIN ns : pool'[t].node = ns[t]
    BY <2>1 DEF Placed
  <2>4. pc' \in [DOMAIN pool' -> Steps]
    BY <2>1, <2>3 DEF Steps
  <2>5. DOMAIN replicas' = DOMAIN instances
        /\ replicas' = [n \in DOMAIN replicas' |-> replicas'[n]]
    BY <2>1 DEF EnsureEach
  <2>6. RoomForAll'
    BY <2>1, <2>2, <2>3, <2>5 DEF RoomForAll, Room, RequiresReplication
  <2>7. loaded \in {"first", "second"}
    BY DEF NodesInv, InstancesOnTheirWay
  <2>8. \A n \in DOMAIN replicas' : replicas'[n] \in {None, Replica(loaded, n)}
    <3>1. instances[1].net = loaded
      BY <2>7 DEF Replica
    <3>2. QED
      BY <2>1, <3>1 DEF EnsureEach
  <2>9. replicas'[1] = Replica(loaded, 1)
    BY <2>1, <2>7, ReplicasDiffer DEF EnsureEach
  <2>10. InstancesOnTheirWay'
    BY <2>1, <2>5, <2>7, <2>8, <2>9, ReplicasDiffer DEF InstancesOnTheirWay, Instances, Replica, None, Half
  <2>11. RestIsIdle' /\ ReplicasAreCurrent'
    BY <2>1, <2>3 DEF RestIsIdle, ReplicasAreCurrent
  <2>12. QED
    BY <2>4, <2>6, <2>10, <2>11 DEF NodesInv
<1>3. QED
  BY <1>1, <1>2

-----------------------------------------------------------------------------
(* The commands.                                                           *)

\* At rest nobody makes a replica, so none is half assigned.
LEMMA NoneHalfAtRest ==
    ASSUME NodesInv, task = "rest"
    PROVE  /\ loaded \in {"first", "second"}
           /\ replicas[1] = Replica(loaded, 1) /\ replicas[1].net = loaded
           /\ \A n \in DOMAIN replicas : replicas[n] \in {None, Replica(loaded, n)}
<1>1. \A n \in DOMAIN replicas : replicas[n] # Half
  BY DEF NodesInv, InstancesOnTheirWay, RestIsIdle
<1>2. QED
  BY <1>1, ReplicasDiffer DEF NodesInv, InstancesOnTheirWay, Instances

LEMMA SetPolicyKeeps ==
    ASSUME NodesInv, NEW option, SetPolicy(option)
    PROVE  NodesInv'
<1> DEFINE cfg == Configured(machine, option)
<1>1. task = "rest"
  BY DEF SetPolicy, Command
<1>2. CASE Exit
  BY <1>2 DEF Exit, NodesInv, RoomForAll, InstancesOnTheirWay, Instances, RestIsIdle,
              ReplicasAreCurrent, Instance
<1>3. CASE ~Exit
  <2>1. /\ Set(cfg, option, requested, Changed(cfg))
        /\ RequiresReplication(cfg) => Bindable(cfg, 1)
    BY <1>3 DEF SetPolicy
  <2> HIDE DEF cfg
  <2>2. 1 \in Room(cfg)
    BY <2>1, FirstHasRoom
  <2>3. Changed(cfg) = PrepareFrom(loaded, cfg)
    BY <1>1, NoneHalfAtRest DEF Changed
  <2>4. /\ DOMAIN Changed(cfg) = Room(cfg)
        /\ Changed(cfg)[1] = Replica(loaded, 1)
        /\ \A n \in DOMAIN Changed(cfg) : Changed(cfg)[n] \in {None, Replica(loaded, n)}
    BY <1>1, <2>2, <2>3, NoneHalfAtRest, Prepared
  <2>5. QED
    BY <1>1, <2>1, <2>2, <2>4, SetKeeps
<1>4. QED
  BY <1>2, <1>3

LEMMA SetThreadsKeeps ==
    ASSUME NodesInv, NEW n, SetThreads(n)
    PROVE  NodesInv'
<1>1. task = "rest" /\ Set(config, policy, n, replicas)
  BY DEF SetThreads, Command
<1>2. 1 \in Room(config) /\ DOMAIN replicas = Room(config)
  BY DEF NodesInv, RoomForAll
<1>3. QED
  BY <1>1, <1>2, NoneHalfAtRest, SetKeeps

\* Instances made anew from the first one, the configuration as it is.
LEMMA ModifiedKeeps ==
    ASSUME NodesInv, task = "rest", NEW net \in {"first", "second"},
           loaded' = net, replicas' = Modified(net), UNCHANGED <<config, pool>>,
           \/ UNCHANGED <<pc, task>>
           \/ pc' = [t \in DOMAIN pool |-> "check"] /\ task' = "clear"
    PROVE  NodesInv'
<1>1. 1 \in Room(config)
  BY DEF NodesInv, RoomForAll
<1>2. /\ DOMAIN replicas' = Room(config)
      /\ replicas' = [n \in DOMAIN replicas' |-> replicas'[n]]
      /\ replicas'[1] = Replica(net, 1)
      /\ \A n \in DOMAIN replicas' : replicas'[n] \in {None, Replica(net, n)}
  BY <1>1, Prepared DEF Modified
<1>3. RoomForAll'
  BY <1>2 DEF NodesInv, RoomForAll, Room, RequiresReplication
<1>4. InstancesOnTheirWay'
  BY <1>2, ReplicasDiffer DEF InstancesOnTheirWay, Instances, Replica, None, Half
<1>5. pc' \in [DOMAIN pool' -> Steps] /\ RestIsIdle' /\ ReplicasAreCurrent'
  BY DEF NodesInv, Steps, RestIsIdle, ReplicasAreCurrent
<1>6. QED
  BY <1>3, <1>4, <1>5 DEF NodesInv

LEMMA LoadNetworkKeeps ==
    ASSUME NodesInv, LoadNetwork
    PROVE  NodesInv'
<1>1. /\ task = "rest"
      /\ loaded' \in {"first", "second"} /\ replicas' = Modified(loaded')
      /\ pc' = [t \in DOMAIN pool |-> "check"] /\ task' = "clear"
      /\ UNCHANGED <<config, pool>>
  BY DEF LoadNetwork, Command, AllBegin
<1>2. QED
  BY <1>1, ModifiedKeeps

LEMMA SaveNetworkKeeps ==
    ASSUME NodesInv, SaveNetwork
    PROVE  NodesInv'
<1>1. task = "rest" /\ UNCHANGED <<config, pool, pc, task, loaded>> /\ replicas' = Modified(replicas[1].net)
  BY DEF SaveNetwork, Command
<1>2. loaded \in {"first", "second"} /\ replicas[1].net = loaded
  BY <1>1, NoneHalfAtRest
<1>3. QED
  BY <1>1, <1>2, ModifiedKeeps

\* NewGame and Go.
LEMMA AllBeginKeeps ==
    ASSUME NodesInv, task = "rest", NEW job \in {"clear", "search"}, AllBegin(job, pool),
           UNCHANGED <<config, pool, replicas, loaded>>
    PROVE  NodesInv'
<1>1. /\ pc' = [t \in DOMAIN pool |-> "check"]
      /\ task' # "rest"
  BY DEF AllBegin
<1>2. \A n \in DOMAIN replicas : replicas[n] # Half
  BY NoneHalfAtRest, ReplicasDiffer
<1>3. RoomForAll'
  BY DEF NodesInv, RoomForAll, Room, RequiresReplication
<1>4. InstancesOnTheirWay'
  BY <1>2 DEF NodesInv, InstancesOnTheirWay, Instances
<1>5. pc' \in [DOMAIN pool' -> Steps] /\ RestIsIdle' /\ ReplicasAreCurrent'
  BY <1>1 DEF Steps, RestIsIdle, ReplicasAreCurrent
<1>6. QED
  BY <1>3, <1>4, <1>5 DEF NodesInv

-----------------------------------------------------------------------------
(* The steps of a thread.                                                  *)

\* None of them changes what the room depends on, and a thread that becomes
\* idle or a reader leaves the others as they were.
LEMMA StepKeepsRoom ==
    ASSUME NodesInv, Keep, DOMAIN replicas' = DOMAIN replicas
    PROVE  RoomForAll'
BY DEF NodesInv, Keep, RoomForAll, Room, RequiresReplication

LEMMA CheckPresentKeeps ==
    ASSUME NodesInv, NEW t \in DOMAIN pc, CheckPresent(t)
    PROVE  NodesInv'
<1> USE DEF NodesInv
<1>1. PICK step \in {"read", "lock"} : pc' = [pc EXCEPT ![t] = step]
  BY DEF CheckPresent, GoOn
<1>2. pc[t] = "check" /\ t \in DOMAIN pool /\ UNCHANGED <<pool, config, loaded, replicas, task>>
  BY DEF CheckPresent, Keep
<1>3. RoomForAll'
  BY <1>2, StepKeepsRoom DEF CheckPresent
<1>4. pc' \in [DOMAIN pool' -> Steps]
  BY <1>1, <1>2 DEF Steps
<1>5. InstancesOnTheirWay'
  BY <1>1, <1>2 DEF InstancesOnTheirWay, Instances
<1>6. RestIsIdle'
  BY <1>1, <1>2 DEF RestIsIdle
<1>7. ReplicasAreCurrent'
  <2>1. SUFFICES ASSUME NEW u \in DOMAIN pool, pc'[u] = "read", u \notin torn'
                 PROVE  Instance(u) = Replica(loaded, pool[u].node)
    BY <1>2, <1>4 DEF ReplicasAreCurrent, Instance
  <2>2. CASE u = t
    <3>1. Instance(t) # None /\ Instance(t) # Half
      BY <1>1, <1>2, <2>1, <2>2 DEF CheckPresent, GoOn
    <3>2. QED
      BY <2>2, <3>1 DEF RoomForAll, InstancesOnTheirWay, Instances, Instance
  <2>3. CASE u # t
    <3>1. pc[u] = "read" /\ u \notin torn
      BY <1>1, <1>2, <2>1, <2>3 DEF CheckPresent
    <3>2. QED
      BY <3>1 DEF ReplicasAreCurrent
  <2>4. QED
    BY <2>2, <2>3
<1>8. QED
  BY <1>3, <1>4, <1>5, <1>6, <1>7

LEMMA LockKeeps ==
    ASSUME NodesInv, NEW t \in DOMAIN pc, Lock(t)
    PROVE  NodesInv'
<1> USE DEF NodesInv
<1> DEFINE n == pool[t].node
<1>1. /\ pc[t] = "lock" /\ t \in DOMAIN pool /\ n \in DOMAIN replicas
      /\ UNCHANGED <<pool, config, loaded, torn, task>>
  BY DEF Lock, Keep, RoomForAll
<1>2. replicas[n] # Half
  BY <1>1 DEF Lock, MutexIsFree, InstancesOnTheirWay
<1>3. loaded \in {"first", "second"}
  BY DEF InstancesOnTheirWay
<1>4. CASE replicas[n] # None
  <2>1. pc' = [pc EXCEPT ![t] = "read"] /\ replicas' = replicas
    BY <1>4 DEF Lock, GoOn, Instance
  <2>2. replicas[n] = Replica(loaded, n)
    BY <1>1, <1>2, <1>4 DEF InstancesOnTheirWay, Instances
  <2>3. RoomForAll'
    BY <2>1, StepKeepsRoom DEF Lock
  <2>4. pc' \in [DOMAIN pool' -> Steps] /\ RestIsIdle'
    BY <1>1, <2>1 DEF Steps, RestIsIdle
  <2>5. InstancesOnTheirWay'
    BY <1>1, <2>1 DEF InstancesOnTheirWay, Instances
  <2>6. ReplicasAreCurrent'
    BY <1>1, <2>1, <2>2 DEF ReplicasAreCurrent, Instance
  <2>7. QED
    BY <2>3, <2>4, <2>5, <2>6
<1>5. CASE replicas[n] = None
  <2>1. pc' = [pc EXCEPT ![t] = "make"] /\ replicas' = [replicas EXCEPT ![n] = Half]
    BY <1>5 DEF Lock, GoOn, Instance
  <2>2. n # 1
    BY <1>3, <1>5, ReplicasDiffer DEF InstancesOnTheirWay
  <2>3. DOMAIN replicas' = DOMAIN replicas
    BY <2>1
  <2>4. RoomForAll'
    BY <2>3, StepKeepsRoom DEF Lock
  <2>5. pc' \in [DOMAIN pool' -> Steps] /\ RestIsIdle'
    BY <1>1, <2>1 DEF Steps, RestIsIdle
  <2>6. InstancesOnTheirWay'
    <3>1. replicas'[1] = replicas[1] /\ replicas' = [k \in DOMAIN replicas' |-> replicas'[k]]
      BY <2>1, <2>2 DEF RoomForAll
    <3>2. ASSUME NEW k \in DOMAIN replicas
          PROVE  /\ replicas'[k] \in Instances(k)
                 /\ replicas'[k] = Half => \E u \in DOMAIN pool : pc'[u] = "make" /\ pool[u].node = k
      <4>1. CASE k = n
        BY <1>1, <2>1, <4>1 DEF Instances
      <4>2. CASE k # n
        BY <1>1, <2>1, <4>2 DEF InstancesOnTheirWay, Instances
      <4>3. QED
        BY <4>1, <4>2
    <3>3. QED
      BY <1>1, <2>3, <3>1, <3>2 DEF InstancesOnTheirWay, Instances
  <2>7. ReplicasAreCurrent'
    <3>1. ASSUME NEW u \in DOMAIN pool, pc'[u] = "read", u \notin torn
          PROVE  replicas'[pool[u].node] = Replica(loaded, pool[u].node)
      <4>1. pc[u] = "read" /\ replicas[pool[u].node] = Replica(loaded, pool[u].node)
        BY <1>1, <2>1, <3>1 DEF ReplicasAreCurrent, Instance
      <4>2. pool[u].node # n
        BY <1>3, <1>5, <4>1, ReplicasDiffer
      <4>3. QED
        BY <2>1, <4>1, <4>2
    <3>2. QED
      BY <1>1, <2>5, <3>1 DEF ReplicasAreCurrent, Instance
  <2>8. QED
    BY <2>4, <2>5, <2>6, <2>7
<1>6. QED
  BY <1>4, <1>5

LEMMA MakeKeeps ==
    ASSUME NodesInv, NEW t \in DOMAIN pc, Make(t)
    PROVE  NodesInv'
<1> USE DEF NodesInv
<1> DEFINE n == pool[t].node
<1>1. /\ pc[t] = "make" /\ t \in DOMAIN pool /\ n \in DOMAIN replicas
      /\ UNCHANGED <<pool, config, loaded, torn, task>>
      /\ pc' = [pc EXCEPT ![t] = "read"]
  BY DEF Make, Keep, GoOn, RoomForAll
<1>2. replicas[1].net = loaded
  BY DEF InstancesOnTheirWay, Replica
<1>3. replicas' = [replicas EXCEPT ![n] = Replica(loaded, n)]
  BY <1>2 DEF Make
<1>4. DOMAIN replicas' = DOMAIN replicas
      /\ replicas' = [k \in DOMAIN replicas' |-> replicas'[k]]
  BY <1>3
<1>5. RoomForAll'
  BY <1>4, StepKeepsRoom DEF Make
<1>6. pc' \in [DOMAIN pool' -> Steps] /\ RestIsIdle'
  BY <1>1 DEF Steps, RestIsIdle
<1>7. \A k \in DOMAIN replicas : replicas'[k] = IF k = n THEN Replica(loaded, n) ELSE replicas[k]
  BY <1>3, <1>4
<1>8. InstancesOnTheirWay'
  <2>1. replicas'[1] = Replica(loaded, 1)
    BY <1>7 DEF RoomForAll, InstancesOnTheirWay
  <2>2. ASSUME NEW k \in DOMAIN replicas
        PROVE  /\ replicas'[k] \in Instances(k)
               /\ replicas'[k] = Half => \E u \in DOMAIN pool : pc'[u] = "make" /\ pool[u].node = k
    <3>1. CASE k = n
      <4>1. replicas'[k] = Replica(loaded, k)
        BY <1>7, <3>1
      <4>2. QED
        BY <4>1, ReplicasDiffer DEF Instances, InstancesOnTheirWay
    <3>2. CASE k # n
      <4>1. replicas'[k] = replicas[k]
        BY <1>7, <3>2
      <4>2. ASSUME replicas[k] = Half
            PROVE  \E u \in DOMAIN pool : pc'[u] = "make" /\ pool[u].node = k
        <5>1. PICK u \in DOMAIN pool : pc[u] = "make" /\ pool[u].node = k
          BY <4>2 DEF InstancesOnTheirWay
        <5>2. u # t
          BY <3>2, <5>1
        <5>3. QED
          BY <1>1, <5>1, <5>2
      <4>3. QED
        BY <4>1, <4>2 DEF InstancesOnTheirWay
    <3>3. QED
      BY <3>1, <3>2
  <2>3. QED
    BY <1>1, <1>4, <2>1, <2>2 DEF InstancesOnTheirWay, Instances
<1>9. ReplicasAreCurrent'
  <2>1. ASSUME NEW u \in DOMAIN pool, pc'[u] = "read", u \notin torn
        PROVE  replicas'[pool[u].node] = Replica(loaded, pool[u].node)
    <3>1. pool[u].node \in DOMAIN replicas
      BY DEF RoomForAll
    <3>2. CASE pool[u].node = n
      BY <1>7, <3>1, <3>2
    <3>3. CASE pool[u].node # n
      <4>1. pc[u] = "read"
        BY <1>1, <2>1, <3>3
      <4>2. QED
        BY <1>7, <2>1, <3>1, <3>3, <4>1 DEF ReplicasAreCurrent, Instance
    <3>4. QED
      BY <3>2, <3>3
  <2>2. QED
    BY <1>1, <1>6, <2>1 DEF ReplicasAreCurrent, Instance
<1>10. QED
  BY <1>5, <1>6, <1>8, <1>9

LEMMA DoneKeeps ==
    ASSUME NodesInv, NEW t \in DOMAIN pc, Done(t)
    PROVE  NodesInv'
<1> USE DEF NodesInv
<1>1. /\ pc[t] = "read" /\ t \in DOMAIN pool /\ pc' = [pc EXCEPT ![t] = "idle"]
      /\ torn' = torn \ {t}
      /\ task' = (IF \A u \in DOMAIN pc \ {t} : pc[u] = "idle" THEN "rest" ELSE task)
      /\ UNCHANGED <<pool, config, loaded, replicas>>
  BY DEF Done, Keep, GoOn
<1>2. RoomForAll'
  BY <1>1, StepKeepsRoom DEF Done
<1>3. pc' \in [DOMAIN pool' -> Steps]
  BY <1>1 DEF Steps
<1>4. InstancesOnTheirWay'
  BY <1>1 DEF InstancesOnTheirWay, Instances
<1>5. RestIsIdle'
  BY <1>1 DEF RestIsIdle
<1>6. ReplicasAreCurrent'
  BY <1>1 DEF ReplicasAreCurrent, Instance
<1>7. QED
  BY <1>2, <1>3, <1>4, <1>5, <1>6

-----------------------------------------------------------------------------
(* The theorem.                                                            *)

LEMMA NodesInit == NumaInit => NodesInv
<1> SUFFICES ASSUME NumaInit PROVE NodesInv
  OBVIOUS
<1>1. 1 \in Room(config)
  BY FirstHasRoom DEF NumaInit
<1>2. pool = Placed(<<1>>) /\ pc = <<"idle">> /\ loaded = "first" /\ replicas = PrepareFrom("first", config)
  BY DEF NumaInit
<1>3. DOMAIN pool = {1} /\ pool[1].node = 1
  BY <1>2 DEF Placed
<1>4. DOMAIN pc = {1} /\ pc[1] = "idle" /\ pc \in [{1} -> Steps]
  BY <1>2 DEF Steps
<1>5. /\ DOMAIN replicas = Room(config)
      /\ replicas = [n \in DOMAIN replicas |-> replicas[n]]
      /\ replicas[1] = Replica("first", 1)
      /\ \A n \in DOMAIN replicas : replicas[n] \in {None, Replica("first", n)}
  BY <1>1, <1>2, Prepared
<1>6. RoomForAll
  BY <1>1, <1>3, <1>5 DEF RoomForAll
<1>7. InstancesOnTheirWay
  BY <1>2, <1>5, ReplicasDiffer DEF InstancesOnTheirWay, Instances
<1>8. RestIsIdle /\ ReplicasAreCurrent
  BY <1>3, <1>4 DEF RestIsIdle, ReplicasAreCurrent
<1>9. QED
  BY <1>3, <1>4, <1>6, <1>7, <1>8 DEF NodesInv

LEMMA NodesStep == NodesInv /\ [NumaNext]_numaVars => NodesInv'
<1> SUFFICES ASSUME NodesInv, [NumaNext]_numaVars PROVE NodesInv'
  OBVIOUS
<1>1. ASSUME NEW option \in Policies, SetPolicy(option) PROVE NodesInv'
  BY <1>1, SetPolicyKeeps
<1>2. ASSUME NEW n \in ThreadCounts, SetThreads(n) PROVE NodesInv'
  BY <1>2, SetThreadsKeeps
<1>3. CASE LoadNetwork
  BY <1>3, LoadNetworkKeeps
<1>4. CASE SaveNetwork
  BY <1>4, SaveNetworkKeeps
<1>5. CASE NewGame
  BY <1>5, AllBeginKeeps DEF NewGame, Command
<1>6. CASE Go
  BY <1>6, AllBeginKeeps DEF Go, Command
<1>7. ASSUME NEW t \in DOMAIN pc, CheckPresent(t) PROVE NodesInv'
  BY <1>7, CheckPresentKeeps
<1>8. ASSUME NEW t \in DOMAIN pc, Lock(t) PROVE NodesInv'
  BY <1>8, LockKeeps
<1>9. ASSUME NEW t \in DOMAIN pc, Make(t) PROVE NodesInv'
  BY <1>9, MakeKeeps
<1>10. ASSUME NEW t \in DOMAIN pc, Done(t) PROVE NodesInv'
  BY <1>10, DoneKeeps
<1>11. CASE Stopped \/ UNCHANGED numaVars
  BY <1>11 DEF Stopped, numaVars, NodesInv, RoomForAll, InstancesOnTheirWay, Instances, RestIsIdle,
               ReplicasAreCurrent, Instance, Room, RequiresReplication
<1>12. QED
  BY <1>1, <1>2, <1>3, <1>4, <1>5, <1>6, <1>7, <1>8, <1>9, <1>10, <1>11 DEF NumaNext

\* Whatever the machine, the policy and the number of threads: a thread that is
\* not torn reads the replica of its node and of the networks loaded last.
THEOREM ReplicasStayCurrent == NumaSpec => []ReplicasAreCurrent
<1>1. NodesInv => ReplicasAreCurrent
  BY DEF NodesInv
<1>2. QED
  BY <1>1, NodesInit, NodesStep, PTL DEF NumaSpec

\* Every nonempty set of naturals has a least element.
LEMMA Least ==
    ASSUME NEW S, S \subseteq Nat, S # {}
    PROVE  \E x \in S : \A y \in S : x <= y
<1>1. \E x \in S : \A y \in S : ~(<<y, x>> \in OpToRel(<, Nat))
  BY NatLessThanWellFounded, WFMin, Zenon
<1>2. \E x \in S : \A y \in S : ~(y < x)
  BY <1>1, Zenon DEF OpToRel
<1> QED
  BY <1>2

-----------------------------------------------------------------------------
(* Folds.  A left fold over a sequence is what its step function makes of  *)
(* the set of places 1 .. size, and induction over a set says what holds of   *)
(* it after each place.                                                    *)

\* Induction over the naturals, for a set.
LEMMA NatSet == ASSUME NEW S, 0 \in S, \A n \in Nat : n \in S => n + 1 \in S PROVE Nat \subseteq S
<1> SUFFICES ASSUME NEW k \in Nat, k \notin S PROVE FALSE
  OBVIOUS
<1>1. PICK x \in Nat \ S : \A y \in Nat \ S : ~(<<y, x>> \in OpToRel(<, Nat))
  BY NatLessThanWellFounded, WFMin, Zenon
<1>2. \A y \in Nat \ S : ~(y < x)
  BY <1>1, Zenon DEF OpToRel
<1>3. x - 1 \in Nat /\ x - 1 \in S
  BY <1>2
<1> QED
  BY <1>3

\* The largest element of a nonempty set of numbers up to a bound.
LEMMA MaxOf == ASSUME NEW n \in Nat, NEW s \in SUBSET (1 .. n), s # {}
               PROVE  Max(s) \in s /\ \A y \in s : y <= Max(s)
<1> DEFINE S == {k \in Nat : \A r \in SUBSET (1 .. k) : r # {} => \E x \in r : \A y \in r : x >= y}
<1>1. 0 \in S
  <2>1. SUBSET (1 .. 0) = {{}}
    OBVIOUS
  <2> QED
    BY <2>1
<1>2. ASSUME NEW k \in Nat, k \in S PROVE k + 1 \in S
  <2> SUFFICES ASSUME NEW r \in SUBSET (1 .. k + 1), r # {} PROVE \E x \in r : \A y \in r : x >= y
    OBVIOUS
  <2>1. CASE k + 1 \in r
    BY <2>1
  <2>2. CASE k + 1 \notin r
    <3>1. r \in SUBSET (1 .. k)
      BY <2>2
    <3> QED
      BY <1>2, <3>1
  <2> QED
    BY <2>1, <2>2
<1>3. n \in S
  <2> HIDE DEF S
  <2> QED
    BY <1>1, <1>2, NatSet
<1> QED
  BY <1>3 DEF Max

\* A left fold: what it is on each set of places.
FoldOn(w, D, base, size, step) ==
    /\ w \in [SUBSET (1 .. size) -> D]
    /\ \A s \in SUBSET (1 .. size) :
          w[s] = IF s = {} THEN base ELSE step[<<w[s \ {Max(s)}], Max(s)>>]

LEMMA FoldExists ==
    ASSUME NEW D, NEW base \in D, NEW size \in Nat, NEW step \in [D \X (1 .. size) -> D]
    PROVE  \E w : FoldOn(w, D, base, size, step)
<1> DEFINE Satisfies(w, n) == \A s \in SUBSET (1 .. n) :
              w[s] = IF s = {} THEN base ELSE step[<<w[s \ {Max(s)}], Max(s)>>]
           Folds(n) == n <= size => \E w \in [SUBSET (1 .. n) -> D] : Satisfies(w, n)
<1>1. Folds(0)
  <2>1. SUBSET (1 .. 0) = {{}}
    OBVIOUS
  <2> DEFINE w == [s \in {{}} |-> base]
  <2>2. w \in [SUBSET (1 .. 0) -> D] /\ Satisfies(w, 0)
    BY <2>1
  <2> HIDE DEF w, Satisfies
  <2> QED
    BY <2>2
<1>2. ASSUME NEW n \in Nat, Folds(n) PROVE Folds(n + 1)
  <2>0. SUFFICES ASSUME n + 1 <= size PROVE \E w \in [SUBSET (1 .. n + 1) -> D] : Satisfies(w, n + 1)
    <3> HIDE DEF Satisfies
    <3> QED
      OBVIOUS
  <2>1. PICK w \in [SUBSET (1 .. n) -> D] : Satisfies(w, n)
    <3>1. n <= size
      BY <2>0
    <3> HIDE DEF Satisfies
    <3> QED
      BY <1>2, <3>1, Zenon
  <2> DEFINE v == [s \in SUBSET (1 .. (n + 1)) |->
                     IF n + 1 \in s THEN step[<<w[s \ {n + 1}], n + 1>>] ELSE w[s]]
  <2>2. \A s \in SUBSET (1 .. (n + 1)) : /\ s \ {n + 1} \in SUBSET (1 .. n)
                                         /\ n + 1 \notin s => s \in SUBSET (1 .. n)
    OBVIOUS
  <2>3. v \in [SUBSET (1 .. (n + 1)) -> D]
    <3>1. ASSUME NEW s \in SUBSET (1 .. (n + 1)) PROVE v[s] \in D
      <4>1. CASE n + 1 \in s
        <5>1. w[s \ {n + 1}] \in D /\ n + 1 \in 1 .. size
          BY <2>0, <2>2
        <5>2. step[<<w[s \ {n + 1}], n + 1>>] \in D
          BY <5>1
        <5> QED
          BY <4>1, <5>2
      <4>2. CASE n + 1 \notin s
        BY <2>2, <4>2
      <4> QED
        BY <4>1, <4>2
    <3> QED
      BY <3>1
  <2>4. ASSUME NEW s \in SUBSET (1 .. (n + 1))
        PROVE  v[s] = IF s = {} THEN base ELSE step[<<v[s \ {Max(s)}], Max(s)>>]
    <3>1. CASE s = {}
      BY <2>1, <3>1
    <3>0. n + 1 \in Nat
      OBVIOUS
    <3>4. s # {} => Max(s) \in s /\ \A y \in s : y <= Max(s)
      BY <3>0, MaxOf
    <3>2. CASE s # {} /\ n + 1 \in s
      <4>1. Max(s) = n + 1
        <5>1. Max(s) \in 1 .. (n + 1) /\ n + 1 <= Max(s)
          BY <3>2, <3>4
        <5> QED
          BY <5>1
      <4>2. v[s \ {n + 1}] = w[s \ {n + 1}]
        BY <2>2
      <4> QED
        BY <3>2, <4>1, <4>2
    <3>3. CASE s # {} /\ n + 1 \notin s
      <4>1. s \in SUBSET (1 .. n) /\ Max(s) \in s
        BY <2>2, <3>3, <3>4
      <4>2. s \ {Max(s)} \in SUBSET (1 .. n) /\ n + 1 \notin s \ {Max(s)}
        BY <3>3, <4>1
      <4>3. v[s] = w[s] /\ v[s \ {Max(s)}] = w[s \ {Max(s)}]
        BY <3>3, <4>2
      <4>4. w[s] = step[<<w[s \ {Max(s)}], Max(s)>>]
        BY <2>1, <3>3, <4>1
      <4> QED
        BY <3>3, <4>3, <4>4
    <3> QED
      BY <3>1, <3>2, <3>3
  <2> QED
    BY <2>3, <2>4
<1> HIDE DEF Folds
<1>3. \A n \in Nat : Folds(n)
  <2> DEFINE S == {n \in Nat : Folds(n)}
  <2>1. 0 \in S /\ \A n \in Nat : n \in S => n + 1 \in S
    BY <1>1, <1>2
  <2> HIDE DEF S
  <2>2. Nat \subseteq S
    BY <2>1, NatSet
  <2> QED
    BY <2>2 DEF S
<1>4. size <= size
  OBVIOUS
<1> QED
  BY <1>3, <1>4, Zenon DEF Folds, FoldOn

\* Induction up to a bound.
LEMMA UpTo ==
    ASSUME NEW size \in Nat, NEW S, 0 \in S, \A k \in 1 .. size : k - 1 \in S => k \in S
    PROVE  0 .. size \subseteq S
<1> DEFINE T == {n \in Nat : n <= size => n \in S}
<1>1. 0 \in T
  OBVIOUS
<1>2. ASSUME NEW n \in Nat, n \in T PROVE n + 1 \in T
  <2>1. CASE n + 1 <= size
    <3>1. n + 1 \in 1 .. size /\ (n + 1) - 1 = n /\ n \in S
      BY <1>2, <2>1
    <3> QED
      BY <3>1
  <2> QED
    BY <2>1
<1> HIDE DEF T
<1>3. Nat \subseteq T
  BY <1>1, <1>2, NatSet
<1> QED
  BY <1>3 DEF T


\* The places up to one of them: the last is the largest.
LEMMA Places ==
    ASSUME NEW size \in Nat, NEW k \in 1 .. size
    PROVE  /\ 1 .. k \in SUBSET (1 .. size) /\ 1 .. k # {}
           /\ Max(1 .. k) = k /\ (1 .. k) \ {Max(1 .. k)} = 1 .. (k - 1)
<1>1. k \in Nat /\ k \in 1 .. k /\ 1 .. k \subseteq 1 .. size
  OBVIOUS
<1>2. 1 .. k # {} /\ 1 .. k \in SUBSET (1 .. k)
  BY <1>1, Zenon
<1>3. Max(1 .. k) \in 1 .. k /\ k <= Max(1 .. k)
  BY <1>1, <1>2, MaxOf, Zenon
<1>4. Max(1 .. k) = k
  BY <1>3
<1>5. (1 .. k) \ {k} = 1 .. (k - 1)
  OBVIOUS
<1> QED
  BY <1>1, <1>2, <1>4, <1>5

-----------------------------------------------------------------------------
(* Powers of two.                                                          *)

\* The power of two the histories of a node are sized by has room for all of
\* its threads.
LEMMA PowerIsEnough ==
    ASSUME NEW n \in Nat
    PROVE  NextPowerOfTwo(n) \in Nat /\ NextPowerOfTwo(n) >= n /\ NextPowerOfTwo(n) >= 1
<1> DEFINE Doubled(p) == IF p >= n THEN p ELSE 2 * p
           Iter(w) == w = [s \in SUBSET (1 .. n) |->
                             IF s = {} THEN 1 ELSE Doubled(w[s \ {Max(s)}])]
           step == [p \in Nat \X (1 .. n) |-> Doubled(p[1])]
           iter == CHOOSE w : Iter(w)
<1>1. step \in [Nat \X (1 .. n) -> Nat]
  OBVIOUS
<1>2. PICK w : FoldOn(w, Nat, 1, n, step)
  <2> HIDE DEF step
  <2> QED
    BY <1>1, FoldExists, Zenon
<1>3. ASSUME NEW s \in SUBSET (1 .. n), s # {}
      PROVE  step[<<w[s \ {Max(s)}], Max(s)>>] = Doubled(w[s \ {Max(s)}])
  BY <1>2, <1>3, MaxOf DEF FoldOn
<1>4. Iter(w)
  <2> HIDE DEF step
  <2> QED
    BY <1>2, <1>3 DEF FoldOn
<1>5. Iter(iter)
  BY <1>4
<1> HIDE DEF iter
<1>6. NextPowerOfTwo(n) = iter[1 .. n]
  BY DEF NextPowerOfTwo, FoldLeft, MapThenFoldSet, iter
<1>7. iter[1 .. 0] = 1
  BY <1>5
<1>8. ASSUME NEW k \in 1 .. n PROVE iter[1 .. k] = Doubled(iter[1 .. (k - 1)])
  <2>1. 1 .. k \in SUBSET (1 .. n) /\ 1 .. k # {} /\ (1 .. k) \ {Max(1 .. k)} = 1 .. (k - 1)
    BY Places
  <2> HIDE DEF Doubled
  <2> QED
    BY <1>5, <2>1
<1> DEFINE S == {k \in 0 .. n : iter[1 .. k] \in Nat /\ iter[1 .. k] >= 1
                                /\ (iter[1 .. k] >= n \/ iter[1 .. k] > k)}
<1>9. 0 \in S
  BY <1>7
<1>10. ASSUME NEW k \in 1 .. n, k - 1 \in S PROVE k \in S
  BY <1>8, <1>10
<1>11. 0 .. n \subseteq S
  <2> HIDE DEF S
  <2> QED
    BY <1>9, <1>10, UpTo
<1> QED
  BY <1>6, <1>11

-----------------------------------------------------------------------------
(* The histories of a node.                                                *)

LEMMA DivOrder ==
    ASSUME NEW x \in Nat, NEW y \in Nat, NEW d \in Nat \ {0}
    PROVE  /\ x \div d \in Nat
           /\ x <= y => x \div d <= y \div d
           /\ (x + d) \div d = x \div d + 1
OBVIOUS

\* The part of the histories the k-th of total threads fills.
PartOf(k, total, size) ==
    {e \in 0 .. (size - 1) : /\ e >= (k * size) \div total
                             /\ k + 1 # total => e < ((k + 1) * size) \div total}

\* Each part has an entry, as long as there is one for each thread.
LEMMA PartHasEntry ==
    ASSUME NEW size \in Nat, NEW total \in Nat \ {0}, size >= total, NEW k \in 0 .. (total - 1)
    PROVE  (k * size) \div total \in PartOf(k, total, size)
<1>1. k * size \in Nat /\ (k + 1) * size \in Nat /\ (k + 1) * size >= k * size + total
  OBVIOUS
<1>2. (k * size) \div total + 1 <= ((k + 1) * size) \div total
  <2> DEFINE x == k * size
             y == (k + 1) * size
  <2>1. x \in Nat /\ y \in Nat /\ x + total <= y /\ x + total \in Nat
    BY <1>1
  <2> HIDE DEF x, y
  <2>2. (x + total) \div total = x \div total + 1 /\ (x + total) \div total <= y \div total
    BY <2>1, DivOrder
  <2> QED
    BY <2>2 DEF x, y
<1>3. ((k + 1) * size) \div total <= size
  <2>1. (k + 1) * size <= total * size /\ total * size \in Nat
    OBVIOUS
  <2>2. (total * size) \div total = size
    OBVIOUS
  <2> QED
    BY <1>1, <2>1, <2>2, DivOrder
<1>4. (k * size) \div total \in Nat /\ ((k + 1) * size) \div total \in Nat
  BY <1>1, DivOrder
<1> QED
  BY <1>2, <1>3, <1>4 DEF PartOf

\* Parts do not overlap.
LEMMA PartsApart ==
    ASSUME NEW size \in Nat, NEW total \in Nat \ {0}, NEW k \in Nat, NEW l \in 0 .. (total - 1), k < l
    PROVE  PartOf(k, total, size) \cap PartOf(l, total, size) = {}
<1>1. k + 1 # total /\ (k + 1) * size <= l * size /\ (k + 1) * size \in Nat /\ l * size \in Nat
  OBVIOUS
<1>2. ((k + 1) * size) \div total <= (l * size) \div total
  BY <1>1, DivOrder
<1>3. ((k + 1) * size) \div total \in Nat /\ (l * size) \div total \in Nat
  BY <1>1, DivOrder
<1> QED
  BY <1>1, <1>2, <1>3 DEF PartOf

-----------------------------------------------------------------------------
(* The place of a thread among those of its node.                          *)

Before(ns, n, t) == {u \in 1 .. (t - 1) : ns[u] = n}
OnNode(ns, n) == {t \in DOMAIN ns : ns[t] = n}
PlaceOf(ns, t) == Cardinality(Before(ns, ns[t], t))

LEMMA PlacesOnNode ==
    ASSUME NEW threads \in Nat, NEW ns, DOMAIN ns = 1 .. threads, NEW n
    PROVE  /\ IsFiniteSet(OnNode(ns, n)) /\ Occupation(ns, n) = Cardinality(OnNode(ns, n))
           /\ Occupation(ns, n) \in Nat
           /\ \A t \in OnNode(ns, n) : PlaceOf(ns, t) \in 0 .. (Occupation(ns, n) - 1)
           /\ \A t, u \in OnNode(ns, n) : t < u => PlaceOf(ns, t) < PlaceOf(ns, u)
<1>1. IsFiniteSet(1 .. threads)
  BY FS_Interval
<1>2. /\ IsFiniteSet(OnNode(ns, n)) /\ Cardinality(OnNode(ns, n)) \in Nat
  BY <1>1, FS_Subset, FS_CardinalityType DEF OnNode
<1>3. Occupation(ns, n) = Cardinality(OnNode(ns, n))
  BY DEF Occupation, OnNode
<1>4. ASSUME NEW t \in OnNode(ns, n)
      PROVE  /\ t \in 1 .. threads /\ ns[t] = n /\ Before(ns, n, t) \in SUBSET OnNode(ns, n)
             /\ t \notin Before(ns, n, t) /\ IsFiniteSet(Before(ns, n, t))
             /\ PlaceOf(ns, t) \in Nat /\ PlaceOf(ns, t) = Cardinality(Before(ns, n, t))
  <2>1. t \in 1 .. threads /\ ns[t] = n /\ Before(ns, n, t) \in SUBSET OnNode(ns, n)
        /\ t \notin Before(ns, n, t)
    BY <1>4 DEF OnNode, Before
  <2>2. IsFiniteSet(Before(ns, n, t)) /\ Cardinality(Before(ns, n, t)) \in Nat
    BY <1>2, <2>1, FS_Subset, FS_CardinalityType
  <2> QED
    BY <2>1, <2>2 DEF PlaceOf
<1>5. ASSUME NEW t \in OnNode(ns, n), NEW s, IsFiniteSet(s), Before(ns, n, t) \cup {t} \subseteq s
      PROVE  PlaceOf(ns, t) < Cardinality(s)
  <2>1. IsFiniteSet(Before(ns, n, t) \cup {t})
        /\ Cardinality(Before(ns, n, t) \cup {t}) = PlaceOf(ns, t) + 1
    <3>1. /\ IsFiniteSet(Before(ns, n, t)) /\ PlaceOf(ns, t) = Cardinality(Before(ns, n, t))
          /\ t \notin Before(ns, n, t)
      BY <1>4
    <3> QED
      BY <3>1, FS_AddElement
  <2>2. Cardinality(Before(ns, n, t) \cup {t}) <= Cardinality(s) /\ Cardinality(s) \in Nat
    BY <1>5, FS_Subset, FS_CardinalityType
  <2> QED
    BY <1>4, <2>1, <2>2
<1>6. ASSUME NEW t \in OnNode(ns, n) PROVE PlaceOf(ns, t) \in 0 .. (Occupation(ns, n) - 1)
  <2>1. Before(ns, n, t) \cup {t} \subseteq OnNode(ns, n)
    BY <1>4
  <2> QED
    BY <1>2, <1>3, <1>4, <1>5, <2>1
<1>7. ASSUME NEW t \in OnNode(ns, n), NEW u \in OnNode(ns, n), t < u
      PROVE  PlaceOf(ns, t) < PlaceOf(ns, u)
  <2>1. t \in 1 .. threads /\ u \in 1 .. threads /\ ns[t] = n
    BY <1>4
  <2>2. Before(ns, n, t) \cup {t} \subseteq Before(ns, n, u)
    BY <1>7, <2>1 DEF Before
  <2> QED
    BY <1>4, <1>5, <2>2
<1> QED
  BY <1>2, <1>3, <1>6, <1>7

\* The first thread of a node has place 0, and each has the place after the one
\* before it; after the last there are no more.
LEMMA NextPlace ==
    ASSUME NEW threads \in Nat, NEW ns, DOMAIN ns = 1 .. threads, NEW n, NEW t \in OnNode(ns, n)
    PROVE  /\ (\A u \in OnNode(ns, n) : t <= u) => PlaceOf(ns, t) = 0
           /\ (\A u \in OnNode(ns, n) : u <= t) => PlaceOf(ns, t) + 1 = Occupation(ns, n)
           /\ \A v \in OnNode(ns, n) :
                  t < v /\ (\A u \in OnNode(ns, n) : t < u => v <= u) => PlaceOf(ns, v) = PlaceOf(ns, t) + 1
<1>1. t \in 1 .. threads /\ ns[t] = n /\ \A u \in OnNode(ns, n) : u \in 1 .. threads /\ ns[u] = n
  BY DEF OnNode
<1>2. t \notin Before(ns, n, t) /\ Before(ns, n, t) \subseteq OnNode(ns, n)
  BY <1>1 DEF Before, OnNode
<1>3. IsFiniteSet(Before(ns, n, t)) /\ PlaceOf(ns, t) = Cardinality(Before(ns, n, t))
  BY <1>1, <1>2, PlacesOnNode, FS_Subset DEF PlaceOf
<1>4. Cardinality(Before(ns, n, t) \cup {t}) = PlaceOf(ns, t) + 1
  BY <1>2, <1>3, FS_AddElement
<1>5. ASSUME \A u \in OnNode(ns, n) : t <= u PROVE PlaceOf(ns, t) = 0
  <2>1. Before(ns, n, t) = {}
    BY <1>1, <1>2, <1>5 DEF Before
  <2> QED
    BY <1>3, <2>1, FS_EmptySet
<1>6. ASSUME \A u \in OnNode(ns, n) : u <= t PROVE PlaceOf(ns, t) + 1 = Occupation(ns, n)
  <2>1. ASSUME NEW u \in OnNode(ns, n) PROVE u \in Before(ns, n, t) \cup {t}
    <3>1. u \in 1 .. threads /\ ns[u] = n /\ u <= t
      BY <1>1, <1>6, <2>1
    <3> QED
      BY <1>1, <3>1 DEF Before
  <2>2. Before(ns, n, t) \cup {t} = OnNode(ns, n)
    BY <1>2, <2>1
  <2> QED
    BY <1>4, <2>2, PlacesOnNode
<1>7. ASSUME NEW v \in OnNode(ns, n), t < v, \A u \in OnNode(ns, n) : t < u => v <= u
      PROVE  PlaceOf(ns, v) = PlaceOf(ns, t) + 1
  <2>1. ASSUME NEW u \in Before(ns, n, v) PROVE u \in Before(ns, n, t) \cup {t}
    <3>1. u \in OnNode(ns, n) /\ u \in 1 .. (v - 1) /\ v \in 1 .. threads /\ ns[u] = n
      BY <1>1, <2>1 DEF Before, OnNode
    <3>2. u <= t
      BY <1>1, <1>7, <3>1
    <3> QED
      BY <1>1, <3>1, <3>2 DEF Before
  <2>2. Before(ns, n, t) \cup {t} \subseteq Before(ns, n, v)
    BY <1>1, <1>7 DEF Before
  <2>3. Before(ns, n, v) = Before(ns, n, t) \cup {t}
    BY <2>1, <2>2
  <2> QED
    BY <1>1, <1>4, <2>3 DEF PlaceOf
<1> QED
  BY <1>5, <1>6, <1>7

\* Together the threads of a node fill all of the histories.
LEMMA PartsCover ==
    ASSUME NEW threads \in Nat, NEW ns, DOMAIN ns = 1 .. threads, NEW n \in Range(ns),
           NEW size \in Nat, NEW e \in 0 .. (size - 1)
    PROVE  \E t \in OnNode(ns, n) : e \in PartOf(PlaceOf(ns, t), Occupation(ns, n), size)
<1> DEFINE on == OnNode(ns, n)
           total == Occupation(ns, n)
           begun == {t \in on : (PlaceOf(ns, t) * size) \div total <= e}
<1>1. on \in SUBSET (1 .. threads) /\ on # {} /\ on \subseteq Nat
  BY DEF OnNode, Range
<1>2. total \in Nat \ {0} /\ \A t \in on : PlaceOf(ns, t) \in 0 .. (total - 1)
  BY <1>1, PlacesOnNode
<1> HIDE DEF on, total
<1>3. begun # {}
  <2>1. PICK t \in on : \A u \in on : t <= u
    BY <1>1, Least
  <2>2. PlaceOf(ns, t) = 0
    BY <2>1, NextPlace DEF on
  <2>3. (0 * size) \div total = 0
    BY <1>2
  <2> QED
    BY <2>1, <2>2, <2>3
<1>4. PICK t \in begun : \A u \in begun : u <= t
  <2>1. begun \in SUBSET (1 .. threads)
    BY <1>1
  <2> HIDE DEF begun
  <2> QED
    BY <1>3, <2>1, MaxOf
<1>5. t \in on /\ (PlaceOf(ns, t) * size) \div total <= e /\ PlaceOf(ns, t) \in 0 .. (total - 1)
  BY <1>2, <1>4
<1>6. CASE \A u \in on : u <= t
  <2>1. PlaceOf(ns, t) + 1 = total
    BY <1>5, <1>6, NextPlace DEF on, total
  <2> QED
    BY <1>5, <2>1 DEF PartOf, on, total
<1>7. CASE \E u \in on : ~(u <= t)
  <2>1. PICK v \in on : t < v /\ \A u \in on : t < u => v <= u
    <3> DEFINE later == {u \in on : t < u}
    <3>0. PICK x \in on : ~(x <= t)
      BY <1>7
    <3>1. later \subseteq Nat /\ later # {}
      <4>1. x \in Nat /\ t \in Nat
        BY <1>1, <1>5
      <4>2. t < x
        BY <3>0, <4>1
      <4> QED
        BY <1>1, <4>2
    <3> HIDE DEF later
    <3>2. PICK v \in later : \A u \in later : v <= u
      BY <3>1, Least
    <3> QED
      BY <3>2 DEF later
  <2>2. PlaceOf(ns, v) = PlaceOf(ns, t) + 1
    BY <1>5, <2>1, NextPlace DEF on
  <2>3. v \notin begun
    BY <1>1, <1>4, <1>5, <2>1
  <2>4. ~(((PlaceOf(ns, t) + 1) * size) \div total <= e)
    BY <2>1, <2>2, <2>3
  <2>5. ((PlaceOf(ns, t) + 1) * size) \div total \in Int
    BY <1>2, <1>5
  <2> QED
    BY <1>5, <2>4, <2>5 DEF PartOf, on, total
<1> QED
  BY <1>6, <1>7

\* Whatever threads are on which nodes.
LEMMA HistoriesFilled ==
    ASSUME NEW threads \in Nat, NEW ns, DOMAIN ns = 1 .. threads,
           pool = Placed(ns), sharedHists = Histories(ns), RoomForAll
    PROVE  HistoriesArePartitioned
<1>1. /\ DOMAIN pool = 1 .. threads
      /\ \A t \in 1 .. threads :
            pool[t] = [node |-> ns[t], idx |-> PlaceOf(ns, t), total |-> Occupation(ns, ns[t])]
  BY DEF Placed, PlaceOf, Before
<1> SUFFICES ASSUME NEW n \in {th.node : th \in Range(pool)}
             PROVE  LET on == {t \in DOMAIN pool : pool[t].node = n}
                    IN  /\ n \in DOMAIN sharedHists /\ n \in DOMAIN replicas
                        /\ UNION {ClearRange(pool[t]) : t \in on} = 0 .. (sharedHists[n] - 1)
                        /\ \A t, u \in on : ClearRange(pool[t]) # {}
                                            /\ (t # u => ClearRange(pool[t]) \cap ClearRange(pool[u]) = {})
  BY DEF HistoriesArePartitioned
<1> DEFINE on == {t \in DOMAIN pool : pool[t].node = n}
           total == Occupation(ns, n)
           size == sharedHists[n]
<1>2. on = OnNode(ns, n) /\ on \subseteq 1 .. threads
  BY <1>1 DEF OnNode
<1>3. n \in Range(ns)
  BY <1>1 DEF Range
<1>4. n \in DOMAIN sharedHists /\ size = HistoryBase * NextPowerOfTwo(total)
  BY <1>3 DEF Histories
<1>5. n \in DOMAIN replicas
  BY <1>1 DEF RoomForAll, Range
<1>6. total \in Nat
  BY PlacesOnNode
<1>6a. on # {}
  BY <1>2, <1>3 DEF OnNode, Range
<1>6b. total # 0
  BY <1>2, <1>6, <1>6a, PlacesOnNode
<1>7. size \in Nat /\ size >= total
  <2> DEFINE p == NextPowerOfTwo(total)
  <2>1. p \in Nat /\ p >= total /\ HistoryBase \in Nat \ {0}
    BY <1>6, PowerIsEnough, NumaAssumption
  <2> HIDE DEF p, total
  <2>2. HistoryBase * p \in Nat /\ HistoryBase * p >= p
    BY <2>1
  <2> QED
    BY <1>4, <1>6, <2>1, <2>2 DEF p
<1>8. ASSUME NEW t \in on
      PROVE  /\ ClearRange(pool[t]) = PartOf(PlaceOf(ns, t), total, size)
             /\ PlaceOf(ns, t) \in 0 .. (total - 1)
  <2>1. t \in OnNode(ns, n) /\ ns[t] = n
    BY <1>2, <1>8 DEF OnNode
  <2>2. pool[t] = [node |-> n, idx |-> PlaceOf(ns, t), total |-> total]
    BY <1>1, <1>2, <1>8, <2>1
  <2> QED
    BY <2>1, <2>2, PlacesOnNode DEF ClearRange, PartOf
<1> HIDE DEF total, size
<1>9. ASSUME NEW t \in on PROVE ClearRange(pool[t]) # {}
  <2>1. PlaceOf(ns, t) \in 0 .. (total - 1) /\ total \in Nat \ {0}
    BY <1>6, <1>6b, <1>8, <1>9
  <2>2. (PlaceOf(ns, t) * size) \div total \in PartOf(PlaceOf(ns, t), total, size)
    BY <1>7, <2>1, PartHasEntry
  <2>3. ClearRange(pool[t]) = PartOf(PlaceOf(ns, t), total, size)
    BY <1>8, <1>9
  <2> QED
    BY <2>2, <2>3
<1>10. ASSUME NEW t \in on, NEW u \in on, t < u PROVE ClearRange(pool[t]) \cap ClearRange(pool[u]) = {}
  <2>1. PlaceOf(ns, t) < PlaceOf(ns, u)
    BY <1>2, <1>10, PlacesOnNode
  <2>2. PlaceOf(ns, t) \in Nat /\ PlaceOf(ns, u) \in 0 .. (total - 1)
    BY <1>8
  <2>3. PartOf(PlaceOf(ns, t), total, size) \cap PartOf(PlaceOf(ns, u), total, size) = {}
    BY <1>6, <1>6b, <1>7, <2>1, <2>2, PartsApart
  <2> QED
    BY <1>8, <2>3
<1>11. ASSUME NEW t \in on, NEW u \in on, t # u PROVE ClearRange(pool[t]) \cap ClearRange(pool[u]) = {}
  <2>1. t < u \/ u < t
    BY <1>2, <1>11
  <2>2. CASE t < u
    BY <1>10, <2>2
  <2>3. CASE u < t
    <3>1. ClearRange(pool[u]) \cap ClearRange(pool[t]) = {}
      BY <1>10, <2>3
    <3> QED
      BY <3>1
  <2> QED
    BY <2>1, <2>2, <2>3
<1>12. UNION {ClearRange(pool[t]) : t \in on} = 0 .. (size - 1)
  <2>1. \A t \in on : ClearRange(pool[t]) \subseteq 0 .. (size - 1)
    BY <1>8 DEF PartOf
  <2>2. ASSUME NEW e \in 0 .. (size - 1) PROVE \E t \in on : e \in ClearRange(pool[t])
    <3>1. \E t \in OnNode(ns, n) : e \in PartOf(PlaceOf(ns, t), total, size)
      BY <1>3, <1>7, PartsCover DEF total
    <3> QED
      BY <1>2, <1>8, <3>1
  <2> QED
    BY <2>1, <2>2
<1> QED
  BY <1>4, <1>5, <1>9, <1>11, <1>12 DEF size

-----------------------------------------------------------------------------
(* The spread of the threads.                                              *)

\* Fractions compare transitively.
LEMMA Fractions ==
    ASSUME NEW a \in Nat, NEW b \in Nat \ {0}, NEW c \in Nat, NEW d \in Nat \ {0}, NEW e \in Nat, NEW f \in Nat \ {0},
           a * d <= c * b, c * f <= e * d
    PROVE  a * f <= e * b
<1>1. (a * d) * f <= (c * b) * f /\ (c * f) * b <= (e * d) * b
  <2> DEFINE x == a * d
             y == c * b
             z == c * f
             v == e * d
  <2>1. x \in Nat /\ y \in Nat /\ x <= y /\ z \in Nat /\ v \in Nat /\ z <= v
    OBVIOUS
  <2> HIDE DEF x, y, z, v
  <2>2. x * f <= y * f /\ z * b <= v * b
    BY <2>1
  <2> QED
    BY <2>2 DEF x, y, z, v
<1>2. /\ (a * d) * f = (a * f) * d /\ (c * b) * f = (c * f) * b /\ (e * d) * b = (e * b) * d
  OBVIOUS
<1>3. (a * f) * d <= (e * b) * d
  <2>1. (a * d) * f \in Nat /\ (c * b) * f \in Nat /\ (e * d) * b \in Nat
    OBVIOUS
  <2> QED
    BY <1>1, <1>2, <2>1
<1> DEFINE x == a * f
           y == e * b
<1>4. x \in Nat /\ y \in Nat /\ x * d <= y * d
  BY <1>3
<1> HIDE DEF x, y
<1>5. x <= y
  <2> SUFFICES ASSUME x >= y + 1 PROVE FALSE
    BY <1>4
  <2>1. x * d >= (y + 1) * d
    BY <1>4
  <2>2. (y + 1) * d = y * d + d
    BY <1>4
  <2> QED
    BY <1>4, <2>1, <2>2
<1> QED
  BY <1>5 DEF x, y

\* Among some fractions one is least.
LEMMA LeastFraction ==
    ASSUME NEW len \in Nat \ {0}, NEW a \in [1 .. len -> Nat], NEW s \in [1 .. len -> Nat \ {0}]
    PROVE  \E b \in 1 .. len : \A k \in 1 .. len : a[b] * s[k] <= a[k] * s[b]
<1> DEFINE IsLeast(b, l) == \A k \in 1 .. l : a[b] * s[k] <= a[k] * s[b]
           T == {l \in Nat : l + 1 <= len => \E b \in 1 .. (l + 1) : IsLeast(b, l + 1)}
<1>1. 0 \in T
  <2>1. IsLeast(1, 1)
    <3>1. a[1] * s[1] <= a[1] * s[1]
      <4>1. a[1] \in Nat /\ s[1] \in Nat
        OBVIOUS
      <4> QED
        BY <4>1
    <3> QED
      BY <3>1
  <2> QED
    BY <2>1
<1>2. ASSUME NEW l \in Nat, l \in T PROVE l + 1 \in T
  <2> SUFFICES ASSUME l + 2 <= len PROVE \E b \in 1 .. (l + 2) : IsLeast(b, l + 2)
    OBVIOUS
  <2>1. PICK b \in 1 .. (l + 1) : IsLeast(b, l + 1)
    <3>1. l + 1 <= len
      OBVIOUS
    <3> HIDE DEF IsLeast
    <3> QED
      BY <1>2, <3>1
  <2> DEFINE n == l + 2
  <2>2. /\ n \in 1 .. len /\ b \in 1 .. len /\ a[n] \in Nat /\ s[n] \in Nat \ {0}
        /\ a[b] \in Nat /\ s[b] \in Nat \ {0} /\ 1 .. n = 1 .. (l + 1) \cup {n}
    OBVIOUS
  <2> HIDE DEF n
  <2>3. /\ a[b] * s[n] \in Nat /\ a[n] * s[b] \in Nat /\ a[b] * s[b] \in Nat /\ a[n] * s[n] \in Nat
    <3>1. \A x, y \in Nat : x * y \in Nat
      OBVIOUS
    <3>2. a[b] \in Nat /\ a[n] \in Nat /\ s[b] \in Nat /\ s[n] \in Nat
      BY <2>2
    <3> QED
      BY <3>1, <3>2, Zenon
  <2>4. CASE a[b] * s[n] <= a[n] * s[b]
    <3>1. a[b] * s[b] <= a[b] * s[b]
      BY <2>3
    <3>2. IsLeast(b, n)
      BY <2>1, <2>2, <2>4
    <3> QED
      BY <2>2, <3>2 DEF n
  <2>5. CASE a[n] * s[b] <= a[b] * s[n]
    <3>1. ASSUME NEW k \in 1 .. (l + 1) PROVE a[n] * s[k] <= a[k] * s[n]
      <4>1. a[b] * s[k] <= a[k] * s[b]
        BY <2>1
      <4>2. k \in 1 .. len /\ a[k] \in Nat /\ s[k] \in Nat \ {0}
        OBVIOUS
      <4> HIDE DEF IsLeast
      <4> QED
        BY <2>2, <2>5, <4>1, <4>2, Fractions
    <3>2. a[n] * s[n] <= a[n] * s[n]
      BY <2>3
    <3>3. IsLeast(n, n)
      BY <2>2, <3>1, <3>2
    <3> QED
      BY <2>2, <3>3 DEF n
  <2> QED
    BY <2>3, <2>4, <2>5
<1>3. len - 1 \in T
  <2> HIDE DEF T
  <2>1. Nat \subseteq T
    BY <1>1, <1>2, NatSet
  <2> QED
    BY <2>1
<1> QED
  BY <1>3

SizeOf(cfg, n) == Cardinality(cfg.nodes[n])
NodesHaveSizes(cfg) ==
    cfg.nodes \in Seq(SUBSET Nat) /\ \A n \in DOMAIN cfg.nodes : SizeOf(cfg, n) \in Nat \ {0}
Balanced(cfg, ns) ==
    \A n, k \in DOMAIN cfg.nodes :
        Occupation(ns, n) * SizeOf(cfg, k) <= (Occupation(ns, k) + 1) * SizeOf(cfg, n)

\* There is a node which no other is filled less than.
LEMMA BestNodeIsLeast ==
    ASSUME NEW cfg, NodesHaveSizes(cfg), cfg.nodes # <<>>,
           NEW threads \in Nat, NEW ns, DOMAIN ns = 1 .. threads
    PROVE  /\ BestNode(cfg, ns) \in DOMAIN cfg.nodes
           /\ \A k \in DOMAIN cfg.nodes : ~Fuller(cfg, ns, BestNode(cfg, ns), k)
<1> DEFINE len == Len(cfg.nodes)
           a == [n \in 1 .. len |-> Occupation(ns, n) + 1]
           s == [n \in 1 .. len |-> SizeOf(cfg, n)]
           least == {n \in DOMAIN cfg.nodes : \A k \in DOMAIN cfg.nodes : ~Fuller(cfg, ns, n, k)}
<1>1. len \in Nat \ {0} /\ DOMAIN cfg.nodes = 1 .. len
  BY DEF NodesHaveSizes
<1>2. a \in [1 .. len -> Nat] /\ s \in [1 .. len -> Nat \ {0}]
  BY <1>1, PlacesOnNode DEF NodesHaveSizes
<1>3. PICK b \in 1 .. len : \A k \in 1 .. len : a[b] * s[k] <= a[k] * s[b]
  <2> HIDE DEF a, s, len
  <2> QED
    BY <1>1, <1>2, LeastFraction
<1>4. b \in least
  <2>1. ASSUME NEW k \in 1 .. len PROVE ~Fuller(cfg, ns, b, k)
    <3>1. a[b] * s[k] <= a[k] * s[b] /\ a[b] * s[k] \in Nat /\ a[k] * s[b] \in Nat
      <4> HIDE DEF a, s, len
      <4>1. a[b] \in Nat /\ s[k] \in Nat /\ a[k] \in Nat /\ s[b] \in Nat
        BY <1>2, <2>1
      <4>2. a[b] * s[k] <= a[k] * s[b]
        BY <1>3, <2>1, Zenon
      <4>3. \A x, y \in Nat : x * y \in Nat
        OBVIOUS
      <4> QED
        BY <4>1, <4>2, <4>3, Zenon
    <3>2. /\ a[b] = Occupation(ns, b) + 1 /\ a[k] = Occupation(ns, k) + 1
          /\ s[b] = Cardinality(cfg.nodes[b]) /\ s[k] = Cardinality(cfg.nodes[k])
      BY <2>1 DEF SizeOf
    <3> HIDE DEF a, s
    <3>3. (Occupation(ns, b) + 1) * Cardinality(cfg.nodes[k]) = a[b] * s[k]
          /\ (Occupation(ns, k) + 1) * Cardinality(cfg.nodes[b]) = a[k] * s[b]
      BY <3>2
    <3> QED
      BY <3>1, <3>3 DEF Fuller
  <2> QED
    BY <1>1, <2>1
<1>5. least \in SUBSET Nat /\ least # {}
  BY <1>1, <1>4
<1>6. PICK m \in least : \A y \in least : m <= y
  <2> HIDE DEF least
  <2> QED
    BY <1>5, Least
<1>7. BestNode(cfg, ns) = Min(least)
  BY DEF BestNode
<1> HIDE DEF least
<1>8. Min(least) \in least
  BY <1>6 DEF Min
<1> QED
  BY <1>7, <1>8 DEF least

\* One more thread on the node that is filled least keeps the balance.
LEMMA BestNodeBalances ==
    ASSUME NEW cfg, NodesHaveSizes(cfg), NEW threads \in Nat, NEW ns \in Seq(Nat), Len(ns) = threads,
           NEW b \in DOMAIN cfg.nodes, \A k \in DOMAIN cfg.nodes : ~Fuller(cfg, ns, b, k), Balanced(cfg, ns)
    PROVE  Balanced(cfg, Append(ns, b))
<1> DEFINE more == Append(ns, b)
<1>1. /\ DOMAIN ns = 1 .. threads /\ DOMAIN more = 1 .. (threads + 1) /\ more[threads + 1] = b
      /\ \A t \in 1 .. threads : more[t] = ns[t]
  OBVIOUS
<1> HIDE DEF more
<1>2. ASSUME NEW n
      PROVE  Occupation(ns, n) \in Nat
             /\ Occupation(more, n) = IF n = b THEN Occupation(ns, n) + 1 ELSE Occupation(ns, n)
  <2>1. IsFiniteSet(OnNode(ns, n)) /\ Occupation(ns, n) = Cardinality(OnNode(ns, n)) /\ Occupation(ns, n) \in Nat
    BY <1>1, PlacesOnNode
  <2>2. Occupation(more, n) = Cardinality(OnNode(more, n))
    BY DEF Occupation, OnNode
  <2>3. CASE n = b
    <3>1. OnNode(more, n) = OnNode(ns, n) \cup {threads + 1} /\ threads + 1 \notin OnNode(ns, n)
      BY <1>1, <2>3 DEF OnNode
    <3>2. Cardinality(OnNode(ns, n) \cup {threads + 1}) = Cardinality(OnNode(ns, n)) + 1
      BY <2>1, <3>1, FS_AddElement
    <3> QED
      BY <2>1, <2>2, <2>3, <3>1, <3>2
  <2>4. CASE n # b
    <3>1. OnNode(more, n) = OnNode(ns, n)
      BY <1>1, <2>4 DEF OnNode
    <3> QED
      BY <2>1, <2>2, <2>4, <3>1
  <2> QED
    BY <2>1, <2>3, <2>4
<1>3. SUFFICES ASSUME NEW n \in DOMAIN cfg.nodes, NEW k \in DOMAIN cfg.nodes
               PROVE  Occupation(more, n) * SizeOf(cfg, k) <= (Occupation(more, k) + 1) * SizeOf(cfg, n)
  BY DEF Balanced, more
<1> DEFINE x == Occupation(ns, n)
           y == Occupation(ns, k)
           p == SizeOf(cfg, n)
           q == SizeOf(cfg, k)
<1>4. x \in Nat /\ y \in Nat /\ p \in Nat /\ q \in Nat /\ x * q <= (y + 1) * p
  BY <1>2 DEF Balanced, NodesHaveSizes
<1>5. CASE n = b /\ k = b
  <2>1. Occupation(more, n) = x + 1 /\ Occupation(more, k) = x + 1 /\ p = q
    BY <1>2, <1>5
  <2>2. (x + 1) * p <= ((x + 1) + 1) * p
    <3> HIDE DEF x, p
    <3> QED
      BY <1>4
  <2> QED
    BY <2>1, <2>2
<1>6. CASE n = b /\ k # b
  <2>1. Occupation(more, n) = x + 1 /\ Occupation(more, k) = y
    BY <1>2, <1>6
  <2>2. ~((x + 1) * q > (y + 1) * p)
    BY <1>6 DEF Fuller, SizeOf
  <2>3. (x + 1) * q \in Nat /\ (y + 1) * p \in Nat
    <3> HIDE DEF x, y, p, q
    <3> QED
      BY <1>4
  <2> QED
    BY <2>1, <2>2, <2>3
<1>7. CASE n # b
  <2>1. Occupation(more, n) = x /\ (Occupation(more, k) = y \/ Occupation(more, k) = y + 1)
    BY <1>2, <1>7
  <2>2. x * q <= (y + 1) * p /\ x * q <= ((y + 1) + 1) * p
    <3> HIDE DEF x, y, p, q
    <3>1. (y + 1) * p <= ((y + 1) + 1) * p /\ (y + 1) * p \in Nat /\ ((y + 1) + 1) * p \in Nat /\ x * q \in Nat
      BY <1>4
    <3> QED
      BY <1>4, <3>1
  <2> QED
    BY <2>1, <2>2
<1> QED
  BY <1>5, <1>6, <1>7

\* Every thread gets a node, and if no node is empty they are spread.
LEMMA ThreadsSpread ==
    ASSUME NEW cfg, cfg.nodes \in Seq(SUBSET Nat), NEW threads \in Nat
    PROVE  /\ DOMAIN Distribute(cfg, threads) = 1 .. threads
           /\ NodesHaveSizes(cfg) => Balanced(cfg, Distribute(cfg, threads))
<1>1. CASE Len(cfg.nodes) = 1
  <2> DEFINE ns == [t \in 1 .. threads |-> 1]
  <2>1. Distribute(cfg, threads) = ns
    BY <1>1 DEF Distribute
  <2>2. DOMAIN cfg.nodes = {1}
    BY <1>1
  <2>3. ASSUME NodesHaveSizes(cfg) PROVE Balanced(cfg, ns)
    <3>1. Occupation(ns, 1) \in Nat /\ SizeOf(cfg, 1) \in Nat
      BY <2>2, <2>3, PlacesOnNode DEF NodesHaveSizes
    <3>2. Occupation(ns, 1) * SizeOf(cfg, 1) <= (Occupation(ns, 1) + 1) * SizeOf(cfg, 1)
      BY <3>1
    <3> QED
      BY <2>2, <3>2 DEF Balanced
  <2> QED
    BY <2>1, <2>3
<1>2. CASE Len(cfg.nodes) # 1
  <2> DEFINE V == DOMAIN cfg.nodes \cup {Min({})}
             D == Seq(V)
             Iter(w) == w = [s \in SUBSET (1 .. threads) |->
                               IF s = {} THEN <<>>
                               ELSE Append(w[s \ {Max(s)}], BestNode(cfg, w[s \ {Max(s)}]))]
             step == [p \in D \X (1 .. threads) |-> Append(p[1], BestNode(cfg, p[1]))]
             iter == CHOOSE w : Iter(w)
  <2>1. ASSUME NEW ns PROVE BestNode(cfg, ns) \in V
    <3> DEFINE least == {n \in DOMAIN cfg.nodes : \A k \in DOMAIN cfg.nodes : ~Fuller(cfg, ns, n, k)}
    <3>1. BestNode(cfg, ns) = Min(least) /\ least \subseteq DOMAIN cfg.nodes
      BY DEF BestNode
    <3> HIDE DEF least
    <3>2. CASE least = {}
      BY <3>1, <3>2
    <3>3. CASE least # {}
      <4>1. least \subseteq Nat
        BY <3>1
      <4>2. PICK m \in least : \A y \in least : m <= y
        BY <3>3, <4>1, Least
      <4>3. Min(least) \in least
        BY <4>2 DEF Min
      <4> QED
        BY <3>1, <4>3
    <3> QED
      BY <3>2, <3>3
  <2> HIDE DEF V
  <2>2. step \in [D \X (1 .. threads) -> D] /\ <<>> \in D
    BY <2>1
  <2>3. PICK w : FoldOn(w, D, <<>>, threads, step)
    <3> HIDE DEF step, D
    <3> QED
      BY <2>2, FoldExists, Zenon
  <2>4. ASSUME NEW s \in SUBSET (1 .. threads), s # {}
        PROVE  step[<<w[s \ {Max(s)}], Max(s)>>] = Append(w[s \ {Max(s)}], BestNode(cfg, w[s \ {Max(s)}]))
    <3>1. Max(s) \in 1 .. threads /\ w[s \ {Max(s)}] \in D
      BY <2>3, <2>4, MaxOf DEF FoldOn
    <3> HIDE DEF D
    <3> QED
      BY <3>1
  <2>5. Iter(w)
    <3> HIDE DEF step
    <3> QED
      BY <2>3, <2>4 DEF FoldOn
  <2>6. Iter(iter)
    BY <2>5
  <2> HIDE DEF iter
  <2>7. Distribute(cfg, threads) = iter[1 .. threads]
    BY <1>2 DEF Distribute, FoldLeft, MapThenFoldSet, iter
  <2>8. iter[1 .. 0] = <<>>
    BY <2>6
  <2>9. ASSUME NEW k \in 1 .. threads
        PROVE  iter[1 .. k] = Append(iter[1 .. (k - 1)], BestNode(cfg, iter[1 .. (k - 1)]))
    BY <2>6, Places
  <2> DEFINE Good(ns) == NodesHaveSizes(cfg) /\ cfg.nodes # <<>> => ns \in Seq(Nat) /\ Balanced(cfg, ns)
             S == {k \in 0 .. threads : /\ iter[1 .. k] \in Seq(V) /\ Len(iter[1 .. k]) = k
                                        /\ Good(iter[1 .. k])}
  <2>10. 0 \in S
    <3>1. ASSUME NodesHaveSizes(cfg) PROVE Balanced(cfg, <<>>)
      <4>1. SUFFICES ASSUME NEW n \in DOMAIN cfg.nodes, NEW k \in DOMAIN cfg.nodes
                     PROVE  Occupation(<<>>, n) * SizeOf(cfg, k) <= (Occupation(<<>>, k) + 1) * SizeOf(cfg, n)
        BY DEF Balanced
      <4>2. Occupation(<<>>, n) = 0 /\ Occupation(<<>>, k) = 0
        BY FS_EmptySet DEF Occupation
      <4>3. SizeOf(cfg, n) \in Nat /\ SizeOf(cfg, k) \in Nat
        BY <3>1 DEF NodesHaveSizes
      <4> QED
        BY <4>2, <4>3
    <3>2. iter[1 .. 0] \in Seq(V) /\ Len(iter[1 .. 0]) = 0
      BY <2>8
    <3>3. Good(iter[1 .. 0])
      BY <2>8, <3>1
    <3> HIDE DEF Good
    <3> QED
      BY <3>2, <3>3
  <2>11. ASSUME NEW k \in 1 .. threads, k - 1 \in S PROVE k \in S
    <3> DEFINE ns == iter[1 .. (k - 1)]
    <3>1. ns \in Seq(V) /\ Len(ns) = k - 1 /\ Good(ns) /\ iter[1 .. k] = Append(ns, BestNode(cfg, ns))
      BY <2>9, <2>11
    <3>2. BestNode(cfg, ns) \in V
      BY <2>1
    <3> HIDE DEF ns
    <3>3. iter[1 .. k] \in Seq(V) /\ Len(iter[1 .. k]) = k
      BY <3>1, <3>2
    <3>4. ASSUME NodesHaveSizes(cfg), cfg.nodes # <<>>
          PROVE  iter[1 .. k] \in Seq(Nat) /\ Balanced(cfg, iter[1 .. k])
      <4>1. ns \in Seq(Nat) /\ Balanced(cfg, ns) /\ k - 1 \in Nat /\ DOMAIN ns = 1 .. (k - 1)
        BY <3>1, <3>4
      <4>2. /\ BestNode(cfg, ns) \in DOMAIN cfg.nodes
            /\ \A m \in DOMAIN cfg.nodes : ~Fuller(cfg, ns, BestNode(cfg, ns), m)
        BY <3>4, <4>1, BestNodeIsLeast
      <4>3. Balanced(cfg, Append(ns, BestNode(cfg, ns)))
        BY <3>1, <3>4, <4>1, <4>2, BestNodeBalances
      <4>4. BestNode(cfg, ns) \in Nat
        BY <4>2
      <4> QED
        BY <3>1, <4>1, <4>3, <4>4
    <3> QED
      BY <3>3, <3>4
  <2>12. 0 .. threads \subseteq S
    <3> HIDE DEF S
    <3> QED
      BY <2>10, <2>11, UpTo
  <2>13. iter[1 .. threads] \in Seq(V) /\ Len(iter[1 .. threads]) = threads /\ Good(iter[1 .. threads])
    BY <2>12
  <2>14. cfg.nodes = <<>> => Balanced(cfg, iter[1 .. threads])
    BY DEF Balanced
  <2> QED
    BY <2>7, <2>13, <2>14
<1> QED
  BY <1>1, <1>2

-----------------------------------------------------------------------------
(* Nodes made of sets of processors.                                       *)

Apart(sets) == \A n, k \in DOMAIN sets : n # k => sets[n] \cap sets[k] = {}
Sets == Seq(SUBSET Nat)
Maps == UNION {[s -> Nat] : s \in SUBSET Nat}
Configs == [nodes : Sets, byCpu : Maps, custom : {Empty.custom}]

LEMMA NothingConfigured ==
    Empty \in Configs /\ Empty.nodes = <<>> /\ Empty.byCpu = <<>> /\ DOMAIN Empty.byCpu = {}
<1>1. Empty = [nodes |-> Empty.nodes, byCpu |-> Empty.byCpu, custom |-> Empty.custom]
      /\ Empty.nodes = <<>> /\ Empty.byCpu = <<>>
  BY Zenon DEF Empty
<1>2. <<>> \in Sets /\ <<>> \in [{} -> Nat] /\ {} \in SUBSET Nat /\ DOMAIN <<>> = {}
  BY DEF Sets
<1>3. <<>> \in Maps
  BY <1>2 DEF Maps
<1>4. \A v : [nodes |-> <<>>, byCpu |-> <<>>, custom |-> v] \in [nodes : Sets, byCpu : Maps, custom : {v}]
  BY <1>2, <1>3
<1> QED
  BY <1>1, <1>2, <1>4 DEF Configs

\* What lies in a configuration, whatever custom becomes.
LEMMA CustomChanges ==
    ASSUME NEW cfg \in Configs, NEW v
    PROVE  [cfg EXCEPT !.custom = v].nodes = cfg.nodes /\ [cfg EXCEPT !.custom = v].byCpu = cfg.byCpu
BY DEF Configs

\* A configuration made anew field by field.
Config(nodes, byCpu, custom) == [nodes |-> nodes, byCpu |-> byCpu, custom |-> custom]

LEMMA FieldsChange ==
    ASSUME NEW nodes, NEW byCpu, NEW custom, NEW v
    PROVE  /\ [Config(nodes, byCpu, custom) EXCEPT !.nodes = v] = Config(v, byCpu, custom)
           /\ [Config(nodes, byCpu, custom) EXCEPT !.byCpu = v] = Config(nodes, v, custom)
           /\ Config(nodes, byCpu, custom).nodes = nodes /\ Config(nodes, byCpu, custom).byCpu = byCpu
BY DEF Config

LEMMA LargerOf ==
    ASSUME NEW n \in Nat, NEW k \in Nat
    PROVE  Max({n, k}) \in Nat /\ Max({n, k}) >= n /\ Max({n, k}) >= k /\ Max({n, k}) \in {n, k}
<1>1. \E x \in {n, k} : \A y \in {n, k} : x >= y
  OBVIOUS
<1>2. Max({n, k}) \in {n, k} /\ \A y \in {n, k} : Max({n, k}) >= y
  BY <1>1 DEF Max
<1> QED
  BY <1>2

\* add_cpu_to_node for processors none of which is assigned, and a node after
\* the others.
AddedTo(r, cfg, n, cpus) ==
    /\ Len(r.nodes) = IF cpus = {} THEN Len(cfg.nodes) ELSE n
    /\ \A k \in Nat \ {0} : Node(r, k) = IF k = n THEN cpus ELSE Node(cfg, k)
    /\ DOMAIN r.byCpu = DOMAIN cfg.byCpu \cup cpus
    /\ \A c \in DOMAIN r.byCpu : r.byCpu[c] = IF c \in cpus THEN n ELSE cfg.byCpu[c]

LEMMA CpusAdded ==
    ASSUME NEW cfg \in Configs, NEW n \in Nat \ {0}, NEW cpus \in SUBSET Nat
    PROVE  /\ AddCpus(cfg, n, cpus) \in Configs
           /\ n > Len(cfg.nodes) /\ cpus \cap DOMAIN cfg.byCpu = {} => AddedTo(AddCpus(cfg, n, cpus), cfg, n, cpus)
<1> DEFINE new == cpus \ DOMAIN cfg.byCpu
           len == Len(cfg.nodes)
           size == IF new = {} THEN len ELSE Max({n, len})
           nodes == [k \in 1 .. size |-> Node(cfg, k) \cup IF k = n THEN new ELSE {}]
           byCpu == [c \in DOMAIN cfg.byCpu \cup new |-> IF c \in new THEN n ELSE cfg.byCpu[c]]
           r == AddCpus(cfg, n, cpus)
<1>1. cfg.nodes \in Sets /\ cfg.byCpu \in Maps /\ DOMAIN cfg = {"nodes", "byCpu", "custom"}
      /\ cfg.custom = Empty.custom /\ cfg = [nodes |-> cfg.nodes, byCpu |-> cfg.byCpu, custom |-> cfg.custom]
  BY DEF Configs
<1>2. len \in Nat /\ DOMAIN cfg.nodes = 1 .. len /\ \A k \in 1 .. len : cfg.nodes[k] \in SUBSET Nat
  BY <1>1 DEF Sets
<1>3. PICK s \in SUBSET Nat : cfg.byCpu \in [s -> Nat]
  BY <1>1 DEF Maps
<1>4. r = Config(nodes, byCpu, cfg.custom)
  <2> DEFINE half == [cfg EXCEPT !.nodes = nodes]
  <2>1. r = [half EXCEPT !.byCpu = byCpu]
    BY Zenon DEF AddCpus
  <2> HIDE DEF nodes, byCpu, r
  <2>2. cfg = Config(cfg.nodes, cfg.byCpu, cfg.custom)
    BY <1>1, Zenon DEF Config
  <2>3. half = Config(nodes, cfg.byCpu, cfg.custom)
    <3>1. [Config(cfg.nodes, cfg.byCpu, cfg.custom) EXCEPT !.nodes = nodes] = Config(nodes, cfg.byCpu, cfg.custom)
      BY FieldsChange
    <3> QED
      BY <2>2, <3>1, SMT
  <2> QED
    <3> HIDE DEF half
    <3>1. [Config(nodes, cfg.byCpu, cfg.custom) EXCEPT !.byCpu = byCpu] = Config(nodes, byCpu, cfg.custom)
      BY FieldsChange
    <3> QED
      BY <2>1, <2>3, <3>1, SMT
<1>5. size \in Nat /\ size >= len /\ (new # {} => size >= n)
  <2>1. Max({n, len}) \in Nat /\ Max({n, len}) >= n /\ Max({n, len}) >= len
    BY <1>2, LargerOf
  <2> HIDE DEF len, new
  <2> QED
    BY <1>2, <2>1
<1>6. new \in SUBSET Nat /\ \A k : Node(cfg, k) \in SUBSET Nat
  BY <1>2 DEF Node
<1>7. nodes \in Sets
  <2>1. ASSUME NEW k \in 1 .. size PROVE nodes[k] \in SUBSET Nat
    <3>1. nodes[k] = Node(cfg, k) \cup new \/ nodes[k] = Node(cfg, k)
      BY <2>1
    <3> HIDE DEF nodes, new
    <3> QED
      BY <1>6, <3>1
  <2>2. DOMAIN nodes = 1 .. size /\ nodes = [k \in 1 .. size |-> nodes[k]]
    OBVIOUS
  <2> HIDE DEF size, nodes
  <2>3. nodes \in [1 .. size -> SUBSET Nat]
    BY <2>1, <2>2
  <2> QED
    BY <1>5, <2>3 DEF Sets
<1>8. byCpu \in Maps
  <2>1. DOMAIN cfg.byCpu \cup new \in SUBSET Nat
    BY <1>3, <1>6
  <2>2. byCpu \in [DOMAIN cfg.byCpu \cup new -> Nat]
    BY <1>3
  <2> QED
    BY <2>1, <2>2 DEF Maps
<1>9. r \in Configs
  <2> HIDE DEF nodes, byCpu, r
  <2> QED
    BY <1>1, <1>4, <1>7, <1>8 DEF Configs, Config
<1>10. ASSUME n > len, cpus \cap DOMAIN cfg.byCpu = {}
       PROVE  /\ Len(r.nodes) = IF cpus = {} THEN len ELSE n
              /\ \A k \in Nat \ {0} : Node(r, k) = IF k = n THEN cpus ELSE Node(cfg, k)
              /\ DOMAIN r.byCpu = DOMAIN cfg.byCpu \cup cpus
              /\ \A c \in DOMAIN r.byCpu : r.byCpu[c] = IF c \in cpus THEN n ELSE cfg.byCpu[c]
  <2>1. new = cpus
    BY <1>10
  <2>2. r.nodes = nodes /\ r.byCpu = byCpu
    <3> HIDE DEF nodes, byCpu, r
    <3> QED
      BY <1>4, FieldsChange
  <2>3. size = IF cpus = {} THEN len ELSE n
    <3>1. Max({n, len}) \in {n, len} /\ Max({n, len}) >= n
      BY <1>2, LargerOf
    <3>2. Max({n, len}) = n
      BY <1>2, <1>10, <3>1
    <3> QED
      BY <2>1, <3>2
  <2>4. Len(r.nodes) = size /\ DOMAIN r.nodes = 1 .. size
    <3>1. Len(nodes) = size /\ DOMAIN nodes = 1 .. size
      <4> HIDE DEF size
      <4> QED
        BY <1>5
    <3> QED
      BY <2>2, <3>1
  <2>5. ASSUME NEW k \in Nat \ {0} PROVE Node(r, k) = IF k = n THEN cpus ELSE Node(cfg, k)
    <3>1. CASE k \in 1 .. size
      <4>1. Node(r, k) = Node(cfg, k) \cup IF k = n THEN new ELSE {}
        BY <2>2, <2>4, <3>1 DEF Node
      <4>2. k = n => Node(cfg, k) = {}
        BY <1>2, <1>10 DEF Node
      <4> QED
        BY <2>1, <4>1, <4>2
    <3>2. CASE k \notin 1 .. size
      <4>1. k > size /\ Node(r, k) = {}
        <5> HIDE DEF size, r
        <5>1. k > size
          BY <1>5, <3>2
        <5> QED
          BY <2>4, <3>2, <5>1 DEF Node
      <4>2. Node(cfg, k) = {}
        BY <1>2, <1>5, <4>1 DEF Node
      <4>3. k = n => cpus = {}
        BY <1>10, <2>3, <4>1
      <4> QED
        BY <4>1, <4>2, <4>3
    <3> QED
      BY <3>1, <3>2
  <2>6. DOMAIN r.byCpu = DOMAIN cfg.byCpu \cup cpus
        /\ \A c \in DOMAIN r.byCpu : r.byCpu[c] = IF c \in cpus THEN n ELSE cfg.byCpu[c]
    BY <2>1, <2>2
  <2> QED
    BY <2>3, <2>4, <2>5, <2>6
<1> HIDE DEF r
<1>11. n > Len(cfg.nodes) /\ cpus \cap DOMAIN cfg.byCpu = {} => AddedTo(r, cfg, n, cpus)
  BY <1>10 DEF AddedTo
<1> QED
  BY <1>9, <1>11 DEF r

\* Sets that are apart become the nodes, except for empty ones at the end.
LEMMA AllAdded ==
    ASSUME NEW sets \in Sets, Apart(sets)
    PROVE  LET r == AddAll(sets)
           IN  /\ r \in Configs /\ Len(r.nodes) <= Len(sets)
               /\ \A n \in DOMAIN sets : Node(r, n) = sets[n]
               /\ DOMAIN r.byCpu = UNION Range(sets)
               /\ \A n \in DOMAIN sets : \A c \in sets[n] : r.byCpu[c] = n
<1> DEFINE size == Len(sets)
           D == Configs
           Iter(w) == w = [s \in SUBSET (1 .. size) |->
                             IF s = {} THEN Empty
                             ELSE AddCpus(w[s \ {Max(s)}], [n \in 1 .. size |-> n][Max(s)],
                                          sets[[n \in 1 .. size |-> n][Max(s)]])]
           step == [p \in D \X (1 .. size) |-> AddCpus(p[1], p[2], sets[p[2]])]
           iter == CHOOSE w : Iter(w)
<1>1. size \in Nat /\ DOMAIN sets = 1 .. size /\ \A n \in 1 .. size : sets[n] \in SUBSET Nat
  BY DEF Sets
<1> HIDE DEF size
<1>2. step \in [D \X (1 .. size) -> D] /\ Empty \in D
  <2>1. \A cfg \in D, n \in 1 .. size : AddCpus(cfg, n, sets[n]) \in D
    BY <1>1, CpusAdded
  <2> HIDE DEF D
  <2>2. step \in [D \X (1 .. size) -> D]
    BY <2>1
  <2> QED
    BY <2>2, NothingConfigured DEF D
<1>3. PICK w : FoldOn(w, D, Empty, size, step)
  <2> HIDE DEF step, D
  <2> QED
    BY <1>1, <1>2, FoldExists, Zenon
<1>4. ASSUME NEW s \in SUBSET (1 .. size), s # {}
      PROVE  step[<<w[s \ {Max(s)}], Max(s)>>]
               = AddCpus(w[s \ {Max(s)}], [n \in 1 .. size |-> n][Max(s)], sets[[n \in 1 .. size |-> n][Max(s)]])
  <2>1. Max(s) \in 1 .. size /\ w[s \ {Max(s)}] \in D
    BY <1>1, <1>3, <1>4, MaxOf DEF FoldOn
  <2> HIDE DEF D
  <2> QED
    BY <2>1
<1>5. Iter(w)
  <2> HIDE DEF step
  <2> QED
    BY <1>3, <1>4 DEF FoldOn
<1>6. Iter(iter)
  BY <1>5
<1> HIDE DEF iter
<1>7. AddAll(sets) = iter[1 .. size]
  BY <1>1 DEF AddAll, FoldLeftDomain, FoldLeft, MapThenFoldSet, iter
<1>8. iter[1 .. 0] = Empty
  BY <1>6
<1>9. ASSUME NEW k \in 1 .. size PROVE iter[1 .. k] = AddCpus(iter[1 .. (k - 1)], k, sets[k])
  <2>1. 1 .. k \in SUBSET (1 .. size) /\ 1 .. k # {} /\ Max(1 .. k) = k /\ (1 .. k) \ {Max(1 .. k)} = 1 .. (k - 1)
    BY <1>1, Places
  <2> QED
    BY <1>6, <2>1
<1> DEFINE Come(cfg, k) ==
              /\ cfg \in Configs /\ Len(cfg.nodes) <= k
              /\ \A n \in 1 .. k : Node(cfg, n) = sets[n]
              /\ \A c : c \in DOMAIN cfg.byCpu <=> \E n \in 1 .. k : c \in sets[n]
              /\ \A n \in 1 .. k : \A c \in sets[n] : cfg.byCpu[c] = n
           S == {k \in 0 .. size : Come(iter[1 .. k], k)}
<1>10. 0 \in S
  <2>1. Come(Empty, 0)
    BY NothingConfigured
  <2> QED
    BY <1>1, <1>8, <2>1
<1>11. ASSUME NEW k \in 1 .. size, k - 1 \in S PROVE k \in S
  <2> DEFINE cfg == iter[1 .. (k - 1)]
             r == AddCpus(cfg, k, sets[k])
  <2>1. Come(cfg, k - 1) /\ iter[1 .. k] = r
    BY <1>9, <1>11
  <2> HIDE DEF cfg
  <2>2. cfg \in Configs /\ k \in Nat \ {0} /\ sets[k] \in SUBSET Nat
    BY <1>1, <2>1
  <2>3. Len(cfg.nodes) \in Nat
    BY <2>2 DEF Configs, Sets
  <2>4. k > Len(cfg.nodes) /\ sets[k] \cap DOMAIN cfg.byCpu = {}
    <3>1. ASSUME NEW c \in sets[k], c \in DOMAIN cfg.byCpu PROVE FALSE
      <4>1. PICK n \in 1 .. (k - 1) : c \in sets[n]
        BY <2>1, <3>1
      <4> QED
        BY <1>1, <3>1, <4>1 DEF Apart
    <3> QED
      BY <2>1, <2>3, <3>1
  <2>5. /\ r \in Configs
        /\ Len(r.nodes) = IF sets[k] = {} THEN Len(cfg.nodes) ELSE k
        /\ \A j \in Nat \ {0} : Node(r, j) = IF j = k THEN sets[k] ELSE Node(cfg, j)
        /\ DOMAIN r.byCpu = DOMAIN cfg.byCpu \cup sets[k]
        /\ \A c \in DOMAIN r.byCpu : r.byCpu[c] = IF c \in sets[k] THEN k ELSE cfg.byCpu[c]
    BY <2>2, <2>4, CpusAdded DEF AddedTo
  <2> HIDE DEF r
  <2>6. Len(r.nodes) <= k
    BY <2>1, <2>3, <2>5
  <2>7. ASSUME NEW n \in 1 .. k PROVE Node(r, n) = sets[n]
    BY <2>1, <2>5
  <2>8. ASSUME NEW c PROVE c \in DOMAIN r.byCpu <=> \E n \in 1 .. k : c \in sets[n]
    BY <2>1, <2>5
  <2>9. ASSUME NEW n \in 1 .. k, NEW c \in sets[n] PROVE r.byCpu[c] = n
    <3>1. c \in DOMAIN r.byCpu
      BY <2>8, <2>9
    <3>2. CASE n = k
      BY <2>5, <2>9, <3>1, <3>2
    <3>3. CASE n # k
      <4>1. n \in 1 .. (k - 1) /\ c \notin sets[k]
        BY <1>1, <2>9, <3>3 DEF Apart
      <4>2. cfg.byCpu[c] = n
        BY <2>1, <2>9, <4>1
      <4> QED
        BY <2>5, <3>1, <4>1, <4>2
    <3> QED
      BY <3>2, <3>3
  <2>10. Come(r, k)
    BY <2>5, <2>6, <2>7, <2>8, <2>9
  <2> HIDE DEF Come
  <2> QED
    BY <2>1, <2>10
<1>12. 0 .. size \subseteq S
  <2> HIDE DEF S
  <2> QED
    BY <1>1, <1>10, <1>11, UpTo
<1>13. Come(iter[1 .. size], size)
  BY <1>1, <1>12
<1>14. \A c : c \in UNION Range(sets) <=> \E n \in 1 .. size : c \in sets[n]
  BY <1>1 DEF Range
<1> QED
  BY <1>1, <1>7, <1>13, <1>14 DEF size

\* remove_empty_numa_nodes.
LEMMA EmptyRemoved ==
    ASSUME NEW sets \in Sets
    PROVE  /\ NonEmpty(sets) \in Sets /\ Range(NonEmpty(sets)) = Range(sets) \ {{}}
           /\ Apart(sets) => Apart(NonEmpty(sets))
           /\ {} \notin Range(sets) => NonEmpty(sets) = sets
<1> DEFINE size == Len(sets)
           Kept(kept, cpus) == IF cpus = {} THEN kept ELSE Append(kept, cpus)
           Iter(w) == w = [s \in SUBSET (1 .. size) |->
                             IF s = {} THEN <<>> ELSE Kept(w[s \ {Max(s)}], sets[Max(s)])]
           step == [p \in Sets \X (1 .. size) |-> Kept(p[1], sets[p[2]])]
           iter == CHOOSE w : Iter(w)
<1>1. size \in Nat /\ DOMAIN sets = 1 .. size /\ \A n \in 1 .. size : sets[n] \in SUBSET Nat
  BY DEF Sets
<1> HIDE DEF size
<1>2. step \in [Sets \X (1 .. size) -> Sets] /\ <<>> \in Sets
  BY <1>1 DEF Sets
<1>3. PICK w : FoldOn(w, Sets, <<>>, size, step)
  <2> HIDE DEF step
  <2> QED
    BY <1>1, <1>2, FoldExists, Zenon
<1>4. ASSUME NEW s \in SUBSET (1 .. size), s # {}
      PROVE  step[<<w[s \ {Max(s)}], Max(s)>>] = Kept(w[s \ {Max(s)}], sets[Max(s)])
  <2>1. Max(s) \in 1 .. size /\ w[s \ {Max(s)}] \in Sets
    BY <1>1, <1>3, <1>4, MaxOf DEF FoldOn
  <2> QED
    BY <2>1
<1>5. Iter(w)
  <2> HIDE DEF step, Kept
  <2> QED
    BY <1>3, <1>4 DEF FoldOn
<1>6. Iter(iter)
  BY <1>5
<1> HIDE DEF iter
<1>7. NonEmpty(sets) = iter[1 .. size]
  BY <1>1 DEF NonEmpty, FoldLeft, MapThenFoldSet, iter
<1>8. iter[1 .. 0] = <<>>
  BY <1>6
<1>9. ASSUME NEW k \in 1 .. size PROVE iter[1 .. k] = Kept(iter[1 .. (k - 1)], sets[k])
  <2>1. 1 .. k \in SUBSET (1 .. size) /\ 1 .. k # {} /\ Max(1 .. k) = k /\ (1 .. k) \ {Max(1 .. k)} = 1 .. (k - 1)
    BY <1>1, Places
  <2> HIDE DEF Kept
  <2> QED
    BY <1>6, <2>1
<1> DEFINE Come(kept, k) ==
              /\ kept \in Sets
              /\ \A n \in DOMAIN kept : kept[n] # {} /\ \E j \in 1 .. k : kept[n] = sets[j]
              /\ \A j \in 1 .. k : sets[j] # {} => \E n \in DOMAIN kept : kept[n] = sets[j]
              /\ Apart(sets) => Apart(kept)
              /\ (\A j \in 1 .. k : sets[j] # {}) => Len(kept) = k /\ \A j \in 1 .. k : kept[j] = sets[j]
           S == {k \in 0 .. size : Come(iter[1 .. k], k)}
<1>10. 0 \in S
  <2>1. Come(<<>>, 0)
    BY <1>2 DEF Apart
  <2> HIDE DEF Come
  <2> QED
    BY <1>1, <1>8, <2>1
<1>11. ASSUME NEW k \in 1 .. size, k - 1 \in S PROVE k \in S
  <2> DEFINE kept == iter[1 .. (k - 1)]
  <2>1. Come(kept, k - 1) /\ iter[1 .. k] = Kept(kept, sets[k])
    BY <1>9, <1>11
  <2> HIDE DEF kept
  <2>2. CASE sets[k] = {}
    <3>1. Come(kept, k)
      BY <2>1, <2>2
    <3> HIDE DEF Come
    <3> QED
      BY <2>1, <2>2, <3>1
  <2>3. CASE sets[k] # {}
    <3> DEFINE more == Append(kept, sets[k])
               len == Len(kept)
    <3>1. /\ kept \in Sets /\ len \in Nat /\ DOMAIN kept = 1 .. len /\ sets[k] \in SUBSET Nat
      BY <1>1, <2>1 DEF Sets
    <3>2. /\ more \in Sets /\ Len(more) = len + 1 /\ DOMAIN more = 1 .. (len + 1) /\ more[len + 1] = sets[k]
          /\ \A n \in 1 .. len : more[n] = kept[n]
      BY <3>1 DEF Sets
    <3> HIDE DEF more, len
    <3>3. ASSUME NEW n \in DOMAIN more PROVE more[n] # {} /\ \E j \in 1 .. k : more[n] = sets[j]
      BY <2>1, <2>3, <3>1, <3>2
    <3>4. ASSUME NEW j \in 1 .. k, sets[j] # {} PROVE \E n \in DOMAIN more : more[n] = sets[j]
      <4>1. CASE j = k
        BY <3>1, <3>2, <4>1
      <4>2. CASE j # k
        <5>1. PICK n \in DOMAIN kept : kept[n] = sets[j]
          BY <2>1, <3>4, <4>2
        <5> QED
          BY <3>1, <3>2, <5>1
      <4> QED
        BY <4>1, <4>2
    <3>5. ASSUME Apart(sets) PROVE Apart(more)
      <4>1. ASSUME NEW n \in 1 .. len PROVE more[n] \cap more[len + 1] = {}
        <5>1. PICK j \in 1 .. (k - 1) : kept[n] = sets[j]
          BY <2>1, <3>1
        <5>2. sets[j] \cap sets[k] = {}
          BY <1>1, <3>5 DEF Apart
        <5> QED
          BY <3>2, <5>1, <5>2
      <4>2. \A n, j \in 1 .. len : n # j => more[n] \cap more[j] = {}
        BY <2>1, <3>1, <3>2, <3>5 DEF Apart
      <4>3. \A n \in DOMAIN more : n \in 1 .. len \/ n = len + 1
        BY <3>1, <3>2
      <4> QED
        BY <4>1, <4>2, <4>3 DEF Apart
    <3>6. ASSUME \A j \in 1 .. k : sets[j] # {} PROVE Len(more) = k /\ \A j \in 1 .. k : more[j] = sets[j]
      <4>1. \A j \in 1 .. (k - 1) : sets[j] # {}
        BY <3>6
      <4>2. len = k - 1 /\ \A j \in 1 .. (k - 1) : kept[j] = sets[j]
        BY <2>1, <4>1 DEF len
      <4> QED
        BY <3>1, <3>2, <4>2
    <3>7. Come(more, k)
      BY <3>2, <3>3, <3>4, <3>5, <3>6
    <3> HIDE DEF Come
    <3> QED
      BY <2>1, <2>3, <3>7 DEF more
  <2> QED
    BY <2>2, <2>3
<1>12. 0 .. size \subseteq S
  <2> HIDE DEF S
  <2> QED
    BY <1>1, <1>10, <1>11, UpTo
<1> DEFINE kept == NonEmpty(sets)
<1>13. Come(kept, size)
  <2>1. size \in S
    <3> HIDE DEF S
    <3> QED
      BY <1>1, <1>12
  <2>2. Come(iter[1 .. size], size)
    <3> HIDE DEF Come
    <3> QED
      BY <2>1
  <2> HIDE DEF Come
  <2> QED
    BY <1>7, <2>2
<1> HIDE DEF kept
<1>14. Range(kept) = Range(sets) \ {{}}
  <2>1. ASSUME NEW n \in DOMAIN kept PROVE kept[n] # {} /\ kept[n] \in Range(sets)
    BY <1>1, <1>13, <2>1 DEF Range
  <2>2. ASSUME NEW n \in 1 .. size, sets[n] # {} PROVE sets[n] \in Range(kept)
    BY <1>13, <2>2 DEF Range
  <2> QED
    BY <1>1, <2>1, <2>2 DEF Range
<1>15. ASSUME {} \notin Range(sets) PROVE kept = sets
  <2>1. \A j \in 1 .. size : sets[j] # {}
    BY <1>1, <1>15 DEF Range
  <2>2. kept \in Sets /\ Len(kept) = size /\ \A j \in 1 .. size : kept[j] = sets[j]
    BY <1>13, <2>1
  <2> QED
    BY <1>1, <2>2 DEF Sets, size
<1> QED
  BY <1>13, <1>14, <1>15 DEF kept

-----------------------------------------------------------------------------
(* The nodes of the system.                                                *)

\* The largest of finitely many numbers.
LEMMA LargestValue ==
    ASSUME NEW n \in Nat \ {0}, NEW f \in [1 .. n -> Nat]
    PROVE  \E m \in 1 .. n : \A k \in 1 .. n : f[m] >= f[k]
<1> DEFINE T == {l \in Nat : l + 1 <= n => \E m \in 1 .. (l + 1) : \A k \in 1 .. (l + 1) : f[m] >= f[k]}
<1>1. 0 \in T
  OBVIOUS
<1>2. ASSUME NEW l \in Nat, l \in T PROVE l + 1 \in T
  <2> SUFFICES ASSUME l + 2 <= n PROVE \E m \in 1 .. (l + 2) : \A k \in 1 .. (l + 2) : f[m] >= f[k]
    OBVIOUS
  <2>1. PICK m \in 1 .. (l + 1) : \A k \in 1 .. (l + 1) : f[m] >= f[k]
    BY <1>2
  <2>2. f[m] \in Nat /\ f[l + 2] \in Nat /\ 1 .. (l + 2) = 1 .. (l + 1) \cup {l + 2}
    OBVIOUS
  <2>3. CASE f[m] >= f[l + 2]
    BY <2>1, <2>2, <2>3
  <2>4. CASE f[l + 2] >= f[m]
    <3>1. \A k \in 1 .. (l + 1) : f[k] \in Nat /\ f[l + 2] >= f[k]
      BY <2>1, <2>2, <2>4
    <3> QED
      BY <2>2, <3>1
  <2> QED
    BY <2>2, <2>3, <2>4
<1>3. n - 1 \in T
  <2> HIDE DEF T
  <2>1. Nat \subseteq T
    BY <1>1, <1>2, NatSet
  <2> QED
    BY <2>1
<1> QED
  BY <1>3

LEMMA LargestOf ==
    ASSUME NEW s \in SUBSET Nat, s # {}, IsFiniteSet(s)
    PROVE  Max(s) \in s /\ \A x \in s : x <= Max(s)
<1>1. Cardinality(s) \in Nat \ {0} /\ ExistsBijection(1 .. Cardinality(s), s)
  BY FS_CardinalityType, FS_EmptySet
<1>2. PICK f \in [1 .. Cardinality(s) -> s] : \A x \in s : \E k \in 1 .. Cardinality(s) : f[k] = x
  BY <1>1 DEF ExistsBijection, Bijection, Injection, Surjection, IsInjective
<1>3. f \in [1 .. Cardinality(s) -> Nat]
  OBVIOUS
<1>4. PICK m \in 1 .. Cardinality(s) : \A k \in 1 .. Cardinality(s) : f[m] >= f[k]
  BY <1>1, <1>3, LargestValue
<1>5. f[m] \in s /\ \A x \in s : f[m] >= x
  BY <1>2, <1>4
<1>6. Max(s) \in s /\ \A x \in s : Max(s) >= x
  BY <1>5 DEF Max
<1> QED
  BY <1>6

\* A processor of the machine is in its system node and in no other.
LEMMA SystemNodeFound ==
    ASSUME NEW m, IsMachine(m), NEW c \in m.cpus
    PROVE  /\ SystemNodeOf(m, c) \in Nat \ {0}
           /\ m.nodes = <<>> => SystemNodeOf(m, c) = 1 /\ c \in Processors(m)
           /\ m.nodes # <<>> =>
                  /\ SystemNodeOf(m, c) \in DOMAIN m.nodes
                  /\ \A n \in DOMAIN m.nodes : c \in m.nodes[n] <=> n = SystemNodeOf(m, c)
<1>1. CASE m.nodes = <<>>
  BY <1>1 DEF IsMachine, SystemNodeOf
<1>2. CASE m.nodes # <<>>
  <2>1. PICK n \in DOMAIN m.nodes : c \in m.nodes[n]
    BY <1>2 DEF IsMachine, Range
  <2>2. SystemNodeOf(m, c) \in DOMAIN m.nodes /\ c \in m.nodes[SystemNodeOf(m, c)]
    BY <1>2, <2>1 DEF SystemNodeOf
  <2>3. m.nodes \in Seq(SUBSET Nat)
    BY DEF IsMachine
  <2>4. \A k \in DOMAIN m.nodes : c \in m.nodes[k] => k = SystemNodeOf(m, c)
    BY <2>2 DEF IsMachine
  <2>5. DOMAIN m.nodes \subseteq Nat \ {0}
    BY <2>3
  <2> QED
    BY <1>2, <2>2, <2>4, <2>5
<1> QED
  BY <1>1, <1>2

LEMMA AllowedAre ==
    ASSUME NEW m, IsMachine(m), NEW respect
    PROVE  /\ Allowed(m, respect) \subseteq m.cpus /\ Allowed(m, respect) \in SUBSET Nat
           /\ Allowed(m, respect) # {} /\ IsFiniteSet(Allowed(m, respect))
<1>1. Allowed(m, respect) \subseteq m.cpus /\ Allowed(m, respect) # {} /\ m.cpus \subseteq Nat /\ IsFiniteSet(m.cpus)
  BY DEF Allowed, IsMachine
<1> QED
  BY <1>1, FS_Subset

\* Each node has the allowed processors of the system node it is numbered for.
LEMMA SystemRead ==
    ASSUME NEW m, IsMachine(m), NEW allowed \in SUBSET m.cpus
    PROVE  LET r == FromSystemNuma(m, allowed)
           IN  /\ r \in Configs
               /\ \A n \in DOMAIN r.nodes : \A c : c \in r.nodes[n] <=> c \in allowed /\ SystemNodeOf(m, c) = n
               /\ \A c \in allowed : SystemNodeOf(m, c) \in DOMAIN r.nodes /\ r.byCpu[c] = SystemNodeOf(m, c)
<1> DEFINE r == FromSystemNuma(m, allowed)
<1>1. allowed \in SUBSET Nat /\ m.nodes \in Seq(SUBSET Nat)
  BY DEF IsMachine
<1>2. CASE m.nodes = <<>>
  <2> DEFINE cpus == Processors(m) \cap allowed
  <2>1. \A c \in allowed : SystemNodeOf(m, c) = 1 /\ c \in Processors(m)
    BY <1>2, SystemNodeFound
  <2>2. cpus = allowed
    BY <2>1
  <2>3. r = AddCpus(Empty, 1, cpus)
    BY <1>2 DEF FromSystemNuma
  <2>4. Empty \in Configs /\ Len(Empty.nodes) = 0 /\ DOMAIN Empty.byCpu = {} /\ \A k : Node(Empty, k) = {}
    BY NothingConfigured DEF Node
  <2> HIDE DEF cpus, r
  <2>5. /\ r \in Configs /\ Len(r.nodes) = (IF allowed = {} THEN 0 ELSE 1)
        /\ Node(r, 1) = allowed /\ DOMAIN r.byCpu = allowed /\ \A c \in allowed : r.byCpu[c] = 1
    <3>1. r = AddCpus(Empty, 1, allowed) /\ 1 > Len(Empty.nodes) /\ allowed \cap DOMAIN Empty.byCpu = {}
      BY <2>2, <2>3, <2>4
    <3>2. 1 \in Nat \ {0}
      OBVIOUS
    <3>3. r \in Configs /\ AddedTo(r, Empty, 1, allowed)
      BY <1>1, <2>4, <3>1, <3>2, CpusAdded
    <3> QED
      BY <2>4, <3>2, <3>3 DEF AddedTo
  <2>6. DOMAIN r.nodes = 1 .. Len(r.nodes)
    <3>1. r.nodes \in Seq(SUBSET Nat)
      BY <2>5 DEF Configs, Sets
    <3> QED
      BY <3>1
  <2>7. DOMAIN r.nodes = (IF allowed = {} THEN {} ELSE {1}) /\ \A n \in DOMAIN r.nodes : n = 1 /\ r.nodes[n] = allowed
    <3>1. CASE allowed = {}
      BY <2>5, <2>6, <3>1
    <3>2. CASE allowed # {}
      <4>1. DOMAIN r.nodes = {1}
        BY <2>5, <2>6, <3>2
      <4>2. r.nodes[1] = allowed
        BY <2>5, <4>1 DEF Node
      <4> QED
        BY <3>2, <4>1, <4>2
    <3> QED
      BY <3>1, <3>2
  <2> QED
    BY <2>1, <2>5, <2>7 DEF r
<1>3. CASE m.nodes # <<>>
  <2> DEFINE sets == [n \in DOMAIN m.nodes |-> m.nodes[n] \cap allowed]
  <2>1. r = AddAll(sets)
    BY <1>3 DEF FromSystemNuma
  <2>2. DOMAIN sets = DOMAIN m.nodes /\ sets \in Sets /\ Len(sets) = Len(m.nodes)
    BY <1>1 DEF Sets
  <2>3. \A n \in DOMAIN sets : \A c : c \in sets[n] <=> c \in allowed /\ SystemNodeOf(m, c) = n
    BY <1>3, SystemNodeFound
  <2>4. \A c \in allowed : SystemNodeOf(m, c) \in DOMAIN sets /\ c \in sets[SystemNodeOf(m, c)]
    BY <1>3, <2>3, SystemNodeFound
  <2> HIDE DEF sets, r
  <2>5. Apart(sets)
    BY <2>3 DEF Apart
  <2>6. /\ r \in Configs /\ Len(r.nodes) <= Len(sets)
        /\ \A n \in DOMAIN sets : Node(r, n) = sets[n]
        /\ \A n \in DOMAIN sets : \A c \in sets[n] : r.byCpu[c] = n
    BY <2>1, <2>2, <2>5, AllAdded
  <2>7. DOMAIN r.nodes = 1 .. Len(r.nodes) /\ Len(r.nodes) \in Nat /\ DOMAIN sets = 1 .. Len(sets) /\ Len(sets) \in Nat
    BY <2>2, <2>6 DEF Configs, Sets
  <2>8. \A n \in DOMAIN r.nodes : n \in DOMAIN sets /\ r.nodes[n] = sets[n]
    BY <2>6, <2>7 DEF Node
  <2>9. ASSUME NEW c \in allowed PROVE SystemNodeOf(m, c) \in DOMAIN r.nodes /\ r.byCpu[c] = SystemNodeOf(m, c)
    BY <2>4, <2>6 DEF Node
  <2> QED
    BY <2>3, <2>6, <2>8, <2>9 DEF r
<1> QED
  BY <1>2, <1>3

\* from_system of the system's nodes.
LEMMA SystemNodesMade ==
    ASSUME NEW m, IsMachine(m), NEW respect
    PROVE  LET r == FromSystemNodes(m, respect)
               allowed == Allowed(m, respect)
           IN  /\ r.nodes \in Sets /\ {} \notin Range(r.nodes) /\ Apart(r.nodes)
               /\ UNION Range(r.nodes) = allowed
               /\ \A cpus \in Range(r.nodes) : \A c \in cpus : \A d \in allowed :
                      d \in cpus <=> SystemNodeOf(m, d) = SystemNodeOf(m, c)
               /\ \A c \in allowed : r.byCpu[c] = SystemNodeOf(m, c)
<1> DEFINE allowed == Allowed(m, respect)
           read == FromSystemNuma(m, allowed)
           kept == RemoveEmpty(read)
           r == FromSystemNodes(m, respect)
<1>1. allowed \in SUBSET m.cpus
  BY AllowedAre
<1> HIDE DEF allowed
<1>2. /\ read \in Configs
      /\ \A n \in DOMAIN read.nodes : \A c : c \in read.nodes[n] <=> c \in allowed /\ SystemNodeOf(m, c) = n
      /\ \A c \in allowed : SystemNodeOf(m, c) \in DOMAIN read.nodes /\ read.byCpu[c] = SystemNodeOf(m, c)
  BY <1>1, SystemRead
<1> HIDE DEF read
<1>3. read.nodes \in Sets /\ Apart(read.nodes)
  BY <1>2 DEF Configs, Apart
<1>4. /\ NonEmpty(read.nodes) \in Sets /\ Range(NonEmpty(read.nodes)) = Range(read.nodes) \ {{}}
      /\ Apart(NonEmpty(read.nodes))
  BY <1>3, EmptyRemoved
<1>5. kept \in Configs /\ kept.nodes = NonEmpty(read.nodes) /\ kept.byCpu = read.byCpu
  BY <1>2, <1>4 DEF RemoveEmpty, Configs
<1> HIDE DEF kept
<1>6. r.nodes = NonEmpty(read.nodes) /\ r.byCpu = read.byCpu
  <2>1. r = [kept EXCEPT !.custom = ~respect]
    BY Zenon DEF FromSystemNodes, kept, read, allowed
  <2>2. \A v : [kept EXCEPT !.custom = v].nodes = kept.nodes /\ [kept EXCEPT !.custom = v].byCpu = kept.byCpu
    BY <1>5, CustomChanges
  <2> QED
    BY <1>5, <2>1, <2>2, Zenon
<1> HIDE DEF r
<1>7. {} \notin Range(r.nodes)
  BY <1>4, <1>6
<1>8. UNION Range(r.nodes) = allowed
  <2>1. \A c \in allowed : \E n \in DOMAIN read.nodes : c \in read.nodes[n]
    BY <1>2
  <2>2. \A n \in DOMAIN read.nodes : read.nodes[n] \subseteq allowed
    BY <1>2
  <2>3. UNION (Range(read.nodes) \ {{}}) = allowed
    BY <2>1, <2>2 DEF Range
  <2> QED
    BY <1>4, <1>6, <2>3
<1>9. ASSUME NEW cpus \in Range(r.nodes), NEW c \in cpus, NEW d \in allowed
      PROVE  d \in cpus <=> SystemNodeOf(m, d) = SystemNodeOf(m, c)
  <2>1. PICK n \in DOMAIN read.nodes : cpus = read.nodes[n]
    BY <1>4, <1>6, <1>9 DEF Range
  <2> QED
    BY <1>2, <1>9, <2>1
<1> QED
  BY <1>2, <1>4, <1>6, <1>7, <1>8, <1>9 DEF r, allowed

-----------------------------------------------------------------------------
(* The scan for L3 domains.                                                *)

DomainLists == Seq([system : Nat, cpus : SUBSET Nat])
Scan(end, seen, domains) == [end |-> end, seen |-> seen, domains |-> domains]
Scans == [end : Nat, seen : SUBSET Nat, domains : DomainLists]

LEMMA ScanChanges ==
    ASSUME NEW end, NEW seen, NEW domains, NEW v
    PROVE  /\ [Scan(end, seen, domains) EXCEPT !.end = v] = Scan(v, seen, domains)
           /\ [Scan(end, seen, domains) EXCEPT !.seen = v] = Scan(end, v, domains)
           /\ [Scan(end, seen, domains) EXCEPT !.domains = v] = Scan(end, seen, v)
           /\ Scan(end, seen, domains).end = end /\ Scan(end, seen, domains).seen = seen
           /\ Scan(end, seen, domains).domains = domains
BY DEF Scan

LEMMA ScansAre ==
    /\ \A end \in Nat, seen \in SUBSET Nat, domains \in DomainLists : Scan(end, seen, domains) \in Scans
    /\ \A scan \in Scans : /\ scan = Scan(scan.end, scan.seen, scan.domains)
                           /\ scan.end \in Nat /\ scan.seen \in SUBSET Nat /\ scan.domains \in DomainLists
BY DEF Scan, Scans

\* What the allowed processors share with one that has a file.
Share(m, respect, c) == m.l3[c] \cap Allowed(m, respect)
DomainAt(m, respect, c) ==
    [system |-> FromSystemNodes(m, respect).byCpu[Max(Share(m, respect, c))], cpus |-> Share(m, respect, c)]

LEMMA L3StepIs ==
    ASSUME NEW m, NEW respect, NEW scan \in Scans, NEW c
    PROVE  L3Step(m, respect, scan, c) =
              IF c > scan.end \/ c \in scan.seen THEN scan
              ELSE IF c \notin DOMAIN m.l3 THEN Scan(c, scan.seen, scan.domains)
              ELSE Scan(scan.end, scan.seen \cup m.l3[c],
                        IF Share(m, respect, c) = {} THEN scan.domains
                        ELSE Append(scan.domains, DomainAt(m, respect, c)))
<1> DEFINE seen == scan.seen \cup m.l3[c]
           domains == IF Share(m, respect, c) = {} THEN scan.domains
                      ELSE Append(scan.domains, DomainAt(m, respect, c))
           half == [scan EXCEPT !.seen = seen]
           full == [half EXCEPT !.domains = domains]
           ended == [scan EXCEPT !.end = c]
<1>1. L3Step(m, respect, scan, c) =
          IF c > scan.end \/ c \in scan.seen THEN scan
          ELSE IF c \notin DOMAIN m.l3 THEN ended ELSE full
  BY Zenon DEF L3Step, Share, DomainAt
<1>2. scan = Scan(scan.end, scan.seen, scan.domains)
  BY ScansAre
<1> HIDE DEF seen, domains
<1>3. ended = Scan(c, scan.seen, scan.domains)
  <2>1. [Scan(scan.end, scan.seen, scan.domains) EXCEPT !.end = c] = Scan(c, scan.seen, scan.domains)
    BY ScanChanges
  <2> QED
    BY <1>2, <2>1
<1>4. half = Scan(scan.end, seen, scan.domains)
  <2>1. [Scan(scan.end, scan.seen, scan.domains) EXCEPT !.seen = seen] = Scan(scan.end, seen, scan.domains)
    BY ScanChanges
  <2> QED
    BY <1>2, <2>1
<1> HIDE DEF half
<1>5. full = Scan(scan.end, seen, domains)
  <2>1. [Scan(scan.end, seen, scan.domains) EXCEPT !.domains = domains] = Scan(scan.end, seen, domains)
    BY ScanChanges
  <2> QED
    BY <1>4, <2>1
<1> HIDE DEF ended, full
<1> QED
  BY <1>1, <1>3, <1>5, Zenon DEF seen, domains

\* A domain found is of the one system node of its processors.
LEMMA DomainIs ==
    ASSUME NEW m, IsMachine(m), NEW respect, NEW c \in DOMAIN m.l3, Share(m, respect, c) # {}
    PROVE  LET d == DomainAt(m, respect, c)
           IN  /\ d \in [system : Nat, cpus : SUBSET Nat] /\ d.system # 0
               /\ d.cpus = Share(m, respect, c)
               /\ \A x \in d.cpus : SystemNodeOf(m, x) = d.system
<1> DEFINE cpus == Share(m, respect, c)
           d == DomainAt(m, respect, c)
           system == FromSystemNodes(m, respect).byCpu[Max(cpus)]
<1>1. cpus \in SUBSET Nat /\ cpus \subseteq Allowed(m, respect) /\ IsFiniteSet(cpus) /\ cpus \subseteq m.cpus
  BY AllowedAre, FS_Subset DEF Share
<1>2. Max(cpus) \in cpus
  BY <1>1, LargestOf
<1>3. \A x, y \in cpus : SystemNodeOf(m, x) = SystemNodeOf(m, y)
  BY <1>1 DEF IsMachine, Share
<1> HIDE DEF cpus
<1>4. \A x \in Allowed(m, respect) : FromSystemNodes(m, respect).byCpu[x] = SystemNodeOf(m, x)
  BY SystemNodesMade
<1>5. system = SystemNodeOf(m, Max(cpus)) /\ SystemNodeOf(m, Max(cpus)) \in Nat \ {0}
  BY <1>1, <1>2, <1>4, SystemNodeFound
<1>6. d = [system |-> system, cpus |-> cpus]
  BY DEF DomainAt, cpus
<1> HIDE DEF d, system
<1>7. d \in [system : Nat, cpus : SUBSET Nat] /\ d.system = SystemNodeOf(m, Max(cpus)) /\ d.cpus = cpus
  BY <1>1, <1>5, <1>6
<1> QED
  BY <1>2, <1>3, <1>5, <1>7 DEF d, cpus

\* The processors up to k whose files come before the first that is missing.
Read(m, k) == {c \in 0 .. (k - 1) : 0 .. c \subseteq DOMAIN m.l3}

\* The domains of the caches of the processors read.
DomainsOf(m, respect, domains, read) ==
    /\ domains \in DomainLists
    /\ \A n \in DOMAIN domains :
           /\ domains[n].system # 0 /\ domains[n].cpus # {}
           /\ \E c \in read : domains[n].cpus = Share(m, respect, c)
           /\ \A x \in domains[n].cpus : SystemNodeOf(m, x) = domains[n].system
    /\ \A c \in read : Share(m, respect, c) # {} =>
           \E n \in DOMAIN domains : domains[n].cpus = Share(m, respect, c)
    /\ \A n, k \in DOMAIN domains : n # k => domains[n].cpus \cap domains[k].cpus = {}

Scanned(m, respect, scan, k, size) ==
    /\ scan \in Scans
    /\ \/ scan.end = size /\ 0 .. (k - 1) \subseteq DOMAIN m.l3
       \/ scan.end < k /\ scan.end \notin DOMAIN m.l3
    /\ \A x : x \in scan.seen <=> \E c \in Read(m, k) : x \in m.l3[c]
    /\ DomainsOf(m, respect, scan.domains, Read(m, k))

LEMMA DomainFound ==
    ASSUME NEW m, IsMachine(m), NEW respect, NEW domains, NEW read, read \subseteq DOMAIN m.l3,
           NEW c \in DOMAIN m.l3, Share(m, respect, c) # {},
           \A b \in read : m.l3[c] \cap m.l3[b] = {},
           DomainsOf(m, respect, domains, read)
    PROVE  DomainsOf(m, respect, Append(domains, DomainAt(m, respect, c)), read \cup {c})
<1> DEFINE d == DomainAt(m, respect, c)
           more == Append(domains, d)
           len == Len(domains)
<1>1. /\ d \in [system : Nat, cpus : SUBSET Nat] /\ d.system # 0 /\ d.cpus = Share(m, respect, c)
      /\ \A x \in d.cpus : SystemNodeOf(m, x) = d.system
  BY DomainIs
<1> HIDE DEF d
<1>2. domains \in DomainLists /\ len \in Nat /\ DOMAIN domains = 1 .. len
  BY DEF DomainsOf, DomainLists
<1>3. /\ more \in DomainLists /\ DOMAIN more = 1 .. (len + 1) /\ more[len + 1] = d
      /\ \A n \in 1 .. len : more[n] = domains[n]
  BY <1>1, <1>2 DEF DomainLists
<1> HIDE DEF more, len
<1>4. \A n \in DOMAIN more : n \in 1 .. len \/ n = len + 1
  BY <1>2, <1>3
<1>5. ASSUME NEW n \in DOMAIN more
      PROVE  /\ more[n].system # 0 /\ more[n].cpus # {}
             /\ \E b \in read \cup {c} : more[n].cpus = Share(m, respect, b)
             /\ \A x \in more[n].cpus : SystemNodeOf(m, x) = more[n].system
  <2>1. CASE n \in 1 .. len
    BY <1>2, <1>3, <2>1 DEF DomainsOf
  <2>2. CASE n = len + 1
    BY <1>1, <1>3, <2>2
  <2> QED
    BY <1>4, <2>1, <2>2
<1>6. ASSUME NEW b \in read \cup {c}, Share(m, respect, b) # {}
      PROVE  \E n \in DOMAIN more : more[n].cpus = Share(m, respect, b)
  <2>1. CASE b = c
    <3>1. len + 1 \in DOMAIN more
      BY <1>2, <1>3
    <3> QED
      BY <1>1, <1>3, <2>1, <3>1
  <2>2. CASE b # c
    <3>1. PICK n \in DOMAIN domains : domains[n].cpus = Share(m, respect, b)
      BY <1>6, <2>2 DEF DomainsOf
    <3>2. n \in DOMAIN more /\ more[n] = domains[n]
      BY <1>2, <1>3
    <3> QED
      BY <3>1, <3>2
  <2> QED
    BY <2>1, <2>2
<1>7. ASSUME NEW n \in 1 .. len PROVE more[n].cpus \cap more[len + 1].cpus = {}
  <2>1. PICK b \in read : domains[n].cpus = Share(m, respect, b)
    BY <1>2 DEF DomainsOf
  <2>2. m.l3[c] \cap m.l3[b] = {}
    OBVIOUS
  <2> QED
    BY <1>1, <1>3, <2>1, <2>2 DEF Share
<1>8. \A n, k \in 1 .. len : n # k => more[n].cpus \cap more[k].cpus = {}
  BY <1>2, <1>3 DEF DomainsOf
<1>9. \A n, k \in DOMAIN more : n # k => more[n].cpus \cap more[k].cpus = {}
  BY <1>4, <1>7, <1>8
<1> QED
  BY <1>3, <1>5, <1>6, <1>9 DEF DomainsOf, more, d

\* One processor more.
LEMMA ScanGoesOn ==
    ASSUME NEW m, IsMachine(m), NEW respect, NEW size \in Nat, NEW k \in 1 .. size, NEW scan,
           Scanned(m, respect, scan, k - 1, size)
    PROVE  Scanned(m, respect, L3Step(m, respect, scan, k - 1), k, size)
<1> DEFINE c == k - 1
           r == L3Step(m, respect, scan, c)
           read == Read(m, k - 1)
<1>1. /\ scan \in Scans /\ scan.end \in Nat /\ c \in Nat /\ c < size
      /\ scan.seen \in SUBSET Nat /\ scan.domains \in DomainLists
  BY ScansAre DEF Scanned
<1>2. read \subseteq DOMAIN m.l3 /\ \A b \in read : b \in 0 .. (c - 1)
  BY DEF Read
<1>3. Read(m, k) = IF 0 .. c \subseteq DOMAIN m.l3 THEN read \cup {c} ELSE read
  <2>1. ASSUME NEW b PROVE b \in Read(m, k) <=> b \in read \/ (b = c /\ 0 .. c \subseteq DOMAIN m.l3)
    BY DEF Read
  <2> QED
    BY <2>1
<1>4. /\ \/ scan.end = size /\ 0 .. (c - 1) \subseteq DOMAIN m.l3
         \/ scan.end < c /\ scan.end \notin DOMAIN m.l3
      /\ \A x : x \in scan.seen <=> \E b \in read : x \in m.l3[b]
      /\ DomainsOf(m, respect, scan.domains, read)
  BY DEF Scanned
<1>5. \A b \in DOMAIN m.l3 : b \in m.l3[b] /\ \A x \in m.l3[b] : x \in DOMAIN m.l3 /\ m.l3[x] = m.l3[b]
  BY DEF IsMachine
<1> HIDE DEF c, read
<1>6. CASE scan.end < c
  <2>1. scan.end \in 0 .. c /\ scan.end \notin DOMAIN m.l3
    BY <1>1, <1>4, <1>6
  <2>2. Read(m, k) = read
    BY <1>3, <2>1
  <2>3. r = scan
    BY <1>1, <1>6, L3StepIs
  <2>4. scan.end < k
    BY <1>1, <1>6 DEF c
  <2> QED
    BY <1>1, <1>4, <2>1, <2>2, <2>3, <2>4 DEF Scanned, c
<1>7. CASE ~(scan.end < c)
  <2>1. scan.end = size /\ 0 .. (c - 1) \subseteq DOMAIN m.l3 /\ ~(c > scan.end)
    BY <1>1, <1>4, <1>7
  <2>2. 0 .. c = 0 .. (c - 1) \cup {c}
    BY <1>1
  <2>3. CASE c \in scan.seen
    <3>1. PICK b \in read : c \in m.l3[b]
      BY <1>4, <2>3
    <3>2. c \in DOMAIN m.l3 /\ m.l3[c] = m.l3[b]
      BY <1>2, <1>5, <3>1
    <3>3. 0 .. c \subseteq DOMAIN m.l3 /\ Read(m, k) = read \cup {c}
      BY <1>3, <2>1, <2>2, <3>2
    <3>4. r = scan
      BY <1>1, <2>3, L3StepIs
    <3>5. \A x : x \in scan.seen <=> \E y \in Read(m, k) : x \in m.l3[y]
      BY <1>4, <3>1, <3>2, <3>3
    <3>6. Share(m, respect, c) = Share(m, respect, b)
      BY <3>2 DEF Share
    <3>7. DomainsOf(m, respect, scan.domains, Read(m, k))
      <4>1. \A y \in Read(m, k) : Share(m, respect, y) # {} =>
                \E n \in DOMAIN scan.domains : scan.domains[n].cpus = Share(m, respect, y)
        BY <1>4, <3>1, <3>3, <3>6 DEF DomainsOf
      <4>2. read \subseteq Read(m, k)
        BY <3>3
      <4> QED
        BY <1>4, <4>1, <4>2 DEF DomainsOf
    <3>8. 0 .. (k - 1) \subseteq DOMAIN m.l3
      BY <3>3 DEF c
    <3> QED
      BY <1>1, <2>1, <3>4, <3>5, <3>7, <3>8 DEF Scanned, c
  <2>4. CASE c \notin scan.seen /\ c \notin DOMAIN m.l3
    <3>1. r = Scan(c, scan.seen, scan.domains)
      BY <1>1, <2>1, <2>4, L3StepIs
    <3>2. r \in Scans /\ r.end = c /\ r.seen = scan.seen /\ r.domains = scan.domains
      BY <1>1, <3>1, ScansAre, ScanChanges
    <3>3. Read(m, k) = read
      BY <1>3, <2>2, <2>4
    <3>4. r.end < k
      BY <3>2 DEF c
    <3> HIDE DEF r
    <3>5. Scanned(m, respect, r, k, size)
      BY <1>4, <2>4, <3>2, <3>3, <3>4 DEF Scanned
    <3> QED
      BY <3>5 DEF r, c
  <2>5. CASE c \notin scan.seen /\ c \in DOMAIN m.l3
    <3> DEFINE domains == IF Share(m, respect, c) = {} THEN scan.domains
                          ELSE Append(scan.domains, DomainAt(m, respect, c))
               seen == scan.seen \cup m.l3[c]
    <3>1. r = Scan(scan.end, seen, domains)
      BY <1>1, <2>1, <2>5, L3StepIs
    <3>2. Read(m, k) = read \cup {c} /\ 0 .. c \subseteq DOMAIN m.l3
      BY <1>3, <2>1, <2>2, <2>5
    <3>3. ASSUME NEW b \in read PROVE m.l3[c] \cap m.l3[b] = {}
      <4>1. SUFFICES ASSUME NEW x \in m.l3[c], x \in m.l3[b] PROVE FALSE
        OBVIOUS
      <4>2. m.l3[x] = m.l3[c] /\ m.l3[x] = m.l3[b] /\ c \in m.l3[c]
        BY <1>2, <1>5, <2>5, <4>1
      <4>3. c \in m.l3[b]
        BY <4>2
      <4> QED
        BY <1>4, <2>5, <4>3
    <3>4. DomainsOf(m, respect, domains, read \cup {c})
      <4>1. CASE Share(m, respect, c) = {}
        BY <1>4, <4>1 DEF DomainsOf
      <4>2. CASE Share(m, respect, c) # {}
        <5>1. DomainsOf(m, respect, Append(scan.domains, DomainAt(m, respect, c)), read \cup {c})
          BY <1>2, <1>4, <2>5, <3>3, <4>2, DomainFound
        <5> QED
          BY <4>2, <5>1
      <4> QED
        BY <4>1, <4>2
    <3>5. domains \in DomainLists /\ seen \in SUBSET Nat
      <4>1. m.l3[c] \subseteq Nat
        BY <1>5, <2>5 DEF IsMachine
      <4> HIDE DEF domains
      <4>2. domains \in DomainLists
        BY <3>4 DEF DomainsOf
      <4> QED
        BY <1>1, <4>1, <4>2
    <3>6. \A x : x \in seen <=> \E y \in Read(m, k) : x \in m.l3[y]
      BY <1>4, <3>2
    <3> HIDE DEF domains, seen
    <3>7. r \in Scans /\ r.end = scan.end /\ r.seen = seen /\ r.domains = domains
      BY <1>1, <3>1, <3>5, ScansAre, ScanChanges
    <3>8. 0 .. (k - 1) \subseteq DOMAIN m.l3
      BY <3>2 DEF c
    <3> HIDE DEF r
    <3>9. Scanned(m, respect, r, k, size)
      BY <2>1, <3>2, <3>4, <3>6, <3>7, <3>8 DEF Scanned
    <3> QED
      BY <3>9 DEF r, c
  <2> QED
    BY <2>3, <2>4, <2>5
<1> QED
  BY <1>6, <1>7

\* What the scan finds.
LEMMA DomainsFound ==
    ASSUME NEW m, IsMachine(m), NEW respect
    PROVE  DomainsOf(m, respect, L3Scan(m, respect), Read(m, Max(m.cpus) + 1))
<1> DEFINE size == Max(m.cpus) + 1
           D == Scans
           base == [end |-> size, seen |-> {}, domains |-> <<>>]
           places == [k \in 1 .. size |-> k - 1]
           Iter(w) == w = [s \in SUBSET (1 .. size) |->
                             IF s = {} THEN base ELSE L3Step(m, respect, w[s \ {Max(s)}], places[Max(s)])]
           step == [p \in D \X (1 .. size) |-> L3Step(m, respect, p[1], places[p[2]])]
           iter == CHOOSE w : Iter(w)
<1>1. size \in Nat
  <2>1. m.cpus \in SUBSET Nat /\ m.cpus # {} /\ IsFiniteSet(m.cpus)
    BY DEF IsMachine
  <2>2. Max(m.cpus) \in m.cpus
    BY <2>1, LargestOf
  <2> QED
    BY <2>1, <2>2
<1>2. base \in D /\ base = Scan(size, {}, <<>>)
  BY <1>1 DEF Scans, Scan, DomainLists
<1>3. DOMAIN places = 1 .. size /\ \A k \in 1 .. size : places[k] = k - 1
  OBVIOUS
<1> HIDE DEF size, places, base
<1>4. \A scan \in D, k \in 1 .. size : L3Step(m, respect, scan, places[k]) \in D
  <2> SUFFICES ASSUME NEW scan \in D, NEW k \in 1 .. size PROVE L3Step(m, respect, scan, places[k]) \in D
    OBVIOUS
  <2> DEFINE c == places[k]
  <2>1. c \in Nat /\ scan.end \in Nat /\ scan.seen \in SUBSET Nat /\ scan.domains \in DomainLists
    BY <1>3, ScansAre
  <2> HIDE DEF c
  <2> DEFINE r == L3Step(m, respect, scan, c)
             domains == IF Share(m, respect, c) = {} THEN scan.domains
                        ELSE Append(scan.domains, DomainAt(m, respect, c))
             seen == scan.seen \cup m.l3[c]
  <2>2. \/ r = scan
        \/ r = Scan(c, scan.seen, scan.domains)
        \/ c \in DOMAIN m.l3 /\ r = Scan(scan.end, seen, domains)
    <3> HIDE DEF r
    <3>1. r = IF c > scan.end \/ c \in scan.seen THEN scan
              ELSE IF c \notin DOMAIN m.l3 THEN Scan(c, scan.seen, scan.domains)
              ELSE Scan(scan.end, seen, domains)
      BY L3StepIs DEF r
    <3> HIDE DEF domains, seen
    <3> QED
      BY <3>1, Zenon
  <2>3. ASSUME c \in DOMAIN m.l3 PROVE seen \in SUBSET Nat /\ domains \in DomainLists
    <3>1. scan.seen \cup m.l3[c] \in SUBSET Nat
      BY <2>1, <2>3 DEF IsMachine
    <3>2. Share(m, respect, c) # {} => DomainAt(m, respect, c) \in [system : Nat, cpus : SUBSET Nat]
      BY <2>3, DomainIs
    <3>3. Share(m, respect, c) # {} => Append(scan.domains, DomainAt(m, respect, c)) \in DomainLists
      BY <2>1, <3>2 DEF DomainLists
    <3> QED
      BY <2>1, <3>1, <3>3
  <2> HIDE DEF r, domains, seen
  <2>4. r \in Scans
    <3>1. Scan(c, scan.seen, scan.domains) \in Scans
      BY <2>1, ScansAre
    <3>2. c \in DOMAIN m.l3 => Scan(scan.end, seen, domains) \in Scans
      BY <2>1, <2>3, ScansAre
    <3> QED
      BY <2>2, <3>1, <3>2, Zenon DEF D
  <2> QED
    BY <2>4 DEF r, c
<1>5. step \in [D \X (1 .. size) -> D]
  BY <1>4
<1>6. PICK w : FoldOn(w, D, base, size, step)
  <2> HIDE DEF step, D
  <2> QED
    BY <1>1, <1>2, <1>5, FoldExists, Zenon
<1>7. ASSUME NEW s \in SUBSET (1 .. size), s # {}
      PROVE  step[<<w[s \ {Max(s)}], Max(s)>>] = L3Step(m, respect, w[s \ {Max(s)}], places[Max(s)])
  <2>1. Max(s) \in 1 .. size /\ w[s \ {Max(s)}] \in D
    BY <1>1, <1>6, <1>7, MaxOf DEF FoldOn
  <2> HIDE DEF D
  <2> QED
    BY <2>1
<1>8. Iter(w)
  <2> HIDE DEF step
  <2> QED
    BY <1>6, <1>7 DEF FoldOn
<1>9. Iter(iter)
  BY <1>8
<1> HIDE DEF iter
<1>10. L3Scan(m, respect) = iter[1 .. size].domains
  BY <1>3 DEF L3Scan, FoldLeft, MapThenFoldSet, iter, base, places, size
<1>11. iter[1 .. 0] = base
  BY <1>9
<1>12. ASSUME NEW k \in 1 .. size PROVE iter[1 .. k] = L3Step(m, respect, iter[1 .. (k - 1)], k - 1)
  <2>1. 1 .. k \in SUBSET (1 .. size) /\ 1 .. k # {} /\ Max(1 .. k) = k /\ (1 .. k) \ {Max(1 .. k)} = 1 .. (k - 1)
    BY <1>1, Places
  <2> QED
    BY <1>3, <1>9, <2>1
<1> DEFINE S == {k \in 0 .. size : Scanned(m, respect, iter[1 .. k], k, size)}
<1>13. 0 \in S
  <2>1. base.end = size /\ base.seen = {} /\ base.domains = <<>>
    BY <1>2, ScanChanges
  <2>2. Read(m, 0) = {}
    BY DEF Read
  <2>3. DomainsOf(m, respect, <<>>, Read(m, 0))
    BY <2>2 DEF DomainsOf, DomainLists
  <2>4. Scanned(m, respect, base, 0, size)
    BY <1>2, <2>1, <2>2, <2>3 DEF Scanned
  <2> QED
    BY <1>1, <1>11, <2>4
<1>14. ASSUME NEW k \in 1 .. size, k - 1 \in S PROVE k \in S
  BY <1>1, <1>12, <1>14, ScanGoesOn
<1>15. 0 .. size \subseteq S
  <2> HIDE DEF S
  <2> QED
    BY <1>1, <1>13, <1>14, UpTo
<1>16. Scanned(m, respect, iter[1 .. size], size, size)
  BY <1>1, <1>15
<1> QED
  BY <1>10, <1>16 DEF Scanned, size

-----------------------------------------------------------------------------
(* The merging of neighbours.                                              *)

\* What a node made of caches is: it has caches as a whole, and more than one
\* of them only if it is no larger than a bundle.
IsBundle(b, caches) ==
    /\ b \in SUBSET Nat /\ IsFiniteSet(b) /\ b # {}
    /\ \A d \in caches : d \subseteq b \/ d \cap b = {}
    /\ Cardinality(b) > BundleSize => b \in caches

BundlesOf(sets, caches, cpus) ==
    /\ sets \in Sets /\ Apart(sets) /\ UNION Range(sets) = cpus
    /\ \A n \in DOMAIN sets : IsBundle(sets[n], caches)

\* No two neighbours would fit into one bundle.
NoFit(sets) ==
    \A n \in 1 .. (Len(sets) - 1) : Cardinality(sets[n]) + Cardinality(sets[n + 1]) > BundleSize

Passes == [left : Nat, done : Sets]

\* A pass over sets after k of them.
Merging(pass, sets, caches, k) ==
    /\ pass \in Passes /\ pass.left <= Len(pass.done) /\ Len(pass.done) <= k
    /\ Apart(pass.done) /\ \A n \in DOMAIN pass.done : IsBundle(pass.done[n], caches)
    /\ \A x : (\E n \in DOMAIN pass.done : x \in pass.done[n]) <=> \E j \in 1 .. k : x \in sets[j]
    /\ Len(pass.done) = k =>
           /\ pass.left = 0 /\ \A j \in 1 .. k : pass.done[j] = sets[j]
           /\ \A j \in 1 .. (k - 1) : Cardinality(sets[j]) + Cardinality(sets[j + 1]) > BundleSize
    /\ NoFit(sets) => Len(pass.done) = k

LEMMA PassesAre ==
    /\ \A left \in Nat, done \in Sets :
           LET pass == [left |-> left, done |-> done]
           IN  pass \in Passes /\ pass.left = left /\ pass.done = done
    /\ \A pass \in Passes : pass.left \in Nat /\ pass.done \in Sets /\ Len(pass.done) \in Nat
                            /\ DOMAIN pass.done = 1 .. Len(pass.done)
                            /\ \A n \in DOMAIN pass.done : pass.done[n] \in SUBSET Nat
BY DEF Passes, Sets

LEMMA MergeStepIs ==
    ASSUME NEW pass \in Passes, NEW cpus \in SUBSET Nat
    PROVE  LET last == Len(pass.done)
               r == MergeStep(pass, cpus)
           IN  /\ r \in Passes
               /\ \/ /\ pass.left < last /\ Cardinality(pass.done[last]) + Cardinality(cpus) <= BundleSize
                     /\ r.left = last /\ Len(r.done) = last /\ r.done[last] = pass.done[last] \cup cpus
                     /\ \A n \in 1 .. (last - 1) : r.done[n] = pass.done[n]
                  \/ /\ ~(pass.left < last /\ Cardinality(pass.done[last]) + Cardinality(cpus) <= BundleSize)
                     /\ r.left = pass.left /\ Len(r.done) = last + 1 /\ r.done[last + 1] = cpus
                     /\ \A n \in 1 .. last : r.done[n] = pass.done[n]
<1> DEFINE last == Len(pass.done)
           r == MergeStep(pass, cpus)
           fits == pass.left < last /\ Cardinality(pass.done[last]) + Cardinality(cpus) <= BundleSize
           merged == [pass.done EXCEPT ![last] = pass.done[last] \cup cpus]
           more == Append(pass.done, cpus)
<1>1. /\ pass.left \in Nat /\ pass.done \in Sets /\ last \in Nat /\ DOMAIN pass.done = 1 .. last
      /\ \A n \in 1 .. last : pass.done[n] \in SUBSET Nat
  BY PassesAre
<1>2. r = IF fits THEN [left |-> last, done |-> merged] ELSE [left |-> pass.left, done |-> more]
  BY Zenon DEF MergeStep
<1>3. /\ more \in Sets /\ Len(more) = last + 1 /\ more[last + 1] = cpus
      /\ \A n \in 1 .. last : more[n] = pass.done[n]
  BY <1>1 DEF Sets
<1>4. CASE fits
  <2>1. last \in 1 .. last
    BY <1>1, <1>4
  <2>2. /\ merged \in Sets /\ Len(merged) = last /\ merged[last] = pass.done[last] \cup cpus
        /\ \A n \in 1 .. (last - 1) : merged[n] = pass.done[n]
    <3>1. pass.done[last] \cup cpus \in SUBSET Nat
      BY <1>1, <2>1
    <3> DEFINE v == pass.done[last] \cup cpus
    <3> HIDE DEF last, v
    <3> QED
      BY <1>1, <2>1, <3>1 DEF Sets, v, last
  <2>3. r = [left |-> last, done |-> merged]
    BY <1>2, <1>4
  <2> HIDE DEF r, merged
  <2>4. r \in Passes /\ r.left = last /\ r.done = merged
    BY <1>1, <2>2, <2>3, PassesAre
  <2> QED
    BY <1>4, <2>2, <2>4 DEF r
<1>5. CASE ~fits
  <2>1. r = [left |-> pass.left, done |-> more]
    BY <1>2, <1>5
  <2> HIDE DEF r, more
  <2>2. r \in Passes /\ r.left = pass.left /\ r.done = more
    BY <1>1, <1>3, <2>1, PassesAre
  <2> QED
    BY <1>3, <1>5, <2>2 DEF r
<1> QED
  BY <1>4, <1>5

\* Two bundles that fit are one.
LEMMA BundlesFit ==
    ASSUME NEW caches, NEW b, NEW c, IsBundle(b, caches), IsBundle(c, caches),
           Cardinality(b) + Cardinality(c) <= BundleSize
    PROVE  IsBundle(b \cup c, caches)
<1>1. IsFiniteSet(b) /\ IsFiniteSet(c) /\ b \in SUBSET Nat /\ c \in SUBSET Nat /\ b # {}
  BY DEF IsBundle
<1>2. /\ IsFiniteSet(b \cup c) /\ IsFiniteSet(b \cap c)
      /\ Cardinality(b \cup c) = Cardinality(b) + Cardinality(c) - Cardinality(b \cap c)
  BY <1>1, FS_Union, FS_Intersection
<1>3. Cardinality(b) \in Nat /\ Cardinality(c) \in Nat /\ Cardinality(b \cap c) \in Nat /\ BundleSize \in Nat
  BY <1>1, <1>2, FS_CardinalityType, NumaAssumption
<1>4. ~(Cardinality(b \cup c) > BundleSize)
  BY <1>2, <1>3
<1>5. \A d \in caches : d \subseteq (b \cup c) \/ d \cap (b \cup c) = {}
  BY DEF IsBundle
<1> QED
  BY <1>1, <1>2, <1>4, <1>5 DEF IsBundle

LEMMA MergeGoesOn ==
    ASSUME NEW sets \in Sets, NEW caches, NEW k \in 1 .. Len(sets), NEW pass,
           Apart(sets), \A n \in DOMAIN sets : IsBundle(sets[n], caches),
           Merging(pass, sets, caches, k - 1)
    PROVE  Merging(MergeStep(pass, sets[k]), sets, caches, k)
<1> DEFINE done == pass.done
           last == Len(done)
           r == MergeStep(pass, sets[k])
<1>1. /\ Len(sets) \in Nat /\ DOMAIN sets = 1 .. Len(sets) /\ sets[k] \in SUBSET Nat
      /\ IsBundle(sets[k], caches) /\ k \in Nat
  BY DEF Sets
<1>2. /\ pass \in Passes /\ pass.left \in Nat /\ done \in Sets /\ last \in Nat /\ DOMAIN done = 1 .. last
      /\ pass.left <= last /\ last <= k - 1
      /\ Apart(done) /\ \A n \in 1 .. last : IsBundle(done[n], caches)
      /\ \A x : (\E n \in 1 .. last : x \in done[n]) <=> \E j \in 1 .. (k - 1) : x \in sets[j]
      /\ last = k - 1 =>
            /\ pass.left = 0 /\ \A j \in 1 .. (k - 1) : done[j] = sets[j]
            /\ \A j \in 1 .. (k - 2) : Cardinality(sets[j]) + Cardinality(sets[j + 1]) > BundleSize
      /\ NoFit(sets) => last = k - 1
  <2>1. (k - 1) - 1 = k - 2
    BY <1>1
  <2>2. pass \in Passes
    BY DEF Merging
  <2>3. pass.left \in Nat /\ done \in Sets /\ last \in Nat /\ DOMAIN done = 1 .. last
    BY <2>2, PassesAre
  <2> QED
    BY <2>1, <2>2, <2>3 DEF Merging
<1>3. \A n \in 1 .. last : done[n] \cap sets[k] = {}
  <2> SUFFICES ASSUME NEW n \in 1 .. last, NEW x \in done[n], x \in sets[k] PROVE FALSE
    OBVIOUS
  <2>1. PICK j \in 1 .. (k - 1) : x \in sets[j]
    BY <1>2
  <2> QED
    BY <1>1, <2>1 DEF Apart
<1> DEFINE fits == pass.left < last /\ Cardinality(done[last]) + Cardinality(sets[k]) <= BundleSize
<1>4. /\ r \in Passes
      /\ \/ /\ fits /\ r.left = last /\ Len(r.done) = last /\ r.done[last] = done[last] \cup sets[k]
            /\ \A n \in 1 .. (last - 1) : r.done[n] = done[n]
         \/ /\ ~fits /\ r.left = pass.left /\ Len(r.done) = last + 1 /\ r.done[last + 1] = sets[k]
            /\ \A n \in 1 .. last : r.done[n] = done[n]
  BY <1>1, <1>2, MergeStepIs
<1>5. r.left \in Nat /\ DOMAIN r.done = 1 .. Len(r.done)
  BY <1>4, PassesAre
<1>6. \A j \in 1 .. last : last = k - 1 => Cardinality(done[last]) = Cardinality(sets[k - 1])
  BY <1>2
<1>7. \A n \in 1 .. k : Cardinality(sets[n]) \in Nat
  <2>1. \A n \in 1 .. k : n \in DOMAIN sets
    BY <1>1
  <2> QED
    BY <2>1, FS_CardinalityType DEF IsBundle
<1> HIDE DEF done, last, r
<1>8. CASE fits
  <2>1. r.left = last /\ Len(r.done) = last /\ r.done[last] = done[last] \cup sets[k] /\ last \in 1 .. last
        /\ \A n \in 1 .. (last - 1) : r.done[n] = done[n]
    BY <1>2, <1>4, <1>8
  <2>2. \A n \in 1 .. last : n \in 1 .. (last - 1) \/ n = last
    BY <1>2
  <2>3. IsBundle(done[last] \cup sets[k], caches)
    BY <1>1, <1>2, <1>8, <2>1, BundlesFit
  <2>4. \A n \in DOMAIN r.done : IsBundle(r.done[n], caches)
    BY <1>2, <1>5, <2>1, <2>2, <2>3
  <2>5. Apart(r.done)
    <3>1. ASSUME NEW n \in 1 .. (last - 1) PROVE r.done[n] \cap r.done[last] = {}
      <4>1. n \in 1 .. last /\ n # last
        BY <1>2
      <4>2. done[n] \cap done[last] = {} /\ done[n] \cap sets[k] = {}
        BY <1>2, <1>3, <2>1, <4>1 DEF Apart
      <4> QED
        BY <2>1, <4>2
    <3>0. \A n \in 1 .. (last - 1) : n \in 1 .. last
      BY <1>2
    <3>2. \A n, j \in 1 .. (last - 1) : n # j => r.done[n] \cap r.done[j] = {}
      <4>1. \A n, j \in 1 .. last : n # j => done[n] \cap done[j] = {}
        BY <1>2 DEF Apart
      <4> QED
        BY <2>1, <3>0, <4>1
    <3> QED
      BY <1>5, <2>1, <2>2, <3>1, <3>2 DEF Apart
  <2>6. ASSUME NEW x PROVE (\E n \in DOMAIN r.done : x \in r.done[n]) <=> \E j \in 1 .. k : x \in sets[j]
    <3>1. (\E n \in DOMAIN r.done : x \in r.done[n]) <=> (\E n \in 1 .. last : x \in done[n]) \/ x \in sets[k]
      BY <1>5, <2>1, <2>2
    <3>2. \A j \in 1 .. k : j \in 1 .. (k - 1) \/ j = k
      BY <1>1
    <3>3. k \in 1 .. k /\ \A j \in 1 .. (k - 1) : j \in 1 .. k
      BY <1>1
    <3>4. (\E j \in 1 .. k : x \in sets[j]) <=> (\E j \in 1 .. (k - 1) : x \in sets[j]) \/ x \in sets[k]
      BY <3>2, <3>3
    <3> QED
      BY <1>2, <3>1, <3>4
  <2>7. ~NoFit(sets)
    <3> SUFFICES ASSUME NoFit(sets) PROVE FALSE
      OBVIOUS
    <3>1. last = k - 1
      BY <1>2
    <3>2. k - 1 \in 1 .. (Len(sets) - 1) /\ (k - 1) + 1 = k
      BY <1>1, <2>1, <3>1
    <3>3. Cardinality(sets[k - 1]) + Cardinality(sets[k]) > BundleSize
      BY <3>2 DEF NoFit
    <3>4. Cardinality(sets[k - 1]) + Cardinality(sets[k]) <= BundleSize
      BY <1>6, <1>8, <2>1, <3>1
    <3>5. Cardinality(sets[k - 1]) \in Nat /\ Cardinality(sets[k]) \in Nat /\ BundleSize \in Nat
      BY <1>1, <1>7, <2>1, <3>1, NumaAssumption
    <3> QED
      BY <3>3, <3>4, <3>5
  <2>8. r.left <= Len(r.done) /\ Len(r.done) <= k /\ Len(r.done) # k
    BY <1>1, <1>2, <2>1
  <2> QED
    <3>1. Merging(r, sets, caches, k)
      BY <1>4, <2>4, <2>5, <2>6, <2>7, <2>8 DEF Merging
    <3> QED
      BY <3>1 DEF r
<1>9. CASE ~fits
  <2>1. r.left = pass.left /\ Len(r.done) = last + 1 /\ r.done[last + 1] = sets[k]
        /\ \A n \in 1 .. last : r.done[n] = done[n]
    BY <1>4, <1>9
  <2>2. \A n \in 1 .. (last + 1) : n \in 1 .. last \/ n = last + 1
    BY <1>2
  <2>3. \A n \in DOMAIN r.done : IsBundle(r.done[n], caches)
    BY <1>1, <1>2, <1>5, <2>1, <2>2
  <2>4. Apart(r.done)
    <3>1. \A n \in 1 .. last : r.done[n] \cap r.done[last + 1] = {}
      BY <1>3, <2>1
    <3>2. \A n, j \in 1 .. last : n # j => r.done[n] \cap r.done[j] = {}
      BY <1>2, <2>1 DEF Apart
    <3> QED
      BY <1>5, <2>1, <2>2, <3>1, <3>2 DEF Apart
  <2>5. ASSUME NEW x PROVE (\E n \in DOMAIN r.done : x \in r.done[n]) <=> \E j \in 1 .. k : x \in sets[j]
    <3>0. last + 1 \in 1 .. (last + 1) /\ \A n \in 1 .. last : n \in 1 .. (last + 1)
      BY <1>2
    <3>1. (\E n \in DOMAIN r.done : x \in r.done[n]) <=> (\E n \in 1 .. last : x \in done[n]) \/ x \in sets[k]
      BY <1>5, <2>1, <2>2, <3>0
    <3>2. \A j \in 1 .. k : j \in 1 .. (k - 1) \/ j = k
      BY <1>1
    <3>3. k \in 1 .. k /\ \A j \in 1 .. (k - 1) : j \in 1 .. k
      BY <1>1
    <3>4. (\E j \in 1 .. k : x \in sets[j]) <=> (\E j \in 1 .. (k - 1) : x \in sets[j]) \/ x \in sets[k]
      BY <3>2, <3>3
    <3> QED
      BY <1>2, <3>1, <3>4
  <2>6. ASSUME last + 1 = k
        PROVE  /\ r.left = 0 /\ \A j \in 1 .. k : r.done[j] = sets[j]
               /\ \A j \in 1 .. (k - 1) : Cardinality(sets[j]) + Cardinality(sets[j + 1]) > BundleSize
    <3>1. last = k - 1 /\ pass.left = 0
      BY <1>1, <1>2, <2>6
    <3>2. \A j \in 1 .. k : r.done[j] = sets[j]
      BY <1>1, <1>2, <2>1, <2>2, <2>6, <3>1
    <3>3. ASSUME NEW j \in 1 .. (k - 1) PROVE Cardinality(sets[j]) + Cardinality(sets[j + 1]) > BundleSize
      <4>1. CASE j = k - 1
        <5>1. last \in 1 .. last /\ 0 < last /\ j + 1 = k
          BY <1>1, <1>2, <3>1, <4>1
        <5>2. ~(Cardinality(done[last]) + Cardinality(sets[k]) <= BundleSize)
          BY <1>9, <3>1, <5>1
        <5>3. ~(Cardinality(sets[j]) + Cardinality(sets[j + 1]) <= BundleSize)
          BY <1>6, <3>1, <4>1, <5>1, <5>2
        <5>4. j \in 1 .. k /\ j + 1 \in 1 .. k
          BY <1>1, <5>1
        <5>5. Cardinality(sets[j]) \in Nat /\ Cardinality(sets[j + 1]) \in Nat /\ BundleSize \in Nat
          BY <1>7, <5>4, NumaAssumption
        <5> QED
          BY <5>3, <5>5
      <4>2. CASE j # k - 1
        <5>1. j \in 1 .. (k - 2)
          BY <1>1, <4>2
        <5> QED
          BY <1>2, <3>1, <5>1
      <4> QED
        BY <4>1, <4>2
    <3> QED
      BY <2>1, <3>1, <3>2, <3>3
  <2>7. r.left <= Len(r.done) /\ Len(r.done) <= k /\ (NoFit(sets) => Len(r.done) = k)
    BY <1>1, <1>2, <2>1
  <2>8. Len(r.done) = k => last + 1 = k
    BY <2>1
  <2> QED
    <3>1. Merging(r, sets, caches, k)
      BY <1>4, <2>3, <2>4, <2>5, <2>6, <2>7, <2>8 DEF Merging
    <3> QED
      BY <3>1 DEF r
<1> QED
  BY <1>8, <1>9

\* What a pass makes of the sets: it merges neighbours, or none would fit.
LEMMA PassMade ==
    ASSUME NEW sets, NEW caches, NEW cpus, BundlesOf(sets, caches, cpus)
    PROVE  LET r == MergePass(sets)
           IN  /\ BundlesOf(r, caches, cpus)
               /\ Len(r) < Len(sets) \/ (r = sets /\ NoFit(sets))
               /\ NoFit(sets) => r = sets
<1> DEFINE size == Len(sets)
           base == [left |-> 0, done |-> <<>>]
           Iter(w) == w = [s \in SUBSET (1 .. size) |->
                             IF s = {} THEN base ELSE MergeStep(w[s \ {Max(s)}], sets[Max(s)])]
           step == [p \in Passes \X (1 .. size) |-> MergeStep(p[1], sets[p[2]])]
           iter == CHOOSE w : Iter(w)
<1>1. /\ sets \in Sets /\ size \in Nat /\ DOMAIN sets = 1 .. size /\ \A n \in 1 .. size : sets[n] \in SUBSET Nat
      /\ Apart(sets) /\ \A n \in DOMAIN sets : IsBundle(sets[n], caches)
  BY DEF Sets, BundlesOf
<1>2. base \in Passes /\ base.left = 0 /\ base.done = <<>>
  <2>1. 0 \in Nat /\ <<>> \in Sets
    BY DEF Sets
  <2> QED
    BY <2>1, PassesAre
<1> HIDE DEF size, base
<1>3. step \in [Passes \X (1 .. size) -> Passes]
  <2>1. \A pass \in Passes, n \in 1 .. size : MergeStep(pass, sets[n]) \in Passes
    BY <1>1, MergeStepIs
  <2> QED
    BY <2>1
<1>4. PICK w : FoldOn(w, Passes, base, size, step)
  <2> HIDE DEF step
  <2> QED
    BY <1>1, <1>2, <1>3, FoldExists, Zenon
<1>5. ASSUME NEW s \in SUBSET (1 .. size), s # {}
      PROVE  step[<<w[s \ {Max(s)}], Max(s)>>] = MergeStep(w[s \ {Max(s)}], sets[Max(s)])
  <2>1. Max(s) \in 1 .. size /\ w[s \ {Max(s)}] \in Passes
    BY <1>1, <1>4, <1>5, MaxOf DEF FoldOn
  <2> QED
    BY <2>1
<1>6. Iter(w)
  <2> HIDE DEF step
  <2> QED
    BY <1>4, <1>5 DEF FoldOn
<1>7. Iter(iter)
  BY <1>6
<1> HIDE DEF iter
<1>8. MergePass(sets) = iter[1 .. size].done
  BY <1>1 DEF MergePass, FoldLeft, MapThenFoldSet, iter, base, size
<1>9. iter[1 .. 0] = base
  BY <1>7
<1>10. ASSUME NEW k \in 1 .. size PROVE iter[1 .. k] = MergeStep(iter[1 .. (k - 1)], sets[k])
  <2>1. 1 .. k \in SUBSET (1 .. size) /\ 1 .. k # {} /\ Max(1 .. k) = k /\ (1 .. k) \ {Max(1 .. k)} = 1 .. (k - 1)
    BY <1>1, Places
  <2> QED
    BY <1>7, <2>1
<1> DEFINE S == {k \in 0 .. size : Merging(iter[1 .. k], sets, caches, k)}
<1>11. 0 \in S
  <2>1. Len(base.done) = 0 /\ DOMAIN base.done = {} /\ base.left <= 0
    BY <1>2
  <2>2. Merging(base, sets, caches, 0)
    BY <1>2, <2>1 DEF Merging, Apart
  <2> QED
    BY <1>1, <1>9, <2>2
<1>12. ASSUME NEW k \in 1 .. size, k - 1 \in S PROVE k \in S
  <2>1. Merging(iter[1 .. (k - 1)], sets, caches, k - 1) /\ k \in 1 .. Len(sets)
    BY <1>12 DEF size
  <2>2. Merging(MergeStep(iter[1 .. (k - 1)], sets[k]), sets, caches, k)
    BY <1>1, <2>1, MergeGoesOn
  <2> QED
    BY <1>1, <1>10, <2>2
<1>13. 0 .. size \subseteq S
  <2> HIDE DEF S
  <2> QED
    BY <1>1, <1>11, <1>12, UpTo
<1> DEFINE r == iter[1 .. size].done
<1>14. Merging(iter[1 .. size], sets, caches, size)
  BY <1>1, <1>13
<1>15. /\ r \in Sets /\ Len(r) \in Nat /\ DOMAIN r = 1 .. Len(r) /\ Len(r) <= size
       /\ Apart(r) /\ \A n \in DOMAIN r : IsBundle(r[n], caches)
       /\ \A x : (\E n \in DOMAIN r : x \in r[n]) <=> \E j \in 1 .. size : x \in sets[j]
       /\ Len(r) = size =>
             /\ \A j \in 1 .. size : r[j] = sets[j]
             /\ \A j \in 1 .. (size - 1) : Cardinality(sets[j]) + Cardinality(sets[j + 1]) > BundleSize
       /\ NoFit(sets) => Len(r) = size
  BY <1>14, PassesAre DEF Merging
<1> HIDE DEF r
<1>16. UNION Range(r) = cpus
  <2>1. UNION Range(sets) = cpus
    BY DEF BundlesOf
  <2>2. \A x : x \in UNION Range(sets) <=> \E j \in 1 .. size : x \in sets[j]
    BY <1>1 DEF Range
  <2>3. \A x : x \in UNION Range(r) <=> \E n \in DOMAIN r : x \in r[n]
    BY DEF Range
  <2> QED
    BY <1>15, <2>1, <2>2, <2>3
<1>17. ASSUME Len(r) = size PROVE r = sets /\ NoFit(sets)
  <2>1. \A j \in 1 .. size : r[j] = sets[j]
    BY <1>15, <1>17
  <2>2. r = sets
    BY <1>1, <1>15, <1>17, <2>1 DEF Sets, size
  <2> QED
    BY <1>15, <1>17, <2>2 DEF NoFit, size
<1>18. BundlesOf(r, caches, cpus)
  BY <1>15, <1>16 DEF BundlesOf
<1>19. Len(r) < size \/ Len(r) = size
  <2>1. Len(r) \in Nat /\ Len(r) <= size
    BY <1>15
  <2> QED
    BY <1>1, <2>1
<1> QED
  BY <1>8, <1>15, <1>17, <1>18, <1>19 DEF r, size

\* After as many passes as there were domains no neighbours would fit.
LEMMA AllMerged ==
    ASSUME NEW sets, NEW caches, NEW cpus, BundlesOf(sets, caches, cpus)
    PROVE  BundlesOf(Merged(sets), caches, cpus) /\ NoFit(Merged(sets))
<1> DEFINE size == Len(sets)
           D == {some \in Sets : BundlesOf(some, caches, cpus)}
           Iter(w) == w = [s \in SUBSET (1 .. size) |->
                             IF s = {} THEN sets ELSE MergePass(w[s \ {Max(s)}])]
           step == [p \in D \X (1 .. size) |-> MergePass(p[1])]
           iter == CHOOSE w : Iter(w)
<1>1. sets \in Sets /\ size \in Nat /\ DOMAIN sets = 1 .. size /\ sets \in D
  BY DEF Sets, BundlesOf
<1> HIDE DEF size
<1>2. step \in [D \X (1 .. size) -> D]
  <2>1. ASSUME NEW some \in D PROVE MergePass(some) \in D
    <3>1. BundlesOf(MergePass(some), caches, cpus)
      BY PassMade
    <3> QED
      BY <3>1 DEF BundlesOf
  <2> HIDE DEF D
  <2> QED
    BY <2>1
<1>3. PICK w : FoldOn(w, D, sets, size, step)
  <2> HIDE DEF step, D
  <2> QED
    BY <1>1, <1>2, FoldExists, Zenon
<1>4. ASSUME NEW s \in SUBSET (1 .. size), s # {}
      PROVE  step[<<w[s \ {Max(s)}], Max(s)>>] = MergePass(w[s \ {Max(s)}])
  <2>1. Max(s) \in 1 .. size /\ w[s \ {Max(s)}] \in D
    <3> HIDE DEF D
    <3> QED
      BY <1>1, <1>3, <1>4, MaxOf DEF FoldOn
  <2> HIDE DEF D
  <2> QED
    BY <2>1
<1>5. Iter(w)
  <2> HIDE DEF step, D
  <2> QED
    BY <1>3, <1>4 DEF FoldOn
<1>6. Iter(iter)
  BY <1>5
<1> HIDE DEF iter
<1>7. Merged(sets) = iter[1 .. size]
  BY <1>1 DEF Merged, FoldLeft, MapThenFoldSet, iter, size
<1>8. iter[1 .. 0] = sets
  BY <1>6
<1>9. ASSUME NEW k \in 1 .. size PROVE iter[1 .. k] = MergePass(iter[1 .. (k - 1)])
  <2>1. 1 .. k \in SUBSET (1 .. size) /\ 1 .. k # {} /\ Max(1 .. k) = k /\ (1 .. k) \ {Max(1 .. k)} = 1 .. (k - 1)
    BY <1>1, Places
  <2> QED
    BY <1>6, <2>1
<1> DEFINE S == {k \in 0 .. size : /\ BundlesOf(iter[1 .. k], caches, cpus)
                                   /\ Len(iter[1 .. k]) <= size - k \/ NoFit(iter[1 .. k])}
<1>10. 0 \in S
  BY <1>1, <1>8 DEF size
<1>11. ASSUME NEW k \in 1 .. size, k - 1 \in S PROVE k \in S
  <2> DEFINE some == iter[1 .. (k - 1)]
             r == MergePass(some)
  <2>1. BundlesOf(some, caches, cpus) /\ (Len(some) <= size - (k - 1) \/ NoFit(some))
    BY <1>11
  <2> HIDE DEF some
  <2>2. /\ BundlesOf(r, caches, cpus) /\ (Len(r) < Len(some) \/ (r = some /\ NoFit(some)))
        /\ NoFit(some) => r = some
    BY <2>1, PassMade
  <2>3. iter[1 .. k] = r
    BY <1>9 DEF some
  <2> HIDE DEF r
  <2>4. Len(r) \in Nat /\ Len(some) \in Nat
    BY <2>1, <2>2 DEF BundlesOf, Sets
  <2>5. Len(r) <= size - k \/ NoFit(r)
    <3>1. CASE NoFit(some)
      BY <2>2, <3>1
    <3>2. CASE ~NoFit(some)
      BY <1>1, <2>1, <2>2, <2>4, <3>2
    <3> QED
      BY <3>1, <3>2
  <2> QED
    BY <2>2, <2>3, <2>5
<1>12. 0 .. size \subseteq S
  <2> HIDE DEF S
  <2> QED
    BY <1>1, <1>10, <1>11, UpTo
<1> DEFINE r == iter[1 .. size]
<1>13. BundlesOf(r, caches, cpus) /\ (Len(r) <= size - size \/ NoFit(r))
  BY <1>1, <1>12
<1> HIDE DEF r
<1>14. Len(r) <= 0 => NoFit(r)
  <2>1. Len(r) \in Nat
    BY <1>13 DEF BundlesOf, Sets
  <2> QED
    BY <2>1 DEF NoFit
<1>15. NoFit(r)
  <2>1. size - size = 0
    BY <1>1
  <2> QED
    BY <1>13, <1>14, <2>1
<1> QED
  BY <1>7, <1>13, <1>15 DEF r

-----------------------------------------------------------------------------
(* The bundles of the system nodes.                                        *)

CachesOf(domains) == {domains[d].cpus : d \in DOMAIN domains}
OfNode(domains, s, x) == \E d \in DOMAIN domains : domains[d].system = s /\ x \in domains[d].cpus

LEMMA DomainsAre ==
    ASSUME NEW m, IsMachine(m), NEW respect, NEW domains, NEW read, DomainsOf(m, respect, domains, read)
    PROVE  /\ domains \in DomainLists /\ DOMAIN domains = 1 .. Len(domains) /\ Len(domains) \in Nat
           /\ \A d \in DOMAIN domains :
                 /\ domains[d].system \in Nat \ {0} /\ domains[d].cpus \in SUBSET Nat
                 /\ IsFiniteSet(domains[d].cpus) /\ domains[d].cpus # {}
                 /\ \A x \in domains[d].cpus : SystemNodeOf(m, x) = domains[d].system
           /\ \A d, e \in DOMAIN domains : d # e => domains[d].cpus \cap domains[e].cpus = {}
<1>1. domains \in DomainLists /\ DOMAIN domains = 1 .. Len(domains) /\ Len(domains) \in Nat
  BY DEF DomainsOf, DomainLists
<1>2. ASSUME NEW d \in DOMAIN domains
      PROVE  /\ domains[d].system \in Nat \ {0} /\ domains[d].cpus \in SUBSET Nat
             /\ IsFiniteSet(domains[d].cpus) /\ domains[d].cpus # {}
             /\ \A x \in domains[d].cpus : SystemNodeOf(m, x) = domains[d].system
  <2>1. domains[d].system \in Nat /\ domains[d].cpus \in SUBSET Nat
    <3>1. domains[d] \in [system : Nat, cpus : SUBSET Nat]
      BY <1>1, ElementOfSeq DEF DomainLists
    <3> QED
      BY <3>1
  <2>2. /\ domains[d].system # 0 /\ domains[d].cpus # {}
        /\ \A x \in domains[d].cpus : SystemNodeOf(m, x) = domains[d].system
    BY DEF DomainsOf
  <2>3. PICK c \in read : domains[d].cpus = Share(m, respect, c)
    BY DEF DomainsOf
  <2>4. domains[d].cpus \in SUBSET Allowed(m, respect)
    BY <2>3 DEF Share
  <2>5. IsFiniteSet(domains[d].cpus)
    BY <2>4, AllowedAre, FS_Subset
  <2> QED
    BY <2>1, <2>2, <2>5
<1> QED
  BY <1>1, <1>2 DEF DomainsOf

\* The caches of a system node, each of them a bundle.
LEMMA SystemTaken ==
    ASSUME NEW m, IsMachine(m), NEW respect, NEW domains, NEW read, DomainsOf(m, respect, domains, read), NEW s
    PROVE  BundlesOf(OfSystem(domains, s), CachesOf(domains), {x \in Nat : OfNode(domains, s, x)})
<1> DEFINE all == [d \in DOMAIN domains |-> IF domains[d].system = s THEN domains[d].cpus ELSE {}]
           r == OfSystem(domains, s)
<1>1. /\ domains \in DomainLists /\ DOMAIN domains = 1 .. Len(domains) /\ Len(domains) \in Nat
      /\ \A d \in DOMAIN domains :
            /\ domains[d].system \in Nat \ {0} /\ domains[d].cpus \in SUBSET Nat
            /\ IsFiniteSet(domains[d].cpus) /\ domains[d].cpus # {}
      /\ \A d, e \in DOMAIN domains : d # e => domains[d].cpus \cap domains[e].cpus = {}
  BY DomainsAre
<1>2. /\ DOMAIN all = DOMAIN domains
      /\ \A d \in DOMAIN domains : all[d] = IF domains[d].system = s THEN domains[d].cpus ELSE {}
  OBVIOUS
<1>3. all \in Sets
  <2>1. \A d \in 1 .. Len(domains) : all[d] \in SUBSET Nat
    BY <1>1, <1>2
  <2>2. all = [d \in 1 .. Len(domains) |-> all[d]]
    BY <1>1
  <2> HIDE DEF all
  <2>3. all \in [1 .. Len(domains) -> SUBSET Nat]
    BY <2>1, <2>2
  <2> QED
    BY <1>1, <2>3 DEF Sets
<1>4. r = NonEmpty(all)
  BY DEF OfSystem
<1> HIDE DEF all, r
<1>5. Apart(all)
  BY <1>1, <1>2 DEF Apart
<1>6. r \in Sets /\ Range(r) = Range(all) \ {{}} /\ Apart(r)
  BY <1>3, <1>4, <1>5, EmptyRemoved
<1>7. \A b : b \in Range(r) <=> \E d \in DOMAIN domains : domains[d].system = s /\ b = domains[d].cpus
  BY <1>1, <1>2, <1>6 DEF Range
<1>8. UNION Range(r) = {x \in Nat : OfNode(domains, s, x)}
  BY <1>1, <1>7 DEF OfNode
<1>9. ASSUME NEW n \in DOMAIN r PROVE IsBundle(r[n], CachesOf(domains))
  <2>1. r[n] \in Range(r)
    BY DEF Range
  <2>2. PICK d \in DOMAIN domains : r[n] = domains[d].cpus
    BY <1>7, <2>1
  <2>3. \A e \in DOMAIN domains : domains[e].cpus \subseteq r[n] \/ domains[e].cpus \cap r[n] = {}
    BY <1>1, <2>2
  <2>4. r[n] \in CachesOf(domains)
    BY <2>2 DEF CachesOf
  <2> QED
    BY <1>1, <2>2, <2>3, <2>4 DEF IsBundle, CachesOf
<1> QED
  BY <1>6, <1>8, <1>9 DEF BundlesOf, r

\* The bundles of the system nodes up to k.
OfOneNode(m, cpus, s) == \A x \in cpus : SystemNodeOf(m, x) = s
Bundling(m, bundles, domains, k) ==
    /\ bundles \in Sets /\ Apart(bundles)
    /\ \A n \in DOMAIN bundles : IsBundle(bundles[n], CachesOf(domains))
    /\ \A x : (\E n \in DOMAIN bundles : x \in bundles[n]) <=> \E s \in 1 .. k : OfNode(domains, s, x)
    /\ \A n \in DOMAIN bundles : \E s \in 1 .. k : OfOneNode(m, bundles[n], s)
    /\ \A n \in 1 .. (Len(bundles) - 1) :
          (\E s : OfOneNode(m, bundles[n] \cup bundles[n + 1], s)) =>
             Cardinality(bundles[n]) + Cardinality(bundles[n + 1]) > BundleSize

LEMMA BundlingGoesOn ==
    ASSUME NEW m, IsMachine(m), NEW respect, NEW domains, NEW read, DomainsOf(m, respect, domains, read),
           NEW k \in Nat \ {0}, NEW bundles, Bundling(m, bundles, domains, k - 1)
    PROVE  Bundling(m, bundles \o Merged(OfSystem(domains, k)), domains, k)
<1> DEFINE new == Merged(OfSystem(domains, k))
           r == bundles \o new
           a == Len(bundles)
           b == Len(new)
           caches == CachesOf(domains)
           cpus == {x \in Nat : OfNode(domains, k, x)}
<1>1. BundlesOf(new, caches, cpus) /\ NoFit(new)
  BY SystemTaken, AllMerged
<1> HIDE DEF new
<1>2. /\ bundles \in Sets /\ a \in Nat /\ DOMAIN bundles = 1 .. a /\ Apart(bundles)
      /\ \A n \in 1 .. a : IsBundle(bundles[n], caches)
      /\ \A x : (\E n \in 1 .. a : x \in bundles[n]) <=> \E s \in 1 .. (k - 1) : OfNode(domains, s, x)
      /\ \A n \in 1 .. a : \E s \in 1 .. (k - 1) : OfOneNode(m, bundles[n], s)
      /\ \A n \in 1 .. (a - 1) :
            (\E s : OfOneNode(m, bundles[n] \cup bundles[n + 1], s)) =>
               Cardinality(bundles[n]) + Cardinality(bundles[n + 1]) > BundleSize
  BY DEF Bundling, Sets
<1>3. /\ new \in Sets /\ b \in Nat /\ DOMAIN new = 1 .. b /\ Apart(new)
      /\ \A n \in 1 .. b : IsBundle(new[n], caches)
      /\ \A x : (\E n \in 1 .. b : x \in new[n]) <=> x \in Nat /\ OfNode(domains, k, x)
  <2>1. new \in Sets /\ Apart(new) /\ UNION Range(new) = cpus /\ \A n \in DOMAIN new : IsBundle(new[n], caches)
    BY <1>1 DEF BundlesOf
  <2>2. b \in Nat /\ DOMAIN new = 1 .. b
    BY <2>1 DEF Sets
  <2>3. \A x : x \in UNION Range(new) <=> \E n \in 1 .. b : x \in new[n]
    BY <2>2 DEF Range
  <2> QED
    BY <2>1, <2>2, <2>3
<1>4. /\ r \in Sets /\ Len(r) = a + b /\ DOMAIN r = 1 .. (a + b)
      /\ \A n \in 1 .. a : r[n] = bundles[n]
      /\ \A n \in 1 .. b : r[a + n] = new[n]
  <2> HIDE DEF a, b
  <2> QED
    BY <1>2, <1>3 DEF Sets, a, b
<1>5. \A n \in 1 .. (a + b) : n \in 1 .. a \/ (n - a \in 1 .. b /\ n = a + (n - a))
  BY <1>2, <1>3
<1>6. \A n \in 1 .. a : n \in DOMAIN r
  BY <1>2, <1>3, <1>4
<1>7. \A n \in 1 .. b : a + n \in DOMAIN r
  BY <1>2, <1>3, <1>4
<1>8. \A x : OfNode(domains, k, x) => x \in Nat /\ SystemNodeOf(m, x) = k
  BY DomainsAre DEF OfNode
<1>9. \A n \in 1 .. b : OfOneNode(m, new[n], k)
  BY <1>3, <1>8 DEF OfOneNode
<1>10. \A n \in 1 .. a : bundles[n] # {} /\ \A x \in bundles[n] : SystemNodeOf(m, x) # k
  <2> SUFFICES ASSUME NEW n \in 1 .. a
               PROVE  bundles[n] # {} /\ \A x \in bundles[n] : SystemNodeOf(m, x) # k
    OBVIOUS
  <2>1. PICK s \in 1 .. (k - 1) : OfOneNode(m, bundles[n], s)
    BY <1>2
  <2>2. s # k
    OBVIOUS
  <2>3. bundles[n] # {}
    BY <1>2 DEF IsBundle
  <2> QED
    BY <2>1, <2>2, <2>3 DEF OfOneNode
<1>11. \A n \in 1 .. b : new[n] # {} /\ \A x \in new[n] : SystemNodeOf(m, x) = k
  BY <1>3, <1>9 DEF IsBundle, OfOneNode
<1> HIDE DEF r, a, b
<1>12. ASSUME NEW n \in DOMAIN r PROVE IsBundle(r[n], caches)
  <2>1. CASE n \in 1 .. a
    BY <1>2, <1>4, <2>1
  <2>2. CASE n \notin 1 .. a
    <3>1. n - a \in 1 .. b /\ n = a + (n - a)
      BY <1>4, <1>5, <2>2
    <3>2. r[n] = new[n - a]
      BY <1>4, <3>1
    <3> QED
      BY <1>3, <3>1, <3>2
  <2> QED
    BY <2>1, <2>2
<1>13. Apart(r)
  <2>1. \A n, j \in 1 .. a : n # j => r[n] \cap r[j] = {}
    BY <1>2, <1>4 DEF Apart
  <2>2. \A n, j \in 1 .. b : n # j => r[a + n] \cap r[a + j] = {}
    BY <1>3, <1>4 DEF Apart
  <2>3. \A n \in 1 .. a, j \in 1 .. b : r[n] \cap r[a + j] = {}
    BY <1>4, <1>10, <1>11
  <2>4. ASSUME NEW n \in DOMAIN r, NEW j \in DOMAIN r, n # j PROVE r[n] \cap r[j] = {}
    <3>1. CASE n \in 1 .. a /\ j \in 1 .. a
      BY <2>1, <2>4, <3>1
    <3>2. CASE n \in 1 .. a /\ j \notin 1 .. a
      BY <1>4, <1>5, <2>3, <3>2
    <3>3. CASE n \notin 1 .. a /\ j \in 1 .. a
      BY <1>4, <1>5, <2>3, <3>3
    <3>4. CASE n \notin 1 .. a /\ j \notin 1 .. a
      <4>1. n - a \in 1 .. b /\ j - a \in 1 .. b /\ n = a + (n - a) /\ j = a + (j - a)
        BY <1>4, <1>5, <3>4
      <4>2. n - a # j - a
        BY <2>4, <4>1
      <4> QED
        BY <2>2, <4>1, <4>2
    <3> QED
      BY <3>1, <3>2, <3>3, <3>4
  <2> QED
    BY <2>4 DEF Apart
<1>14. ASSUME NEW x PROVE (\E n \in DOMAIN r : x \in r[n]) <=> \E s \in 1 .. k : OfNode(domains, s, x)
  <2>1. (\E n \in DOMAIN r : x \in r[n]) <=> (\E n \in 1 .. a : x \in bundles[n]) \/ (\E n \in 1 .. b : x \in new[n])
    <3>1. ASSUME NEW n \in DOMAIN r, x \in r[n]
          PROVE  (\E j \in 1 .. a : x \in bundles[j]) \/ (\E j \in 1 .. b : x \in new[j])
      BY <1>4, <1>5, <3>1
    <3>2. ASSUME NEW n \in 1 .. a, x \in bundles[n] PROVE \E j \in DOMAIN r : x \in r[j]
      BY <1>4, <1>6, <3>2
    <3>3. ASSUME NEW n \in 1 .. b, x \in new[n] PROVE \E j \in DOMAIN r : x \in r[j]
      BY <1>4, <1>7, <3>3
    <3> QED
      BY <3>1, <3>2, <3>3
  <2>2. \A s \in 1 .. k : s \in 1 .. (k - 1) \/ s = k
    OBVIOUS
  <2>3. k \in 1 .. k /\ \A s \in 1 .. (k - 1) : s \in 1 .. k
    OBVIOUS
  <2>4. (\E s \in 1 .. k : OfNode(domains, s, x)) <=> (\E s \in 1 .. (k - 1) : OfNode(domains, s, x)) \/ OfNode(domains, k, x)
    BY <2>2, <2>3
  <2>5. (\E n \in 1 .. b : x \in new[n]) <=> OfNode(domains, k, x)
    BY <1>3, <1>8
  <2> QED
    BY <1>2, <2>1, <2>4, <2>5
<1>15. ASSUME NEW n \in DOMAIN r PROVE \E s \in 1 .. k : OfOneNode(m, r[n], s)
  <2>1. CASE n \in 1 .. a
    <3>1. PICK s \in 1 .. (k - 1) : OfOneNode(m, bundles[n], s)
      BY <1>2, <2>1
    <3>2. s \in 1 .. k /\ r[n] = bundles[n]
      BY <1>4, <2>1
    <3> QED
      BY <3>1, <3>2
  <2>2. CASE n \notin 1 .. a
    <3>1. n - a \in 1 .. b /\ r[n] = new[n - a] /\ k \in 1 .. k
      BY <1>4, <1>5, <2>2
    <3> QED
      BY <1>9, <3>1
  <2> QED
    BY <2>1, <2>2
<1>16. ASSUME NEW n \in 1 .. (Len(r) - 1), NEW s, OfOneNode(m, r[n] \cup r[n + 1], s)
       PROVE  Cardinality(r[n]) + Cardinality(r[n + 1]) > BundleSize
  <2>1. n \in Nat /\ n \in 1 .. (a + b) /\ n + 1 \in 1 .. (a + b)
    BY <1>2, <1>3, <1>4
  <2>2. CASE n + 1 \in 1 .. a
    <3>1. n \in 1 .. (a - 1) /\ n \in 1 .. a
      BY <1>2, <2>1, <2>2
    <3>2. r[n] = bundles[n] /\ r[n + 1] = bundles[n + 1]
      BY <1>4, <2>2, <3>1
    <3> QED
      BY <1>2, <1>16, <3>1, <3>2
  <2>3. CASE n \in 1 .. a /\ n + 1 \notin 1 .. a
    <3>1. (n + 1) - a \in 1 .. b /\ n + 1 = a + ((n + 1) - a)
      BY <1>5, <2>1, <2>3
    <3>2. r[n] = bundles[n] /\ r[n + 1] = new[(n + 1) - a]
      BY <1>4, <2>3, <3>1
    <3>3. PICK x \in r[n], y \in r[n + 1] : SystemNodeOf(m, x) # k /\ SystemNodeOf(m, y) = k
      BY <1>10, <1>11, <2>3, <3>1, <3>2
    <3> QED
      BY <1>16, <3>3 DEF OfOneNode
  <2>4. CASE n \notin 1 .. a
    <3> DEFINE j == n - a
    <3>1. j \in 1 .. b /\ j + 1 \in 1 .. b /\ j \in 1 .. (b - 1) /\ n = a + j /\ n + 1 = a + (j + 1)
      BY <1>2, <1>3, <2>1, <2>4
    <3> HIDE DEF j
    <3>2. r[n] = new[j] /\ r[n + 1] = new[j + 1]
      BY <1>4, <3>1
    <3> QED
      BY <1>1, <3>1, <3>2 DEF NoFit, b
  <2> QED
    BY <2>2, <2>3, <2>4
<1>17. Bundling(m, r, domains, k)
  BY <1>4, <1>12, <1>13, <1>14, <1>15, <1>16 DEF Bundling
<1> QED
  BY <1>17 DEF r, new

\* All bundles: those of the system nodes up to the last.
LEMMA BundlesMade ==
    ASSUME NEW m, IsMachine(m), NEW respect, NEW domains, NEW read,
           DomainsOf(m, respect, domains, read), domains # <<>>
    PROVE  \E k \in Nat : /\ Bundling(m, Bundles(domains), domains, k)
                          /\ \A d \in DOMAIN domains : domains[d].system \in 1 .. k
<1> DEFINE systems == {d.system : d \in Range(domains)}
           size == Max(systems)
           places == [n \in 1 .. size |-> n]
           D == Sets
           Iter(w) == w = [s \in SUBSET (1 .. size) |->
                             IF s = {} THEN <<>>
                             ELSE w[s \ {Max(s)}] \o Merged(OfSystem(domains, places[Max(s)]))]
           step == [p \in D \X (1 .. size) |-> p[1] \o Merged(OfSystem(domains, p[2]))]
           iter == CHOOSE w : Iter(w)
<1>1. size \in Nat /\ \A d \in DOMAIN domains : domains[d].system \in 1 .. size
  <2> DEFINE f == [d \in 1 .. Len(domains) |-> domains[d].system]
  <2>1. /\ DOMAIN domains = 1 .. Len(domains) /\ Len(domains) \in Nat /\ domains \in DomainLists
        /\ \A d \in DOMAIN domains : domains[d].system \in Nat \ {0}
    BY DomainsAre
  <2>2. f \in [1 .. Len(domains) -> Nat]
    BY <2>1
  <2>3. Len(domains) \in Nat \ {0}
    BY <2>1 DEF DomainLists
  <2>4. PICK d \in 1 .. Len(domains) : \A k \in 1 .. Len(domains) : f[d] >= f[k]
    BY <2>2, <2>3, LargestValue
  <2>5. \A v : v \in systems <=> \E k \in DOMAIN domains : v = domains[k].system
    BY DEF Range
  <2>6. domains[d].system \in systems /\ \A v \in systems : domains[d].system >= v
    <3>1. d \in DOMAIN domains /\ \A k \in DOMAIN domains : domains[d].system >= domains[k].system
      BY <2>1, <2>4
    <3> HIDE DEF systems
    <3> QED
      BY <2>5, <3>1
  <2> HIDE DEF systems
  <2>7. size \in systems /\ \A v \in systems : size >= v
    BY <2>6 DEF Max
  <2> QED
    BY <2>1, <2>5, <2>7
<1> HIDE DEF size
<1>2. \A s : Merged(OfSystem(domains, s)) \in Sets
  BY SystemTaken, AllMerged DEF BundlesOf
<1>3. step \in [D \X (1 .. size) -> D] /\ <<>> \in D
  <2>1. \A some \in D, s \in 1 .. size : some \o Merged(OfSystem(domains, s)) \in D
    BY <1>2 DEF Sets
  <2>2. <<>> \in D
    BY DEF Sets
  <2> HIDE DEF D
  <2> QED
    BY <2>1, <2>2
<1>4. PICK w : FoldOn(w, D, <<>>, size, step)
  <2> HIDE DEF step, D
  <2> QED
    BY <1>1, <1>3, FoldExists, Zenon
<1>5. ASSUME NEW s \in SUBSET (1 .. size), s # {}
      PROVE  step[<<w[s \ {Max(s)}], Max(s)>>] = w[s \ {Max(s)}] \o Merged(OfSystem(domains, places[Max(s)]))
  <2>1. Max(s) \in 1 .. size /\ w[s \ {Max(s)}] \in D
    BY <1>1, <1>4, <1>5, MaxOf DEF FoldOn
  <2> HIDE DEF D
  <2> QED
    BY <2>1
<1> HIDE DEF places
<1>6. Iter(w)
  <2> HIDE DEF step, D
  <2> QED
    BY <1>4, <1>5 DEF FoldOn
<1>7. Iter(iter)
  BY <1>6
<1> HIDE DEF iter
<1>8. Bundles(domains) = iter[1 .. size]
  <2>1. Len(places) = size
    BY <1>1 DEF places
  <2> QED
    BY <1>1, <2>1 DEF Bundles, FoldLeft, MapThenFoldSet, iter, size, places
<1>9. iter[1 .. 0] = <<>>
  BY <1>7
<1>10. ASSUME NEW k \in 1 .. size PROVE iter[1 .. k] = iter[1 .. (k - 1)] \o Merged(OfSystem(domains, k))
  <2>1. 1 .. k \in SUBSET (1 .. size) /\ 1 .. k # {} /\ Max(1 .. k) = k /\ (1 .. k) \ {Max(1 .. k)} = 1 .. (k - 1)
    BY <1>1, Places
  <2>2. places[k] = k
    BY DEF places
  <2> QED
    BY <1>7, <2>1, <2>2
<1> DEFINE S == {k \in 0 .. size : Bundling(m, iter[1 .. k], domains, k)}
<1>11. 0 \in S
  <2>1. <<>> \in Sets /\ DOMAIN <<>> = {} /\ Len(<<>>) = 0
    BY DEF Sets
  <2>2. Bundling(m, <<>>, domains, 0)
    BY <2>1 DEF Bundling, Apart
  <2> QED
    BY <1>1, <1>9, <2>2
<1>12. ASSUME NEW k \in 1 .. size, k - 1 \in S PROVE k \in S
  <2>1. Bundling(m, iter[1 .. (k - 1)], domains, k - 1) /\ k \in Nat \ {0}
    BY <1>12
  <2>2. Bundling(m, iter[1 .. (k - 1)] \o Merged(OfSystem(domains, k)), domains, k)
    BY <2>1, BundlingGoesOn
  <2>3. Bundling(m, iter[1 .. k], domains, k) /\ k \in 0 .. size
    <3>1. iter[1 .. k] = iter[1 .. (k - 1)] \o Merged(OfSystem(domains, k))
      BY <1>10
    <3>2. Bundling(m, iter[1 .. k], domains, k)
      BY <2>2, <3>1, Zenon
    <3>3. k \in 0 .. size
      BY <1>1
    <3> QED
      BY <3>2, <3>3
  <2> QED
    BY <2>3
<1>13. 0 .. size \subseteq S
  <2> HIDE DEF S
  <2> QED
    BY <1>1, <1>11, <1>12, UpTo
<1>14. Bundling(m, iter[1 .. size], domains, size)
  BY <1>1, <1>13
<1> QED
  BY <1>1, <1>8, <1>14

\* Sets none of which is empty are the nodes.
LEMMA AddedAsTheyAre ==
    ASSUME NEW sets \in Sets, Apart(sets), {} \notin Range(sets)
    PROVE  AddAll(sets) \in Configs /\ AddAll(sets).nodes = sets
<1> DEFINE all == AddAll(sets)
<1>1. \A n \in DOMAIN sets : sets[n] # {}
  BY DEF Range
<1>2. all \in Configs /\ Len(all.nodes) <= Len(sets) /\ \A n \in DOMAIN sets : Node(all, n) = sets[n]
  BY AllAdded
<1> HIDE DEF all
<1>3. all.nodes \in Sets
  BY <1>2 DEF Configs
<1>4. /\ DOMAIN all.nodes = 1 .. Len(all.nodes) /\ DOMAIN sets = 1 .. Len(sets)
      /\ Len(all.nodes) \in Nat /\ Len(sets) \in Nat
  BY <1>3 DEF Sets
<1>5. \A n \in DOMAIN sets : n \in DOMAIN all.nodes /\ all.nodes[n] = sets[n]
  BY <1>1, <1>2 DEF Node
<1>6. Len(all.nodes) = Len(sets)
  <2>1. CASE Len(sets) = 0
    BY <1>2, <1>4, <2>1
  <2>2. CASE Len(sets) # 0
    <3>1. Len(sets) \in DOMAIN sets
      BY <1>4, <2>2
    <3>2. Len(sets) \in 1 .. Len(all.nodes)
      BY <1>4, <1>5, <3>1
    <3> QED
      BY <1>2, <1>4, <3>2
  <2> QED
    BY <2>1, <2>2
<1>7. all.nodes = sets
  BY <1>3, <1>4, <1>5, <1>6 DEF Sets
<1> QED
  BY <1>2, <1>7 DEF all

\* from_l3_info: the bundles are the nodes.
LEMMA BundlesAreNodes ==
    ASSUME NEW m, NEW domains, NEW k, Bundling(m, Bundles(domains), domains, k)
    PROVE  LET r == RemoveEmpty(FromL3(domains))
           IN  r \in Configs /\ r.nodes = Bundles(domains)
<1> DEFINE bundles == Bundles(domains)
           all == FromL3(domains)
           r == RemoveEmpty(all)
<1>1. bundles \in Sets /\ Apart(bundles) /\ {} \notin Range(bundles)
  BY DEF Bundling, IsBundle, Range
<1>2. all = AddAll(bundles)
  BY DEF FromL3
<1> HIDE DEF bundles, all
<1>3. all \in Configs /\ all.nodes = bundles
  BY <1>1, <1>2, AddedAsTheyAre
<1>4. NonEmpty(all.nodes) = bundles
  BY <1>1, <1>3, EmptyRemoved
<1> QED
  BY <1>1, <1>3, <1>4 DEF RemoveEmpty, Configs, r, bundles, all

-----------------------------------------------------------------------------
(* The nodes and the caches of the machine.                                *)

\* The domains found are the caches whose files come before the first that is
\* missing, as the processors allowed see them.
LEMMA SharesFound ==
    ASSUME NEW m, IsMachine(m), NEW respect, NEW domains,
           DomainsOf(m, respect, domains, Read(m, Max(m.cpus) + 1))
    PROVE  /\ CachesOf(domains) =
                {Share(m, respect, c) : c \in {b \in DOMAIN m.l3 : 0 .. b \subseteq DOMAIN m.l3}} \ {{}}
           /\ \A c \in DOMAIN m.l3, d \in DOMAIN domains :
                 Share(m, respect, c) = domains[d].cpus \/ Share(m, respect, c) \cap domains[d].cpus = {}
           /\ \A d \in DOMAIN domains : domains[d].cpus \subseteq Allowed(m, respect)
           /\ 0 .. Max(m.cpus) \subseteq DOMAIN m.l3 =>
                 \A x \in Allowed(m, respect) : \E d \in DOMAIN domains : x \in domains[d].cpus
<1> DEFINE last == Max(m.cpus)
           read == Read(m, last + 1)
           early == {b \in DOMAIN m.l3 : 0 .. b \subseteq DOMAIN m.l3}
<1>1. /\ last \in Nat /\ \A x \in m.cpus : x <= last
      /\ m.cpus \subseteq Nat /\ Allowed(m, respect) \subseteq m.cpus
  <2>1. m.cpus \in SUBSET Nat /\ m.cpus # {} /\ IsFiniteSet(m.cpus)
    BY DEF IsMachine
  <2> QED
    BY <2>1, LargestOf, AllowedAre
<1> HIDE DEF last
<1>2. \A c : c \in read <=> c \in Nat /\ c <= last /\ 0 .. c \subseteq DOMAIN m.l3
  BY <1>1 DEF Read
<1>3. /\ DOMAIN m.l3 \subseteq Nat
      /\ \A c \in DOMAIN m.l3 : c \in m.l3[c] /\ \A x \in m.l3[c] : x \in DOMAIN m.l3 /\ m.l3[x] = m.l3[c]
  BY DEF IsMachine
<1>4. \A c \in read : c \in early
  BY <1>2
<1>5. ASSUME NEW c \in early, Share(m, respect, c) # {}
      PROVE  \E b \in read : Share(m, respect, b) = Share(m, respect, c)
  <2>1. PICK x : x \in Share(m, respect, c)
    BY <1>5
  <2>2. x \in m.l3[c] /\ x \in m.cpus /\ x \in Nat /\ x <= last
    BY <1>1, <2>1 DEF Share
  <2>3. m.l3[x] = m.l3[c] /\ Share(m, respect, x) = Share(m, respect, c)
    BY <1>3, <2>2 DEF Share
  <2>4. CASE c <= last
    BY <1>2, <1>3, <2>4
  <2>5. CASE ~(c <= last)
    <3>1. 0 .. x \subseteq 0 .. c
      BY <1>1, <1>3, <2>2, <2>5
    <3>2. x \in read
      BY <1>2, <2>2, <3>1
    <3> QED
      BY <2>3, <3>2
  <2> QED
    BY <2>4, <2>5
<1> HIDE DEF read, early
<1>6. /\ \A d \in DOMAIN domains : domains[d].cpus # {} /\ \E c \in read : domains[d].cpus = Share(m, respect, c)
      /\ \A c \in read : Share(m, respect, c) # {} =>
            \E d \in DOMAIN domains : domains[d].cpus = Share(m, respect, c)
  BY DEF DomainsOf, read, last
<1>7. CachesOf(domains) = {Share(m, respect, c) : c \in early} \ {{}}
  <2>1. ASSUME NEW d \in DOMAIN domains
        PROVE  domains[d].cpus # {} /\ \E c \in early : domains[d].cpus = Share(m, respect, c)
    BY <1>4, <1>6
  <2>2. ASSUME NEW c \in early, Share(m, respect, c) # {}
        PROVE  \E d \in DOMAIN domains : domains[d].cpus = Share(m, respect, c)
    <3>1. PICK b \in read : Share(m, respect, b) = Share(m, respect, c)
      BY <1>5, <2>2
    <3> QED
      BY <1>6, <2>2, <3>1
  <2> QED
    BY <2>1, <2>2 DEF CachesOf
<1>8. ASSUME NEW c \in DOMAIN m.l3, NEW d \in DOMAIN domains
      PROVE  Share(m, respect, c) = domains[d].cpus \/ Share(m, respect, c) \cap domains[d].cpus = {}
  <2>1. PICK b \in read : domains[d].cpus = Share(m, respect, b)
    BY <1>6
  <2>2. b \in DOMAIN m.l3
    BY <1>4 DEF early
  <2> SUFFICES ASSUME NEW x \in Share(m, respect, c), x \in domains[d].cpus
               PROVE  Share(m, respect, c) = domains[d].cpus
    OBVIOUS
  <2>3. x \in m.l3[c] /\ x \in m.l3[b]
    BY <2>1 DEF Share
  <2>4. m.l3[x] = m.l3[c] /\ m.l3[x] = m.l3[b]
    BY <1>3, <2>2, <2>3
  <2> QED
    BY <2>1, <2>4 DEF Share
<1>9. ASSUME 0 .. last \subseteq DOMAIN m.l3, NEW x \in Allowed(m, respect)
      PROVE  \E d \in DOMAIN domains : x \in domains[d].cpus
  <2>1. x \in Nat /\ x <= last
    BY <1>1
  <2>2. 0 .. x \subseteq 0 .. last /\ x \in 0 .. last
    BY <1>1, <2>1
  <2>3. x \in read
    BY <1>2, <1>9, <2>1, <2>2 DEF read
  <2>4. x \in Share(m, respect, x)
    BY <1>3, <1>9, <2>2 DEF Share
  <2> QED
    BY <1>6, <2>3, <2>4
<1>10. \A d \in DOMAIN domains : domains[d].cpus \subseteq Allowed(m, respect)
  BY <1>6 DEF Share
<1> QED
  BY <1>7, <1>8, <1>9, <1>10 DEF early, last

\* What the nodes of a machine are to be, whatever is made of them.
HoldsCaches(m, respect, nodes) ==
    LET all == {Share(m, respect, c) : c \in DOMAIN m.l3} \ {{}}
        early == {Share(m, respect, c) : c \in {b \in DOMAIN m.l3 : 0 .. b \subseteq DOMAIN m.l3}} \ {{}}
    IN  /\ nodes \in Sets /\ {} \notin Range(nodes) /\ Apart(nodes)
        /\ \A cpus \in Range(nodes) :
              /\ cpus \subseteq Allowed(m, respect)
              /\ \E s : OfOneNode(m, cpus, s)
              /\ \A d \in all : d \subseteq cpus \/ d \cap cpus = {}
              /\ Cardinality(cpus) > BundleSize /\ early # {} => cpus \in early
        /\ early = {} \/ 0 .. Max(m.cpus) \subseteq DOMAIN m.l3 => UNION Range(nodes) = Allowed(m, respect)
        /\ early # {} =>
              \A n \in 1 .. (Len(nodes) - 1) :
                 (\E s : OfOneNode(m, nodes[n] \cup nodes[n + 1], s)) =>
                    Cardinality(nodes[n]) + Cardinality(nodes[n + 1]) > BundleSize

\* Bundles are such nodes.
LEMMA BundlesHold ==
    ASSUME NEW m, IsMachine(m), NEW respect, NEW domains, domains # <<>>,
           DomainsOf(m, respect, domains, Read(m, Max(m.cpus) + 1))
    PROVE  HoldsCaches(m, respect, Bundles(domains))
<1> DEFINE nodes == Bundles(domains)
           all == {Share(m, respect, c) : c \in DOMAIN m.l3} \ {{}}
           early == {Share(m, respect, c) : c \in {b \in DOMAIN m.l3 : 0 .. b \subseteq DOMAIN m.l3}} \ {{}}
<1>1. PICK k \in Nat : /\ Bundling(m, nodes, domains, k)
                       /\ \A d \in DOMAIN domains : domains[d].system \in 1 .. k
  BY BundlesMade
<1> HIDE DEF nodes
<1>2. /\ early = CachesOf(domains)
      /\ \A c \in DOMAIN m.l3, d \in DOMAIN domains :
            Share(m, respect, c) = domains[d].cpus \/ Share(m, respect, c) \cap domains[d].cpus = {}
      /\ \A d \in DOMAIN domains : domains[d].cpus \subseteq Allowed(m, respect)
      /\ 0 .. Max(m.cpus) \subseteq DOMAIN m.l3 =>
            \A x \in Allowed(m, respect) : \E d \in DOMAIN domains : x \in domains[d].cpus
  BY SharesFound
<1>3. /\ nodes \in Sets /\ Apart(nodes) /\ DOMAIN nodes = 1 .. Len(nodes)
      /\ \A n \in DOMAIN nodes : IsBundle(nodes[n], CachesOf(domains))
      /\ \A x : (\E n \in DOMAIN nodes : x \in nodes[n]) <=> \E s \in 1 .. k : OfNode(domains, s, x)
      /\ \A n \in DOMAIN nodes : \E s : OfOneNode(m, nodes[n], s)
      /\ \A n \in 1 .. (Len(nodes) - 1) :
            (\E s : OfOneNode(m, nodes[n] \cup nodes[n + 1], s)) =>
               Cardinality(nodes[n]) + Cardinality(nodes[n + 1]) > BundleSize
  BY <1>1 DEF Bundling, Sets
<1>4. \A x : (\E n \in DOMAIN nodes : x \in nodes[n]) <=> \E d \in DOMAIN domains : x \in domains[d].cpus
  BY <1>1, <1>3 DEF OfNode
<1>5. early # {}
  <2>1. /\ domains \in DomainLists /\ DOMAIN domains = 1 .. Len(domains) /\ Len(domains) \in Nat
    BY DomainsAre
  <2>2. 1 \in DOMAIN domains
    BY <2>1 DEF DomainLists
  <2> QED
    BY <1>2, <2>2 DEF CachesOf
<1> HIDE DEF early, all
<1>6. ASSUME NEW n \in DOMAIN nodes, NEW d \in all PROVE d \subseteq nodes[n] \/ d \cap nodes[n] = {}
  <2> SUFFICES ASSUME NEW x \in d, x \in nodes[n] PROVE d \subseteq nodes[n]
    OBVIOUS
  <2>1. PICK c \in DOMAIN m.l3 : d = Share(m, respect, c)
    BY DEF all
  <2>2. PICK e \in DOMAIN domains : x \in domains[e].cpus
    BY <1>4
  <2>3. d = domains[e].cpus
    BY <1>2, <2>1, <2>2
  <2>4. domains[e].cpus \subseteq nodes[n] \/ domains[e].cpus \cap nodes[n] = {}
    BY <1>3 DEF IsBundle, CachesOf
  <2> QED
    BY <2>2, <2>3, <2>4
<1>7. ASSUME NEW cpus \in Range(nodes)
      PROVE  /\ cpus # {} /\ cpus \subseteq Allowed(m, respect)
             /\ \E s : OfOneNode(m, cpus, s)
             /\ \A d \in all : d \subseteq cpus \/ d \cap cpus = {}
             /\ Cardinality(cpus) > BundleSize => cpus \in early
  <2>1. PICK n \in DOMAIN nodes : cpus = nodes[n]
    BY DEF Range
  <2>2. IsBundle(cpus, CachesOf(domains)) /\ \E s : OfOneNode(m, cpus, s)
    BY <1>3, <2>1
  <2>3. cpus \subseteq Allowed(m, respect)
    BY <1>2, <1>4, <2>1
  <2>4. \A d \in all : d \subseteq cpus \/ d \cap cpus = {}
    BY <1>6, <2>1
  <2>5. cpus # {} /\ (Cardinality(cpus) > BundleSize => cpus \in early)
    BY <1>2, <2>2 DEF IsBundle
  <2> QED
    BY <2>2, <2>3, <2>4, <2>5
<1>8. ASSUME 0 .. Max(m.cpus) \subseteq DOMAIN m.l3 PROVE UNION Range(nodes) = Allowed(m, respect)
  <2>1. UNION Range(nodes) \subseteq Allowed(m, respect)
    BY <1>7
  <2>2. \A x \in Allowed(m, respect) : \E n \in DOMAIN nodes : x \in nodes[n]
    BY <1>2, <1>4, <1>8
  <2> QED
    BY <2>1, <2>2 DEF Range
<1>9. HoldsCaches(m, respect, nodes)
  BY <1>3, <1>5, <1>7, <1>8 DEF HoldsCaches, all, early
<1> QED
  BY <1>9 DEF nodes

\* So are the nodes of the system if no domain was found.
LEMMA SystemHolds ==
    ASSUME NEW m, IsMachine(m), NEW respect,
           DomainsOf(m, respect, <<>>, Read(m, Max(m.cpus) + 1))
    PROVE  HoldsCaches(m, respect, FromSystemNodes(m, respect).nodes)
<1> DEFINE nodes == FromSystemNodes(m, respect).nodes
           allowed == Allowed(m, respect)
           all == {Share(m, respect, c) : c \in DOMAIN m.l3} \ {{}}
           early == {Share(m, respect, c) : c \in {b \in DOMAIN m.l3 : 0 .. b \subseteq DOMAIN m.l3}} \ {{}}
<1>1. /\ nodes \in Sets /\ {} \notin Range(nodes) /\ Apart(nodes) /\ UNION Range(nodes) = allowed
      /\ \A cpus \in Range(nodes) : \A c \in cpus : \A d \in allowed :
             d \in cpus <=> SystemNodeOf(m, d) = SystemNodeOf(m, c)
  BY SystemNodesMade
<1> HIDE DEF nodes
<1>2. early = {}
  <2>1. CachesOf(<<>>) = {}
    BY DEF CachesOf
  <2>2. early = CachesOf(<<>>)
    BY SharesFound
  <2> QED
    BY <2>1, <2>2
<1>3. allowed \subseteq m.cpus
  BY AllowedAre
<1> HIDE DEF early, allowed
<1>4. ASSUME NEW cpus \in Range(nodes)
      PROVE  cpus \subseteq allowed /\ \E s : OfOneNode(m, cpus, s)
  <2>1. cpus \subseteq allowed
    BY <1>1
  <2>2. PICK x : x \in cpus
    <3>1. {} \notin Range(nodes)
      BY <1>1
    <3> QED
      BY <3>1
  <2>3. OfOneNode(m, cpus, SystemNodeOf(m, x))
    BY <1>1, <2>1, <2>2 DEF OfOneNode
  <2> QED
    BY <2>1, <2>3
<1>5. ASSUME NEW cpus \in Range(nodes), NEW d \in all PROVE d \subseteq cpus \/ d \cap cpus = {}
  <2> SUFFICES ASSUME NEW x \in d, x \in cpus PROVE d \subseteq cpus
    OBVIOUS
  <2>1. PICK c \in DOMAIN m.l3 : d = m.l3[c] \cap allowed
    BY DEF Share, allowed
  <2>2. \A y \in d : SystemNodeOf(m, y) = SystemNodeOf(m, x)
    BY <1>3, <2>1 DEF IsMachine
  <2> QED
    BY <1>1, <2>1, <2>2
<1> HIDE DEF all
<1>6. HoldsCaches(m, respect, nodes)
  BY <1>1, <1>2, <1>4, <1>5 DEF HoldsCaches, all, early, allowed
<1> QED
  BY <1>6 DEF nodes

\* from_system(DefaultNumaPolicy).
LEMMA MachineFollowed ==
    ASSUME NEW m, IsMachine(m), NEW respect
    PROVE  HoldsCaches(m, respect, FromSystem(m, respect).nodes)
<1> DEFINE domains == L3Scan(m, respect)
           read == Read(m, Max(m.cpus) + 1)
           r == FromSystem(m, respect)
<1>1. DomainsOf(m, respect, domains, read)
  BY DomainsFound
<1>2. r = IF domains = <<>> THEN FromSystemNodes(m, respect)
          ELSE [RemoveEmpty(FromL3(domains)) EXCEPT !.custom = ~respect]
  BY DEF FromSystem
<1> HIDE DEF domains, r
<1>3. CASE domains = <<>>
  <2>1. HoldsCaches(m, respect, FromSystemNodes(m, respect).nodes)
    BY <1>1, <1>3, SystemHolds
  <2>2. r = FromSystemNodes(m, respect)
    BY <1>2, <1>3, Zenon
  <2> QED
    BY <2>1, <2>2, Zenon DEF r
<1>4. CASE domains # <<>>
  <2> DEFINE kept == RemoveEmpty(FromL3(domains))
  <2>1. PICK k \in Nat : Bundling(m, Bundles(domains), domains, k)
    BY <1>1, <1>4, BundlesMade
  <2>2. kept \in Configs /\ kept.nodes = Bundles(domains)
    BY <2>1, BundlesAreNodes
  <2> HIDE DEF kept
  <2>3. r = [kept EXCEPT !.custom = ~respect]
    BY <1>2, <1>4, Zenon DEF kept
  <2>4. \A v : [kept EXCEPT !.custom = v].nodes = kept.nodes
    BY <2>2, CustomChanges
  <2>5. r.nodes = Bundles(domains)
    BY <2>2, <2>3, <2>4, Zenon
  <2>6. HoldsCaches(m, respect, Bundles(domains))
    BY <1>1, <1>4, BundlesHold
  <2> QED
    BY <2>5, <2>6, Zenon DEF r
<1> QED
  BY <1>3, <1>4

-----------------------------------------------------------------------------
(* The pool.  The configuration is always the one of the machine and the   *)
(* option, and the threads are where it puts as many as requested, unless  *)
(* the process has ended.                                                  *)

NodesOf(bind, cfg, threads) == IF bind THEN Distribute(cfg, threads) ELSE [t \in 1 .. threads |-> 1]

ConfigInv ==
    /\ machine \in Machines /\ IsPolicy(policy) /\ requested \in Nat \ {0}
    /\ policy.word = "list" => ~FromStringFails(policy.sets)
    /\ config = Configured(machine, policy)
    /\ pool = Placed(NodesOf(bound, config, requested))
    /\ sharedHists = Histories(NodesOf(bound, config, requested))

PoolInv ==
    /\ task = "exited" => \A t \in DOMAIN pc : pc[t] = "idle"
    /\ task # "exited" => ConfigInv

\* What the nodes of any machine are is what they are to be of this one.
LEMMA MachineHolds ==
    ASSUME machine \in Machines, NEW respect, respect <=> Respected, HoldsCaches(machine, respect, config.nodes)
    PROVE  NodesAreApart /\ NodesHoldCaches /\ NodesHaveSizes(config)
<1> DEFINE nodes == config.nodes
           allowed == Allowed(machine, Respected)
<1>1. IsMachine(machine) /\ BundleSize \in Nat
  BY NumaAssumption
<1>2. Allowed(machine, respect) = allowed
  BY DEF Allowed
<1>3. \A s : Share(machine, respect, s) = machine.l3[s] \cap allowed
  BY <1>2 DEF Share
<1>4. /\ Caches = {Share(machine, respect, c) : c \in DOMAIN machine.l3} \ {{}}
      /\ Domains = {Share(machine, respect, c) : c \in {b \in DOMAIN machine.l3 : 0 .. b \subseteq DOMAIN machine.l3}} \ {{}}
  BY <1>3 DEF Caches, Domains, Shares
<1>5. IsFiniteSet(allowed) /\ allowed \in SUBSET Nat
  BY <1>1, AllowedAre
<1> HIDE DEF allowed, nodes
<1>6. /\ nodes \in Sets /\ {} \notin Range(nodes) /\ Apart(nodes)
      /\ \A cpus \in Range(nodes) :
            /\ cpus \subseteq allowed
            /\ \E s : OfOneNode(machine, cpus, s)
            /\ \A d \in Caches : d \subseteq cpus \/ d \cap cpus = {}
            /\ Cardinality(cpus) > BundleSize /\ Domains # {} => cpus \in Domains
      /\ Domains = {} \/ 0 .. Max(machine.cpus) \subseteq DOMAIN machine.l3 => UNION Range(nodes) = allowed
      /\ Domains # {} =>
            \A n \in 1 .. (Len(nodes) - 1) :
               (\E s : OfOneNode(machine, nodes[n] \cup nodes[n + 1], s)) =>
                  Cardinality(nodes[n]) + Cardinality(nodes[n + 1]) > BundleSize
  BY <1>2, <1>4, Zenon DEF HoldsCaches, nodes
<1>7. DOMAIN nodes = 1 .. Len(nodes) /\ Len(nodes) \in Nat
  BY <1>6 DEF Sets
<1>8. ASSUME NEW cpus \in Range(nodes)
      PROVE  /\ IsFiniteSet(cpus) /\ cpus # {} /\ Cardinality(cpus) \in Nat \ {0}
             /\ \E s : OfOneNode(machine, cpus, s) /\ SystemNodes(cpus) = {s}
  <2>1. IsFiniteSet(cpus) /\ cpus # {}
    BY <1>5, <1>6, FS_Subset
  <2>2. Cardinality(cpus) \in Nat \ {0}
    BY <2>1, FS_CardinalityType, FS_EmptySet
  <2>3. PICK s : OfOneNode(machine, cpus, s)
    BY <1>6
  <2>4. SystemNodes(cpus) = {s}
    BY <2>1, <2>3 DEF OfOneNode, SystemNodes
  <2> QED
    BY <2>1, <2>2, <2>3, <2>4
<1>9. \A n \in DOMAIN nodes : nodes[n] \in Range(nodes)
  BY DEF Range
<1>10. NodesAreApart
  <2>1. \A n \in DOMAIN nodes : nodes[n] # {}
    <3>1. {} \notin Range(nodes)
      BY <1>6
    <3> QED
      BY <1>9, <3>1
  <2>2. \A n, k \in DOMAIN nodes : n # k => nodes[n] \cap nodes[k] = {}
    BY <1>6 DEF Apart
  <2> QED
    BY <2>1, <2>2, Zenon DEF NodesAreApart, nodes
<1>11. NodesHaveSizes(config)
  BY <1>6, <1>8, <1>9 DEF NodesHaveSizes, SizeOf, Sets, nodes
<1>12. ASSUME Domains # {}, NEW n \in 1 .. (Len(nodes) - 1),
              Cardinality(SystemNodes(nodes[n] \cup nodes[n + 1])) = 1
       PROVE  Cardinality(nodes[n] \cup nodes[n + 1]) > BundleSize
  <2> DEFINE a == nodes[n]
             b == nodes[n + 1]
  <2>1. n \in DOMAIN nodes /\ n + 1 \in DOMAIN nodes /\ n # n + 1
    BY <1>7
  <2>2. a \in Range(nodes) /\ b \in Range(nodes) /\ a \cap b = {}
    BY <1>6, <1>9, <2>1 DEF Apart
  <2> HIDE DEF a, b
  <2>3. PICK s : OfOneNode(machine, a, s) /\ SystemNodes(a) = {s}
    BY <1>8, <2>2
  <2>4. PICK z : OfOneNode(machine, b, z) /\ SystemNodes(b) = {z}
    BY <1>8, <2>2
  <2>5. SystemNodes(a \cup b) = {s} \cup {z}
    BY <2>3, <2>4 DEF SystemNodes
  <2>6. IsFiniteSet({s} \cup {z})
    BY FS_Singleton, FS_Union
  <2>7. \E y : {s} \cup {z} = {y}
    <3>1. Cardinality({s} \cup {z}) = 1
      BY <1>12, <2>5 DEF a, b
    <3> QED
      BY <2>6, <3>1, FS_Singleton
  <2>8. OfOneNode(machine, a \cup b, s)
    BY <2>3, <2>4, <2>7 DEF OfOneNode
  <2>9. Cardinality(a) + Cardinality(b) > BundleSize
    BY <1>6, <1>12, <2>8 DEF a, b
  <2>10. Cardinality(a \cup b) = Cardinality(a) + Cardinality(b) - Cardinality(a \cap b)
    BY <1>8, <2>2, FS_Union
  <2>11. Cardinality(a \cap b) = 0 /\ Cardinality(a) \in Nat /\ Cardinality(b) \in Nat
    BY <1>8, <2>2, FS_EmptySet
  <2>12. Cardinality(a \cup b) > BundleSize
    BY <2>9, <2>10, <2>11
  <2> QED
    BY <2>12 DEF a, b
<1>13. ASSUME NEW cpus \in Range(nodes) PROVE Cardinality(SystemNodes(cpus)) = 1
  BY <1>8, FS_Singleton
<1>14. NodesHoldCaches
  BY <1>6, <1>12, <1>13 DEF NodesHoldCaches, nodes, allowed
<1> QED
  BY <1>10, <1>11, <1>14

\* The nodes made for the option, whichever it is.
LEMMA ConfigFollows ==
    ASSUME ConfigInv
    PROVE  NodesAreApart /\ NodesHoldCaches /\ NodesHaveSizes(config)
<1>1. /\ machine \in Machines /\ IsMachine(machine) /\ IsPolicy(policy)
      /\ policy.word = "list" => ~FromStringFails(policy.sets)
      /\ config = Configured(machine, policy)
  BY NumaAssumption DEF ConfigInv
<1>2. CASE policy.word \in {"auto", "system"}
  <2>1. config = FromSystem(machine, TRUE)
    BY <1>1, <1>2 DEF Configured
  <2>2. HoldsCaches(machine, TRUE, FromSystem(machine, TRUE).nodes)
    BY <1>1, MachineFollowed
  <2>3. TRUE <=> Respected
    BY <1>2 DEF Respected
  <2> QED
    BY <1>1, <2>1, <2>2, <2>3, MachineHolds
<1>3. CASE policy.word = "hardware"
  <2>1. config = FromSystem(machine, FALSE)
    BY <1>1, <1>3 DEF Configured
  <2>2. HoldsCaches(machine, FALSE, FromSystem(machine, FALSE).nodes)
    BY <1>1, MachineFollowed
  <2>3. FALSE <=> Respected
    BY <1>3 DEF Respected
  <2> QED
    BY <1>1, <2>1, <2>2, <2>3, MachineHolds
<1>4. ASSUME policy.word \in {"none", "list"}, config.nodes \in Sets, Apart(config.nodes),
             \A n \in DOMAIN config.nodes : config.nodes[n] # {} /\ IsFiniteSet(config.nodes[n])
      PROVE  NodesAreApart /\ NodesHoldCaches /\ NodesHaveSizes(config)
  <2>1. NodesAreApart /\ NodesHoldCaches
    BY <1>4 DEF NodesAreApart, Apart, NodesHoldCaches, FromMachine
  <2>2. \A n \in DOMAIN config.nodes : Cardinality(config.nodes[n]) \in Nat \ {0}
    BY <1>4, FS_CardinalityType, FS_EmptySet
  <2> QED
    BY <1>4, <2>1, <2>2 DEF NodesHaveSizes, SizeOf, Sets
<1>5. CASE policy.word = "none"
  <2> DEFINE cpus == Processors(machine)
  <2>1. config = AddCpus(Empty, 1, cpus)
    BY <1>1, <1>5 DEF Configured
  <2>2. cpus \in SUBSET Nat /\ IsFiniteSet(cpus)
    <3>1. 0 \in Int /\ machine.threadsNb - 1 \in Int
      BY <1>1 DEF IsMachine
    <3>2. IsFiniteSet(0 .. (machine.threadsNb - 1))
      BY <3>1, FS_Interval
    <3> QED
      BY <3>1, <3>2 DEF Processors
  <2> HIDE DEF cpus
  <2>3. Empty \in Configs /\ Len(Empty.nodes) = 0 /\ DOMAIN Empty.byCpu = {} /\ \A k : Node(Empty, k) = {}
    BY NothingConfigured DEF Node
  <2>4. 1 \in Nat \ {0} /\ 1 > Len(Empty.nodes) /\ cpus \cap DOMAIN Empty.byCpu = {}
    BY <2>3
  <2>5. config \in Configs /\ AddedTo(config, Empty, 1, cpus)
    BY <2>1, <2>2, <2>3, <2>4, CpusAdded
  <2>6. Len(config.nodes) = (IF cpus = {} THEN 0 ELSE 1) /\ Node(config, 1) = cpus
    BY <2>3, <2>4, <2>5 DEF AddedTo
  <2>7. config.nodes \in Sets /\ DOMAIN config.nodes = 1 .. Len(config.nodes)
    BY <2>5 DEF Configs, Sets
  <2>8. \A n \in DOMAIN config.nodes : n = 1 /\ cpus # {}
    BY <2>6, <2>7
  <2>9. \A n \in DOMAIN config.nodes : config.nodes[n] = cpus
    BY <2>6, <2>8 DEF Node
  <2> QED
    BY <1>4, <1>5, <2>2, <2>7, <2>8, <2>9 DEF Apart
<1>6. CASE policy.word = "list"
  <2> DEFINE sets == NonEmpty(policy.sets)
             all == AddAll(sets)
  <2>1. config = [all EXCEPT !.custom = TRUE]
    BY <1>1, <1>6 DEF Configured, FromString
  <2>2. policy.sets \in Sets /\ Apart(policy.sets)
    BY <1>1, <1>6 DEF IsPolicy, Sets, Apart, FromStringFails
  <2>3. sets \in Sets /\ Apart(sets) /\ Range(sets) = Range(policy.sets) \ {{}}
    BY <2>2, EmptyRemoved
  <2> HIDE DEF sets
  <2>4. all \in Configs /\ all.nodes = sets
    BY <2>3, AddedAsTheyAre
  <2> HIDE DEF all
  <2>5. config.nodes = sets
    BY <2>1, <2>4, CustomChanges
  <2>6. \A n \in DOMAIN sets : sets[n] # {} /\ IsFiniteSet(sets[n])
    <3>1. \A n \in DOMAIN sets : sets[n] \in Range(sets)
      BY DEF Range
    <3> QED
      BY <1>1, <2>3, <3>1 DEF IsPolicy
  <2> QED
    BY <1>4, <1>6, <2>3, <2>5, <2>6
<1> QED
  BY <1>1, <1>2, <1>3, <1>5, <1>6 DEF IsPolicy

\* The threads on these nodes, and their parts of the histories.
LEMMA PoolFollows ==
    ASSUME ConfigInv, RoomForAll
    PROVE  NodesAreApart /\ NodesHoldCaches /\ ThreadsAreSpread /\ HistoriesArePartitioned
<1> DEFINE ns == NodesOf(bound, config, requested)
<1>1. NodesAreApart /\ NodesHoldCaches /\ NodesHaveSizes(config)
  BY ConfigFollows
<1>2. requested \in Nat /\ pool = Placed(ns) /\ sharedHists = Histories(ns)
  BY DEF ConfigInv
<1>3. config.nodes \in Seq(SUBSET Nat)
  BY <1>1 DEF NodesHaveSizes
<1>4. DOMAIN Distribute(config, requested) = 1 .. requested /\ Balanced(config, Distribute(config, requested))
  BY <1>1, <1>2, <1>3, ThreadsSpread
<1>5. DOMAIN ns = 1 .. requested
  <2>1. CASE bound
    BY <1>4, <2>1 DEF NodesOf
  <2>2. CASE ~bound
    BY <2>2 DEF NodesOf
  <2> QED
    BY <2>1, <2>2
<1>6. HistoriesArePartitioned
  <2> HIDE DEF ns
  <2> QED
    BY <1>2, <1>5, HistoriesFilled
<1>7. ThreadsAreSpread
  <2>1. SUFFICES ASSUME bound
                 PROVE  \A n, k \in DOMAIN config.nodes :
                            Cardinality({t \in DOMAIN pool : pool[t].node = n}) * Cardinality(config.nodes[k])
                              <= (Cardinality({t \in DOMAIN pool : pool[t].node = k}) + 1) * Cardinality(config.nodes[n])
    BY DEF ThreadsAreSpread
  <2>2. Balanced(config, ns)
    BY <1>4, <2>1 DEF NodesOf
  <2> HIDE DEF ns
  <2>3. \A n : {t \in DOMAIN pool : pool[t].node = n} = {t \in DOMAIN ns : ns[t] = n}
    BY <1>2 DEF Placed
  <2>4. \A n : Cardinality({t \in DOMAIN pool : pool[t].node = n}) = Occupation(ns, n)
    BY <2>3 DEF Occupation
  <2> QED
    BY <2>2, <2>4 DEF Balanced, SizeOf
<1> QED
  BY <1>1, <1>6, <1>7

\* A command that sets the pool leaves it where the new configuration puts it,
\* or ends the process.
LEMMA SetPlaces ==
    ASSUME NEW cfg, NEW option, NEW threads, NEW instances, Set(cfg, option, threads, instances)
    PROVE  \/ Exit
           \/ /\ pool' = Placed(NodesOf(bound', cfg, threads))
              /\ sharedHists' = Histories(NodesOf(bound', cfg, threads))
              /\ config' = cfg /\ machine' = machine /\ task' = "clear"
<1> DEFINE bind == DoBindThreads(cfg, option, threads)
           ns == NodesOf(bind, cfg, threads)
<1>1. CASE bind /\ \E t \in DOMAIN ns : ~Bindable(cfg, ns[t])
  BY <1>1 DEF Set, NodesOf
<1>2. CASE ~(bind /\ \E t \in DOMAIN ns : ~Bindable(cfg, ns[t]))
  <2>1. /\ pool' = Placed(ns) /\ bound' = bind /\ sharedHists' = Histories(ns)
        /\ config' = cfg /\ machine' = machine /\ task' = "clear"
    BY <1>2 DEF Set, AllBegin, NodesOf
  <2> HIDE DEF bind
  <2> QED
    BY <2>1, Zenon
<1> QED
  BY <1>1, <1>2

LEMMA ExitKeepsPool ==
    ASSUME NodesInv, task = "rest", Exit
    PROVE  PoolInv'
<1>1. task' = "exited" /\ pc' = pc
  BY DEF Exit
<1>2. \A t \in DOMAIN pc : pc[t] = "idle"
  BY DEF NodesInv, RestIsIdle
<1> QED
  BY <1>1, <1>2 DEF PoolInv

LEMMA SetPolicyKeepsPool ==
    ASSUME NodesInv, PoolInv, NEW option \in Policies, SetPolicy(option)
    PROVE  PoolInv'
<1> DEFINE cfg == Configured(machine, option)
<1>1. task = "rest" /\ policy' = option /\ requested' = requested
  BY DEF SetPolicy, Command
<1>2. machine \in Machines /\ requested \in Nat \ {0}
  BY <1>1 DEF PoolInv, ConfigInv
<1>3. \/ Exit
      \/ /\ ~(option.word = "list" /\ FromStringFails(option.sets))
         /\ Set(cfg, option, requested, Changed(cfg))
  BY DEF SetPolicy
<1> HIDE DEF cfg
<1>4. CASE Exit
  BY <1>1, <1>4, ExitKeepsPool
<1>5. CASE ~Exit
  <2>1. ~(option.word = "list" /\ FromStringFails(option.sets))
    BY <1>3, <1>5
  <2>2. /\ pool' = Placed(NodesOf(bound', cfg, requested))
        /\ sharedHists' = Histories(NodesOf(bound', cfg, requested))
        /\ config' = cfg /\ machine' = machine /\ task' = "clear"
    BY <1>3, <1>5, SetPlaces
  <2>3. IsPolicy(policy')
    BY <1>1, NumaAssumption
  <2>4. policy'.word = "list" => ~FromStringFails(policy'.sets)
    BY <1>1, <2>1
  <2>5. config' = Configured(machine', policy')
    BY <1>1, <2>2 DEF cfg
  <2>6. ConfigInv'
    BY <1>1, <1>2, <2>2, <2>3, <2>4, <2>5 DEF ConfigInv, IsPolicy, FromStringFails, Configured, FromSystem
  <2> QED
    BY <2>2, <2>6 DEF PoolInv
<1> QED
  BY <1>4, <1>5

LEMMA SetThreadsKeepsPool ==
    ASSUME NodesInv, PoolInv, NEW threads \in ThreadCounts, SetThreads(threads)
    PROVE  PoolInv'
<1>1. task = "rest" /\ requested' = threads /\ policy' = policy /\ Set(config, policy, threads, replicas)
  BY DEF SetThreads, Command
<1>2. ConfigInv /\ threads \in Nat \ {0}
  BY <1>1, NumaAssumption DEF PoolInv
<1>3. CASE Exit
  BY <1>1, <1>3, ExitKeepsPool
<1>4. CASE ~Exit
  <2>1. /\ pool' = Placed(NodesOf(bound', config, threads))
        /\ sharedHists' = Histories(NodesOf(bound', config, threads))
        /\ config' = config /\ machine' = machine /\ task' = "clear"
    BY <1>1, <1>4, SetPlaces
  <2>2. ConfigInv'
    BY <1>1, <1>2, <2>1 DEF ConfigInv
  <2> QED
    BY <2>1, <2>2 DEF PoolInv
<1> QED
  BY <1>3, <1>4

\* What the others leave alone.
LEMMA OthersKeepPool ==
    ASSUME PoolInv, UNCHANGED <<machine, policy, requested, config, pool, bound, sharedHists>>,
           task # "exited", task' # "exited"
    PROVE  PoolInv'
BY DEF PoolInv, ConfigInv

LEMMA PoolInit == NumaInit => PoolInv
<1> SUFFICES ASSUME NumaInit PROVE PoolInv
  OBVIOUS
<1>1. /\ machine \in Machines /\ policy = [word |-> "auto", sets |-> <<>>] /\ requested = 1
      /\ config = FromSystem(machine, TRUE) /\ pool = Placed(<<1>>) /\ bound = FALSE
      /\ sharedHists = Histories(<<1>>) /\ task = "rest"
  BY DEF NumaInit
<1>2. IsPolicy(policy)
  BY <1>1 DEF IsPolicy, Range
<1>3. config = Configured(machine, policy)
  BY <1>1 DEF Configured
<1>4. NodesOf(bound, config, requested) = <<1>>
  <2>1. [t \in 1 .. 1 |-> 1] = <<1>>
    OBVIOUS
  <2> QED
    BY <1>1, <2>1 DEF NodesOf
<1>5. policy.word # "list" /\ task # "exited"
  BY <1>1
<1>6. /\ requested \in Nat \ {0} /\ pool = Placed(NodesOf(bound, config, requested))
      /\ sharedHists = Histories(NodesOf(bound, config, requested))
  <2>1. pool = Placed(<<1>>) /\ sharedHists = Histories(<<1>>) /\ requested \in Nat \ {0}
    BY <1>1
  <2> QED
    BY <1>4, <2>1, Zenon
<1>7. ConfigInv
  BY <1>1, <1>2, <1>3, <1>5, <1>6 DEF ConfigInv
<1> QED
  BY <1>5, <1>7 DEF PoolInv

LEMMA PoolStep == NodesInv /\ PoolInv /\ [NumaNext]_numaVars => PoolInv'
<1> SUFFICES ASSUME NodesInv, PoolInv, [NumaNext]_numaVars PROVE PoolInv'
  OBVIOUS
<1>1. ASSUME NEW option \in Policies, SetPolicy(option) PROVE PoolInv'
  BY <1>1, SetPolicyKeepsPool
<1>2. ASSUME NEW n \in ThreadCounts, SetThreads(n) PROVE PoolInv'
  BY <1>2, SetThreadsKeepsPool
<1>3. CASE LoadNetwork \/ SaveNetwork \/ NewGame \/ Go
  <2>1. UNCHANGED <<machine, policy, requested, config, pool, bound, sharedHists>>
    BY <1>3 DEF LoadNetwork, SaveNetwork, NewGame, Go
  <2>2. task # "exited" /\ task' # "exited"
    BY <1>3 DEF LoadNetwork, SaveNetwork, NewGame, Go, Command, AllBegin
  <2> QED
    BY <2>1, <2>2, OthersKeepPool
<1>4. ASSUME NEW t \in DOMAIN pc, CheckPresent(t) \/ Lock(t) \/ Make(t) \/ Done(t) PROVE PoolInv'
  <2>1. UNCHANGED <<machine, policy, requested, config, pool, bound, sharedHists>>
    BY <1>4 DEF CheckPresent, Lock, Make, Done, Keep
  <2>2. pc[t] # "idle"
    BY <1>4 DEF CheckPresent, Lock, Make, Done
  <2>3. task # "exited"
    BY <2>2 DEF PoolInv
  <2>4. task' = task \/ task' = "rest"
    BY <1>4 DEF CheckPresent, Lock, Make, Done
  <2> QED
    BY <2>1, <2>3, <2>4, OthersKeepPool
<1>5. CASE Stopped \/ UNCHANGED numaVars
  <2>1. UNCHANGED <<machine, policy, requested, config, pool, bound, sharedHists>> /\ task' = task /\ pc' = pc
    BY <1>5 DEF Stopped, numaVars
  <2>2. CASE task = "exited"
    BY <2>1, <2>2 DEF PoolInv
  <2>3. CASE task # "exited"
    BY <2>1, <2>3, OthersKeepPool
  <2> QED
    BY <2>2, <2>3
<1> QED
  BY <1>1, <1>2, <1>3, <1>4, <1>5 DEF NumaNext

\* Whatever the machine, the options and the number of threads: after every
\* command that has not ended the process no processor is in two nodes, the nodes
\* have the caches of the machine as a whole and neighbours of one system node
\* could not be merged, threads that are bound are spread over the nodes as
\* evenly as their sizes allow, and the threads of a node fill its histories, each
\* a part of its own.
THEOREM PoolStaysWithNodes == NumaSpec => []PoolFollowsNodes
<1>1. NodesInv /\ PoolInv => PoolFollowsNodes
  BY PoolFollows DEF NodesInv, PoolInv, PoolFollowsNodes
<1>2. NumaInit => NodesInv /\ PoolInv
  BY NodesInit, PoolInit
<1>3. NodesInv /\ PoolInv /\ [NumaNext]_numaVars => (NodesInv /\ PoolInv)'
  BY NodesStep, PoolStep
<1> QED
  BY <1>1, <1>2, <1>3, PTL DEF NumaSpec

===============================================================================
