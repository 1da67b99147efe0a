-------------------------- MODULE SharedMemoryProofs --------------------------
(***************************************************************************)
(* The shared segment, for any number of processes, opens and kills.       *)
(***************************************************************************)
EXTENDS SharedMemory, FiniteSetTheorems, TLAPS

USE SharedMemoryAssumption

\* With as many identities as processes, one is free for whoever creates: it
\* has nothing open itself and each of the others has at most one.
LEMMA FreeForCreator ==
    ASSUME TypeOK, NEW p \in Procs, pc[p] = "create", name = None
    PROVE  Free # {}
<1> SUFFICES ASSUME \A i \in Inodes : \E q \in Procs : fd[q] = i
             PROVE  FALSE
  BY DEF Free, Used
<1> DEFINE Others == Procs \ {p}
           Some == CHOOSE i \in Inodes : TRUE
           f == [q \in Others |-> IF fd[q] \in Inodes THEN fd[q] ELSE Some]
<1>1. fd[p] = None
  BY DEF TypeOK, OpenWhere, Holding, Locked
<1>2. IsFiniteSet(Others) /\ Cardinality(Others) = Cardinality(Procs) - 1
  BY FS_RemoveElement
<1>3. Cardinality(Procs) \in Nat /\ Cardinality(Inodes) \in Nat
  BY FS_CardinalityType
<1>4. f \in Surjection(Others, Inodes)
  <2>1. ASSUME NEW i \in Inodes PROVE \E q \in Others : f[q] = i
    <3>1. PICK q \in Procs : fd[q] = i
      OBVIOUS
    <3>2. q # p
      BY <1>1, <3>1
    <3> QED
      BY <3>1, <3>2
  <2>2. Some \in Inodes
    BY <1>2, <1>3, FS_EmptySet, FS_CardinalityType
  <2>3. f \in [Others -> Inodes]
    BY <2>2
  <2> QED
    BY <2>1, <2>3 DEF Surjection
<1>5. Cardinality(Inodes) <= Cardinality(Others)
  BY <1>2, <1>4, FS_Surjection
<1> QED
  BY <1>2, <1>3, <1>5

-----------------------------------------------------------------------------
LEMMA TypeInit == Init => TypeOK
<1> SUFFICES ASSUME Init PROVE TypeOK
  OBVIOUS
<1>1. Types
  <2>1. left \in [Procs -> SUBSET Procs] /\ pc \in [Procs -> Labels]
    BY DEF Init, Labels
  <2>2. opens \in 0 .. MaxOpens /\ crashes \in 0 .. MaxCrashes
    BY DEF Init
  <2>3. /\ holder \in [Inodes -> Procs \cup {None}] /\ fd \in [Procs -> Inodes \cup {None}]
        /\ stale \in [Procs -> Procs \cup {None}]
        /\ created \in [Procs -> BOOLEAN] /\ invalid \in [Procs -> BOOLEAN]
        /\ retried \in [Procs -> BOOLEAN]
    BY DEF Init
  <2> QED
    BY <2>1, <2>2, <2>3 DEF Init, Types
<1>2. OpenWhere /\ LockedWhere
  BY DEF Init, OpenWhere, LockedWhere, Holding, Locked
<1> QED
  BY <1>1, <1>2 DEF TypeOK

LEMMA TypeStep == TypeOK /\ [Next]_vars => TypeOK'
<1> SUFFICES ASSUME TypeOK, [Next]_vars PROVE TypeOK'
  OBVIOUS
<1> USE DEF TypeOK, Labels, Holding, Locked, Goto, seg, call, scan, bounds
<1>1. ASSUME NEW p \in Procs, Start(p) PROVE TypeOK'
  <2>1. Types'
    BY <1>1 DEF Start, Types
  <2>2. OpenWhere'
    BY <1>1 DEF Start, Types, OpenWhere
  <2>3. LockedWhere'
    BY <1>1 DEF Start, Types, OpenWhere, LockedWhere
  <2> QED
    BY <2>1, <2>2, <2>3
<1>2. ASSUME NEW p \in Procs, Exit(p) PROVE TypeOK'
  <2>1. Types'
    BY <1>2 DEF Exit, Types
  <2>2. OpenWhere'
    BY <1>2 DEF Exit, Types, OpenWhere
  <2>3. LockedWhere'
    BY <1>2 DEF Exit, Types, OpenWhere, LockedWhere
  <2> QED
    BY <2>1, <2>2, <2>3
<1>3. ASSUME NEW p \in Procs, Open(p) PROVE TypeOK'
  <2>1. Types'
    BY <1>3 DEF Open, Types
  <2>2. OpenWhere'
    BY <1>3 DEF Open, Types, OpenWhere
  <2>3. LockedWhere'
    BY <1>3 DEF Open, Types, OpenWhere, LockedWhere
  <2> QED
    BY <2>1, <2>2, <2>3
<1>4. ASSUME NEW p \in Procs, Close(p) PROVE TypeOK'
  <2>1. Types'
    BY <1>4 DEF Close, Types
  <2>2. OpenWhere'
    BY <1>4 DEF Close, Types, OpenWhere
  <2>3. LockedWhere'
    BY <1>4 DEF Close, Types, OpenWhere, LockedWhere
  <2> QED
    BY <2>1, <2>2, <2>3
<1>5. ASSUME NEW p \in Procs, Crash(p) PROVE TypeOK'
  <2>1. Types'
    BY <1>5 DEF Crash, EndOfCall, Reclaim, Used, Types
  <2>2. OpenWhere'
    BY <1>5 DEF Crash, EndOfCall, Reclaim, Used, Types, OpenWhere
  <2>3. LockedWhere'
    BY <1>5 DEF Crash, EndOfCall, Reclaim, Used, Types, OpenWhere, LockedWhere
  <2> QED
    BY <2>1, <2>2, <2>3
<1>6. ASSUME NEW p \in Procs, CreateExclusive(p) PROVE TypeOK'
  <2>1. CASE Goto(p, "lock")
    <3>0. name = None
      BY <1>6, <2>1 DEF CreateExclusive, Types
    <3> DEFINE new == CHOOSE i \in Free : TRUE
    <3>1. new \in Inodes
      BY <1>6, <3>0, FreeForCreator DEF CreateExclusive, Free, Used
    <3>2. fd[p] = None /\ \A i \in Inodes : holder[i] # p
      BY <1>6 DEF CreateExclusive, Types, OpenWhere, LockedWhere
    <3>3. /\ name' = new /\ fd' = [fd EXCEPT ![p] = new]
          /\ pc' = [pc EXCEPT ![p] = "lock"] /\ created' = [created EXCEPT ![p] = TRUE]
          /\ UNCHANGED <<seg, holder, sentinel, invalid, retried, scan, bounds>>
      BY <1>6, <2>1 DEF CreateExclusive, Types
    <3> HIDE DEF new
    <3>4. Types'
      BY <3>1, <3>3 DEF Types
    <3>5. OpenWhere'
      BY <3>1, <3>3 DEF Types, OpenWhere
    <3>6. LockedWhere'
      BY <3>2, <3>3 DEF Types, LockedWhere
    <3> QED
      BY <3>4, <3>5, <3>6
  <2>2. CASE Goto(p, "reopen")
    BY <1>6, <2>2 DEF CreateExclusive, Types, OpenWhere, LockedWhere
  <2> QED
    BY <1>6, <2>1, <2>2 DEF CreateExclusive
<1>7. ASSUME NEW p \in Procs, Reopen(p) PROVE TypeOK'
  <2>1. Types'
    <3>1. fd' \in [Procs -> Inodes \cup {None}] /\ pc' \in [Procs -> Labels]
      BY <1>7 DEF Reopen, Types
    <3>2. /\ created' \in [Procs -> BOOLEAN] /\ invalid' \in [Procs -> BOOLEAN]
          /\ retried' \in [Procs -> BOOLEAN]
      <4>1. CASE UNCHANGED call
        BY <4>1 DEF Types
      <4>2. CASE EndOfCall(p)
        BY <4>2 DEF EndOfCall, Types
      <4> QED
        BY <1>7, <4>1, <4>2 DEF Reopen
    <3> QED
      BY <1>7, <3>1, <3>2 DEF Reopen, Types
  <2>2. OpenWhere'
    BY <1>7 DEF Reopen, EndOfCall, Types, OpenWhere
  <2>3. LockedWhere'
    BY <1>7 DEF Reopen, EndOfCall, Types, OpenWhere, LockedWhere
  <2> QED
    BY <2>1, <2>2, <2>3
<1>8. ASSUME NEW p \in Procs, Lock(p) PROVE TypeOK'
  <2>1. Types'
    BY <1>8 DEF Lock, Types
  <2>2. OpenWhere'
    BY <1>8 DEF Lock, Types, OpenWhere
  <2>3. LockedWhere'
    BY <1>8 DEF Lock, Types, OpenWhere, LockedWhere
  <2> QED
    BY <2>1, <2>2, <2>3
<1>9. ASSUME NEW p \in Procs, Size(p) PROVE TypeOK'
  <2>1. Types'
    BY <1>9 DEF Size, Types, OpenWhere
  <2>2. OpenWhere'
    BY <1>9 DEF Size, Types, OpenWhere
  <2>3. LockedWhere'
    BY <1>9 DEF Size, Types, OpenWhere, LockedWhere
  <2> QED
    BY <2>1, <2>2, <2>3
<1>10. ASSUME NEW p \in Procs, Fill(p) PROVE TypeOK'
  <2>1. Types'
    BY <1>10 DEF Fill, Types, OpenWhere
  <2>2. OpenWhere'
    BY <1>10 DEF Fill, Types, OpenWhere
  <2>3. LockedWhere'
    BY <1>10 DEF Fill, Types, OpenWhere, LockedWhere
  <2> QED
    BY <2>1, <2>2, <2>3
<1>11. ASSUME NEW p \in Procs, Publish(p) PROVE TypeOK'
  <2>1. Types'
    BY <1>11 DEF Publish, Types, OpenWhere
  <2>2. OpenWhere'
    BY <1>11 DEF Publish, Types, OpenWhere
  <2>3. LockedWhere'
    BY <1>11 DEF Publish, Types, OpenWhere, LockedWhere
  <2> QED
    BY <2>1, <2>2, <2>3
<1>12. ASSUME NEW p \in Procs, Inspect(p) PROVE TypeOK'
  <2>1. Types'
    BY <1>12 DEF Inspect, Types
  <2>2. OpenWhere'
    BY <1>12 DEF Inspect, Types, OpenWhere
  <2>3. LockedWhere'
    BY <1>12 DEF Inspect, Types, OpenWhere, LockedWhere
  <2> QED
    BY <2>1, <2>2, <2>3
<1>13. ASSUME NEW p \in Procs, MapFails(p) PROVE TypeOK'
  <2>1. Types'
    BY <1>13 DEF MapFails, Types
  <2>2. OpenWhere'
    BY <1>13 DEF MapFails, Types, OpenWhere
  <2>3. LockedWhere'
    BY <1>13 DEF MapFails, Types, OpenWhere, LockedWhere
  <2> QED
    BY <2>1, <2>2, <2>3
<1>14. ASSUME NEW p \in Procs, Announce(p) PROVE TypeOK'
  <2>1. Types'
    <3>1. CASE p \in sentinel
      BY <1>14, <3>1 DEF Announce, Types
    <3>2. CASE p \notin sentinel
      BY <1>14, <3>2, ZenonT(60) DEF Announce, Unlock, EndOfCall, Types
    <3> QED
      BY <3>1, <3>2
  <2>2. OpenWhere'
    BY <1>14 DEF Announce, Unlock, EndOfCall, Types, OpenWhere
  <2>3. LockedWhere'
    BY <1>14 DEF Announce, Unlock, EndOfCall, Types, OpenWhere, LockedWhere
  <2> QED
    BY <2>1, <2>2, <2>3
<1>15. ASSUME NEW p \in Procs, Undo(p) PROVE TypeOK'
  <2>1. Types'
    <3>1. name' \in Inodes \cup {None} /\ sentinel' \subseteq Procs
      BY <1>15 DEF Undo, Types
    <3>2. sized' \subseteq Inodes /\ filled' \subseteq Inodes /\ initialized' \subseteq Inodes
      BY <1>15 DEF Undo, Reclaim, Types
    <3>3. holder' \in [Inodes -> Procs \cup {None}] /\ fd' \in [Procs -> Inodes \cup {None}]
      BY <1>15 DEF Undo, Unlock, Types
    <3>4. /\ pc' \in [Procs -> Labels]
          /\ created' \in [Procs -> BOOLEAN] /\ invalid' \in [Procs -> BOOLEAN]
          /\ retried' \in [Procs -> BOOLEAN]
      <4>1. \/ /\ pc' = [pc EXCEPT ![p] = "create"]
               /\ retried' = [retried EXCEPT ![p] = TRUE]
               /\ invalid' = [invalid EXCEPT ![p] = FALSE]
               /\ created' = created
            \/ /\ pc' = [pc EXCEPT ![p] = "idle"]
               /\ EndOfCall(p)
        BY <1>15, Zenon DEF Undo
      <4> QED
        BY <4>1 DEF EndOfCall, Types
    <3> QED
      BY <1>15, <3>1, <3>2, <3>3, <3>4 DEF Undo, Types
  <2>2. OpenWhere'
    BY <1>15 DEF Undo, Unlock, EndOfCall, Reclaim, Used, Types, OpenWhere
  <2>3. LockedWhere'
    BY <1>15 DEF Undo, Unlock, EndOfCall, Reclaim, Used, Types, OpenWhere, LockedWhere
  <2> QED
    BY <2>1, <2>2, <2>3
<1>16. ASSUME NEW p \in Procs, Retire(p) PROVE TypeOK'
  <2>1. Types'
    BY <1>16 DEF Retire, Types
  <2>2. OpenWhere'
    BY <1>16 DEF Retire, Types, OpenWhere
  <2>3. LockedWhere'
    BY <1>16 DEF Retire, Types, OpenWhere, LockedWhere
  <2> QED
    BY <2>1, <2>2, <2>3
<1>17. ASSUME NEW p \in Procs, NEW q \in Procs, Visit(p, q) PROVE TypeOK'
  <2>1. Types'
    BY <1>17 DEF Visit, LetGo, Unlock, Reclaim, Used, Types
  <2>2. OpenWhere'
    BY <1>17 DEF Visit, LetGo, Unlock, Reclaim, Used, Types, OpenWhere
  <2>3. LockedWhere'
    BY <1>17 DEF Visit, LetGo, Unlock, Reclaim, Used, Types, OpenWhere, LockedWhere
  <2> QED
    BY <2>1, <2>2, <2>3
<1>18. ASSUME NEW p \in Procs, Sweep(p) PROVE TypeOK'
  <2>1. Types'
    BY <1>18 DEF Sweep, Types
  <2>2. OpenWhere'
    BY <1>18 DEF Sweep, Types, OpenWhere
  <2>3. LockedWhere'
    BY <1>18 DEF Sweep, Types, OpenWhere, LockedWhere
  <2> QED
    BY <2>1, <2>2, <2>3
<1>19. ASSUME NEW p \in Procs, Remove(p) PROVE TypeOK'
  <2>1. Types'
    BY <1>19 DEF Remove, NobodyElse, LetGo, Unlock, Reclaim, Used, Types
  <2>2. OpenWhere'
    BY <1>19 DEF Remove, NobodyElse, LetGo, Unlock, Reclaim, Used, Types, OpenWhere
  <2>3. LockedWhere'
    BY <1>19 DEF Remove, NobodyElse, LetGo, Unlock, Reclaim, Used, Types, OpenWhere, LockedWhere
  <2> QED
    BY <2>1, <2>2, <2>3
<1>20. ASSUME NEW p \in Procs, ScanFails(p) PROVE TypeOK'
  <2>1. Types'
    BY <1>20 DEF ScanFails, NobodyElse, LetGo, Unlock, Reclaim, Used, Types
  <2>2. OpenWhere'
    BY <1>20 DEF ScanFails, NobodyElse, LetGo, Unlock, Reclaim, Used, Types, OpenWhere
  <2>3. LockedWhere'
    BY <1>20 DEF ScanFails, NobodyElse, LetGo, Unlock, Reclaim, Used, Types, OpenWhere, LockedWhere
  <2> QED
    BY <2>1, <2>2, <2>3
<1>21. CASE UNCHANGED vars
  BY <1>21 DEF vars, Types, OpenWhere, LockedWhere
<1> QED
  BY <1>1, <1>2, <1>3, <1>4, <1>5, <1>6, <1>7, <1>8, <1>9, <1>10, <1>11, <1>12, <1>13, <1>14, <1>15, <1>16, <1>17, <1>18, <1>19, <1>20, <1>21 DEF Next, Step

\* Every variable keeps its type, a process has a segment open exactly between
\* its open and its close, and holds its flock exactly where the code relies
\* on it (shm_linux.h:242-379).
THEOREM TypeCorrect == Spec => []TypeOK
BY TypeInit, TypeStep, PTL DEF Spec

-----------------------------------------------------------------------------
\* What a process may count on in the segment it has open, by where it is.  No
\* flag of a segment is taken back before the kernel frees it, so nothing here
\* depends on who holds its lock.
Vouched == {"announce", "using", "relock", "retire", "scan", "sweep"}

Finds(p) ==
    /\ pc[p] = "fill" => fd[p] \in sized
    /\ pc[p] = "publish" => fd[p] \in sized \cap filled
    /\ pc[p] \in Vouched => fd[p] \in initialized

Written ==
    /\ initialized \subseteq sized \cap filled
    /\ \A p \in Procs : Finds(p)

\* What is written in a segment stays while a process has it open.
LEMMA OpenIsKept ==
    ASSUME TypeOK, [Next]_vars, NEW p \in Procs, fd[p] \in Inodes, fd'[p] = fd[p]
    PROVE  /\ fd[p] \in sized => fd[p] \in sized'
           /\ fd[p] \in filled => fd[p] \in filled'
           /\ fd[p] \in initialized => fd[p] \in initialized'
<1>1. CASE Reclaim
  BY <1>1 DEF Reclaim, Used
<1>2. CASE UNCHANGED seg
  BY <1>2 DEF seg
<1>3. ASSUME NEW q \in Procs, Size(q) \/ Fill(q) \/ Publish(q)
      PROVE  sized \subseteq sized' /\ filled \subseteq filled'
               /\ initialized \subseteq initialized'
  BY <1>3 DEF Size, Fill, Publish
<1>4. Reclaim \/ UNCHANGED seg \/ \E q \in Procs : Size(q) \/ Fill(q) \/ Publish(q)
  BY DEF Next, Step, vars, Start, Exit, Open, Close, Crash, CreateExclusive, Reopen, Lock,
         Inspect, MapFails, Announce, Undo, Retire, Visit, LetGo, Sweep, Remove, ScanFails, NobodyElse, seg
<1> QED
  BY <1>1, <1>2, <1>3, <1>4

LEMMA WrittenStep == TypeOK /\ TypeOK' /\ Written /\ [Next]_vars => Written'
<1> SUFFICES ASSUME TypeOK, TypeOK', Written, [Next]_vars PROVE Written'
  OBVIOUS
<1> USE DEF Goto, seg, call, scan, bounds
<1>1. (initialized \subseteq sized \cap filled)'
  <2>1. CASE Reclaim
    BY <2>1 DEF Reclaim, Written
  <2>2. CASE UNCHANGED seg
    BY <2>2 DEF Written
  <2>3. ASSUME NEW q \in Procs, Size(q) \/ Fill(q) \/ Publish(q)
        PROVE  (initialized \subseteq sized \cap filled)'
    BY <2>3 DEF Size, Fill, Publish, Written, Finds
  <2>4. Reclaim \/ UNCHANGED seg \/ \E q \in Procs : Size(q) \/ Fill(q) \/ Publish(q)
    BY DEF Next, Step, vars, Start, Exit, Open, Close, Crash, CreateExclusive, Reopen, Lock,
           Inspect, MapFails, Announce, Undo, Retire, Visit, LetGo, Sweep, Remove, ScanFails, NobodyElse
  <2> QED
    BY <2>1, <2>2, <2>3, <2>4
<1>2. ASSUME NEW q \in Procs, Finds(q)',
             \A p \in Procs \ {q} : pc'[p] = pc[p] /\ fd'[p] = fd[p]
      PROVE  Written'
  <2>1. ASSUME NEW p \in Procs \ {q}, pc[p] \in {"fill", "publish"} \cup Vouched
        PROVE  Finds(p)'
    <3>1. fd[p] \in Inodes
      BY <2>1 DEF TypeOK, Types, OpenWhere, Holding, Locked, Vouched
    <3> QED
      BY <1>2, <2>1, <3>1, OpenIsKept DEF Written, Finds, Vouched
  <2>2. ASSUME NEW p \in Procs \ {q}, pc[p] \notin {"fill", "publish"} \cup Vouched
        PROVE  Finds(p)'
    BY <1>2, <2>2 DEF Finds, Vouched
  <2> QED
    BY <1>1, <1>2, <2>1, <2>2 DEF Written
<1> USE DEF Finds, Vouched
<1>3. ASSUME NEW q \in Procs, Start(q) PROVE Written'
  BY <1>3, <1>2 DEF Start, TypeOK, Types, OpenWhere, Holding, Locked, Written
<1>4. ASSUME NEW q \in Procs, Exit(q) PROVE Written'
  BY <1>4, <1>2 DEF Exit, TypeOK, Types, OpenWhere, Holding, Locked, Written
<1>5. ASSUME NEW q \in Procs, Open(q) PROVE Written'
  BY <1>5, <1>2 DEF Open, TypeOK, Types, OpenWhere, Holding, Locked, Written
<1>6. ASSUME NEW q \in Procs, Close(q) PROVE Written'
  BY <1>6, <1>2 DEF Close, TypeOK, Types, OpenWhere, Holding, Locked, Written
<1>7. ASSUME NEW q \in Procs, Crash(q) PROVE Written'
  BY <1>7, <1>2 DEF Crash, TypeOK, Types, OpenWhere, Holding, Locked, Written
<1>8. ASSUME NEW q \in Procs, CreateExclusive(q) PROVE Written'
  BY <1>8, <1>2 DEF CreateExclusive, TypeOK, Types, OpenWhere, Holding, Locked, Written
<1>9. ASSUME NEW q \in Procs, Reopen(q) PROVE Written'
  BY <1>9, <1>2 DEF Reopen, TypeOK, Types, OpenWhere, Holding, Locked, Written
<1>10. ASSUME NEW q \in Procs, Lock(q) PROVE Written'
  BY <1>10, <1>2 DEF Lock, TypeOK, Types, OpenWhere, Holding, Locked, Written
<1>11. ASSUME NEW q \in Procs, Size(q) PROVE Written'
  BY <1>11, <1>2 DEF Size, TypeOK, Types, OpenWhere, Holding, Locked, Written
<1>12. ASSUME NEW q \in Procs, Fill(q) PROVE Written'
  BY <1>12, <1>2 DEF Fill, TypeOK, Types, OpenWhere, Holding, Locked, Written
<1>13. ASSUME NEW q \in Procs, Publish(q) PROVE Written'
  BY <1>13, <1>2 DEF Publish, TypeOK, Types, OpenWhere, Holding, Locked, Written
<1>14. ASSUME NEW q \in Procs, Inspect(q) PROVE Written'
  BY <1>14, <1>2 DEF Inspect, Sound, TypeOK, Types, OpenWhere, Holding, Locked, Written
<1>15. ASSUME NEW q \in Procs, MapFails(q) PROVE Written'
  BY <1>15, <1>2 DEF MapFails, TypeOK, Types, OpenWhere, Holding, Locked, Written
<1>16. ASSUME NEW q \in Procs, Announce(q) PROVE Written'
  BY <1>16, <1>2 DEF Announce, TypeOK, Types, OpenWhere, Holding, Locked, Written
<1>17. ASSUME NEW q \in Procs, Undo(q) PROVE Written'
  BY <1>17, <1>2 DEF Undo, TypeOK, Types, OpenWhere, Holding, Locked, Written
<1>18. ASSUME NEW q \in Procs, Retire(q) PROVE Written'
  BY <1>18, <1>2 DEF Retire, TypeOK, Types, OpenWhere, Holding, Locked, Written
<1>19. ASSUME NEW q \in Procs, NEW r \in Procs, Visit(q, r) PROVE Written'
  BY <1>19, <1>2 DEF Visit, LetGo, TypeOK, Types, OpenWhere, Holding, Locked, Written
<1>20. ASSUME NEW q \in Procs, Sweep(q) PROVE Written'
  BY <1>20, <1>2 DEF Sweep, TypeOK, Types, OpenWhere, Holding, Locked, Written
<1>21. ASSUME NEW q \in Procs, Remove(q) PROVE Written'
  BY <1>21, <1>2 DEF Remove, NobodyElse, LetGo, TypeOK, Types, OpenWhere, Holding, Locked, Written
<1>22. ASSUME NEW q \in Procs, ScanFails(q) PROVE Written'
  BY <1>22, <1>2 DEF ScanFails, NobodyElse, LetGo, TypeOK, Types, OpenWhere, Holding, Locked, Written
<1>23. CASE UNCHANGED vars
  BY <1>23 DEF vars, Written
<1> QED
  BY <1>3, <1>4, <1>5, <1>6, <1>7, <1>8, <1>9, <1>10, <1>11, <1>12, <1>13, <1>14, <1>15, <1>16, <1>17, <1>18, <1>19, <1>20, <1>21, <1>22, <1>23 DEF Next, Step

\* Whoever uses a segment finds the whole constant in it, however many
\* processes were killed and whatever became of the name since
\* (shm_linux.h:598-659).
THEOREM Constant == Spec => []ReadsTheConstant
<1>1. Init => Written
  BY DEF Init, Written, Finds, Vouched
<1>2. Written => ReadsTheConstant
  BY DEF Written, Finds, Vouched, ReadsTheConstant
<1> QED
  BY TypeInit, TypeStep, WrittenStep, <1>1, <1>2, PTL DEF Spec

-----------------------------------------------------------------------------
\* A scan has yet to come to every other process that uses the segment and has
\* a sentinel: none can appear behind it, because it would need the flock to
\* announce itself.
Pending ==
    \A p, q \in Procs :
        pc[p] \in {"scan", "sweep"} /\ pc[q] \in {"using", "relock"} /\ q \in sentinel
                /\ fd[q] = fd[p]
            => q \in left[p]

LEMMA PendingStep == TypeOK /\ TypeOK' /\ Pending /\ [Next]_vars => Pending'
<1> SUFFICES ASSUME TypeOK, TypeOK', Pending, [Next]_vars,
                    NEW p \in Procs, NEW q \in Procs,
                    pc'[p] \in {"scan", "sweep"}, pc'[q] \in {"using", "relock"},
                    q \in sentinel', fd'[q] = fd'[p]
             PROVE  q \in left'[p]
  BY DEF Pending
<1> USE DEF Pending, Goto, seg, call, scan, bounds, TypeOK, Types, OpenWhere, LockedWhere,
            Holding, Locked
<1>1. ASSUME NEW a \in Procs, Start(a) PROVE q \in left'[p]
  BY <1>1 DEF Start
<1>2. ASSUME NEW a \in Procs, Exit(a) PROVE q \in left'[p]
  BY <1>2 DEF Exit
<1>3. ASSUME NEW a \in Procs, Open(a) PROVE q \in left'[p]
  BY <1>3 DEF Open
<1>4. ASSUME NEW a \in Procs, Close(a) PROVE q \in left'[p]
  BY <1>4 DEF Close
<1>5. ASSUME NEW a \in Procs, Crash(a) PROVE q \in left'[p]
  BY <1>5 DEF Crash
<1>6. ASSUME NEW a \in Procs, CreateExclusive(a) PROVE q \in left'[p]
  BY <1>6 DEF CreateExclusive
<1>7. ASSUME NEW a \in Procs, Reopen(a) PROVE q \in left'[p]
  BY <1>7 DEF Reopen
<1>8. ASSUME NEW a \in Procs, Lock(a) PROVE q \in left'[p]
  BY <1>8 DEF Lock
<1>9. ASSUME NEW a \in Procs, Size(a) PROVE q \in left'[p]
  BY <1>9 DEF Size
<1>10. ASSUME NEW a \in Procs, Fill(a) PROVE q \in left'[p]
  BY <1>10 DEF Fill
<1>11. ASSUME NEW a \in Procs, Publish(a) PROVE q \in left'[p]
  BY <1>11 DEF Publish
<1>12. ASSUME NEW a \in Procs, Inspect(a) PROVE q \in left'[p]
  BY <1>12 DEF Inspect
<1>13. ASSUME NEW a \in Procs, MapFails(a) PROVE q \in left'[p]
  BY <1>13 DEF MapFails
<1>14. ASSUME NEW a \in Procs, Announce(a) PROVE q \in left'[p]
  BY <1>14 DEF Announce
<1>15. ASSUME NEW a \in Procs, Undo(a) PROVE q \in left'[p]
  BY <1>15 DEF Undo
<1>16. ASSUME NEW a \in Procs, Retire(a) PROVE q \in left'[p]
  BY <1>16 DEF Retire
<1>17. ASSUME NEW a \in Procs, NEW b \in Procs, Visit(a, b) PROVE q \in left'[p]
  BY <1>17 DEF Visit, LetGo, Alive
<1>18. ASSUME NEW a \in Procs, Sweep(a) PROVE q \in left'[p]
  BY <1>18 DEF Sweep
<1>19. ASSUME NEW a \in Procs, Remove(a) PROVE q \in left'[p]
  BY <1>19 DEF Remove, NobodyElse, LetGo
<1>20. ASSUME NEW a \in Procs, ScanFails(a) PROVE q \in left'[p]
  BY <1>20 DEF ScanFails, NobodyElse, LetGo
<1>21. CASE UNCHANGED vars
  BY <1>21 DEF vars
<1> QED
  BY <1>1, <1>2, <1>3, <1>4, <1>5, <1>6, <1>7, <1>8, <1>9, <1>10, <1>11, <1>12, <1>13, <1>14, <1>15, <1>16, <1>17, <1>18, <1>19, <1>20, <1>21 DEF Next, Step

\* A close takes the name from no process that uses the same segment and has a
\* sentinel, unless its scan could not read /dev/shm to the end
\* (shm_linux.h:348-365, 562-595).
THEOREM Kept == Spec => StillUsedIsKept
<1>1. Init => Pending
  BY DEF Init, Pending
<1>2. ASSUME TypeOK, Pending, [Next]_vars, NEW p \in Procs, NEW q \in Procs,
             TakesTheName(p), pc[q] = "using", q \in sentinel, fd[q] = fd[p]
      PROVE  ScanFails(p)
  <2>1. PICK a \in Procs : CreateExclusive(a) \/ Undo(a) \/ Remove(a) \/ ScanFails(a)
    BY <1>2 DEF TakesTheName, Next, Step, vars, Start, Exit, Open, Close, Crash, Reopen, Lock,
                Size, Fill, Publish, Inspect, MapFails, Announce, Retire, Visit, Sweep
  <2>2. a = p
    BY <1>2, <2>1 DEF TakesTheName, TypeOK, Types, CreateExclusive, Undo, Remove, ScanFails,
                      NobodyElse, LetGo, Goto
  <2>3. ~CreateExclusive(p) /\ ~Undo(p)
    BY <1>2 DEF TakesTheName, CreateExclusive, Undo
  <2>4. ~Remove(p)
    BY <1>2 DEF TakesTheName, Pending, Remove
  <2> QED
    BY <2>1, <2>2, <2>3, <2>4
<1>3. TypeOK /\ Pending /\ [Next]_vars =>
        [\A p, q \in Procs :
           /\ TakesTheName(p)
           /\ pc[q] = "using" /\ q \in sentinel /\ fd[q] = fd[p]
           => ScanFails(p)]_vars
  BY <1>2
<1> QED
  BY TypeInit, TypeStep, PendingStep, <1>1, <1>3, PTL DEF Spec, StillUsedIsKept

-----------------------------------------------------------------------------
\* What a call of open knows of itself is forgotten when it ends.
CallsAreMarked ==
    \A p \in Procs :
        /\ created[p] => pc[p] \in {"lock", "size", "fill", "publish", "announce", "undo"}
        /\ invalid[p] => pc[p] = "undo"

Announced == {"using", "relock", "retire"}

\* Unless a process was killed, each sentinel is of a process that has yet to
\* retire it,
SentinelsAreOwned == ~litter => \A p \in sentinel : pc[p] \in Announced

\* and there is someone who will remove the name, or leave it to another one
\* who will: nobody gives up the name but in Undo and Remove, or for the
\* sentinel of somebody alive.
Responsible(p) == Unlinks(p) \/ pc[p] \in Announced \cup {"scan", "sweep"}

NameIsOwned == ~litter /\ name # None => \E p \in Procs : Responsible(p)

Owned == CallsAreMarked /\ SentinelsAreOwned /\ NameIsOwned

LEMMA CallsAreMarkedStep == TypeOK /\ CallsAreMarked /\ [Next]_vars => CallsAreMarked'
<1> SUFFICES ASSUME TypeOK, CallsAreMarked, [Next]_vars, NEW p \in Procs
             PROVE  /\ created'[p] => pc'[p] \in {"lock", "size", "fill", "publish", "announce", "undo"}
                    /\ invalid'[p] => pc'[p] = "undo"
  BY DEF CallsAreMarked
<1> DEFINE Marked ==
        /\ created'[p] => pc'[p] \in {"lock", "size", "fill", "publish", "announce", "undo"}
        /\ invalid'[p] => pc'[p] = "undo"
<1> USE DEF TypeOK, Types, CallsAreMarked, Goto, call
<1>1. ASSUME NEW a \in Procs, Start(a) PROVE Marked
  BY <1>1 DEF Start
<1>2. ASSUME NEW a \in Procs, Exit(a) PROVE Marked
  BY <1>2 DEF Exit
<1>3. ASSUME NEW a \in Procs, Open(a) PROVE Marked
  BY <1>3 DEF Open
<1>4. ASSUME NEW a \in Procs, Close(a) PROVE Marked
  BY <1>4 DEF Close
<1>5. ASSUME NEW a \in Procs, Crash(a) PROVE Marked
  BY <1>5 DEF Crash, EndOfCall
<1>6. ASSUME NEW a \in Procs, CreateExclusive(a) PROVE Marked
  BY <1>6 DEF CreateExclusive
<1>7. ASSUME NEW a \in Procs, Reopen(a) PROVE Marked
  BY <1>7 DEF Reopen, EndOfCall
<1>8. ASSUME NEW a \in Procs, Lock(a) PROVE Marked
  BY <1>8 DEF Lock
<1>9. ASSUME NEW a \in Procs, Size(a) PROVE Marked
  BY <1>9 DEF Size
<1>10. ASSUME NEW a \in Procs, Fill(a) PROVE Marked
  BY <1>10 DEF Fill
<1>11. ASSUME NEW a \in Procs, Publish(a) PROVE Marked
  BY <1>11 DEF Publish
<1>12. ASSUME NEW a \in Procs, Inspect(a) PROVE Marked
  BY <1>12 DEF Inspect
<1>13. ASSUME NEW a \in Procs, MapFails(a) PROVE Marked
  BY <1>13 DEF MapFails
<1>14. ASSUME NEW a \in Procs, Announce(a) PROVE Marked
  BY <1>14 DEF Announce, EndOfCall, Unlock
<1>15. ASSUME NEW a \in Procs, Undo(a) PROVE Marked
  BY <1>15 DEF Undo, EndOfCall, Unlinks
<1>16. ASSUME NEW a \in Procs, Retire(a) PROVE Marked
  BY <1>16 DEF Retire
<1>17. ASSUME NEW a \in Procs, NEW b \in Procs, Visit(a, b) PROVE Marked
  BY <1>17 DEF Visit, LetGo, Alive
<1>18. ASSUME NEW a \in Procs, Sweep(a) PROVE Marked
  BY <1>18 DEF Sweep
<1>19. ASSUME NEW a \in Procs, Remove(a) PROVE Marked
  BY <1>19 DEF Remove, NobodyElse, LetGo
<1>20. ASSUME NEW a \in Procs, ScanFails(a) PROVE Marked
  BY <1>20 DEF ScanFails, NobodyElse, LetGo
<1>21. CASE UNCHANGED vars
  BY <1>21 DEF vars
<1> QED
  BY <1>1, <1>2, <1>3, <1>4, <1>5, <1>6, <1>7, <1>8, <1>9, <1>10, <1>11, <1>12, <1>13, <1>14, <1>15, <1>16, <1>17, <1>18, <1>19, <1>20, <1>21 DEF Next, Step

LEMMA SentinelsAreOwnedStep == TypeOK /\ SentinelsAreOwned /\ [Next]_vars => SentinelsAreOwned'
<1> SUFFICES ASSUME TypeOK, SentinelsAreOwned, [Next]_vars, ~litter', NEW p \in sentinel'
             PROVE  pc'[p] \in Announced
  BY DEF SentinelsAreOwned
<1> DEFINE Goal == pc'[p] \in Announced
<1> USE DEF TypeOK, Types, SentinelsAreOwned, Announced, Goto, call, bounds
<1>1. ASSUME NEW a \in Procs, Start(a) PROVE Goal
  BY <1>1 DEF Start
<1>2. ASSUME NEW a \in Procs, Exit(a) PROVE Goal
  BY <1>2 DEF Exit
<1>3. ASSUME NEW a \in Procs, Open(a) PROVE Goal
  BY <1>3 DEF Open
<1>4. ASSUME NEW a \in Procs, Close(a) PROVE Goal
  BY <1>4 DEF Close
<1>5. ASSUME NEW a \in Procs, Crash(a) PROVE Goal
  BY <1>5 DEF Crash, EndOfCall
<1>6. ASSUME NEW a \in Procs, CreateExclusive(a) PROVE Goal
  BY <1>6 DEF CreateExclusive
<1>7. ASSUME NEW a \in Procs, Reopen(a) PROVE Goal
  BY <1>7 DEF Reopen, EndOfCall
<1>8. ASSUME NEW a \in Procs, Lock(a) PROVE Goal
  BY <1>8 DEF Lock
<1>9. ASSUME NEW a \in Procs, Size(a) PROVE Goal
  BY <1>9 DEF Size
<1>10. ASSUME NEW a \in Procs, Fill(a) PROVE Goal
  BY <1>10 DEF Fill
<1>11. ASSUME NEW a \in Procs, Publish(a) PROVE Goal
  BY <1>11 DEF Publish
<1>12. ASSUME NEW a \in Procs, Inspect(a) PROVE Goal
  BY <1>12 DEF Inspect
<1>13. ASSUME NEW a \in Procs, MapFails(a) PROVE Goal
  BY <1>13 DEF MapFails
<1>14. ASSUME NEW a \in Procs, Announce(a) PROVE Goal
  BY <1>14 DEF Announce, EndOfCall, Unlock
<1>15. ASSUME NEW a \in Procs, Undo(a) PROVE Goal
  BY <1>15 DEF Undo, EndOfCall, Unlinks
<1>16. ASSUME NEW a \in Procs, Retire(a) PROVE Goal
  BY <1>16 DEF Retire
<1>17. ASSUME NEW a \in Procs, NEW b \in Procs, Visit(a, b) PROVE Goal
  BY <1>17 DEF Visit, LetGo, Alive
<1>18. ASSUME NEW a \in Procs, Sweep(a) PROVE Goal
  BY <1>18 DEF Sweep
<1>19. ASSUME NEW a \in Procs, Remove(a) PROVE Goal
  BY <1>19 DEF Remove, NobodyElse, LetGo
<1>20. ASSUME NEW a \in Procs, ScanFails(a) PROVE Goal
  BY <1>20 DEF ScanFails, NobodyElse, LetGo
<1>21. CASE UNCHANGED vars
  BY <1>21 DEF vars
<1> QED
  BY <1>1, <1>2, <1>3, <1>4, <1>5, <1>6, <1>7, <1>8, <1>9, <1>10, <1>11, <1>12, <1>13, <1>14, <1>15, <1>16, <1>17, <1>18, <1>19, <1>20, <1>21 DEF Next, Step

LEMMA NameIsOwnedStep ==
    TypeOK /\ CallsAreMarked /\ SentinelsAreOwned /\ NameIsOwned /\ [Next]_vars => NameIsOwned'
<1> SUFFICES ASSUME TypeOK, CallsAreMarked, SentinelsAreOwned, NameIsOwned, [Next]_vars,
                    ~litter', name' # None
             PROVE  \E p \in Procs : Responsible(p)'
  BY DEF NameIsOwned
<1> DEFINE Goal == \E p \in Procs : Responsible(p)'
\* Whoever was responsible is so still.
<1>a. ASSUME ~litter, name # None, \A p \in Procs : Responsible(p) => Responsible(p)'
      PROVE  Goal
  BY <1>a DEF NameIsOwned
<1> USE DEF TypeOK, Types, Announced, Goto, call, bounds, Responsible, Unlinks
<1>1. ASSUME NEW a \in Procs, Start(a) PROVE Goal
  BY <1>1, <1>a DEF Start
<1>2. ASSUME NEW a \in Procs, Exit(a) PROVE Goal
  BY <1>2, <1>a DEF Exit
<1>3. ASSUME NEW a \in Procs, Open(a) PROVE Goal
  BY <1>3, <1>a DEF Open
<1>4. ASSUME NEW a \in Procs, Close(a) PROVE Goal
  BY <1>4, <1>a DEF Close
<1>5. ASSUME NEW a \in Procs, Crash(a) PROVE Goal
  BY <1>5 DEF Crash, EndOfCall
<1>6. ASSUME NEW a \in Procs, CreateExclusive(a) PROVE Goal
  BY <1>6, <1>a DEF CreateExclusive
<1>7. ASSUME NEW a \in Procs, Reopen(a) PROVE Goal
  BY <1>7, <1>a DEF Reopen, EndOfCall, CallsAreMarked
<1>8. ASSUME NEW a \in Procs, Lock(a) PROVE Goal
  BY <1>8, <1>a DEF Lock
<1>9. ASSUME NEW a \in Procs, Size(a) PROVE Goal
  BY <1>9, <1>a DEF Size
<1>10. ASSUME NEW a \in Procs, Fill(a) PROVE Goal
  BY <1>10, <1>a DEF Fill
<1>11. ASSUME NEW a \in Procs, Publish(a) PROVE Goal
  BY <1>11, <1>a DEF Publish
<1>12. ASSUME NEW a \in Procs, Inspect(a) PROVE Goal
  BY <1>12, <1>a DEF Inspect, CallsAreMarked
<1>13. ASSUME NEW a \in Procs, MapFails(a) PROVE Goal
  BY <1>13, <1>a DEF MapFails
<1>14. ASSUME NEW a \in Procs, Announce(a) PROVE Goal
  BY <1>14, <1>a DEF Announce, EndOfCall, Unlock
<1>15. ASSUME NEW a \in Procs, Undo(a) PROVE Goal
  BY <1>15, <1>a DEF Undo, EndOfCall, CallsAreMarked
<1>16. ASSUME NEW a \in Procs, Retire(a) PROVE Goal
  BY <1>16, <1>a DEF Retire
<1>17. ASSUME NEW a \in Procs, NEW b \in Procs, Visit(a, b) PROVE Goal
  BY <1>17, <1>a DEF Visit, LetGo, Alive, SentinelsAreOwned
<1>18. ASSUME NEW a \in Procs, Sweep(a) PROVE Goal
  BY <1>18, <1>a DEF Sweep
<1>19. ASSUME NEW a \in Procs, Remove(a) PROVE Goal
  BY <1>19 DEF Remove, NobodyElse, LetGo
<1>20. ASSUME NEW a \in Procs, ScanFails(a) PROVE Goal
  BY <1>20 DEF ScanFails, NobodyElse, LetGo
<1>21. CASE UNCHANGED vars
  BY <1>21, <1>a DEF vars
<1> QED
  BY <1>1, <1>2, <1>3, <1>4, <1>5, <1>6, <1>7, <1>8, <1>9, <1>10, <1>11, <1>12, <1>13, <1>14, <1>15, <1>16, <1>17, <1>18, <1>19, <1>20, <1>21 DEF Next, Step

\* When every process has ended, neither the name nor a sentinel is left in
\* /dev/shm, unless one was killed and no later close has swept since
\* (shm_linux.h:275-365).
THEOREM NothingLeft == Spec => []NothingLeftBehind
<1>1. Init => Owned
  BY DEF Init, Owned, CallsAreMarked, SentinelsAreOwned, NameIsOwned
<1>2. TypeOK /\ Owned /\ [Next]_vars => Owned'
  BY CallsAreMarkedStep, SentinelsAreOwnedStep, NameIsOwnedStep DEF Owned
<1>3. TypeOK /\ Owned => NothingLeftBehind
  BY DEF TypeOK, Types, Owned, CallsAreMarked, SentinelsAreOwned, NameIsOwned, Responsible,
         Unlinks, Announced, Alive, NothingLeftBehind
<1> QED
  BY TypeInit, TypeStep, <1>1, <1>2, <1>3, PTL DEF Spec
=============================================================================
