----------------------------- MODULE ThreadProofs -----------------------------
(***************************************************************************)
(* Proofs about Thread, for any number of callers and any set of jobs: the *)
(* inductive invariant, the safety properties that follow from it, and the *)
(* refinement of JobSlot.                                                  *)
(***************************************************************************)
EXTENDS Thread, TLAPS

\* Who can be where, and who holds the mutex.
Positions ==
    /\ pc[Worker] \in {"lock", "announce", "check", "asleep", "take", "run", "exited"}
    /\ \A c \in Clients :
          pc[c] \in {"idle", "lock", "check", "asleep", "notify", "join", "joined"}
    /\ \A t \in Threads : mutex = t <=> pc[t] \in {"announce", "check", "take"}
    /\ \A t \in asleep : pc[t] = "asleep"

\* One caller at a time, and op says what it came for.
OneCaller ==
    /\ \A c, d \in Clients : pc[c] # "idle" /\ pc[d] # "idle" => c = d
    /\ \A c \in Clients : op[c] # None <=> InCall(c)

\* The handshake: what searching and jobFunc say about the worker.
Handshake ==
    /\ ~searching => /\ pc[Worker] \in {"check", "asleep"}
                     /\ jobFunc = None
    /\ searching /\ pc[Worker] \in {"check", "asleep", "take"} => jobFunc # None
    /\ pc[Worker] \in {"lock", "announce", "run"} => jobFunc = None
    /\ pc[Worker] = "take" => searching
    /\ job # None <=> pc[Worker] = "run"

\* The constructor: before its second call there is no job, and once the
\* third has returned the worker object exists.
Construction ==
    /\ ctor < 3 => /\ ~exit
                   /\ \A c \in Clients : c # Owner => pc[c] = "idle"
    /\ ctor <= 1 => jobFunc = None /\ job = None /\ op[Owner] \in {None, "wait"}
    /\ ctor = 2 => /\ op[Owner] \in {None, Build}
                   /\ op[Owner] = None => built \/ jobFunc = Build \/ job = Build
                   /\ jobFunc \in {None, Build} /\ job \in {None, Build}
    /\ ctor = 3 => built \/ jobFunc = Build \/ job = Build
    /\ ctor = 3 /\ ~built =>
          /\ op[Owner] = "wait"
          /\ jobFunc \in {None, Build} /\ job \in {None, Build}

\* The destructor: it found the worker parked, so the job it hands over is
\* the next and last one.
Destruction ==
    /\ exit => /\ pc[Worker] \notin {"lock", "announce", "run"}
               /\ pc[Owner] # "idle"
               /\ InCall(Owner) => ~searching /\ op[Owner] # "wait"
    /\ pc[Worker] = "exited" => exit /\ searching

IInv ==
    /\ Positions
    /\ OneCaller
    /\ Handshake
    /\ NoLostWakeup
    /\ Construction
    /\ Destruction


\* The thread starts with its members typed.
LEMMA TypeInit == Init => TypeOK
<1> SUFFICES ASSUME Init PROVE TypeOK
  OBVIOUS
<1>1. pc \in [Threads -> Labels]
  BY DEF Init, Labels
<1>2. ctor \in 0 .. 3
  BY DEF Init
<1>3. op \in [Clients -> Jobs \cup {"wait", None}]
  BY DEF Init
<1> QED
  BY <1>1, <1>2, <1>3 DEF Init, TypeOK

\* Each step keeps the types.
LEMMA TypeStep == TypeOK /\ [Next]_vars => TypeOK'
<1> SUFFICES ASSUME TypeOK, [Next]_vars PROVE TypeOK'
  OBVIOUS
<1> USE ThreadAssumption DEF TypeOK, Threads, Labels
<1>1. ASSUME WorkerLock PROVE TypeOK'
  BY <1>1 DEF WorkerLock, Acquire, Goto
<1>2. ASSUME WorkerAnnounce PROVE TypeOK'
  BY <1>2 DEF WorkerAnnounce, NotifyOne, Goto
<1>3. ASSUME WorkerCheck PROVE TypeOK'
  BY <1>3 DEF WorkerCheck, Block, Release, Goto
<1>4. ASSUME WorkerTake PROVE TypeOK'
  BY <1>4 DEF WorkerTake, Release, Goto
<1>5. ASSUME WorkerRun PROVE TypeOK'
  BY <1>5 DEF WorkerRun, Goto
<1>6. ASSUME NEW t \in Threads, Rewake(t) PROVE TypeOK'
  BY <1>6 DEF Rewake, Acquire, Goto
<1>7. ASSUME NEW t \in Threads, SpuriousWakeup(t) PROVE TypeOK'
  BY <1>7 DEF SpuriousWakeup
<1>8. ASSUME Construct PROVE TypeOK'
  BY <1>8 DEF Construct, Enter, Goto
<1>9. ASSUME Destroy PROVE TypeOK'
  BY <1>9 DEF Destroy, Enter, Goto, NoCallInProgress
<1>10. ASSUME Join PROVE TypeOK'
  BY <1>10 DEF Join, Goto
<1>11. ASSUME NEW c \in Clients, Call(c) PROVE TypeOK'
  BY <1>11 DEF Call, Enter, Goto, NoCallInProgress
<1>12. ASSUME NEW c \in Clients, ClientLock(c) PROVE TypeOK'
  BY <1>12 DEF ClientLock, Acquire, Goto
<1>13. ASSUME NEW c \in Clients, ClientBlock(c) PROVE TypeOK'
  BY <1>13 DEF ClientBlock, Block, Release, Goto
<1>14. ASSUME NEW c \in Clients, ClientReturn(c) PROVE TypeOK'
  BY <1>14 DEF ClientReturn, Release, Goto
<1>15. ASSUME NEW c \in Clients, ClientStore(c) PROVE TypeOK'
  BY <1>15 DEF ClientStore, Release, Goto
<1>16. ASSUME NEW c \in Clients, ClientNotify(c) PROVE TypeOK'
  BY <1>16 DEF ClientNotify, NotifyOne, Goto
<1>17. CASE UNCHANGED vars
  BY <1>17 DEF vars
<1> QED
  BY <1>1, <1>2, <1>3, <1>4, <1>5, <1>6, <1>7, <1>8, <1>9, <1>10, <1>11, <1>12, <1>13, <1>14, <1>15, <1>16, <1>17 DEF Next, WorkerStep, ClientStep, Destroyed

\* The strengthened invariant holds of a thread being constructed.
LEMMA InvInit == Init => IInv
<1>1. Init => Positions
  BY ThreadAssumption DEF Init, Positions, Threads, InCall
<1>2. Init => OneCaller
  BY ThreadAssumption DEF Init, OneCaller, Threads, InCall
<1>3. Init => Handshake
  BY ThreadAssumption DEF Init, Handshake, Threads, InCall
<1>4. Init => NoLostWakeup
  BY ThreadAssumption DEF Init, NoLostWakeup, Threads, InCall
<1>5. Init => Construction
  BY ThreadAssumption DEF Init, Construction, Threads, InCall
<1>6. Init => Destruction
  BY ThreadAssumption DEF Init, Destruction, Threads, InCall
<1> QED BY <1>1, <1>2, <1>3, <1>4, <1>5, <1>6 DEF IInv

\* Each step of a thread or of a caller keeps it.
LEMMA InvStep == TypeOK /\ IInv /\ [Next]_vars => IInv'
<1> SUFFICES ASSUME TypeOK, TypeOK', IInv, [Next]_vars PROVE IInv'
  BY TypeStep
<1> USE ThreadAssumption DEF IInv, Threads
<1>1. ASSUME WorkerLock PROVE IInv'
  <2>1. Positions'
    BY <1>1 DEF WorkerLock, Acquire, Goto, InCall, Labels, TypeOK, Positions, OneCaller, Handshake, NoLostWakeup, Construction, Destruction
  <2>2. OneCaller'
    BY <1>1 DEF WorkerLock, Acquire, Goto, InCall, Labels, TypeOK, Positions, OneCaller, Handshake, NoLostWakeup, Construction, Destruction
  <2>3. Handshake'
    BY <1>1 DEF WorkerLock, Acquire, Goto, InCall, Labels, TypeOK, Positions, OneCaller, Handshake, NoLostWakeup, Construction, Destruction
  <2>4. NoLostWakeup'
    BY <1>1 DEF WorkerLock, Acquire, Goto, InCall, Labels, TypeOK, Positions, OneCaller, Handshake, NoLostWakeup, Construction, Destruction
  <2>5. Construction'
    BY <1>1 DEF WorkerLock, Acquire, Goto, InCall, Labels, TypeOK, Positions, OneCaller, Handshake, NoLostWakeup, Construction, Destruction
  <2>6. Destruction'
    BY <1>1 DEF WorkerLock, Acquire, Goto, InCall, Labels, TypeOK, Positions, OneCaller, Handshake, NoLostWakeup, Construction, Destruction
  <2> QED BY <2>1, <2>2, <2>3, <2>4, <2>5, <2>6
<1>2. ASSUME WorkerAnnounce PROVE IInv'
  <2>1. Positions'
    BY <1>2 DEF WorkerAnnounce, NotifyOne, Goto, InCall, Labels, TypeOK, Positions, OneCaller, Handshake, NoLostWakeup, Construction, Destruction
  <2>2. OneCaller'
    BY <1>2 DEF WorkerAnnounce, NotifyOne, Goto, InCall, Labels, TypeOK, Positions, OneCaller, Handshake, NoLostWakeup, Construction, Destruction
  <2>3. Handshake'
    BY <1>2 DEF WorkerAnnounce, NotifyOne, Goto, InCall, Labels, TypeOK, Positions, OneCaller, Handshake, NoLostWakeup, Construction, Destruction
  <2>4. NoLostWakeup'
    BY <1>2 DEF WorkerAnnounce, NotifyOne, Goto, InCall, Labels, TypeOK, Positions, OneCaller, Handshake, NoLostWakeup, Construction, Destruction
  <2>5. Construction'
    BY <1>2 DEF WorkerAnnounce, NotifyOne, Goto, InCall, Labels, TypeOK, Positions, OneCaller, Handshake, NoLostWakeup, Construction, Destruction
  <2>6. Destruction'
    BY <1>2 DEF WorkerAnnounce, NotifyOne, Goto, InCall, Labels, TypeOK, Positions, OneCaller, Handshake, NoLostWakeup, Construction, Destruction
  <2> QED BY <2>1, <2>2, <2>3, <2>4, <2>5, <2>6
<1>3. ASSUME WorkerCheck PROVE IInv'
  <2>1. Positions'
    BY <1>3 DEF WorkerCheck, Block, Release, Goto, InCall, Labels, TypeOK, Positions, OneCaller, Handshake, NoLostWakeup, Construction, Destruction
  <2>2. OneCaller'
    BY <1>3 DEF WorkerCheck, Block, Release, Goto, InCall, Labels, TypeOK, Positions, OneCaller, Handshake, NoLostWakeup, Construction, Destruction
  <2>3. Handshake'
    BY <1>3 DEF WorkerCheck, Block, Release, Goto, InCall, Labels, TypeOK, Positions, OneCaller, Handshake, NoLostWakeup, Construction, Destruction
  <2>4. NoLostWakeup'
    BY <1>3 DEF WorkerCheck, Block, Release, Goto, InCall, Labels, TypeOK, Positions, OneCaller, Handshake, NoLostWakeup, Construction, Destruction
  <2>5. Construction'
    BY <1>3 DEF WorkerCheck, Block, Release, Goto, InCall, Labels, TypeOK, Positions, OneCaller, Handshake, NoLostWakeup, Construction, Destruction
  <2>6. Destruction'
    BY <1>3 DEF WorkerCheck, Block, Release, Goto, InCall, Labels, TypeOK, Positions, OneCaller, Handshake, NoLostWakeup, Construction, Destruction
  <2> QED BY <2>1, <2>2, <2>3, <2>4, <2>5, <2>6
<1>4. ASSUME WorkerTake PROVE IInv'
  <2>1. Positions'
    BY <1>4 DEF WorkerTake, Release, Goto, InCall, Labels, TypeOK, Positions, OneCaller, Handshake, NoLostWakeup, Construction, Destruction
  <2>2. OneCaller'
    BY <1>4 DEF WorkerTake, Release, Goto, InCall, Labels, TypeOK, Positions, OneCaller, Handshake, NoLostWakeup, Construction, Destruction
  <2>3. Handshake'
    BY <1>4 DEF WorkerTake, Release, Goto, InCall, Labels, TypeOK, Positions, OneCaller, Handshake, NoLostWakeup, Construction, Destruction
  <2>4. NoLostWakeup'
    BY <1>4 DEF WorkerTake, Release, Goto, InCall, Labels, TypeOK, Positions, OneCaller, Handshake, NoLostWakeup, Construction, Destruction
  <2>5. Construction'
    BY <1>4 DEF WorkerTake, Release, Goto, InCall, Labels, TypeOK, Positions, OneCaller, Handshake, NoLostWakeup, Construction, Destruction
  <2>6. Destruction'
    BY <1>4 DEF WorkerTake, Release, Goto, InCall, Labels, TypeOK, Positions, OneCaller, Handshake, NoLostWakeup, Construction, Destruction
  <2> QED BY <2>1, <2>2, <2>3, <2>4, <2>5, <2>6
<1>5. ASSUME WorkerRun PROVE IInv'
  <2>1. Positions'
    BY <1>5 DEF WorkerRun, Goto, InCall, Labels, TypeOK, Positions, OneCaller, Handshake, NoLostWakeup, Construction, Destruction
  <2>2. OneCaller'
    BY <1>5 DEF WorkerRun, Goto, InCall, Labels, TypeOK, Positions, OneCaller, Handshake, NoLostWakeup, Construction, Destruction
  <2>3. Handshake'
    BY <1>5 DEF WorkerRun, Goto, InCall, Labels, TypeOK, Positions, OneCaller, Handshake, NoLostWakeup, Construction, Destruction
  <2>4. NoLostWakeup'
    BY <1>5 DEF WorkerRun, Goto, InCall, Labels, TypeOK, Positions, OneCaller, Handshake, NoLostWakeup, Construction, Destruction
  <2>5. Construction'
    BY <1>5 DEF WorkerRun, Goto, InCall, Labels, TypeOK, Positions, OneCaller, Handshake, NoLostWakeup, Construction, Destruction
  <2>6. Destruction'
    BY <1>5 DEF WorkerRun, Goto, InCall, Labels, TypeOK, Positions, OneCaller, Handshake, NoLostWakeup, Construction, Destruction
  <2> QED BY <2>1, <2>2, <2>3, <2>4, <2>5, <2>6
<1>6. ASSUME NEW t \in Threads, Rewake(t) PROVE IInv'
  <2>1. Positions'
    BY <1>6 DEF Rewake, Acquire, Goto, InCall, Labels, TypeOK, Positions, OneCaller, Handshake, NoLostWakeup, Construction, Destruction
  <2>2. OneCaller'
    BY <1>6 DEF Rewake, Acquire, Goto, InCall, Labels, TypeOK, Positions, OneCaller, Handshake, NoLostWakeup, Construction, Destruction
  <2>3. Handshake'
    BY <1>6 DEF Rewake, Acquire, Goto, InCall, Labels, TypeOK, Positions, OneCaller, Handshake, NoLostWakeup, Construction, Destruction
  <2>4. NoLostWakeup'
    BY <1>6 DEF Rewake, Acquire, Goto, InCall, Labels, TypeOK, Positions, OneCaller, Handshake, NoLostWakeup, Construction, Destruction
  <2>5. Construction'
    BY <1>6 DEF Rewake, Acquire, Goto, InCall, Labels, TypeOK, Positions, OneCaller, Handshake, NoLostWakeup, Construction, Destruction
  <2>6. Destruction'
    BY <1>6 DEF Rewake, Acquire, Goto, InCall, Labels, TypeOK, Positions, OneCaller, Handshake, NoLostWakeup, Construction, Destruction
  <2> QED BY <2>1, <2>2, <2>3, <2>4, <2>5, <2>6
<1>7. ASSUME NEW t \in Threads, SpuriousWakeup(t) PROVE IInv'
  <2>1. Positions'
    BY <1>7 DEF SpuriousWakeup, InCall, Labels, TypeOK, Positions, OneCaller, Handshake, NoLostWakeup, Construction, Destruction
  <2>2. OneCaller'
    BY <1>7 DEF SpuriousWakeup, InCall, Labels, TypeOK, Positions, OneCaller, Handshake, NoLostWakeup, Construction, Destruction
  <2>3. Handshake'
    BY <1>7 DEF SpuriousWakeup, InCall, Labels, TypeOK, Positions, OneCaller, Handshake, NoLostWakeup, Construction, Destruction
  <2>4. NoLostWakeup'
    BY <1>7 DEF SpuriousWakeup, InCall, Labels, TypeOK, Positions, OneCaller, Handshake, NoLostWakeup, Construction, Destruction
  <2>5. Construction'
    BY <1>7 DEF SpuriousWakeup, InCall, Labels, TypeOK, Positions, OneCaller, Handshake, NoLostWakeup, Construction, Destruction
  <2>6. Destruction'
    BY <1>7 DEF SpuriousWakeup, InCall, Labels, TypeOK, Positions, OneCaller, Handshake, NoLostWakeup, Construction, Destruction
  <2> QED BY <2>1, <2>2, <2>3, <2>4, <2>5, <2>6
<1>8. ASSUME Construct PROVE IInv'
  <2>1. Positions'
    BY <1>8 DEF Construct, Enter, Goto, InCall, Labels, TypeOK, Positions, OneCaller, Handshake, NoLostWakeup, Construction, Destruction
  <2>2. OneCaller'
    BY <1>8 DEF Construct, Enter, Goto, InCall, Labels, TypeOK, Positions, OneCaller, Handshake, NoLostWakeup, Construction, Destruction
  <2>3. Handshake'
    BY <1>8 DEF Construct, Enter, Goto, InCall, Labels, TypeOK, Positions, OneCaller, Handshake, NoLostWakeup, Construction, Destruction
  <2>4. NoLostWakeup'
    BY <1>8 DEF Construct, Enter, Goto, InCall, Labels, TypeOK, Positions, OneCaller, Handshake, NoLostWakeup, Construction, Destruction
  <2>5. Construction'
    BY <1>8 DEF Construct, Enter, Goto, InCall, Labels, TypeOK, Positions, OneCaller, Handshake, NoLostWakeup, Construction, Destruction
  <2>6. Destruction'
    BY <1>8 DEF Construct, Enter, Goto, InCall, Labels, TypeOK, Positions, OneCaller, Handshake, NoLostWakeup, Construction, Destruction
  <2> QED BY <2>1, <2>2, <2>3, <2>4, <2>5, <2>6
<1>9. ASSUME Destroy PROVE IInv'
  <2>1. Positions'
    BY <1>9 DEF Destroy, Enter, Goto, NoCallInProgress, InCall, Labels, TypeOK, Positions, OneCaller, Handshake, NoLostWakeup, Construction, Destruction
  <2>2. OneCaller'
    BY <1>9 DEF Destroy, Enter, Goto, NoCallInProgress, InCall, Labels, TypeOK, Positions, OneCaller, Handshake, NoLostWakeup, Construction, Destruction
  <2>3. Handshake'
    BY <1>9 DEF Destroy, Enter, Goto, NoCallInProgress, InCall, Labels, TypeOK, Positions, OneCaller, Handshake, NoLostWakeup, Construction, Destruction
  <2>4. NoLostWakeup'
    BY <1>9 DEF Destroy, Enter, Goto, NoCallInProgress, InCall, Labels, TypeOK, Positions, OneCaller, Handshake, NoLostWakeup, Construction, Destruction
  <2>5. Construction'
    BY <1>9 DEF Destroy, Enter, Goto, NoCallInProgress, InCall, Labels, TypeOK, Positions, OneCaller, Handshake, NoLostWakeup, Construction, Destruction
  <2>6. Destruction'
    BY <1>9 DEF Destroy, Enter, Goto, NoCallInProgress, InCall, Labels, TypeOK, Positions, OneCaller, Handshake, NoLostWakeup, Construction, Destruction
  <2> QED BY <2>1, <2>2, <2>3, <2>4, <2>5, <2>6
<1>10. ASSUME Join PROVE IInv'
  <2>1. Positions'
    BY <1>10 DEF Join, Goto, InCall, Labels, TypeOK, Positions, OneCaller, Handshake, NoLostWakeup, Construction, Destruction
  <2>2. OneCaller'
    BY <1>10 DEF Join, Goto, InCall, Labels, TypeOK, Positions, OneCaller, Handshake, NoLostWakeup, Construction, Destruction
  <2>3. Handshake'
    BY <1>10 DEF Join, Goto, InCall, Labels, TypeOK, Positions, OneCaller, Handshake, NoLostWakeup, Construction, Destruction
  <2>4. NoLostWakeup'
    BY <1>10 DEF Join, Goto, InCall, Labels, TypeOK, Positions, OneCaller, Handshake, NoLostWakeup, Construction, Destruction
  <2>5. Construction'
    BY <1>10 DEF Join, Goto, InCall, Labels, TypeOK, Positions, OneCaller, Handshake, NoLostWakeup, Construction, Destruction
  <2>6. Destruction'
    BY <1>10 DEF Join, Goto, InCall, Labels, TypeOK, Positions, OneCaller, Handshake, NoLostWakeup, Construction, Destruction
  <2> QED BY <2>1, <2>2, <2>3, <2>4, <2>5, <2>6
<1>11. ASSUME NEW c \in Clients, Call(c) PROVE IInv'
  <2>1. Positions'
    BY <1>11 DEF Call, Enter, Goto, NoCallInProgress, InCall, Labels, TypeOK, Positions, OneCaller, Handshake, NoLostWakeup, Construction, Destruction
  <2>2. OneCaller'
    BY <1>11 DEF Call, Enter, Goto, NoCallInProgress, InCall, Labels, TypeOK, Positions, OneCaller, Handshake, NoLostWakeup, Construction, Destruction
  <2>3. Handshake'
    BY <1>11 DEF Call, Enter, Goto, NoCallInProgress, InCall, Labels, TypeOK, Positions, OneCaller, Handshake, NoLostWakeup, Construction, Destruction
  <2>4. NoLostWakeup'
    BY <1>11 DEF Call, Enter, Goto, NoCallInProgress, InCall, Labels, TypeOK, Positions, OneCaller, Handshake, NoLostWakeup, Construction, Destruction
  <2>5. Construction'
    BY <1>11 DEF Call, Enter, Goto, NoCallInProgress, InCall, Labels, TypeOK, Positions, OneCaller, Handshake, NoLostWakeup, Construction, Destruction
  <2>6. Destruction'
    BY <1>11 DEF Call, Enter, Goto, NoCallInProgress, InCall, Labels, TypeOK, Positions, OneCaller, Handshake, NoLostWakeup, Construction, Destruction
  <2> QED BY <2>1, <2>2, <2>3, <2>4, <2>5, <2>6
<1>12. ASSUME NEW c \in Clients, ClientLock(c) PROVE IInv'
  <2>1. Positions'
    BY <1>12 DEF ClientLock, Acquire, Goto, InCall, Labels, TypeOK, Positions, OneCaller, Handshake, NoLostWakeup, Construction, Destruction
  <2>2. OneCaller'
    BY <1>12 DEF ClientLock, Acquire, Goto, InCall, Labels, TypeOK, Positions, OneCaller, Handshake, NoLostWakeup, Construction, Destruction
  <2>3. Handshake'
    BY <1>12 DEF ClientLock, Acquire, Goto, InCall, Labels, TypeOK, Positions, OneCaller, Handshake, NoLostWakeup, Construction, Destruction
  <2>4. NoLostWakeup'
    BY <1>12 DEF ClientLock, Acquire, Goto, InCall, Labels, TypeOK, Positions, OneCaller, Handshake, NoLostWakeup, Construction, Destruction
  <2>5. Construction'
    BY <1>12 DEF ClientLock, Acquire, Goto, InCall, Labels, TypeOK, Positions, OneCaller, Handshake, NoLostWakeup, Construction, Destruction
  <2>6. Destruction'
    BY <1>12 DEF ClientLock, Acquire, Goto, InCall, Labels, TypeOK, Positions, OneCaller, Handshake, NoLostWakeup, Construction, Destruction
  <2> QED BY <2>1, <2>2, <2>3, <2>4, <2>5, <2>6
<1>13. ASSUME NEW c \in Clients, ClientBlock(c) PROVE IInv'
  <2>1. Positions'
    BY <1>13 DEF ClientBlock, Block, Release, Goto, InCall, Labels, TypeOK, Positions, OneCaller, Handshake, NoLostWakeup, Construction, Destruction
  <2>2. OneCaller'
    BY <1>13 DEF ClientBlock, Block, Release, Goto, InCall, Labels, TypeOK, Positions, OneCaller, Handshake, NoLostWakeup, Construction, Destruction
  <2>3. Handshake'
    BY <1>13 DEF ClientBlock, Block, Release, Goto, InCall, Labels, TypeOK, Positions, OneCaller, Handshake, NoLostWakeup, Construction, Destruction
  <2>4. NoLostWakeup'
    BY <1>13 DEF ClientBlock, Block, Release, Goto, InCall, Labels, TypeOK, Positions, OneCaller, Handshake, NoLostWakeup, Construction, Destruction
  <2>5. Construction'
    BY <1>13 DEF ClientBlock, Block, Release, Goto, InCall, Labels, TypeOK, Positions, OneCaller, Handshake, NoLostWakeup, Construction, Destruction
  <2>6. Destruction'
    BY <1>13 DEF ClientBlock, Block, Release, Goto, InCall, Labels, TypeOK, Positions, OneCaller, Handshake, NoLostWakeup, Construction, Destruction
  <2> QED BY <2>1, <2>2, <2>3, <2>4, <2>5, <2>6
<1>14. ASSUME NEW c \in Clients, ClientReturn(c) PROVE IInv'
  <2>1. Positions'
    BY <1>14 DEF ClientReturn, Release, Goto, InCall, Labels, TypeOK, Positions, OneCaller, Handshake, NoLostWakeup, Construction, Destruction
  <2>2. OneCaller'
    BY <1>14 DEF ClientReturn, Release, Goto, InCall, Labels, TypeOK, Positions, OneCaller, Handshake, NoLostWakeup, Construction, Destruction
  <2>3. Handshake'
    BY <1>14 DEF ClientReturn, Release, Goto, InCall, Labels, TypeOK, Positions, OneCaller, Handshake, NoLostWakeup, Construction, Destruction
  <2>4. NoLostWakeup'
    BY <1>14 DEF ClientReturn, Release, Goto, InCall, Labels, TypeOK, Positions, OneCaller, Handshake, NoLostWakeup, Construction, Destruction
  <2>5. Construction'
    BY <1>14 DEF ClientReturn, Release, Goto, InCall, Labels, TypeOK, Positions, OneCaller, Handshake, NoLostWakeup, Construction, Destruction
  <2>6. Destruction'
    BY <1>14 DEF ClientReturn, Release, Goto, InCall, Labels, TypeOK, Positions, OneCaller, Handshake, NoLostWakeup, Construction, Destruction
  <2> QED BY <2>1, <2>2, <2>3, <2>4, <2>5, <2>6
<1>15. ASSUME NEW c \in Clients, ClientStore(c) PROVE IInv'
  <2>1. Positions'
    BY <1>15 DEF ClientStore, Release, Goto, InCall, Labels, TypeOK, Positions, OneCaller, Handshake, NoLostWakeup, Construction, Destruction
  <2>2. OneCaller'
    BY <1>15 DEF ClientStore, Release, Goto, InCall, Labels, TypeOK, Positions, OneCaller, Handshake, NoLostWakeup, Construction, Destruction
  <2>3. Handshake'
    BY <1>15 DEF ClientStore, Release, Goto, InCall, Labels, TypeOK, Positions, OneCaller, Handshake, NoLostWakeup, Construction, Destruction
  <2>4. NoLostWakeup'
    BY <1>15 DEF ClientStore, Release, Goto, InCall, Labels, TypeOK, Positions, OneCaller, Handshake, NoLostWakeup, Construction, Destruction
  <2>5. Construction'
    BY <1>15 DEF ClientStore, Release, Goto, InCall, Labels, TypeOK, Positions, OneCaller, Handshake, NoLostWakeup, Construction, Destruction
  <2>6. Destruction'
    BY <1>15 DEF ClientStore, Release, Goto, InCall, Labels, TypeOK, Positions, OneCaller, Handshake, NoLostWakeup, Construction, Destruction
  <2> QED BY <2>1, <2>2, <2>3, <2>4, <2>5, <2>6
<1>16. ASSUME NEW c \in Clients, ClientNotify(c) PROVE IInv'
  <2>1. Positions'
    BY <1>16 DEF ClientNotify, NotifyOne, Goto, InCall, Labels, TypeOK, Positions, OneCaller, Handshake, NoLostWakeup, Construction, Destruction
  <2>2. OneCaller'
    BY <1>16 DEF ClientNotify, NotifyOne, Goto, InCall, Labels, TypeOK, Positions, OneCaller, Handshake, NoLostWakeup, Construction, Destruction
  <2>3. Handshake'
    BY <1>16 DEF ClientNotify, NotifyOne, Goto, InCall, Labels, TypeOK, Positions, OneCaller, Handshake, NoLostWakeup, Construction, Destruction
  <2>4. NoLostWakeup'
    BY <1>16 DEF ClientNotify, NotifyOne, Goto, InCall, Labels, TypeOK, Positions, OneCaller, Handshake, NoLostWakeup, Construction, Destruction
  <2>5. Construction'
    BY <1>16 DEF ClientNotify, NotifyOne, Goto, InCall, Labels, TypeOK, Positions, OneCaller, Handshake, NoLostWakeup, Construction, Destruction
  <2>6. Destruction'
    BY <1>16 DEF ClientNotify, NotifyOne, Goto, InCall, Labels, TypeOK, Positions, OneCaller, Handshake, NoLostWakeup, Construction, Destruction
  <2> QED BY <2>1, <2>2, <2>3, <2>4, <2>5, <2>6
<1>17. CASE UNCHANGED vars
  BY <1>17 DEF vars, InCall, TypeOK, Positions, OneCaller, Handshake, NoLostWakeup, Construction, Destruction
<1> QED
  BY <1>1, <1>2, <1>3, <1>4, <1>5, <1>6, <1>7, <1>8, <1>9, <1>10, <1>11, <1>12, <1>13, <1>14, <1>15, <1>16, <1>17 DEF Next, WorkerStep, ClientStep, Destroyed

-----------------------------------------------------------------------------
(* The theorems.                                                           *)

\* The members of Thread and the positions of the threads keep their types.
THEOREM TypeCorrect == Spec => []TypeOK
<1> QED BY TypeInit, TypeStep, PTL DEF Spec

\* The strengthened invariant holds throughout.
THEOREM Invariance == Spec => []IInv
<1> QED BY TypeCorrect, InvInit, InvStep, PTL DEF Spec

\* No wake-up is lost, for any number of callers that take turns: this is
\* what lets both sides use notify_one() on one condition variable.
THEOREM WakeupsArrive == Spec => []NoLostWakeup
<1>1. IInv => NoLostWakeup
  BY DEF IInv
<1> QED BY <1>1, Invariance, PTL

\* The worker only ever runs a job it was given, with its worker object
\* allocated, finds nothing of a finished job left over, and runs nothing
\* once it is being destroyed.
THEOREM JobsSafe == Spec => [](JobsAreReal /\ QuietWhenIdle /\ NothingRunsAfterExit)
<1>1. TypeOK /\ IInv => JobsAreReal
  BY ThreadAssumption
     DEF TypeOK, IInv, JobsAreReal, Handshake, Construction
<1>2. IInv => QuietWhenIdle
  BY DEF IInv, QuietWhenIdle, Handshake
<1>3. IInv => NothingRunsAfterExit
  BY DEF IInv, NothingRunsAfterExit, Destruction
<1> QED BY <1>1, <1>2, <1>3, TypeCorrect, Invariance, PTL

\* The mutex and the condition variable implement the job slot: a job handed
\* over is picked up once, in the order handed over, and a wait is answered
\* only while nothing is pending or running.
THEOREM Refinement == Spec => ImplementsJobSlot
<1> USE ThreadAssumption
<1>1. Init => Slot!Init
  BY DEF Init, Slot!Init, SlotStatus, SlotPending, SlotAsked, InCall, Threads
<1>2. TypeOK /\ IInv /\ IInv' /\ [Next]_vars => [Slot!Next]_(Slot!vars)
  <2> SUFFICES ASSUME TypeOK, IInv, IInv', [Next]_vars
               PROVE  [Slot!Next]_(Slot!vars)
    OBVIOUS
  <2> USE DEF TypeOK, IInv, Threads, InCall
  <2>1. ASSUME WorkerLock PROVE UNCHANGED Slot!vars
    BY <2>1 DEF WorkerLock, Goto, Slot!vars, SlotStatus, SlotPending, SlotAsked
  <2>2. ASSUME WorkerAnnounce PROVE Slot!Finish
    <3>1. SlotStatus = "busy" /\ SlotStatus' = "idle"
      BY <2>2 DEF WorkerAnnounce, Goto, SlotStatus, Handshake
    <3>2. UNCHANGED <<SlotPending, SlotAsked>>
      BY <2>2 DEF WorkerAnnounce, Goto, SlotPending, SlotAsked
    <3> QED BY <3>1, <3>2 DEF Slot!Finish
  <2>3. ASSUME WorkerCheck PROVE UNCHANGED Slot!vars
    BY <2>3 DEF WorkerCheck, Block, Goto, Slot!vars, SlotStatus, SlotPending, SlotAsked
  <2>4. ASSUME WorkerTake PROVE Slot!Take \/ Slot!Leave
    <3>0. UNCHANGED SlotAsked
      BY <2>4 DEF WorkerTake, Goto, SlotAsked
    <3>1. SlotStatus = "full" /\ SlotPending' = None
      BY <2>4 DEF WorkerTake, Goto, SlotStatus, SlotPending, Handshake
    <3>2. CASE exit
      <4>1. SlotStatus' = "gone"
        BY <2>4, <3>2 DEF WorkerTake, Goto, SlotStatus
      <4> QED BY <3>0, <3>1, <4>1 DEF Slot!Leave
    <3>3. CASE ~exit
      <4>1. SlotStatus' = "busy"
        BY <2>4, <3>3 DEF WorkerTake, Goto, SlotStatus, Handshake
      <4> QED BY <3>0, <3>1, <4>1 DEF Slot!Take
    <3> QED BY <3>2, <3>3
  <2>5. ASSUME WorkerRun PROVE UNCHANGED Slot!vars
    BY <2>5 DEF WorkerRun, Goto, Slot!vars, SlotStatus, SlotPending, SlotAsked
  <2>6. ASSUME NEW t \in Threads, Rewake(t) PROVE UNCHANGED Slot!vars
    BY <2>6 DEF Rewake, Goto, Slot!vars, SlotStatus, SlotPending, SlotAsked
  <2>7. ASSUME NEW t \in Threads, SpuriousWakeup(t) PROVE UNCHANGED Slot!vars
    BY <2>7 DEF SpuriousWakeup, Slot!vars, SlotStatus, SlotPending, SlotAsked
  <2>8. ASSUME NEW c \in Clients, NEW what \in Jobs \cup {"wait"},
               pc[c] = "idle", Enter(c, what)
        PROVE  Slot!Ask(c, what)
    <3>1. UNCHANGED <<SlotStatus, SlotPending>>
      BY <2>8 DEF Enter, Goto, SlotStatus, SlotPending
    <3>2. SlotAsked[c] = None /\ SlotAsked' = [SlotAsked EXCEPT ![c] = what]
      BY <2>8 DEF Enter, Goto, SlotAsked
    <3> QED BY <3>1, <3>2 DEF Slot!Ask
  <2>9. ASSUME Construct \/ Destroy \/ \E c \in Clients : Call(c)
        PROVE  Slot!Next
    <3>1. \E c \in Clients, what \in Jobs \cup {"wait"} :
             pc[c] = "idle" /\ Enter(c, what)
      BY <2>9 DEF Construct, Destroy, Call, NoCallInProgress
    <3> QED BY <2>8, <3>1 DEF Slot!Next
  <2>10. ASSUME Join PROVE UNCHANGED Slot!vars
    BY <2>10 DEF Join, Goto, Slot!vars, SlotStatus, SlotPending, SlotAsked
  <2>11. ASSUME NEW c \in Clients, ClientLock(c) PROVE UNCHANGED Slot!vars
    BY <2>11 DEF ClientLock, Goto, Slot!vars, SlotStatus, SlotPending, SlotAsked
  <2>12. ASSUME NEW c \in Clients, ClientBlock(c) PROVE UNCHANGED Slot!vars
    BY <2>12 DEF ClientBlock, Block, Goto, Slot!vars, SlotStatus, SlotPending, SlotAsked
  <2>13. ASSUME NEW c \in Clients, ClientReturn(c) PROVE Slot!Answer(c)
    <3>1. SlotStatus = "idle" /\ UNCHANGED <<SlotStatus, SlotPending>>
      BY <2>13 DEF ClientReturn, Goto, SlotStatus, SlotPending, Handshake
    <3>2. SlotAsked[c] = "wait" /\ SlotAsked' = [SlotAsked EXCEPT ![c] = None]
      BY <2>13 DEF ClientReturn, Goto, SlotAsked
    <3> QED BY <3>1, <3>2 DEF Slot!Answer
  <2>14. ASSUME NEW c \in Clients, ClientStore(c) PROVE Slot!Fill(c)
    <3>1. SlotAsked[c] = op[c] /\ op[c] \in Jobs
      BY <2>14 DEF ClientStore, SlotAsked, OneCaller
    <3>2. SlotStatus = "idle" /\ SlotStatus' = "full" /\ SlotPending' = op[c]
      BY <2>14, <3>1 DEF ClientStore, Goto, SlotStatus, SlotPending, Handshake
    <3>3. SlotAsked' = [SlotAsked EXCEPT ![c] = None]
      BY <2>14 DEF ClientStore, Goto, SlotAsked
    <3> QED BY <3>1, <3>2, <3>3 DEF Slot!Fill
  <2>15. ASSUME NEW c \in Clients, ClientNotify(c) PROVE UNCHANGED Slot!vars
    BY <2>15 DEF ClientNotify, Goto, Slot!vars, SlotStatus, SlotPending, SlotAsked
  <2>16. CASE UNCHANGED vars
    BY <2>16 DEF vars, Slot!vars, SlotStatus, SlotPending, SlotAsked
  <2> QED
    BY <2>1, <2>2, <2>3, <2>4, <2>5, <2>6, <2>7, <2>9, <2>10, <2>11, <2>12, <2>13,
       <2>14, <2>15, <2>16
    DEF Next, WorkerStep, ClientStep, Destroyed, Slot!Next
<1> QED BY <1>1, <1>2, TypeCorrect, Invariance, PTL DEF Spec, Slot!Spec, ImplementsJobSlot

=============================================================================
