----------------------------- MODULE EngineProofs -----------------------------
(***************************************************************************)
(* Proofs about Engine, for any number of threads, any positions, limits   *)
(* and MAX_PLY: the commands of the UCI thread never meet a search they    *)
(* would disturb, and the engine carries on the dialogue of UciDialogue.   *)
(*                                                                         *)
(* The invariant says for each phase of a command and each label of the    *)
(* main search which threads can have what to do.                          *)
(***************************************************************************)
EXTENDS Engine, TLAPS

\* The parts of the type invariant, by the variables that change together.
UciTyped ==
    /\ phase \in Phases
    /\ cmd \in {"go", "resize", "hash", "network", "option", "newgame", "quit"}
    /\ at \in Threads
    /\ limit \in Limits \cup {None} /\ want \in 1 .. MaxThreads
    /\ pos \in Positions /\ states \in BOOLEAN

PoolTyped ==
    /\ setup \in BOOLEAN
    /\ live \subseteq Threads /\ anchored \subseteq Threads
    /\ job \in [Threads -> Jobs \cup {None}]
    /\ root \in [Threads -> [pos : Positions, limits : Limits] \cup {None}]

FlagsTyped ==
    /\ stop \in BOOLEAN /\ ponder \in BOOLEAN /\ stopOnPonderhit \in BOOLEAN
    /\ owed \in Nat /\ told \subseteq {"stop", "ponderhit"}

SearchTyped ==
    mpc \in Labels /\ mi \in 0 .. MaxThreads /\ depth \in 0 .. MaxPly

InSearch == mpc # "none"
SettingUp == phase \in {"setup", "awaitSetup", "start"}
LoopPhases == {"setup", "awaitSetup", "zero", "awaitZero", "clear", "awaitClear"}

\* The pool is a first part of the threads, of which resize may want another
\* size while it still waits for them.
PoolInOrder ==
    /\ phase \notin {"destroy", "create", "gone"} =>
          Main \in live /\ \A t \in live : \A u \in 0 .. t : u \in live
    /\ phase \notin {"destroy", "create", "gone"} /\ ~(cmd = "resize" /\ phase \in {"wait", "helpers"})
          => live = 0 .. Last
    /\ phase = "create" => live = 0 .. (at - 1) \/ live = 0 .. at
    /\ phase = "gone" => live = {}
    /\ phase \in LoopPhases \cup {"create"} => at <= Last
    /\ phase \in {"helpers", "destroy"} => at = 0

\* A thread has been handed what the loop of the command has given it and
\* not yet waited for, or it searches in the main worker's keeping.
HandedOut(what, posting, awaiting, t) ==
    /\ job[t] = what
    /\ \/ phase = posting /\ t < at
       \/ phase = awaiting /\ t >= at

SearchHandedOut(t) ==
    /\ job[t] = "search"
    /\ \/ t = Main
       \/ mpc = "launch" /\ t < mi
       \/ mpc \in {"iterate", "root", "mate", "clock", "hold"}
       \/ mpc = "collect" /\ t >= mi

InPlace(t) ==
    job[t] # None =>
          /\ t \in live
          /\ \/ HandedOut("setup", "setup", "awaitSetup", t)
             \/ HandedOut("zero", "zero", "awaitZero", t)
             \/ HandedOut("clear", "clear", "awaitClear", t)
             \/ job[t] = "build" /\ phase = "create" /\ t = at
             \/ SearchHandedOut(t)

JobsInPlace == \A t \in Threads : InPlace(t)

\* The main worker searches between two commands, or while one waits for it.
MainInPlace ==
    /\ (job[Main] = "search") <=> InSearch
    /\ InSearch => phase \in {"idle", "wait"}
    /\ mpc \in {"launch", "collect"} => mi >= 1
    /\ mpc = "root" => depth + 1 < MaxPly

\* What the workers are set up with: from the setup jobs to the bestmove it
\* is one position and one set of limits, on a list of states that is there.
Ready(t) == root[t] = [pos |-> pos, limits |-> limit] /\ t \in anchored

RootsAgree ==
    /\ cmd = "go" => limit \in Limits
    /\ SettingUp => cmd = "go"
    /\ states \/ setup
    /\ SettingUp \/ InSearch => setup
    /\ phase = "setup" => \A t \in live : t < at => job[t] = "setup" \/ Ready(t)
    /\ phase = "awaitSetup" => \A t \in live : job[t] = "setup" \/ Ready(t)
    /\ phase = "start" => \A t \in live : Ready(t)
    /\ InSearch => /\ root[Main] \in [pos : Positions, limits : Limits]
                   /\ \A t \in live : root[t] = root[Main] /\ t \in anchored

\* What the GUI has said is in the flags, and what it has not is not.
FlagsFollowTalk ==
    /\ "stop" \in told => stop
    /\ SettingUp => told = {} /\ ~stop /\ (ponder <=> limit.ponder)
    /\ InSearch /\ "ponderhit" \in told => ~ponder
    /\ InSearch /\ ponder => limits.ponder
    /\ mpc \in {"collect", "answer"} => stop
    /\ owed = IF mpc \in {"none", "done"} THEN 0 ELSE 1

IInv ==
    /\ PoolInOrder
    /\ JobsInPlace
    /\ MainInPlace
    /\ RootsAgree
    /\ FlagsFollowTalk

\* Limits that a search does not end by itself while it has to wait for the
\* GUI: those the dialogue is promised for.
GuiEndsTheSearch ==
    \A l \in Limits : /\ l.timed \/ l.budget \/ l.mate => ~l.infinite
                      /\ l.mate => ~l.ponder

\* Under such limits stop is raised only when the bestmove may be printed.
StopReleases == 
    (InSearch /\ stop) => ("stop" \in told \/ ~(ponder \/ limits.infinite))

\* There is a main thread, room for two plies, and None is no job.
LEMMA Sizes == /\ MaxThreads \in Nat /\ MaxThreads >= 1 /\ Main \in Threads
               /\ MaxPly \in Nat /\ MaxPly >= 2
               /\ None \notin {"build", "setup", "clear", "zero", "search"}
  BY EngineAssumption DEF Main, Threads, Jobs

\* Limits say of each kind whether they are of it.
LEMMA LimitsTyped ==
    \A l \in Limits : /\ l.infinite \in BOOLEAN /\ l.ponder \in BOOLEAN
                      /\ l.timed \in BOOLEAN /\ l.budget \in BOOLEAN
                      /\ l.mate \in BOOLEAN /\ l.depth \in Nat
  BY EngineAssumption

\* The type invariant is made of its parts.
LEMMA TypeParts == TypeOK <=> UciTyped /\ PoolTyped /\ FlagsTyped /\ SearchTyped
  BY DEF TypeOK, UciTyped, PoolTyped, FlagsTyped, SearchTyped

\* The constructor starts with every variable typed and the pool empty.
LEMMA InvInit == Init => TypeOK /\ IInv
<1> SUFFICES ASSUME Init PROVE TypeOK /\ IInv
  OBVIOUS
<1> USE EngineAssumption DEF Init, Threads, Main
<1>1. UciTyped
  BY DEF UciTyped, Phases
<1>2. PoolTyped
  BY DEF PoolTyped
<1>3. FlagsTyped
  BY DEF FlagsTyped
<1>9. SearchTyped
  BY Sizes DEF SearchTyped, Labels
<1>4. PoolInOrder
  BY DEF PoolInOrder, LoopPhases, Last
<1>5. JobsInPlace
  BY DEF JobsInPlace, InPlace
<1>6. MainInPlace
  BY Sizes DEF MainInPlace, InSearch
<1>7. RootsAgree
  BY DEF RootsAgree, SettingUp, InSearch
<1>8. FlagsFollowTalk
  BY DEF FlagsFollowTalk, SettingUp, InSearch
<1> QED
  BY <1>1, <1>2, <1>3, <1>9, <1>4, <1>5, <1>6, <1>7, <1>8, TypeParts DEF IInv

\* The variables of the UCI thread keep their types.
LEMMA UciTypedStep == TypeOK /\ IInv /\ [Next]_vars => UciTyped'
<1> SUFFICES ASSUME UciTyped, PoolTyped, FlagsTyped,
                    SearchTyped, PoolInOrder, JobsInPlace, MainInPlace,
                    RootsAgree, FlagsFollowTalk, [Next]_vars
             PROVE UciTyped'
  BY TypeParts DEF IInv
<1> USE DEF Threads, Main, uciVars, poolVars, flags, searchVars, talk
<1>1. ASSUME Stop PROVE UciTyped'
  BY <1>1 DEF UciTyped, Stop, Listening
<1>2. ASSUME Ponderhit PROVE UciTyped'
  BY <1>2 DEF UciTyped, Ponderhit, Listening
<1>3. ASSUME Position PROVE UciTyped'
  BY <1>3 DEF UciTyped, Position, Listening
<1>4. ASSUME Go PROVE UciTyped'
  BY <1>4, Sizes DEF UciTyped, Phases, Go, Begin, Listening
<1>5. ASSUME SetThreads PROVE UciTyped'
  BY <1>5, Sizes DEF UciTyped, Phases, SetThreads, Begin, Listening
<1>6. ASSUME SetOther PROVE UciTyped'
  BY <1>6, Sizes DEF UciTyped, Phases, SetOther, Begin, Listening
<1>7. ASSUME Quit PROVE UciTyped'
  BY <1>7, Sizes DEF UciTyped, Phases, Quit, Begin, Listening
<1>8. ASSUME Waited PROVE UciTyped'
  <2>1. CASE cmd = "go"
    BY <1>8, <2>1, Sizes DEF UciTyped, Phases, Waited, Idle
  <2>2. CASE cmd = "resize"
    BY <1>8, <2>2, Sizes DEF UciTyped, Phases, Waited, Idle
  <2>3. CASE cmd \in {"hash", "newgame"}
    BY <1>8, <2>3, Sizes DEF UciTyped, Phases, Waited, Idle
  <2>4. CASE cmd = "network"
    BY <1>8, <2>4, Sizes DEF UciTyped, Phases, Waited, Idle
  <2>5. CASE cmd = "option"
    BY <1>8, <2>5, Sizes DEF UciTyped, Phases, Waited, Idle
  <2>6. CASE cmd = "quit"
    BY <1>8, <2>6, Sizes DEF UciTyped, Phases, Waited, Idle
  <2> QED
    BY <2>1, <2>2, <2>3, <2>4, <2>5, <2>6 DEF UciTyped
<1>9. ASSUME Loops /\ SetupWorkers PROVE UciTyped'
  <2>1. CASE phase = "setup" /\ at # Last
    BY <1>9, <2>1, Sizes DEF UciTyped, Phases, PoolInOrder, LoopPhases, Loops, SetupWorkers, ZeroTable, ClearWorkers, Post, Await, Idle, Last
  <2>2. CASE phase = "setup" /\ at = Last
    BY <1>9, <2>2, Sizes DEF UciTyped, Phases, PoolInOrder, LoopPhases, Loops, SetupWorkers, ZeroTable, ClearWorkers, Post, Await, Idle, Last
  <2>3. CASE phase = "awaitSetup" /\ at # Last
    BY <1>9, <2>3, Sizes DEF UciTyped, Phases, PoolInOrder, LoopPhases, Loops, SetupWorkers, ZeroTable, ClearWorkers, Post, Await, Idle, Last
  <2>4. CASE phase = "awaitSetup" /\ at = Last
    BY <1>9, <2>4, Sizes DEF UciTyped, Phases, PoolInOrder, LoopPhases, Loops, SetupWorkers, ZeroTable, ClearWorkers, Post, Await, Idle, Last
  <2> QED
    BY <2>1, <2>2, <2>3, <2>4, <1>9 DEF SetupWorkers
<1>10. ASSUME Loops /\ ZeroTable PROVE UciTyped'
  <2>1. CASE phase = "zero" /\ at # Last
    BY <1>10, <2>1, Sizes DEF UciTyped, Phases, PoolInOrder, LoopPhases, Loops, SetupWorkers, ZeroTable, ClearWorkers, Post, Await, Idle, AfterZero, Last
  <2>2. CASE phase = "zero" /\ at = Last
    BY <1>10, <2>2, Sizes DEF UciTyped, Phases, PoolInOrder, LoopPhases, Loops, SetupWorkers, ZeroTable, ClearWorkers, Post, Await, Idle, AfterZero, Last
  <2>3. CASE phase = "awaitZero" /\ at # Last
    BY <1>10, <2>3, Sizes DEF UciTyped, Phases, PoolInOrder, LoopPhases, Loops, SetupWorkers, ZeroTable, ClearWorkers, Post, Await, Idle, AfterZero, Last
  <2>4. CASE phase = "awaitZero" /\ at = Last
    BY <1>10, <2>4, Sizes DEF UciTyped, Phases, PoolInOrder, LoopPhases, Loops, SetupWorkers, ZeroTable, ClearWorkers, Post, Await, Idle, AfterZero, Last
  <2> QED
    BY <2>1, <2>2, <2>3, <2>4, <1>10 DEF ZeroTable
<1>11. ASSUME Loops /\ ClearWorkers PROVE UciTyped'
  <2>1. CASE phase = "clear" /\ at # Last
    BY <1>11, <2>1, Sizes DEF UciTyped, Phases, PoolInOrder, LoopPhases, Loops, SetupWorkers, ZeroTable, ClearWorkers, Post, Await, Idle, AfterClear, Last
  <2>2. CASE phase = "clear" /\ at = Last
    BY <1>11, <2>2, Sizes DEF UciTyped, Phases, PoolInOrder, LoopPhases, Loops, SetupWorkers, ZeroTable, ClearWorkers, Post, Await, Idle, AfterClear, Last
  <2>3. CASE phase = "awaitClear" /\ at # Last
    BY <1>11, <2>3, Sizes DEF UciTyped, Phases, PoolInOrder, LoopPhases, Loops, SetupWorkers, ZeroTable, ClearWorkers, Post, Await, Idle, AfterClear, Last
  <2>4. CASE phase = "awaitClear" /\ at = Last
    BY <1>11, <2>4, Sizes DEF UciTyped, Phases, PoolInOrder, LoopPhases, Loops, SetupWorkers, ZeroTable, ClearWorkers, Post, Await, Idle, AfterClear, Last
  <2> QED
    BY <2>1, <2>2, <2>3, <2>4, <1>11 DEF ClearWorkers
<1>12. ASSUME StartMain PROVE UciTyped'
  BY <1>12 DEF UciTyped, Phases, StartMain, Idle
<1>13. ASSUME HelpersWaited PROVE UciTyped'
  BY <1>13 DEF UciTyped, Phases, HelpersWaited, Idle
<1>14. ASSUME DestroyThread PROVE UciTyped'
  BY <1>14 DEF UciTyped, DestroyThread, Idle
<1>15. ASSUME AllDestroyed PROVE UciTyped'
  BY <1>15 DEF UciTyped, Phases, AllDestroyed
<1>16. ASSUME CreateThread PROVE UciTyped'
  BY <1>16 DEF UciTyped, CreateThread
<1>17. ASSUME Created PROVE UciTyped'
  BY <1>17, Sizes DEF UciTyped, Phases, PoolInOrder, LoopPhases, Created, Await, Idle, Last
<1>18. ASSUME MainBegin PROVE UciTyped'
  BY <1>18 DEF UciTyped, MainBegin, Goto
<1>19. ASSUME MainLaunch PROVE UciTyped'
  BY <1>19 DEF UciTyped, MainLaunch, Goto, Helpers, Idle
<1>20. ASSUME MainIterate PROVE UciTyped'
  BY <1>20 DEF UciTyped, MainIterate, Goto, limits
<1>21. ASSUME MainComplete PROVE UciTyped'
  BY <1>21 DEF UciTyped, MainComplete, Goto
<1>22. ASSUME MainMate PROVE UciTyped'
  BY <1>22 DEF UciTyped, MainMate, Goto, limits
<1>23. ASSUME MainClock PROVE UciTyped'
  BY <1>23 DEF UciTyped, MainClock, Goto, limits
<1>24. ASSUME MainRelease PROVE UciTyped'
  BY <1>24 DEF UciTyped, MainRelease, Goto, Holding, limits
<1>25. ASSUME MainCollect PROVE UciTyped'
  BY <1>25 DEF UciTyped, MainCollect, Goto, Helpers, Idle
<1>26. ASSUME MainAnswer PROVE UciTyped'
  BY <1>26 DEF UciTyped, MainAnswer, Goto
<1>27. ASSUME MainDone PROVE UciTyped'
  BY <1>27 DEF UciTyped, MainDone, Goto
<1>28. ASSUME MainHold PROVE UciTyped'
  BY <1>28 DEF UciTyped, MainHold, vars
<1>29. ASSUME CheckTime PROVE UciTyped'
  BY <1>29 DEF UciTyped, CheckTime
<1>30. ASSUME FailLow PROVE UciTyped'
  BY <1>30 DEF UciTyped, FailLow
<1>31. ASSUME NEW t \in Threads, RunShortJob(t) PROVE UciTyped'
  BY <1>31 DEF UciTyped, RunShortJob
<1>32. ASSUME NEW t \in Threads, RunSetup(t) PROVE UciTyped'
  BY <1>32 DEF UciTyped, RunSetup
<1>33. ASSUME NEW t \in Threads, HelperMate(t) PROVE UciTyped'
  BY <1>33 DEF UciTyped, HelperMate, limits
<1>34. ASSUME NEW t \in Threads, HelperDone(t) PROVE UciTyped'
  BY <1>34 DEF UciTyped, HelperDone
<1>35. ASSUME Gone PROVE UciTyped'
  BY <1>35 DEF UciTyped, Gone, vars
<1>36. CASE UNCHANGED vars
  BY <1>36 DEF UciTyped, vars
<1> QED
  BY <1>1, <1>2, <1>3, <1>4, <1>5, <1>6, <1>7, <1>8, <1>9, <1>10, <1>11, <1>12, <1>13, <1>14, <1>15, <1>16, <1>17, <1>18, <1>19, <1>20, <1>21, <1>22, <1>23, <1>24, <1>25, <1>26, <1>27, <1>28, <1>29, <1>30, <1>31, <1>32, <1>33, <1>34, <1>35, <1>36 DEF Next, Command, UciStep, MainStep, ThreadStep, Loops

\* So do those of the pool and the job slots.
LEMMA PoolTypedStep == TypeOK /\ IInv /\ [Next]_vars => PoolTyped'
<1> SUFFICES ASSUME UciTyped, PoolTyped, FlagsTyped,
                    SearchTyped, PoolInOrder, JobsInPlace, MainInPlace,
                    RootsAgree, FlagsFollowTalk, [Next]_vars
             PROVE PoolTyped'
  BY TypeParts DEF IInv
<1> USE DEF Threads, Main, uciVars, poolVars, flags, searchVars, talk
<1>1. ASSUME Stop PROVE PoolTyped'
  BY <1>1 DEF PoolTyped, Stop, Listening
<1>2. ASSUME Ponderhit PROVE PoolTyped'
  BY <1>2 DEF PoolTyped, Ponderhit, Listening
<1>3. ASSUME Position PROVE PoolTyped'
  BY <1>3 DEF PoolTyped, Position, Listening
<1>4. ASSUME Go PROVE PoolTyped'
  BY <1>4 DEF PoolTyped, Go, Begin, Listening
<1>5. ASSUME SetThreads PROVE PoolTyped'
  BY <1>5 DEF PoolTyped, SetThreads, Begin, Listening
<1>6. ASSUME SetOther PROVE PoolTyped'
  BY <1>6 DEF PoolTyped, SetOther, Begin, Listening
<1>7. ASSUME Quit PROVE PoolTyped'
  BY <1>7 DEF PoolTyped, Quit, Begin, Listening
<1>8. ASSUME Waited PROVE PoolTyped'
  BY <1>8 DEF PoolTyped, Waited, Idle
<1>9. ASSUME Loops /\ SetupWorkers PROVE PoolTyped'
  BY <1>9 DEF PoolTyped, Jobs, Loops, SetupWorkers, Post, Await, Idle, Last
<1>10. ASSUME Loops /\ ZeroTable PROVE PoolTyped'
  BY <1>10 DEF PoolTyped, Jobs, Loops, ZeroTable, Post, Await, Idle, Last, AfterZero
<1>11. ASSUME Loops /\ ClearWorkers PROVE PoolTyped'
  BY <1>11 DEF PoolTyped, Jobs, Loops, ClearWorkers, Post, Await, Idle, Last, AfterClear
<1>12. ASSUME StartMain PROVE PoolTyped'
  BY <1>12, Sizes DEF PoolTyped, Jobs, StartMain, Idle
<1>13. ASSUME HelpersWaited PROVE PoolTyped'
  BY <1>13 DEF PoolTyped, HelpersWaited, Idle
<1>14. ASSUME DestroyThread PROVE PoolTyped'
  BY <1>14 DEF PoolTyped, DestroyThread, Idle
<1>15. ASSUME AllDestroyed PROVE PoolTyped'
  BY <1>15 DEF PoolTyped, AllDestroyed
<1>16. ASSUME CreateThread PROVE PoolTyped'
  BY <1>16, Sizes DEF PoolTyped, Jobs, UciTyped, CreateThread
<1>17. ASSUME Created PROVE PoolTyped'
  BY <1>17 DEF PoolTyped, Created, Await, Idle, Last
<1>18. ASSUME MainBegin PROVE PoolTyped'
  BY <1>18 DEF PoolTyped, MainBegin, Goto
<1>19. ASSUME MainLaunch PROVE PoolTyped'
  BY <1>19 DEF PoolTyped, Jobs, MainLaunch, Goto, Helpers, Idle
<1>20. ASSUME MainIterate PROVE PoolTyped'
  BY <1>20 DEF PoolTyped, MainIterate, Goto, limits
<1>21. ASSUME MainComplete PROVE PoolTyped'
  BY <1>21 DEF PoolTyped, MainComplete, Goto
<1>22. ASSUME MainMate PROVE PoolTyped'
  BY <1>22 DEF PoolTyped, MainMate, Goto, limits
<1>23. ASSUME MainClock PROVE PoolTyped'
  BY <1>23 DEF PoolTyped, MainClock, Goto, limits
<1>24. ASSUME MainRelease PROVE PoolTyped'
  BY <1>24 DEF PoolTyped, MainRelease, Goto, Holding, limits
<1>25. ASSUME MainCollect PROVE PoolTyped'
  BY <1>25 DEF PoolTyped, MainCollect, Goto, Helpers, Idle
<1>26. ASSUME MainAnswer PROVE PoolTyped'
  BY <1>26 DEF PoolTyped, MainAnswer, Goto
<1>27. ASSUME MainDone PROVE PoolTyped'
  BY <1>27 DEF PoolTyped, MainDone, Goto
<1>28. ASSUME MainHold PROVE PoolTyped'
  BY <1>28 DEF PoolTyped, MainHold, vars
<1>29. ASSUME CheckTime PROVE PoolTyped'
  BY <1>29 DEF PoolTyped, CheckTime
<1>30. ASSUME FailLow PROVE PoolTyped'
  BY <1>30 DEF PoolTyped, FailLow
<1>31. ASSUME NEW t \in Threads, RunShortJob(t) PROVE PoolTyped'
  BY <1>31 DEF PoolTyped, RunShortJob
<1>32. ASSUME NEW t \in Threads, RunSetup(t) PROVE PoolTyped'
  <2>1. SettingUp
    BY <1>32, Sizes DEF JobsInPlace, InPlace, HandedOut, SearchHandedOut, RunSetup, SettingUp
  <2>2. limit \in Limits /\ pos \in Positions
    BY <2>1 DEF RootsAgree, UciTyped
  <2> QED
    BY <1>32, <2>2 DEF PoolTyped, RunSetup
<1>33. ASSUME NEW t \in Threads, HelperMate(t) PROVE PoolTyped'
  BY <1>33 DEF PoolTyped, HelperMate, limits
<1>34. ASSUME NEW t \in Threads, HelperDone(t) PROVE PoolTyped'
  BY <1>34 DEF PoolTyped, HelperDone
<1>35. ASSUME Gone PROVE PoolTyped'
  BY <1>35 DEF PoolTyped, Gone, vars
<1>36. CASE UNCHANGED vars
  BY <1>36 DEF PoolTyped, vars
<1> QED
  BY <1>1, <1>2, <1>3, <1>4, <1>5, <1>6, <1>7, <1>8, <1>9, <1>10, <1>11, <1>12, <1>13, <1>14, <1>15, <1>16, <1>17, <1>18, <1>19, <1>20, <1>21, <1>22, <1>23, <1>24, <1>25, <1>26, <1>27, <1>28, <1>29, <1>30, <1>31, <1>32, <1>33, <1>34, <1>35, <1>36 DEF Next, Command, UciStep, MainStep, ThreadStep, Loops

\* So do the flags and what is owed.
LEMMA FlagsTypedStep == TypeOK /\ IInv /\ [Next]_vars => FlagsTyped'
<1> SUFFICES ASSUME UciTyped, PoolTyped, FlagsTyped,
                    SearchTyped, PoolInOrder, JobsInPlace, MainInPlace,
                    RootsAgree, FlagsFollowTalk, [Next]_vars
             PROVE FlagsTyped'
  BY TypeParts DEF IInv
<1> USE DEF Threads, Main, uciVars, poolVars, flags, searchVars, talk
<1>1. ASSUME Stop PROVE FlagsTyped'
  BY <1>1 DEF FlagsTyped, Stop, Listening
<1>2. ASSUME Ponderhit PROVE FlagsTyped'
  BY <1>2 DEF FlagsTyped, Ponderhit, Listening
<1>3. ASSUME Position PROVE FlagsTyped'
  BY <1>3 DEF FlagsTyped, Position, Listening
<1>4. ASSUME Go PROVE FlagsTyped'
  BY <1>4 DEF FlagsTyped, Go, Begin, Listening
<1>5. ASSUME SetThreads PROVE FlagsTyped'
  BY <1>5 DEF FlagsTyped, SetThreads, Begin, Listening
<1>6. ASSUME SetOther PROVE FlagsTyped'
  BY <1>6 DEF FlagsTyped, SetOther, Begin, Listening
<1>7. ASSUME Quit PROVE FlagsTyped'
  BY <1>7 DEF FlagsTyped, Quit, Begin, Listening
<1>8. ASSUME Waited PROVE FlagsTyped'
  BY <1>8, LimitsTyped DEF FlagsTyped, RootsAgree, UciTyped, Waited, Idle
<1>9. ASSUME Loops /\ SetupWorkers PROVE FlagsTyped'
  BY <1>9 DEF FlagsTyped, Loops, SetupWorkers, Post, Await, Idle, Last
<1>10. ASSUME Loops /\ ZeroTable PROVE FlagsTyped'
  BY <1>10 DEF FlagsTyped, Loops, ZeroTable, Post, Await, Idle, Last, AfterZero
<1>11. ASSUME Loops /\ ClearWorkers PROVE FlagsTyped'
  BY <1>11 DEF FlagsTyped, Loops, ClearWorkers, Post, Await, Idle, Last, AfterClear
<1>12. ASSUME StartMain PROVE FlagsTyped'
  BY <1>12 DEF FlagsTyped, StartMain, Idle
<1>13. ASSUME HelpersWaited PROVE FlagsTyped'
  BY <1>13 DEF FlagsTyped, HelpersWaited, Idle
<1>14. ASSUME DestroyThread PROVE FlagsTyped'
  BY <1>14 DEF FlagsTyped, DestroyThread, Idle
<1>15. ASSUME AllDestroyed PROVE FlagsTyped'
  BY <1>15 DEF FlagsTyped, AllDestroyed
<1>16. ASSUME CreateThread PROVE FlagsTyped'
  BY <1>16 DEF FlagsTyped, CreateThread
<1>17. ASSUME Created PROVE FlagsTyped'
  BY <1>17 DEF FlagsTyped, Created, Await, Idle, Last
<1>18. ASSUME MainBegin PROVE FlagsTyped'
  BY <1>18 DEF FlagsTyped, MainBegin, Goto
<1>19. ASSUME MainLaunch PROVE FlagsTyped'
  BY <1>19 DEF FlagsTyped, MainLaunch, Goto, Helpers, Idle
<1>20. ASSUME MainIterate PROVE FlagsTyped'
  BY <1>20 DEF FlagsTyped, MainIterate, Goto, limits
<1>21. ASSUME MainComplete PROVE FlagsTyped'
  BY <1>21 DEF FlagsTyped, MainComplete, Goto
<1>22. ASSUME MainMate PROVE FlagsTyped'
  BY <1>22 DEF FlagsTyped, MainMate, Goto, limits
<1>23. ASSUME MainClock PROVE FlagsTyped'
  BY <1>23 DEF FlagsTyped, MainClock, Goto, limits
<1>24. ASSUME MainRelease PROVE FlagsTyped'
  BY <1>24 DEF FlagsTyped, MainRelease, Goto, Holding, limits
<1>25. ASSUME MainCollect PROVE FlagsTyped'
  BY <1>25 DEF FlagsTyped, MainCollect, Goto, Helpers, Idle
<1>26. ASSUME MainAnswer PROVE FlagsTyped'
  BY <1>26 DEF FlagsTyped, FlagsFollowTalk, MainAnswer, Goto
<1>27. ASSUME MainDone PROVE FlagsTyped'
  BY <1>27 DEF FlagsTyped, MainDone, Goto
<1>28. ASSUME MainHold PROVE FlagsTyped'
  BY <1>28 DEF FlagsTyped, MainHold, vars
<1>29. ASSUME CheckTime PROVE FlagsTyped'
  BY <1>29 DEF FlagsTyped, CheckTime
<1>30. ASSUME FailLow PROVE FlagsTyped'
  BY <1>30 DEF FlagsTyped, FailLow
<1>31. ASSUME NEW t \in Threads, RunShortJob(t) PROVE FlagsTyped'
  BY <1>31 DEF FlagsTyped, RunShortJob
<1>32. ASSUME NEW t \in Threads, RunSetup(t) PROVE FlagsTyped'
  BY <1>32 DEF FlagsTyped, RunSetup
<1>33. ASSUME NEW t \in Threads, HelperMate(t) PROVE FlagsTyped'
  BY <1>33 DEF FlagsTyped, HelperMate, limits
<1>34. ASSUME NEW t \in Threads, HelperDone(t) PROVE FlagsTyped'
  BY <1>34 DEF FlagsTyped, HelperDone
<1>35. ASSUME Gone PROVE FlagsTyped'
  BY <1>35 DEF FlagsTyped, Gone, vars
<1>36. CASE UNCHANGED vars
  BY <1>36 DEF FlagsTyped, vars
<1> QED
  BY <1>1, <1>2, <1>3, <1>4, <1>5, <1>6, <1>7, <1>8, <1>9, <1>10, <1>11, <1>12, <1>13, <1>14, <1>15, <1>16, <1>17, <1>18, <1>19, <1>20, <1>21, <1>22, <1>23, <1>24, <1>25, <1>26, <1>27, <1>28, <1>29, <1>30, <1>31, <1>32, <1>33, <1>34, <1>35, <1>36 DEF Next, Command, UciStep, MainStep, ThreadStep, Loops

\* So do the main worker's.
LEMMA SearchTypedStep == TypeOK /\ IInv /\ [Next]_vars => SearchTyped'
<1> SUFFICES ASSUME UciTyped, PoolTyped, FlagsTyped,
                    SearchTyped, PoolInOrder, JobsInPlace, MainInPlace,
                    RootsAgree, FlagsFollowTalk, [Next]_vars
             PROVE SearchTyped'
  BY TypeParts DEF IInv
<1> USE DEF Threads, Main, uciVars, poolVars, flags, searchVars, talk
<1>1. ASSUME Stop PROVE SearchTyped'
  BY <1>1 DEF SearchTyped, Stop, Listening
<1>2. ASSUME Ponderhit PROVE SearchTyped'
  BY <1>2 DEF SearchTyped, Ponderhit, Listening
<1>3. ASSUME Position PROVE SearchTyped'
  BY <1>3 DEF SearchTyped, Position, Listening
<1>4. ASSUME Go PROVE SearchTyped'
  BY <1>4 DEF SearchTyped, Go, Begin, Listening
<1>5. ASSUME SetThreads PROVE SearchTyped'
  BY <1>5 DEF SearchTyped, SetThreads, Begin, Listening
<1>6. ASSUME SetOther PROVE SearchTyped'
  BY <1>6 DEF SearchTyped, SetOther, Begin, Listening
<1>7. ASSUME Quit PROVE SearchTyped'
  BY <1>7 DEF SearchTyped, Quit, Begin, Listening
<1>8. ASSUME Waited PROVE SearchTyped'
  BY <1>8 DEF SearchTyped, Waited, Idle
<1>9. ASSUME Loops /\ SetupWorkers PROVE SearchTyped'
  BY <1>9 DEF SearchTyped, Loops, SetupWorkers, Post, Await, Idle, Last
<1>10. ASSUME Loops /\ ZeroTable PROVE SearchTyped'
  BY <1>10 DEF SearchTyped, Loops, ZeroTable, Post, Await, Idle, Last, AfterZero
<1>11. ASSUME Loops /\ ClearWorkers PROVE SearchTyped'
  BY <1>11 DEF SearchTyped, Loops, ClearWorkers, Post, Await, Idle, Last, AfterClear
<1>12. ASSUME StartMain PROVE SearchTyped'
  BY <1>12, Sizes DEF SearchTyped, Labels, StartMain, Idle
<1>13. ASSUME HelpersWaited PROVE SearchTyped'
  BY <1>13 DEF SearchTyped, HelpersWaited, Idle
<1>14. ASSUME DestroyThread PROVE SearchTyped'
  BY <1>14 DEF SearchTyped, DestroyThread, Idle
<1>15. ASSUME AllDestroyed PROVE SearchTyped'
  BY <1>15 DEF SearchTyped, AllDestroyed
<1>16. ASSUME CreateThread PROVE SearchTyped'
  BY <1>16 DEF SearchTyped, CreateThread
<1>17. ASSUME Created PROVE SearchTyped'
  BY <1>17 DEF SearchTyped, Created, Await, Idle, Last
<1>18. ASSUME MainBegin PROVE SearchTyped'
  BY <1>18, Sizes DEF SearchTyped, Labels, MainBegin, Goto
<1>19. ASSUME MainLaunch PROVE SearchTyped'
  BY <1>19, Sizes DEF SearchTyped, Labels, PoolTyped, MainLaunch, Goto, Helpers, Idle
<1>20. ASSUME MainIterate PROVE SearchTyped'
  BY <1>20 DEF SearchTyped, Labels, MainIterate, Goto, limits
<1>21. ASSUME MainComplete PROVE SearchTyped'
  BY <1>21, Sizes DEF SearchTyped, Labels, MainInPlace, MainComplete, Goto
<1>22. ASSUME MainMate PROVE SearchTyped'
  BY <1>22 DEF SearchTyped, Labels, MainMate, Goto, limits
<1>23. ASSUME MainClock PROVE SearchTyped'
  BY <1>23 DEF SearchTyped, Labels, MainClock, Goto, limits
<1>24. ASSUME MainRelease PROVE SearchTyped'
  BY <1>24, Sizes DEF SearchTyped, Labels, MainRelease, Goto, Holding, limits
<1>25. ASSUME MainCollect PROVE SearchTyped'
  BY <1>25, Sizes DEF SearchTyped, Labels, PoolTyped, MainCollect, Goto, Helpers, Idle
<1>26. ASSUME MainAnswer PROVE SearchTyped'
  BY <1>26 DEF SearchTyped, Labels, MainAnswer, Goto
<1>27. ASSUME MainDone PROVE SearchTyped'
  BY <1>27 DEF SearchTyped, Labels, MainDone, Goto
<1>28. ASSUME MainHold PROVE SearchTyped'
  BY <1>28 DEF SearchTyped, MainHold, vars
<1>29. ASSUME CheckTime PROVE SearchTyped'
  BY <1>29 DEF SearchTyped, CheckTime
<1>30. ASSUME FailLow PROVE SearchTyped'
  BY <1>30 DEF SearchTyped, FailLow
<1>31. ASSUME NEW t \in Threads, RunShortJob(t) PROVE SearchTyped'
  BY <1>31 DEF SearchTyped, RunShortJob
<1>32. ASSUME NEW t \in Threads, RunSetup(t) PROVE SearchTyped'
  BY <1>32 DEF SearchTyped, RunSetup
<1>33. ASSUME NEW t \in Threads, HelperMate(t) PROVE SearchTyped'
  BY <1>33 DEF SearchTyped, HelperMate, limits
<1>34. ASSUME NEW t \in Threads, HelperDone(t) PROVE SearchTyped'
  BY <1>34 DEF SearchTyped, HelperDone
<1>35. ASSUME Gone PROVE SearchTyped'
  BY <1>35 DEF SearchTyped, Gone, vars
<1>36. CASE UNCHANGED vars
  BY <1>36 DEF SearchTyped, vars
<1> QED
  BY <1>1, <1>2, <1>3, <1>4, <1>5, <1>6, <1>7, <1>8, <1>9, <1>10, <1>11, <1>12, <1>13, <1>14, <1>15, <1>16, <1>17, <1>18, <1>19, <1>20, <1>21, <1>22, <1>23, <1>24, <1>25, <1>26, <1>27, <1>28, <1>29, <1>30, <1>31, <1>32, <1>33, <1>34, <1>35, <1>36 DEF Next, Command, UciStep, MainStep, ThreadStep, Loops

\* Threads are created and destroyed in order, one command at a time.
LEMMA PoolInOrderStep == TypeOK /\ IInv /\ [Next]_vars => PoolInOrder'
<1> SUFFICES ASSUME UciTyped, PoolTyped, FlagsTyped,
                    SearchTyped, PoolInOrder, JobsInPlace, MainInPlace,
                    RootsAgree, FlagsFollowTalk, [Next]_vars
             PROVE PoolInOrder'
  BY TypeParts DEF IInv
<1> USE DEF Threads, Main, uciVars, poolVars, flags, searchVars, talk
<1>1. ASSUME Stop PROVE PoolInOrder'
  BY <1>1 DEF PoolInOrder, LoopPhases, Last, Stop, Listening
<1>2. ASSUME Ponderhit PROVE PoolInOrder'
  BY <1>2 DEF PoolInOrder, LoopPhases, Last, Ponderhit, Listening
<1>3. ASSUME Position PROVE PoolInOrder'
  BY <1>3 DEF PoolInOrder, LoopPhases, Last, Position, Listening
<1>4. ASSUME Go PROVE PoolInOrder'
  BY <1>4 DEF PoolInOrder, LoopPhases, Last, Go, Begin, Listening
<1>5. ASSUME SetThreads PROVE PoolInOrder'
  BY <1>5 DEF PoolInOrder, LoopPhases, Last, UciTyped, SetThreads, Begin, Listening
<1>6. ASSUME SetOther PROVE PoolInOrder'
  BY <1>6 DEF PoolInOrder, LoopPhases, Last, SetOther, Begin, Listening
<1>7. ASSUME Quit PROVE PoolInOrder'
  BY <1>7 DEF PoolInOrder, LoopPhases, Last, Quit, Begin, Listening
<1>8. ASSUME Waited PROVE PoolInOrder'
  <2>1. CASE cmd = "go"
    BY <1>8, <2>1, Sizes DEF PoolInOrder, LoopPhases, Last, UciTyped, MainInPlace, InSearch, Waited, Idle
  <2>2. CASE cmd = "resize"
    BY <1>8, <2>2, Sizes DEF PoolInOrder, LoopPhases, Last, UciTyped, MainInPlace, InSearch, Waited, Idle
  <2>3. CASE cmd \in {"hash", "newgame"}
    BY <1>8, <2>3, Sizes DEF PoolInOrder, LoopPhases, Last, UciTyped, MainInPlace, InSearch, Waited, Idle
  <2>4. CASE cmd = "network"
    BY <1>8, <2>4, Sizes DEF PoolInOrder, LoopPhases, Last, UciTyped, MainInPlace, InSearch, Waited, Idle
  <2>5. CASE cmd = "option"
    BY <1>8, <2>5, Sizes DEF PoolInOrder, LoopPhases, Last, UciTyped, MainInPlace, InSearch, Waited, Idle
  <2>6. CASE cmd = "quit"
    BY <1>8, <2>6, Sizes DEF PoolInOrder, LoopPhases, Last, UciTyped, MainInPlace, InSearch, Waited, Idle
  <2> QED
    BY <2>1, <2>2, <2>3, <2>4, <2>5, <2>6 DEF UciTyped
<1>9. ASSUME Loops /\ SetupWorkers PROVE PoolInOrder'
  <2>1. CASE phase = "setup" /\ at # Last
    BY <1>9, <2>1, Sizes DEF PoolInOrder, LoopPhases, UciTyped, Loops, SetupWorkers, ZeroTable, ClearWorkers, Post, Await, Idle, Last
  <2>2. CASE phase = "setup" /\ at = Last
    BY <1>9, <2>2, Sizes DEF PoolInOrder, LoopPhases, UciTyped, Loops, SetupWorkers, ZeroTable, ClearWorkers, Post, Await, Idle, Last
  <2>3. CASE phase = "awaitSetup" /\ at # Last
    BY <1>9, <2>3, Sizes DEF PoolInOrder, LoopPhases, UciTyped, Loops, SetupWorkers, ZeroTable, ClearWorkers, Post, Await, Idle, Last
  <2>4. CASE phase = "awaitSetup" /\ at = Last
    BY <1>9, <2>4, Sizes DEF PoolInOrder, LoopPhases, UciTyped, Loops, SetupWorkers, ZeroTable, ClearWorkers, Post, Await, Idle, Last
  <2> QED
    BY <2>1, <2>2, <2>3, <2>4, <1>9 DEF SetupWorkers
<1>10. ASSUME Loops /\ ZeroTable PROVE PoolInOrder'
  <2>1. CASE phase = "zero" /\ at # Last
    BY <1>10, <2>1, Sizes DEF PoolInOrder, LoopPhases, UciTyped, Loops, SetupWorkers, ZeroTable, ClearWorkers, Post, Await, Idle, AfterZero, Last
  <2>2. CASE phase = "zero" /\ at = Last
    BY <1>10, <2>2, Sizes DEF PoolInOrder, LoopPhases, UciTyped, Loops, SetupWorkers, ZeroTable, ClearWorkers, Post, Await, Idle, AfterZero, Last
  <2>3. CASE phase = "awaitZero" /\ at # Last
    BY <1>10, <2>3, Sizes DEF PoolInOrder, LoopPhases, UciTyped, Loops, SetupWorkers, ZeroTable, ClearWorkers, Post, Await, Idle, AfterZero, Last
  <2>4. CASE phase = "awaitZero" /\ at = Last
    BY <1>10, <2>4, Sizes DEF PoolInOrder, LoopPhases, UciTyped, Loops, SetupWorkers, ZeroTable, ClearWorkers, Post, Await, Idle, AfterZero, Last
  <2> QED
    BY <2>1, <2>2, <2>3, <2>4, <1>10 DEF ZeroTable
<1>11. ASSUME Loops /\ ClearWorkers PROVE PoolInOrder'
  <2>1. CASE phase = "clear" /\ at # Last
    BY <1>11, <2>1, Sizes DEF PoolInOrder, LoopPhases, UciTyped, Loops, SetupWorkers, ZeroTable, ClearWorkers, Post, Await, Idle, AfterClear, Last
  <2>2. CASE phase = "clear" /\ at = Last
    BY <1>11, <2>2, Sizes DEF PoolInOrder, LoopPhases, UciTyped, Loops, SetupWorkers, ZeroTable, ClearWorkers, Post, Await, Idle, AfterClear, Last
  <2>3. CASE phase = "awaitClear" /\ at # Last
    BY <1>11, <2>3, Sizes DEF PoolInOrder, LoopPhases, UciTyped, Loops, SetupWorkers, ZeroTable, ClearWorkers, Post, Await, Idle, AfterClear, Last
  <2>4. CASE phase = "awaitClear" /\ at = Last
    BY <1>11, <2>4, Sizes DEF PoolInOrder, LoopPhases, UciTyped, Loops, SetupWorkers, ZeroTable, ClearWorkers, Post, Await, Idle, AfterClear, Last
  <2> QED
    BY <2>1, <2>2, <2>3, <2>4, <1>11 DEF ClearWorkers
<1>12. ASSUME StartMain PROVE PoolInOrder'
  BY <1>12 DEF PoolInOrder, LoopPhases, Last, StartMain, Idle
<1>13. ASSUME HelpersWaited PROVE PoolInOrder'
  BY <1>13 DEF PoolInOrder, LoopPhases, Last, HelpersWaited, Idle
<1>14. ASSUME DestroyThread PROVE PoolInOrder'
  BY <1>14 DEF PoolInOrder, LoopPhases, Last, PoolTyped, DestroyThread, Idle
<1>15. ASSUME AllDestroyed PROVE PoolInOrder'
  <2>1. CASE cmd = "quit"
    BY <1>15, <2>1, Sizes DEF PoolInOrder, LoopPhases, Last, UciTyped, AllDestroyed
  <2>2. CASE cmd # "quit"
    BY <1>15, <2>2, Sizes DEF PoolInOrder, LoopPhases, Last, UciTyped, AllDestroyed
  <2> QED
    BY <2>1, <2>2
<1>16. ASSUME CreateThread PROVE PoolInOrder'
  BY <1>16 DEF PoolInOrder, LoopPhases, Last, UciTyped, PoolTyped, CreateThread
<1>17. ASSUME Created PROVE PoolInOrder'
  BY <1>17 DEF PoolInOrder, LoopPhases, Last, UciTyped, Created, Await, Idle
<1>18. ASSUME MainBegin PROVE PoolInOrder'
  BY <1>18 DEF PoolInOrder, LoopPhases, Last, MainBegin, Goto
<1>19. ASSUME MainLaunch PROVE PoolInOrder'
  BY <1>19 DEF PoolInOrder, LoopPhases, Last, MainLaunch, Goto, Helpers, Idle
<1>20. ASSUME MainIterate PROVE PoolInOrder'
  BY <1>20 DEF PoolInOrder, LoopPhases, Last, MainIterate, Goto, limits
<1>21. ASSUME MainComplete PROVE PoolInOrder'
  BY <1>21 DEF PoolInOrder, LoopPhases, Last, MainComplete, Goto
<1>22. ASSUME MainMate PROVE PoolInOrder'
  BY <1>22 DEF PoolInOrder, LoopPhases, Last, MainMate, Goto, limits
<1>23. ASSUME MainClock PROVE PoolInOrder'
  BY <1>23 DEF PoolInOrder, LoopPhases, Last, MainClock, Goto, limits
<1>24. ASSUME MainRelease PROVE PoolInOrder'
  BY <1>24 DEF PoolInOrder, LoopPhases, Last, MainRelease, Goto, Holding, limits
<1>25. ASSUME MainCollect PROVE PoolInOrder'
  BY <1>25 DEF PoolInOrder, LoopPhases, Last, MainCollect, Goto, Helpers, Idle
<1>26. ASSUME MainAnswer PROVE PoolInOrder'
  BY <1>26 DEF PoolInOrder, LoopPhases, Last, MainAnswer, Goto
<1>27. ASSUME MainDone PROVE PoolInOrder'
  BY <1>27 DEF PoolInOrder, LoopPhases, Last, MainDone, Goto
<1>28. ASSUME MainHold PROVE PoolInOrder'
  BY <1>28 DEF PoolInOrder, LoopPhases, Last, MainHold, vars
<1>29. ASSUME CheckTime PROVE PoolInOrder'
  BY <1>29 DEF PoolInOrder, LoopPhases, Last, CheckTime
<1>30. ASSUME FailLow PROVE PoolInOrder'
  BY <1>30 DEF PoolInOrder, LoopPhases, Last, FailLow
<1>31. ASSUME NEW t \in Threads, RunShortJob(t) PROVE PoolInOrder'
  BY <1>31 DEF PoolInOrder, LoopPhases, Last, RunShortJob
<1>32. ASSUME NEW t \in Threads, RunSetup(t) PROVE PoolInOrder'
  BY <1>32 DEF PoolInOrder, LoopPhases, Last, RunSetup
<1>33. ASSUME NEW t \in Threads, HelperMate(t) PROVE PoolInOrder'
  BY <1>33 DEF PoolInOrder, LoopPhases, Last, HelperMate, limits
<1>34. ASSUME NEW t \in Threads, HelperDone(t) PROVE PoolInOrder'
  BY <1>34 DEF PoolInOrder, LoopPhases, Last, HelperDone
<1>35. ASSUME Gone PROVE PoolInOrder'
  BY <1>35 DEF PoolInOrder, LoopPhases, Last, Gone, vars
<1>36. CASE UNCHANGED vars
  BY <1>36 DEF PoolInOrder, LoopPhases, Last, vars
<1> QED
  BY <1>1, <1>2, <1>3, <1>4, <1>5, <1>6, <1>7, <1>8, <1>9, <1>10, <1>11, <1>12, <1>13, <1>14, <1>15, <1>16, <1>17, <1>18, <1>19, <1>20, <1>21, <1>22, <1>23, <1>24, <1>25, <1>26, <1>27, <1>28, <1>29, <1>30, <1>31, <1>32, <1>33, <1>34, <1>35, <1>36 DEF Next, Command, UciStep, MainStep, ThreadStep, Loops

\* Threads are handed jobs and finish them where the loops say.
LEMMA JobsInPlaceStep == TypeOK /\ IInv /\ [Next]_vars => JobsInPlace'
<1> SUFFICES ASSUME UciTyped, PoolTyped, FlagsTyped,
                    SearchTyped, PoolInOrder, JobsInPlace, MainInPlace,
                    RootsAgree, FlagsFollowTalk, [Next]_vars
             PROVE JobsInPlace'
  BY TypeParts DEF IInv
<1> USE DEF Threads, Main, uciVars, poolVars, flags, searchVars, talk
<1>1. ASSUME Stop PROVE JobsInPlace'
  BY <1>1 DEF JobsInPlace, InPlace, HandedOut, SearchHandedOut, Stop, Listening
<1>2. ASSUME Ponderhit PROVE JobsInPlace'
  BY <1>2 DEF JobsInPlace, InPlace, HandedOut, SearchHandedOut, Ponderhit, Listening
<1>3. ASSUME Position PROVE JobsInPlace'
  BY <1>3 DEF JobsInPlace, InPlace, HandedOut, SearchHandedOut, Position, Listening
<1>4. ASSUME Go PROVE JobsInPlace'
  BY <1>4 DEF JobsInPlace, InPlace, HandedOut, SearchHandedOut, Go, Begin, Listening
<1>5. ASSUME SetThreads PROVE JobsInPlace'
  BY <1>5 DEF JobsInPlace, InPlace, HandedOut, SearchHandedOut, SetThreads, Begin, Listening
<1>6. ASSUME SetOther PROVE JobsInPlace'
  BY <1>6 DEF JobsInPlace, InPlace, HandedOut, SearchHandedOut, SetOther, Begin, Listening
<1>7. ASSUME Quit PROVE JobsInPlace'
  BY <1>7 DEF JobsInPlace, InPlace, HandedOut, SearchHandedOut, Quit, Begin, Listening
<1>8. ASSUME Waited PROVE JobsInPlace'
  BY <1>8 DEF JobsInPlace, InPlace, HandedOut, SearchHandedOut, MainInPlace, InSearch, Waited, Idle
<1>9. ASSUME Loops /\ SetupWorkers PROVE JobsInPlace'
  <2> SUFFICES ASSUME NEW u \in Threads PROVE InPlace(u)'
    BY DEF JobsInPlace
  <2>1. phase \in {"setup", "awaitSetup"} /\ live' = live
    BY <1>9 DEF SetupWorkers, Loops
  <2>2. InPlace(u) /\ ~SearchHandedOut(u)
    BY <1>9, <2>1 DEF JobsInPlace, SearchHandedOut, MainInPlace, InSearch
  <2>3. live = 0 .. Last /\ at \in 0 .. Last /\ Last \in Nat /\ at \in Threads
    BY <1>9, <2>1, Sizes DEF PoolInOrder, LoopPhases, UciTyped, Last
  <2>4. CASE phase = "setup"
    <3>1. /\ job' = [job EXCEPT ![at] = "setup"]
          /\ \/ phase' = "awaitSetup" /\ at' = 0 /\ at = Last
             \/ phase' = "setup" /\ at' = at + 1
      BY <1>9, <2>4 DEF SetupWorkers, Post
    <3>2. CASE u = at
      BY <2>1, <2>2, <2>3, <2>4, <3>1, <3>2 DEF HandedOut, InPlace, PoolTyped
    <3>3. CASE u # at
      BY <2>1, <2>2, <2>3, <2>4, <3>1, <3>3 DEF HandedOut, InPlace, PoolTyped
    <3> QED
      BY <3>2, <3>3
  <2>5. CASE phase = "awaitSetup"
    <3>1. job' = job /\ job[at] = None
      BY <1>9, <2>5 DEF SetupWorkers, Await, Idle
    <3>2. \/ at = Last
          \/ phase' = "awaitSetup" /\ at' = at + 1
      BY <1>9, <2>5 DEF SetupWorkers, Await
    <3> QED
      BY <2>1, <2>2, <2>3, <2>5, <3>1, <3>2, Sizes DEF HandedOut, InPlace, PoolTyped
  <2> QED
    BY <2>1, <2>4, <2>5
<1>10. ASSUME Loops /\ ZeroTable PROVE JobsInPlace'
  <2> SUFFICES ASSUME NEW u \in Threads PROVE InPlace(u)'
    BY DEF JobsInPlace
  <2>1. phase \in {"zero", "awaitZero"} /\ live' = live
    BY <1>10 DEF ZeroTable, Loops
  <2>2. InPlace(u) /\ ~SearchHandedOut(u)
    BY <1>10, <2>1 DEF JobsInPlace, SearchHandedOut, MainInPlace, InSearch
  <2>3. live = 0 .. Last /\ at \in 0 .. Last /\ Last \in Nat /\ at \in Threads
    BY <1>10, <2>1, Sizes DEF PoolInOrder, LoopPhases, UciTyped, Last
  <2>4. CASE phase = "zero"
    <3>1. /\ job' = [job EXCEPT ![at] = "zero"]
          /\ \/ phase' = "awaitZero" /\ at' = 0 /\ at = Last
             \/ phase' = "zero" /\ at' = at + 1
      BY <1>10, <2>4 DEF ZeroTable, Post
    <3>2. CASE u = at
      BY <2>1, <2>2, <2>3, <2>4, <3>1, <3>2 DEF HandedOut, InPlace, PoolTyped
    <3>3. CASE u # at
      BY <2>1, <2>2, <2>3, <2>4, <3>1, <3>3 DEF HandedOut, InPlace, PoolTyped
    <3> QED
      BY <3>2, <3>3
  <2>5. CASE phase = "awaitZero"
    <3>1. job' = job /\ job[at] = None
      BY <1>10, <2>5 DEF ZeroTable, Await, Idle
    <3>2. \/ at = Last
          \/ phase' = "awaitZero" /\ at' = at + 1
      BY <1>10, <2>5 DEF ZeroTable, Await
    <3> QED
      BY <2>1, <2>2, <2>3, <2>5, <3>1, <3>2, Sizes DEF HandedOut, InPlace, PoolTyped
  <2> QED
    BY <2>1, <2>4, <2>5
<1>11. ASSUME Loops /\ ClearWorkers PROVE JobsInPlace'
  <2> SUFFICES ASSUME NEW u \in Threads PROVE InPlace(u)'
    BY DEF JobsInPlace
  <2>1. phase \in {"clear", "awaitClear"} /\ live' = live
    BY <1>11 DEF ClearWorkers, Loops
  <2>2. InPlace(u) /\ ~SearchHandedOut(u)
    BY <1>11, <2>1 DEF JobsInPlace, SearchHandedOut, MainInPlace, InSearch
  <2>3. live = 0 .. Last /\ at \in 0 .. Last /\ Last \in Nat /\ at \in Threads
    BY <1>11, <2>1, Sizes DEF PoolInOrder, LoopPhases, UciTyped, Last
  <2>4. CASE phase = "clear"
    <3>1. /\ job' = [job EXCEPT ![at] = "clear"]
          /\ \/ phase' = "awaitClear" /\ at' = 0 /\ at = Last
             \/ phase' = "clear" /\ at' = at + 1
      BY <1>11, <2>4 DEF ClearWorkers, Post
    <3>2. CASE u = at
      BY <2>1, <2>2, <2>3, <2>4, <3>1, <3>2 DEF HandedOut, InPlace, PoolTyped
    <3>3. CASE u # at
      BY <2>1, <2>2, <2>3, <2>4, <3>1, <3>3 DEF HandedOut, InPlace, PoolTyped
    <3> QED
      BY <3>2, <3>3
  <2>5. CASE phase = "awaitClear"
    <3>1. job' = job /\ job[at] = None
      BY <1>11, <2>5 DEF ClearWorkers, Await, Idle
    <3>2. \/ at = Last
          \/ phase' = "awaitClear" /\ at' = at + 1
      BY <1>11, <2>5 DEF ClearWorkers, Await
    <3> QED
      BY <2>1, <2>2, <2>3, <2>5, <3>1, <3>2, Sizes DEF HandedOut, InPlace, PoolTyped
  <2> QED
    BY <2>1, <2>4, <2>5
<1>12. ASSUME StartMain PROVE JobsInPlace'
  <2> SUFFICES ASSUME NEW u \in Threads PROVE InPlace(u)'
    BY DEF JobsInPlace
  <2>1. InPlace(u)
    BY DEF JobsInPlace
  <2>2. CASE u = Main
    BY <1>12, <2>1, <2>2, Sizes DEF InPlace, HandedOut, SearchHandedOut, PoolTyped, UciTyped, SearchTyped, MainInPlace, InSearch, StartMain, Idle, PoolInOrder
  <2>3. CASE u # Main
    BY <1>12, <2>1, <2>3, Sizes DEF InPlace, HandedOut, SearchHandedOut, PoolTyped, UciTyped, SearchTyped, MainInPlace, InSearch, StartMain, Idle, PoolInOrder
  <2> QED
    BY <2>2, <2>3
<1>13. ASSUME HelpersWaited PROVE JobsInPlace'
  BY <1>13 DEF JobsInPlace, InPlace, HandedOut, SearchHandedOut, UciTyped, PoolTyped, MainInPlace, InSearch, HelpersWaited, Idle
<1>14. ASSUME DestroyThread PROVE JobsInPlace'
  BY <1>14 DEF JobsInPlace, InPlace, HandedOut, SearchHandedOut, UciTyped, PoolTyped, MainInPlace, InSearch, DestroyThread, Idle
<1>15. ASSUME AllDestroyed PROVE JobsInPlace'
  BY <1>15 DEF JobsInPlace, InPlace, HandedOut, SearchHandedOut, UciTyped, PoolTyped, MainInPlace, InSearch, AllDestroyed
<1>16. ASSUME CreateThread PROVE JobsInPlace'
  BY <1>16 DEF JobsInPlace, InPlace, HandedOut, SearchHandedOut, UciTyped, PoolTyped, MainInPlace, InSearch, CreateThread
<1>17. ASSUME Created PROVE JobsInPlace'
  BY <1>17 DEF JobsInPlace, InPlace, HandedOut, SearchHandedOut, UciTyped, PoolTyped, MainInPlace, InSearch, Created, Await, Idle, Last
<1>18. ASSUME MainBegin PROVE JobsInPlace'
  BY <1>18 DEF JobsInPlace, InPlace, HandedOut, SearchHandedOut, MainBegin, Goto
<1>19. ASSUME MainLaunch PROVE JobsInPlace'
  <2> SUFFICES ASSUME NEW u \in Threads PROVE InPlace(u)'
    BY DEF JobsInPlace
  <2>1. InPlace(u) /\ mi \in Nat /\ u \in Nat
    BY Sizes DEF JobsInPlace, SearchTyped
  <2>2. CASE mi \in Helpers /\ u = mi
    BY <1>19, <2>1, <2>2, Sizes DEF InPlace, HandedOut, SearchHandedOut, PoolTyped, MainLaunch, Goto, Helpers, Idle
  <2>3. CASE mi \in Helpers /\ u # mi
    BY <1>19, <2>1, <2>3, Sizes DEF InPlace, HandedOut, SearchHandedOut, PoolTyped, MainLaunch, Goto, Helpers, Idle
  <2>4. CASE mi \notin Helpers
    <3>1. ASSUME u \in live PROVE u < mi
      BY <1>19, <2>1, <2>4, <3>1 DEF PoolInOrder, PoolTyped, MainInPlace, InSearch, MainLaunch, Goto, Helpers
    <3> QED
      BY <1>19, <2>1, <2>4, <3>1, Sizes DEF InPlace, HandedOut, SearchHandedOut, PoolTyped, MainInPlace, InSearch, MainLaunch, Goto, Helpers, Idle
  <2> QED
    BY <2>2, <2>3, <2>4
<1>20. ASSUME MainIterate PROVE JobsInPlace'
  BY <1>20 DEF JobsInPlace, InPlace, HandedOut, SearchHandedOut, MainIterate, Goto, limits
<1>21. ASSUME MainComplete PROVE JobsInPlace'
  BY <1>21 DEF JobsInPlace, InPlace, HandedOut, SearchHandedOut, MainComplete, Goto
<1>22. ASSUME MainMate PROVE JobsInPlace'
  BY <1>22 DEF JobsInPlace, InPlace, HandedOut, SearchHandedOut, MainMate, Goto, limits
<1>23. ASSUME MainClock PROVE JobsInPlace'
  BY <1>23 DEF JobsInPlace, InPlace, HandedOut, SearchHandedOut, MainClock, Goto, limits
<1>24. ASSUME MainRelease PROVE JobsInPlace'
  <2> SUFFICES ASSUME NEW u \in Threads PROVE InPlace(u)'
    BY DEF JobsInPlace
  <2>1. InPlace(u)
    BY DEF JobsInPlace
  <2>2. CASE u = Main
    BY <1>24, <2>1, <2>2, Sizes DEF InPlace, HandedOut, SearchHandedOut, PoolTyped, UciTyped, SearchTyped, MainInPlace, InSearch, MainRelease, Goto, Holding, limits
  <2>3. CASE u # Main
    BY <1>24, <2>1, <2>3, Sizes DEF InPlace, HandedOut, SearchHandedOut, PoolTyped, UciTyped, SearchTyped, MainInPlace, InSearch, MainRelease, Goto, Holding, limits
  <2> QED
    BY <2>2, <2>3
<1>25. ASSUME MainCollect PROVE JobsInPlace'
  <2> SUFFICES ASSUME NEW u \in Threads PROVE InPlace(u)'
    BY DEF JobsInPlace
  <2>1. InPlace(u) /\ mi \in Nat /\ u \in Nat
    BY Sizes DEF JobsInPlace, SearchTyped
  <2>2. CASE mi \in Helpers /\ u = mi
    BY <1>25, <2>1, <2>2, Sizes DEF InPlace, HandedOut, SearchHandedOut, PoolTyped, MainCollect, Goto, Helpers, Idle
  <2>3. CASE mi \in Helpers /\ u # mi
    BY <1>25, <2>1, <2>3, Sizes DEF InPlace, HandedOut, SearchHandedOut, PoolTyped, MainCollect, Goto, Helpers, Idle
  <2>4. CASE mi \notin Helpers
    <3>1. ASSUME u \in live PROVE u < mi
      BY <1>25, <2>1, <2>4, <3>1 DEF PoolInOrder, PoolTyped, MainInPlace, InSearch, MainCollect, Goto, Helpers
    <3> QED
      BY <1>25, <2>1, <2>4, <3>1, Sizes DEF InPlace, HandedOut, SearchHandedOut, PoolTyped, MainInPlace, InSearch, MainCollect, Goto, Helpers, Idle
  <2> QED
    BY <2>2, <2>3, <2>4
<1>26. ASSUME MainAnswer PROVE JobsInPlace'
  BY <1>26 DEF JobsInPlace, InPlace, HandedOut, SearchHandedOut, MainAnswer, Goto
<1>27. ASSUME MainDone PROVE JobsInPlace'
  <2> SUFFICES ASSUME NEW u \in Threads PROVE InPlace(u)'
    BY DEF JobsInPlace
  <2>1. InPlace(u)
    BY DEF JobsInPlace
  <2>2. CASE u = Main
    BY <1>27, <2>1, <2>2, Sizes DEF InPlace, HandedOut, SearchHandedOut, PoolTyped, UciTyped, SearchTyped, MainInPlace, InSearch, MainDone, Goto
  <2>3. CASE u # Main
    BY <1>27, <2>1, <2>3, Sizes DEF InPlace, HandedOut, SearchHandedOut, PoolTyped, UciTyped, SearchTyped, MainInPlace, InSearch, MainDone, Goto
  <2> QED
    BY <2>2, <2>3
<1>28. ASSUME MainHold PROVE JobsInPlace'
  BY <1>28 DEF JobsInPlace, InPlace, HandedOut, SearchHandedOut, MainHold, vars
<1>29. ASSUME CheckTime PROVE JobsInPlace'
  BY <1>29 DEF JobsInPlace, InPlace, HandedOut, SearchHandedOut, CheckTime
<1>30. ASSUME FailLow PROVE JobsInPlace'
  BY <1>30 DEF JobsInPlace, InPlace, HandedOut, SearchHandedOut, FailLow
<1>31. ASSUME NEW t \in Threads, RunShortJob(t) PROVE JobsInPlace'
  <2> SUFFICES ASSUME NEW u \in Threads PROVE InPlace(u)'
    BY DEF JobsInPlace
  <2>1. InPlace(u)
    BY DEF JobsInPlace
  <2>2. CASE u = t
    BY <1>31, <2>1, <2>2, Sizes DEF InPlace, HandedOut, SearchHandedOut, PoolTyped, UciTyped, SearchTyped, MainInPlace, InSearch, RunShortJob
  <2>3. CASE u # t
    BY <1>31, <2>1, <2>3, Sizes DEF InPlace, HandedOut, SearchHandedOut, PoolTyped, UciTyped, SearchTyped, MainInPlace, InSearch, RunShortJob
  <2> QED
    BY <2>2, <2>3
<1>32. ASSUME NEW t \in Threads, RunSetup(t) PROVE JobsInPlace'
  <2> SUFFICES ASSUME NEW u \in Threads PROVE InPlace(u)'
    BY DEF JobsInPlace
  <2>1. InPlace(u)
    BY DEF JobsInPlace
  <2>2. CASE u = t
    BY <1>32, <2>1, <2>2, Sizes DEF InPlace, HandedOut, SearchHandedOut, PoolTyped, UciTyped, SearchTyped, MainInPlace, InSearch, RunSetup
  <2>3. CASE u # t
    BY <1>32, <2>1, <2>3, Sizes DEF InPlace, HandedOut, SearchHandedOut, PoolTyped, UciTyped, SearchTyped, MainInPlace, InSearch, RunSetup
  <2> QED
    BY <2>2, <2>3
<1>33. ASSUME NEW t \in Threads, HelperMate(t) PROVE JobsInPlace'
  BY <1>33 DEF JobsInPlace, InPlace, HandedOut, SearchHandedOut, HelperMate, limits
<1>34. ASSUME NEW t \in Threads, HelperDone(t) PROVE JobsInPlace'
  <2> SUFFICES ASSUME NEW u \in Threads PROVE InPlace(u)'
    BY DEF JobsInPlace
  <2>1. InPlace(u)
    BY DEF JobsInPlace
  <2>2. CASE u = t
    BY <1>34, <2>1, <2>2, Sizes DEF InPlace, HandedOut, SearchHandedOut, PoolTyped, UciTyped, SearchTyped, MainInPlace, InSearch, HelperDone
  <2>3. CASE u # t
    BY <1>34, <2>1, <2>3, Sizes DEF InPlace, HandedOut, SearchHandedOut, PoolTyped, UciTyped, SearchTyped, MainInPlace, InSearch, HelperDone
  <2> QED
    BY <2>2, <2>3
<1>35. ASSUME Gone PROVE JobsInPlace'
  BY <1>35 DEF JobsInPlace, InPlace, HandedOut, SearchHandedOut, Gone, vars
<1>36. CASE UNCHANGED vars
  BY <1>36 DEF JobsInPlace, InPlace, HandedOut, SearchHandedOut, vars
<1> QED
  BY <1>1, <1>2, <1>3, <1>4, <1>5, <1>6, <1>7, <1>8, <1>9, <1>10, <1>11, <1>12, <1>13, <1>14, <1>15, <1>16, <1>17, <1>18, <1>19, <1>20, <1>21, <1>22, <1>23, <1>24, <1>25, <1>26, <1>27, <1>28, <1>29, <1>30, <1>31, <1>32, <1>33, <1>34, <1>35, <1>36 DEF Next, Command, UciStep, MainStep, ThreadStep, Loops

\* The main worker searches only between two commands.
LEMMA MainInPlaceStep == TypeOK /\ IInv /\ [Next]_vars => MainInPlace'
<1> SUFFICES ASSUME UciTyped, PoolTyped, FlagsTyped,
                    SearchTyped, PoolInOrder, JobsInPlace, MainInPlace,
                    RootsAgree, FlagsFollowTalk, [Next]_vars
             PROVE MainInPlace'
  BY TypeParts DEF IInv
<1> USE DEF Threads, Main, uciVars, poolVars, flags, searchVars, talk
<1>1. ASSUME Stop PROVE MainInPlace'
  BY <1>1 DEF MainInPlace, InSearch, Stop, Listening
<1>2. ASSUME Ponderhit PROVE MainInPlace'
  BY <1>2 DEF MainInPlace, InSearch, Ponderhit, Listening
<1>3. ASSUME Position PROVE MainInPlace'
  BY <1>3 DEF MainInPlace, InSearch, Position, Listening
<1>4. ASSUME Go PROVE MainInPlace'
  BY <1>4 DEF MainInPlace, InSearch, Go, Begin, Listening
<1>5. ASSUME SetThreads PROVE MainInPlace'
  BY <1>5 DEF MainInPlace, InSearch, SetThreads, Begin, Listening
<1>6. ASSUME SetOther PROVE MainInPlace'
  BY <1>6 DEF MainInPlace, InSearch, SetOther, Begin, Listening
<1>7. ASSUME Quit PROVE MainInPlace'
  BY <1>7 DEF MainInPlace, InSearch, Quit, Begin, Listening
<1>8. ASSUME Waited PROVE MainInPlace'
  <2>1. CASE cmd = "go"
    BY <1>8, <2>1, Sizes DEF MainInPlace, InSearch, Waited, Idle
  <2>2. CASE cmd = "resize"
    BY <1>8, <2>2, Sizes DEF MainInPlace, InSearch, Waited, Idle
  <2>3. CASE cmd \in {"hash", "newgame"}
    BY <1>8, <2>3, Sizes DEF MainInPlace, InSearch, Waited, Idle
  <2>4. CASE cmd = "network"
    BY <1>8, <2>4, Sizes DEF MainInPlace, InSearch, Waited, Idle
  <2>5. CASE cmd = "option"
    BY <1>8, <2>5, Sizes DEF MainInPlace, InSearch, Waited, Idle
  <2>6. CASE cmd = "quit"
    BY <1>8, <2>6, Sizes DEF MainInPlace, InSearch, Waited, Idle
  <2> QED
    BY <2>1, <2>2, <2>3, <2>4, <2>5, <2>6 DEF UciTyped
<1>9. ASSUME Loops /\ SetupWorkers PROVE MainInPlace'
  <2>1. CASE phase = "setup" /\ at # Last
    BY <1>9, <2>1, Sizes DEF MainInPlace, InSearch, UciTyped, PoolTyped, Loops, SetupWorkers, ZeroTable, ClearWorkers, Post, Await, Idle, Last
  <2>2. CASE phase = "setup" /\ at = Last
    BY <1>9, <2>2, Sizes DEF MainInPlace, InSearch, UciTyped, PoolTyped, Loops, SetupWorkers, ZeroTable, ClearWorkers, Post, Await, Idle, Last
  <2>3. CASE phase = "awaitSetup" /\ at # Last
    BY <1>9, <2>3, Sizes DEF MainInPlace, InSearch, UciTyped, PoolTyped, Loops, SetupWorkers, ZeroTable, ClearWorkers, Post, Await, Idle, Last
  <2>4. CASE phase = "awaitSetup" /\ at = Last
    BY <1>9, <2>4, Sizes DEF MainInPlace, InSearch, UciTyped, PoolTyped, Loops, SetupWorkers, ZeroTable, ClearWorkers, Post, Await, Idle, Last
  <2> QED
    BY <2>1, <2>2, <2>3, <2>4, <1>9 DEF SetupWorkers
<1>10. ASSUME Loops /\ ZeroTable PROVE MainInPlace'
  <2>1. CASE phase = "zero" /\ at # Last
    BY <1>10, <2>1, Sizes DEF MainInPlace, InSearch, UciTyped, PoolTyped, Loops, SetupWorkers, ZeroTable, ClearWorkers, Post, Await, Idle, AfterZero, Last
  <2>2. CASE phase = "zero" /\ at = Last
    BY <1>10, <2>2, Sizes DEF MainInPlace, InSearch, UciTyped, PoolTyped, Loops, SetupWorkers, ZeroTable, ClearWorkers, Post, Await, Idle, AfterZero, Last
  <2>3. CASE phase = "awaitZero" /\ at # Last
    BY <1>10, <2>3, Sizes DEF MainInPlace, InSearch, UciTyped, PoolTyped, Loops, SetupWorkers, ZeroTable, ClearWorkers, Post, Await, Idle, AfterZero, Last
  <2>4. CASE phase = "awaitZero" /\ at = Last
    BY <1>10, <2>4, Sizes DEF MainInPlace, InSearch, UciTyped, PoolTyped, Loops, SetupWorkers, ZeroTable, ClearWorkers, Post, Await, Idle, AfterZero, Last
  <2> QED
    BY <2>1, <2>2, <2>3, <2>4, <1>10 DEF ZeroTable
<1>11. ASSUME Loops /\ ClearWorkers PROVE MainInPlace'
  <2>1. CASE phase = "clear" /\ at # Last
    BY <1>11, <2>1, Sizes DEF MainInPlace, InSearch, UciTyped, PoolTyped, Loops, SetupWorkers, ZeroTable, ClearWorkers, Post, Await, Idle, AfterClear, Last
  <2>2. CASE phase = "clear" /\ at = Last
    BY <1>11, <2>2, Sizes DEF MainInPlace, InSearch, UciTyped, PoolTyped, Loops, SetupWorkers, ZeroTable, ClearWorkers, Post, Await, Idle, AfterClear, Last
  <2>3. CASE phase = "awaitClear" /\ at # Last
    BY <1>11, <2>3, Sizes DEF MainInPlace, InSearch, UciTyped, PoolTyped, Loops, SetupWorkers, ZeroTable, ClearWorkers, Post, Await, Idle, AfterClear, Last
  <2>4. CASE phase = "awaitClear" /\ at = Last
    BY <1>11, <2>4, Sizes DEF MainInPlace, InSearch, UciTyped, PoolTyped, Loops, SetupWorkers, ZeroTable, ClearWorkers, Post, Await, Idle, AfterClear, Last
  <2> QED
    BY <2>1, <2>2, <2>3, <2>4, <1>11 DEF ClearWorkers
<1>12. ASSUME StartMain PROVE MainInPlace'
  BY <1>12, Sizes DEF MainInPlace, InSearch, PoolTyped, StartMain, Idle
<1>13. ASSUME HelpersWaited PROVE MainInPlace'
  BY <1>13 DEF MainInPlace, InSearch, HelpersWaited, Idle
<1>14. ASSUME DestroyThread PROVE MainInPlace'
  BY <1>14 DEF MainInPlace, InSearch, DestroyThread, Idle
<1>15. ASSUME AllDestroyed PROVE MainInPlace'
  BY <1>15 DEF MainInPlace, InSearch, AllDestroyed
<1>16. ASSUME CreateThread PROVE MainInPlace'
  BY <1>16, Sizes DEF MainInPlace, InSearch, UciTyped, PoolTyped, CreateThread
<1>17. ASSUME Created PROVE MainInPlace'
  BY <1>17 DEF MainInPlace, InSearch, Created, Await, Idle, Last
<1>18. ASSUME MainBegin PROVE MainInPlace'
  BY <1>18 DEF MainInPlace, InSearch, MainBegin, Goto
<1>19. ASSUME MainLaunch PROVE MainInPlace'
  BY <1>19, Sizes DEF MainInPlace, InSearch, PoolTyped, SearchTyped, MainLaunch, Goto, Helpers, Idle
<1>20. ASSUME MainIterate PROVE MainInPlace'
  BY <1>20 DEF MainInPlace, InSearch, MainIterate, Goto, limits
<1>21. ASSUME MainComplete PROVE MainInPlace'
  BY <1>21 DEF MainInPlace, InSearch, MainComplete, Goto
<1>22. ASSUME MainMate PROVE MainInPlace'
  BY <1>22 DEF MainInPlace, InSearch, MainMate, Goto, limits
<1>23. ASSUME MainClock PROVE MainInPlace'
  BY <1>23 DEF MainInPlace, InSearch, MainClock, Goto, limits
<1>24. ASSUME MainRelease PROVE MainInPlace'
  BY <1>24 DEF MainInPlace, InSearch, MainRelease, Goto, Holding, limits
<1>25. ASSUME MainCollect PROVE MainInPlace'
  BY <1>25, Sizes DEF MainInPlace, InSearch, SearchTyped, MainCollect, Goto, Helpers, Idle
<1>26. ASSUME MainAnswer PROVE MainInPlace'
  BY <1>26 DEF MainInPlace, InSearch, MainAnswer, Goto
<1>27. ASSUME MainDone PROVE MainInPlace'
  BY <1>27, Sizes DEF MainInPlace, InSearch, PoolTyped, MainDone, Goto
<1>28. ASSUME MainHold PROVE MainInPlace'
  BY <1>28 DEF MainInPlace, InSearch, MainHold, vars
<1>29. ASSUME CheckTime PROVE MainInPlace'
  BY <1>29 DEF MainInPlace, InSearch, CheckTime
<1>30. ASSUME FailLow PROVE MainInPlace'
  BY <1>30 DEF MainInPlace, InSearch, FailLow
<1>31. ASSUME NEW t \in Threads, RunShortJob(t) PROVE MainInPlace'
  BY <1>31, Sizes DEF MainInPlace, InSearch, PoolTyped, RunShortJob
<1>32. ASSUME NEW t \in Threads, RunSetup(t) PROVE MainInPlace'
  BY <1>32, Sizes DEF MainInPlace, InSearch, PoolTyped, RunSetup
<1>33. ASSUME NEW t \in Threads, HelperMate(t) PROVE MainInPlace'
  BY <1>33 DEF MainInPlace, InSearch, HelperMate, limits
<1>34. ASSUME NEW t \in Threads, HelperDone(t) PROVE MainInPlace'
  BY <1>34, Sizes DEF MainInPlace, InSearch, PoolTyped, HelperDone
<1>35. ASSUME Gone PROVE MainInPlace'
  BY <1>35 DEF MainInPlace, InSearch, Gone, vars
<1>36. CASE UNCHANGED vars
  BY <1>36 DEF MainInPlace, InSearch, vars
<1> QED
  BY <1>1, <1>2, <1>3, <1>4, <1>5, <1>6, <1>7, <1>8, <1>9, <1>10, <1>11, <1>12, <1>13, <1>14, <1>15, <1>16, <1>17, <1>18, <1>19, <1>20, <1>21, <1>22, <1>23, <1>24, <1>25, <1>26, <1>27, <1>28, <1>29, <1>30, <1>31, <1>32, <1>33, <1>34, <1>35, <1>36 DEF Next, Command, UciStep, MainStep, ThreadStep, Loops

\* Workers are set up alike, before the search and not during it.
LEMMA RootsAgreeStep == TypeOK /\ IInv /\ [Next]_vars => RootsAgree'
<1> SUFFICES ASSUME UciTyped, PoolTyped, FlagsTyped,
                    SearchTyped, PoolInOrder, JobsInPlace, MainInPlace,
                    RootsAgree, FlagsFollowTalk, [Next]_vars
             PROVE RootsAgree'
  BY TypeParts DEF IInv
<1> USE DEF Threads, Main, uciVars, poolVars, flags, searchVars, talk
<1>1. ASSUME Stop PROVE RootsAgree'
  BY <1>1 DEF RootsAgree, Ready, SettingUp, InSearch, Stop, Listening
<1>2. ASSUME Ponderhit PROVE RootsAgree'
  BY <1>2 DEF RootsAgree, Ready, SettingUp, InSearch, Ponderhit, Listening
<1>3. ASSUME Position PROVE RootsAgree'
  BY <1>3 DEF RootsAgree, Ready, SettingUp, InSearch, Position, Listening
<1>4. ASSUME Go PROVE RootsAgree'
  BY <1>4 DEF RootsAgree, Ready, SettingUp, InSearch, Go, Begin, Listening
<1>5. ASSUME SetThreads PROVE RootsAgree'
  BY <1>5 DEF RootsAgree, Ready, SettingUp, InSearch, SetThreads, Begin, Listening
<1>6. ASSUME SetOther PROVE RootsAgree'
  BY <1>6 DEF RootsAgree, Ready, SettingUp, InSearch, SetOther, Begin, Listening
<1>7. ASSUME Quit PROVE RootsAgree'
  BY <1>7 DEF RootsAgree, Ready, SettingUp, InSearch, Quit, Begin, Listening
<1>8. ASSUME Waited PROVE RootsAgree'
  <2>1. CASE cmd = "go"
    BY <1>8, <2>1, Sizes DEF RootsAgree, Ready, SettingUp, InSearch, UciTyped, PoolTyped, MainInPlace, Waited, Idle
  <2>2. CASE cmd = "resize"
    BY <1>8, <2>2, Sizes DEF RootsAgree, Ready, SettingUp, InSearch, UciTyped, PoolTyped, MainInPlace, Waited, Idle
  <2>3. CASE cmd \in {"hash", "newgame"}
    BY <1>8, <2>3, Sizes DEF RootsAgree, Ready, SettingUp, InSearch, UciTyped, PoolTyped, MainInPlace, Waited, Idle
  <2>4. CASE cmd = "network"
    BY <1>8, <2>4, Sizes DEF RootsAgree, Ready, SettingUp, InSearch, UciTyped, PoolTyped, MainInPlace, Waited, Idle
  <2>5. CASE cmd = "option"
    BY <1>8, <2>5, Sizes DEF RootsAgree, Ready, SettingUp, InSearch, UciTyped, PoolTyped, MainInPlace, Waited, Idle
  <2>6. CASE cmd = "quit"
    BY <1>8, <2>6, Sizes DEF RootsAgree, Ready, SettingUp, InSearch, UciTyped, PoolTyped, MainInPlace, Waited, Idle
  <2> QED
    BY <2>1, <2>2, <2>3, <2>4, <2>5, <2>6 DEF UciTyped
<1>9. ASSUME Loops /\ SetupWorkers PROVE RootsAgree'
  <2>1. SettingUp /\ phase # "start" /\ ~InSearch
    BY <1>9 DEF SettingUp, SetupWorkers, MainInPlace, InSearch
  <2>2. live = 0 .. Last /\ at \in 0 .. Last /\ Last \in Nat /\ at \in Threads
    BY <1>9, <2>1, Sizes DEF PoolInOrder, LoopPhases, UciTyped, Last, SettingUp
  <2>3. \A t \in live : Ready(t)' = Ready(t) /\ live' = live
    BY <1>9 DEF Loops, Ready
  <2>4. CASE phase = "setup"
    <3>1. /\ job' = [job EXCEPT ![at] = "setup"]
          /\ \/ phase' = "awaitSetup" /\ at' = 0 /\ at = Last
             \/ phase' = "setup" /\ at' = at + 1
      BY <1>9, <2>4 DEF SetupWorkers, Post
    <3>2. \A t \in live : t <= at => job'[t] = "setup" \/ Ready(t)
      BY <2>2, <2>4, <3>1, Sizes DEF RootsAgree, PoolTyped
    <3> QED
      BY <1>9, <2>1, <2>2, <2>3, <2>4, <3>1, <3>2 DEF RootsAgree, SettingUp, InSearch, Loops
  <2>5. CASE phase = "awaitSetup"
    <3>1. at = Last => \A t \in live : job[t] # "setup"
      BY <1>9, <2>2, <2>5, Sizes DEF JobsInPlace, InPlace, HandedOut, SearchHandedOut, PoolTyped, Loops,
         SetupWorkers, ZeroTable, ClearWorkers, Await, Idle
    <3> QED
      BY <1>9, <2>1, <2>2, <2>3, <2>5, <3>1 DEF RootsAgree, SettingUp, InSearch, Loops,
         SetupWorkers, ZeroTable, ClearWorkers, Await
  <2> QED
    BY <1>9, <2>4, <2>5 DEF SetupWorkers
<1>10. ASSUME Loops /\ ZeroTable PROVE RootsAgree'
  BY <1>10 DEF RootsAgree, Ready, SettingUp, InSearch, Loops, ZeroTable, Post, Await, Idle, Last, AfterZero
<1>11. ASSUME Loops /\ ClearWorkers PROVE RootsAgree'
  BY <1>11 DEF RootsAgree, Ready, SettingUp, InSearch, Loops, ClearWorkers, Post, Await, Idle, Last, AfterClear
<1>12. ASSUME StartMain PROVE RootsAgree'
  <2>1. Main \in live /\ Ready(Main) /\ \A t \in live : Ready(t)
    BY <1>12 DEF RootsAgree, PoolInOrder, StartMain
  <2>2. limit \in Limits /\ pos \in Positions /\ setup
    BY <1>12 DEF RootsAgree, SettingUp, UciTyped, StartMain
  <2> QED
    BY <1>12, <2>1, <2>2 DEF RootsAgree, Ready, SettingUp, InSearch, StartMain
<1>13. ASSUME HelpersWaited PROVE RootsAgree'
  BY <1>13 DEF RootsAgree, Ready, SettingUp, InSearch, HelpersWaited, Idle
<1>14. ASSUME DestroyThread PROVE RootsAgree'
  BY <1>14 DEF RootsAgree, Ready, SettingUp, InSearch, UciTyped, PoolTyped, MainInPlace, DestroyThread, Idle
<1>15. ASSUME AllDestroyed PROVE RootsAgree'
  BY <1>15 DEF RootsAgree, Ready, SettingUp, InSearch, UciTyped, PoolTyped, MainInPlace, AllDestroyed
<1>16. ASSUME CreateThread PROVE RootsAgree'
  BY <1>16 DEF RootsAgree, Ready, SettingUp, InSearch, UciTyped, PoolTyped, MainInPlace, CreateThread
<1>17. ASSUME Created PROVE RootsAgree'
  BY <1>17 DEF RootsAgree, Ready, SettingUp, InSearch, Created, Await, Idle, Last
<1>18. ASSUME MainBegin PROVE RootsAgree'
  BY <1>18 DEF RootsAgree, Ready, SettingUp, InSearch, MainBegin, Goto
<1>19. ASSUME MainLaunch PROVE RootsAgree'
  BY <1>19 DEF RootsAgree, Ready, SettingUp, InSearch, PoolTyped, MainInPlace, MainLaunch, Goto, Helpers, Idle
<1>20. ASSUME MainIterate PROVE RootsAgree'
  BY <1>20 DEF RootsAgree, Ready, SettingUp, InSearch, MainIterate, Goto, limits
<1>21. ASSUME MainComplete PROVE RootsAgree'
  BY <1>21 DEF RootsAgree, Ready, SettingUp, InSearch, MainComplete, Goto
<1>22. ASSUME MainMate PROVE RootsAgree'
  BY <1>22 DEF RootsAgree, Ready, SettingUp, InSearch, MainMate, Goto, limits
<1>23. ASSUME MainClock PROVE RootsAgree'
  BY <1>23 DEF RootsAgree, Ready, SettingUp, InSearch, MainClock, Goto, limits
<1>24. ASSUME MainRelease PROVE RootsAgree'
  BY <1>24 DEF RootsAgree, Ready, SettingUp, InSearch, MainRelease, Goto, Holding, limits
<1>25. ASSUME MainCollect PROVE RootsAgree'
  BY <1>25 DEF RootsAgree, Ready, SettingUp, InSearch, MainCollect, Goto, Helpers, Idle
<1>26. ASSUME MainAnswer PROVE RootsAgree'
  BY <1>26 DEF RootsAgree, Ready, SettingUp, InSearch, MainAnswer, Goto
<1>27. ASSUME MainDone PROVE RootsAgree'
  BY <1>27 DEF RootsAgree, Ready, SettingUp, InSearch, PoolTyped, MainInPlace, MainDone, Goto
<1>28. ASSUME MainHold PROVE RootsAgree'
  BY <1>28 DEF RootsAgree, Ready, SettingUp, InSearch, MainHold, vars
<1>29. ASSUME CheckTime PROVE RootsAgree'
  BY <1>29 DEF RootsAgree, Ready, SettingUp, InSearch, CheckTime
<1>30. ASSUME FailLow PROVE RootsAgree'
  BY <1>30 DEF RootsAgree, Ready, SettingUp, InSearch, FailLow
<1>31. ASSUME NEW t \in Threads, RunShortJob(t) PROVE RootsAgree'
  <2>1. \A u \in live : job[u] = "setup" => job'[u] = "setup"
    BY <1>31 DEF RunShortJob, PoolTyped
  <2> QED
    BY <1>31, <2>1 DEF RootsAgree, Ready, SettingUp, InSearch, RunShortJob
<1>32. ASSUME NEW t \in Threads, RunSetup(t) PROVE RootsAgree'
  <2>1. SettingUp /\ phase # "start" /\ ~InSearch
    BY <1>32, Sizes DEF JobsInPlace, InPlace, HandedOut, SearchHandedOut, RunSetup, SettingUp, MainInPlace
  <2>2. Ready(t)'
    BY <1>32 DEF Ready, RunSetup, PoolTyped
  <2>3. ASSUME NEW u \in live, u # t PROVE Ready(u) => Ready(u)'
    BY <1>32, <2>3 DEF Ready, RunSetup, PoolTyped
  <2>4. ASSUME NEW u \in live, u # t PROVE job'[u] = job[u]
    BY <1>32, <2>4 DEF RunSetup, PoolTyped
  <2> QED
    BY <1>32, <2>1, <2>2, <2>3, <2>4 DEF RootsAgree, RunSetup, SettingUp, InSearch
<1>33. ASSUME NEW t \in Threads, HelperMate(t) PROVE RootsAgree'
  BY <1>33 DEF RootsAgree, Ready, SettingUp, InSearch, HelperMate, limits
<1>34. ASSUME NEW t \in Threads, HelperDone(t) PROVE RootsAgree'
  <2>1. \A u \in live : job[u] = "setup" => job'[u] = "setup"
    BY <1>34 DEF HelperDone, PoolTyped
  <2> QED
    BY <1>34, <2>1 DEF RootsAgree, Ready, SettingUp, InSearch, HelperDone
<1>35. ASSUME Gone PROVE RootsAgree'
  BY <1>35 DEF RootsAgree, Ready, SettingUp, InSearch, Gone, vars
<1>36. CASE UNCHANGED vars
  BY <1>36 DEF RootsAgree, Ready, SettingUp, InSearch, vars
<1> QED
  BY <1>1, <1>2, <1>3, <1>4, <1>5, <1>6, <1>7, <1>8, <1>9, <1>10, <1>11, <1>12, <1>13, <1>14, <1>15, <1>16, <1>17, <1>18, <1>19, <1>20, <1>21, <1>22, <1>23, <1>24, <1>25, <1>26, <1>27, <1>28, <1>29, <1>30, <1>31, <1>32, <1>33, <1>34, <1>35, <1>36 DEF Next, Command, UciStep, MainStep, ThreadStep, Loops

\* The flags are raised and cleared in step with what the GUI says.
LEMMA FlagsFollowTalkStep == TypeOK /\ IInv /\ [Next]_vars => FlagsFollowTalk'
<1> SUFFICES ASSUME UciTyped, PoolTyped, FlagsTyped,
                    SearchTyped, PoolInOrder, JobsInPlace, MainInPlace,
                    RootsAgree, FlagsFollowTalk, [Next]_vars
             PROVE FlagsFollowTalk'
  BY TypeParts DEF IInv
<1> USE DEF Threads, Main, uciVars, poolVars, flags, searchVars, talk
<1>1. ASSUME Stop PROVE FlagsFollowTalk'
  BY <1>1 DEF FlagsFollowTalk, SettingUp, InSearch, limits, Stop, Listening
<1>2. ASSUME Ponderhit PROVE FlagsFollowTalk'
  BY <1>2 DEF FlagsFollowTalk, SettingUp, InSearch, limits, Ponderhit, Listening
<1>3. ASSUME Position PROVE FlagsFollowTalk'
  BY <1>3 DEF FlagsFollowTalk, SettingUp, InSearch, limits, Position, Listening
<1>4. ASSUME Go PROVE FlagsFollowTalk'
  BY <1>4 DEF FlagsFollowTalk, SettingUp, InSearch, limits, Go, Begin, Listening
<1>5. ASSUME SetThreads PROVE FlagsFollowTalk'
  BY <1>5 DEF FlagsFollowTalk, SettingUp, InSearch, limits, SetThreads, Begin, Listening
<1>6. ASSUME SetOther PROVE FlagsFollowTalk'
  BY <1>6 DEF FlagsFollowTalk, SettingUp, InSearch, limits, SetOther, Begin, Listening
<1>7. ASSUME Quit PROVE FlagsFollowTalk'
  BY <1>7 DEF FlagsFollowTalk, SettingUp, InSearch, limits, Quit, Begin, Listening
<1>8. ASSUME Waited PROVE FlagsFollowTalk'
  <2>1. CASE cmd = "go"
    BY <1>8, <2>1, Sizes, LimitsTyped DEF FlagsFollowTalk, SettingUp, InSearch, limits, MainInPlace, RootsAgree, UciTyped, Waited, Idle
  <2>2. CASE cmd = "resize"
    BY <1>8, <2>2, Sizes, LimitsTyped DEF FlagsFollowTalk, SettingUp, InSearch, limits, MainInPlace, RootsAgree, UciTyped, Waited, Idle
  <2>3. CASE cmd \in {"hash", "newgame"}
    BY <1>8, <2>3, Sizes, LimitsTyped DEF FlagsFollowTalk, SettingUp, InSearch, limits, MainInPlace, RootsAgree, UciTyped, Waited, Idle
  <2>4. CASE cmd = "network"
    BY <1>8, <2>4, Sizes, LimitsTyped DEF FlagsFollowTalk, SettingUp, InSearch, limits, MainInPlace, RootsAgree, UciTyped, Waited, Idle
  <2>5. CASE cmd = "option"
    BY <1>8, <2>5, Sizes, LimitsTyped DEF FlagsFollowTalk, SettingUp, InSearch, limits, MainInPlace, RootsAgree, UciTyped, Waited, Idle
  <2>6. CASE cmd = "quit"
    BY <1>8, <2>6, Sizes, LimitsTyped DEF FlagsFollowTalk, SettingUp, InSearch, limits, MainInPlace, RootsAgree, UciTyped, Waited, Idle
  <2> QED
    BY <2>1, <2>2, <2>3, <2>4, <2>5, <2>6 DEF UciTyped
<1>9. ASSUME Loops /\ SetupWorkers PROVE FlagsFollowTalk'
  BY <1>9 DEF FlagsFollowTalk, SettingUp, InSearch, limits, Loops, SetupWorkers, Post, Await, Idle, Last
<1>10. ASSUME Loops /\ ZeroTable PROVE FlagsFollowTalk'
  BY <1>10 DEF FlagsFollowTalk, SettingUp, InSearch, limits, Loops, ZeroTable, Post, Await, Idle, Last, AfterZero
<1>11. ASSUME Loops /\ ClearWorkers PROVE FlagsFollowTalk'
  BY <1>11 DEF FlagsFollowTalk, SettingUp, InSearch, limits, Loops, ClearWorkers, Post, Await, Idle, Last, AfterClear
<1>12. ASSUME StartMain PROVE FlagsFollowTalk'
  BY <1>12, Sizes DEF FlagsFollowTalk, SettingUp, InSearch, limits, MainInPlace, RootsAgree, Ready, PoolInOrder, StartMain, Idle
<1>13. ASSUME HelpersWaited PROVE FlagsFollowTalk'
  BY <1>13 DEF FlagsFollowTalk, SettingUp, InSearch, limits, HelpersWaited, Idle
<1>14. ASSUME DestroyThread PROVE FlagsFollowTalk'
  BY <1>14, Sizes DEF FlagsFollowTalk, SettingUp, InSearch, limits, MainInPlace, PoolTyped, JobsInPlace, InPlace, HandedOut, SearchHandedOut, DestroyThread, Idle
<1>15. ASSUME AllDestroyed PROVE FlagsFollowTalk'
  BY <1>15 DEF FlagsFollowTalk, SettingUp, InSearch, limits, AllDestroyed
<1>16. ASSUME CreateThread PROVE FlagsFollowTalk'
  BY <1>16, Sizes DEF FlagsFollowTalk, SettingUp, InSearch, limits, MainInPlace, PoolTyped, JobsInPlace, InPlace, HandedOut, SearchHandedOut, CreateThread
<1>17. ASSUME Created PROVE FlagsFollowTalk'
  BY <1>17 DEF FlagsFollowTalk, SettingUp, InSearch, limits, Created, Await, Idle, Last
<1>18. ASSUME MainBegin PROVE FlagsFollowTalk'
  BY <1>18 DEF FlagsFollowTalk, SettingUp, InSearch, limits, MainInPlace, MainBegin, Goto
<1>19. ASSUME MainLaunch PROVE FlagsFollowTalk'
  BY <1>19 DEF FlagsFollowTalk, SettingUp, InSearch, limits, MainInPlace, MainLaunch, Goto, Helpers, Idle
<1>20. ASSUME MainIterate PROVE FlagsFollowTalk'
  BY <1>20 DEF FlagsFollowTalk, SettingUp, InSearch, limits, MainInPlace, MainIterate, Goto
<1>21. ASSUME MainComplete PROVE FlagsFollowTalk'
  BY <1>21 DEF FlagsFollowTalk, SettingUp, InSearch, limits, MainInPlace, MainComplete, Goto
<1>22. ASSUME MainMate PROVE FlagsFollowTalk'
  BY <1>22 DEF FlagsFollowTalk, SettingUp, InSearch, limits, MainInPlace, MainMate, Goto
<1>23. ASSUME MainClock PROVE FlagsFollowTalk'
  BY <1>23 DEF FlagsFollowTalk, SettingUp, InSearch, limits, MainInPlace, MainClock, Goto
<1>24. ASSUME MainRelease PROVE FlagsFollowTalk'
  BY <1>24 DEF FlagsFollowTalk, SettingUp, InSearch, limits, MainInPlace, MainRelease, Goto, Holding
<1>25. ASSUME MainCollect PROVE FlagsFollowTalk'
  BY <1>25 DEF FlagsFollowTalk, SettingUp, InSearch, limits, MainInPlace, MainCollect, Goto, Helpers, Idle
<1>26. ASSUME MainAnswer PROVE FlagsFollowTalk'
  BY <1>26 DEF FlagsFollowTalk, SettingUp, InSearch, limits, MainInPlace, MainAnswer, Goto
<1>27. ASSUME MainDone PROVE FlagsFollowTalk'
  BY <1>27 DEF FlagsFollowTalk, SettingUp, InSearch, limits, MainInPlace, MainDone, Goto
<1>28. ASSUME MainHold PROVE FlagsFollowTalk'
  BY <1>28 DEF FlagsFollowTalk, SettingUp, InSearch, limits, MainHold, vars
<1>29. ASSUME CheckTime PROVE FlagsFollowTalk'
  BY <1>29 DEF FlagsFollowTalk, SettingUp, InSearch, limits, MainInPlace, CheckTime
<1>30. ASSUME FailLow PROVE FlagsFollowTalk'
  BY <1>30 DEF FlagsFollowTalk, SettingUp, InSearch, limits, MainInPlace, FailLow
<1>31. ASSUME NEW t \in Threads, RunShortJob(t) PROVE FlagsFollowTalk'
  BY <1>31 DEF FlagsFollowTalk, SettingUp, InSearch, limits, RunShortJob
<1>32. ASSUME NEW t \in Threads, RunSetup(t) PROVE FlagsFollowTalk'
  BY <1>32, Sizes DEF FlagsFollowTalk, SettingUp, InSearch, limits, MainInPlace, PoolTyped, JobsInPlace, InPlace, HandedOut, SearchHandedOut, RunSetup
<1>33. ASSUME NEW t \in Threads, HelperMate(t) PROVE FlagsFollowTalk'
  BY <1>33, Sizes DEF FlagsFollowTalk, SettingUp, InSearch, limits, MainInPlace, JobsInPlace, InPlace, HandedOut, SearchHandedOut, HelperMate
<1>34. ASSUME NEW t \in Threads, HelperDone(t) PROVE FlagsFollowTalk'
  BY <1>34 DEF FlagsFollowTalk, SettingUp, InSearch, limits, HelperDone
<1>35. ASSUME Gone PROVE FlagsFollowTalk'
  BY <1>35 DEF FlagsFollowTalk, SettingUp, InSearch, limits, Gone, vars
<1>36. CASE UNCHANGED vars
  BY <1>36 DEF FlagsFollowTalk, SettingUp, InSearch, limits, vars
<1> QED
  BY <1>1, <1>2, <1>3, <1>4, <1>5, <1>6, <1>7, <1>8, <1>9, <1>10, <1>11, <1>12, <1>13, <1>14, <1>15, <1>16, <1>17, <1>18, <1>19, <1>20, <1>21, <1>22, <1>23, <1>24, <1>25, <1>26, <1>27, <1>28, <1>29, <1>30, <1>31, <1>32, <1>33, <1>34, <1>35, <1>36 DEF Next, Command, UciStep, MainStep, ThreadStep, Loops

\* The engine starts in the invariant and never leaves it.
THEOREM Invariance == Spec => [](TypeOK /\ IInv)
<1>1. TypeOK /\ IInv /\ [Next]_vars => TypeOK'
  <2> SUFFICES ASSUME TypeOK /\ IInv /\ [Next]_vars PROVE TypeOK'
    OBVIOUS
  <2>1. UciTyped' /\ PoolTyped' /\ FlagsTyped' /\ SearchTyped'
    BY UciTypedStep, PoolTypedStep, FlagsTypedStep, SearchTypedStep
  <2> QED
    BY <2>1 DEF TypeOK, UciTyped, PoolTyped, FlagsTyped, SearchTyped
<1>2. TypeOK /\ IInv /\ [Next]_vars => IInv'
  BY PoolInOrderStep, JobsInPlaceStep, MainInPlaceStep, RootsAgreeStep, FlagsFollowTalkStep
     DEF IInv
<1> QED
  BY InvInit, <1>1, <1>2, PTL DEF Spec

\* The variables of the UCI thread, the pool and the search keep their types.
THEOREM TypeCorrect == Spec => []TypeOK
  BY Invariance, PTL

\* No thread searches while the table is zeroed, a network replaced or a
\* thread destroyed.
THEOREM TearsDownAtRest == Spec => []NoTeardownUnderSearch
<1>1. TypeOK /\ IInv => NoTeardownUnderSearch
  BY Sizes DEF IInv, JobsInPlace, InPlace, HandedOut, SearchHandedOut, MainInPlace, InSearch, NoTeardownUnderSearch, Searching
<1> QED
  BY Invariance, <1>1, PTL

\* `stop` and `ponderhit` reach the search they were meant for.
THEOREM HeedsCommands == Spec => []CommandsHeeded
<1>1. TypeOK /\ IInv => CommandsHeeded
  BY DEF IInv, FlagsFollowTalk, MainInPlace, CommandsHeeded, Searching
<1> QED
  BY Invariance, <1>1, PTL

\* Setup jobs and searching workers refer only to what exists.
THEOREM RefersToTheLiving == Spec => []NoDanglingReference
<1>1. TypeOK /\ IInv => NoDanglingReference
  <2> SUFFICES ASSUME TypeOK, IInv, NEW t \in Threads
               PROVE /\ job[t] = "setup" => cmd = "go" /\ phase \in {"setup", "awaitSetup"}
                     /\ Searching(t) => setup /\ t \in anchored
    BY DEF NoDanglingReference
  <2>1. InPlace(t)
    BY DEF IInv, JobsInPlace
  <2>2. job[t] = "setup" => cmd = "go" /\ phase \in {"setup", "awaitSetup"}
    BY <2>1, Sizes DEF IInv, InPlace, HandedOut, SearchHandedOut, RootsAgree, SettingUp
  <2>3. Searching(t) => InSearch /\ t \in live
    BY <2>1, Sizes DEF IInv, InPlace, HandedOut, SearchHandedOut, MainInPlace, InSearch, Searching
  <2> QED
    BY <2>2, <2>3 DEF IInv, RootsAgree
<1> QED
  BY Invariance, <1>1, PTL

\* The bestmove is chosen among threads at rest, set up alike.
THEOREM ChoosesAtRest == Spec => []ChosenAtRest
<1>1. TypeOK /\ IInv => ChosenAtRest
  <2> SUFFICES ASSUME TypeOK, IInv, mpc = "answer", NEW t \in Helpers
               PROVE Idle(t) /\ root[t] = root[Main]
    BY DEF ChosenAtRest
  <2>1. t \in live /\ t # Main /\ t \in Threads
    BY TypeParts DEF Helpers, PoolTyped
  <2>2. root[t] = root[Main]
    BY <2>1 DEF IInv, RootsAgree, InSearch
  <2>3. Idle(t)
    BY <2>1, Sizes DEF IInv, JobsInPlace, InPlace, HandedOut, SearchHandedOut, MainInPlace, InSearch, Idle
  <2> QED
    BY <2>2, <2>3
<1> QED
  BY Invariance, <1>1, PTL


\* Under limits that leave it to the GUI to end the search, stop is raised
\* only when the bestmove may be printed.
LEMMA StopStep == ASSUME GuiEndsTheSearch
                  PROVE TypeOK /\ IInv /\ StopReleases /\ [Next]_vars => StopReleases'
<1> SUFFICES ASSUME UciTyped, PoolTyped, FlagsTyped, PoolInOrder, JobsInPlace, MainInPlace,
                    RootsAgree, FlagsFollowTalk, StopReleases, [Next]_vars
             PROVE StopReleases'
  BY TypeParts DEF IInv
<1> USE DEF Threads, Main, uciVars, poolVars, flags, searchVars, talk, StopReleases, InSearch, limits
<1>1. ASSUME Stop PROVE StopReleases'
  BY <1>1 DEF Stop, Listening
<1>2. ASSUME Ponderhit PROVE StopReleases'
  BY <1>2 DEF Ponderhit, Listening
<1>3. ASSUME Position PROVE StopReleases'
  BY <1>3 DEF Position, Listening
<1>4. ASSUME Go PROVE StopReleases'
  BY <1>4 DEF Go, Begin, Listening
<1>5. ASSUME SetThreads PROVE StopReleases'
  BY <1>5 DEF SetThreads, Begin, Listening
<1>6. ASSUME SetOther PROVE StopReleases'
  BY <1>6 DEF SetOther, Begin, Listening
<1>7. ASSUME Quit PROVE StopReleases'
  BY <1>7 DEF Quit, Begin, Listening
<1>8. ASSUME Waited PROVE StopReleases'
  BY <1>8, Sizes DEF MainInPlace, Waited, Idle
<1>9. ASSUME Loops /\ SetupWorkers PROVE StopReleases'
  BY <1>9 DEF Loops, SetupWorkers, Post, Await, Idle, Last
<1>10. ASSUME Loops /\ ZeroTable PROVE StopReleases'
  BY <1>10 DEF Loops, ZeroTable, Post, Await, Idle, Last, AfterZero
<1>11. ASSUME Loops /\ ClearWorkers PROVE StopReleases'
  BY <1>11 DEF Loops, ClearWorkers, Post, Await, Idle, Last, AfterClear
<1>12. ASSUME StartMain PROVE StopReleases'
  BY <1>12 DEF FlagsFollowTalk, SettingUp, StartMain, Idle
<1>13. ASSUME HelpersWaited PROVE StopReleases'
  BY <1>13 DEF HelpersWaited, Idle
<1>14. ASSUME DestroyThread PROVE StopReleases'
  BY <1>14 DEF MainInPlace, DestroyThread, Idle
<1>15. ASSUME AllDestroyed PROVE StopReleases'
  BY <1>15 DEF AllDestroyed
<1>16. ASSUME CreateThread PROVE StopReleases'
  BY <1>16 DEF MainInPlace, CreateThread
<1>17. ASSUME Created PROVE StopReleases'
  BY <1>17 DEF Created, Await, Idle, Last
<1>18. ASSUME MainBegin PROVE StopReleases'
  BY <1>18 DEF MainBegin, Goto
<1>19. ASSUME MainLaunch PROVE StopReleases'
  BY <1>19 DEF MainLaunch, Goto, Helpers, Idle
<1>20. ASSUME MainIterate PROVE StopReleases'
  BY <1>20 DEF MainIterate, Goto
<1>21. ASSUME MainComplete PROVE StopReleases'
  BY <1>21 DEF MainComplete, Goto
<1>22. ASSUME MainMate PROVE StopReleases'
  BY <1>22, LimitsTyped DEF RootsAgree, GuiEndsTheSearch, FlagsFollowTalk, MainMate, Goto
<1>23. ASSUME MainClock PROVE StopReleases'
  BY <1>23, LimitsTyped DEF RootsAgree, GuiEndsTheSearch, MainClock, Goto
<1>24. ASSUME MainRelease PROVE StopReleases'
  BY <1>24 DEF MainRelease, Goto, Holding
<1>25. ASSUME MainCollect PROVE StopReleases'
  BY <1>25 DEF MainCollect, Goto, Helpers, Idle
<1>26. ASSUME MainAnswer PROVE StopReleases'
  BY <1>26 DEF MainAnswer, Goto
<1>27. ASSUME MainDone PROVE StopReleases'
  BY <1>27 DEF MainDone, Goto
<1>28. ASSUME MainHold PROVE StopReleases'
  BY <1>28 DEF MainHold, vars
<1>29. ASSUME CheckTime PROVE StopReleases'
  BY <1>29, LimitsTyped DEF RootsAgree, GuiEndsTheSearch, CheckTime
<1>30. ASSUME FailLow PROVE StopReleases'
  BY <1>30 DEF FailLow
<1>31. ASSUME NEW t \in Threads, RunShortJob(t) PROVE StopReleases'
  BY <1>31 DEF RunShortJob
<1>32. ASSUME NEW t \in Threads, RunSetup(t) PROVE StopReleases'
  <2>1. ~InSearch
    BY <1>32, Sizes DEF JobsInPlace, InPlace, HandedOut, SearchHandedOut, RunSetup, MainInPlace
  <2> QED
    BY <1>32, <2>1 DEF RunSetup
<1>33. ASSUME NEW t \in Threads, HelperMate(t) PROVE StopReleases'
  <2>1. InSearch /\ root[t] = root[Main]
    BY <1>33, Sizes DEF JobsInPlace, InPlace, HandedOut, SearchHandedOut, HelperMate, RootsAgree
  <2> QED
    BY <1>33, <2>1, LimitsTyped DEF HelperMate, RootsAgree, GuiEndsTheSearch, FlagsFollowTalk
<1>34. ASSUME NEW t \in Threads, HelperDone(t) PROVE StopReleases'
  BY <1>34 DEF HelperDone
<1>35. ASSUME Gone PROVE StopReleases'
  BY <1>35 DEF Gone, vars
<1>36. CASE UNCHANGED vars
  BY <1>36 DEF vars
<1> QED
  BY <1>1, <1>2, <1>3, <1>4, <1>5, <1>6, <1>7, <1>8, <1>9, <1>10, <1>11, <1>12, <1>13, <1>14, <1>15, <1>16, <1>17, <1>18, <1>19, <1>20, <1>21, <1>22, <1>23, <1>24, <1>25, <1>26, <1>27, <1>28, <1>29, <1>30, <1>31, <1>32, <1>33, <1>34, <1>35, <1>36 DEF Next, Command, UciStep, MainStep, ThreadStep, Loops

\* What the GUI is shown does not change with a step that leaves alone what
\* the search in progress is about, nor with one outside a search.
LEMMA Unseen ==
    ASSUME \/ UNCHANGED <<owed, ponder, told, root>>
           \/ owed # 1 /\ owed' # 1
    PROVE  UNCHANGED Dialogue!vars
  BY DEF Dialogue!vars, limits

\* Every step of the engine is a step of the dialogue or is not seen.
LEMMA DialogueStep ==
    ASSUME GuiEndsTheSearch, TypeOK, IInv, StopReleases, [Next]_vars
    PROVE  Dialogue!Next \/ UNCHANGED Dialogue!vars
<1> DEFINE Refines == Dialogue!Next \/ UNCHANGED Dialogue!vars
<1> SUFFICES Refines
  OBVIOUS
<1> HIDE DEF Refines
<1>a. /\ UciTyped /\ PoolTyped /\ FlagsTyped /\ SearchTyped /\ PoolInOrder
      /\ JobsInPlace /\ MainInPlace /\ RootsAgree /\ FlagsFollowTalk
  BY TypeParts DEF IInv
<1> USE DEF Threads, Main, uciVars, poolVars, flags, searchVars, talk
<1>b. UNCHANGED <<owed, ponder, told, root>> => Refines
  BY Unseen DEF Refines
<1>c. owed # 1 /\ owed' # 1 => Refines
  BY Unseen DEF Refines
<1>d. owed = 1 => limits \in Limits /\ limits # None
  BY <1>a, EngineAssumption DEF RootsAgree, FlagsFollowTalk, InSearch, limits
<1>e. /\ ponder \in BOOLEAN /\ ponder' \in BOOLEAN
      /\ ("stop" \in told) \in BOOLEAN /\ ("stop" \in told)' \in BOOLEAN
  BY <1>a, FlagsTypedStep DEF FlagsTyped
<1>1. ASSUME Stop PROVE Refines
  <2>1. CASE owed = 1
    <3>1. Dialogue!Stop
      BY <1>1, <1>d, <2>1 DEF Dialogue!Stop, Stop, Listening, limits
    <3> QED
      BY <3>1 DEF Refines, Dialogue!Next
  <2>2. CASE owed # 1
    BY <1>1, <1>c, <2>2 DEF Stop, Listening
  <2> QED
    BY <2>1, <2>2
<1>2. ASSUME Ponderhit PROVE Refines
  <2>1. CASE owed = 1
    <3>1. Dialogue!Ponderhit
      BY <1>2, <1>d, <2>1 DEF Dialogue!Ponderhit, Ponderhit, Listening, limits
    <3> QED
      BY <3>1 DEF Refines, Dialogue!Next
  <2>2. CASE owed # 1
    BY <1>2, <1>c, <2>2 DEF Ponderhit, Listening
  <2> QED
    BY <2>1, <2>2
<1>3. ASSUME Position PROVE Refines
  BY <1>b, <1>3 DEF Position, Listening
<1>4. ASSUME Go PROVE Refines
  BY <1>b, <1>4 DEF Go, Begin, Listening
<1>5. ASSUME SetThreads PROVE Refines
  BY <1>b, <1>5 DEF SetThreads, Begin, Listening
<1>6. ASSUME SetOther PROVE Refines
  BY <1>b, <1>6 DEF SetOther, Begin, Listening
<1>7. ASSUME Quit PROVE Refines
  <2>1. CASE owed = 1
    <3>1. Dialogue!Stop
      BY <1>7, <1>d, <2>1 DEF Dialogue!Stop, Quit, Begin, Listening, limits
    <3> QED
      BY <3>1 DEF Refines, Dialogue!Next
  <2>2. CASE owed # 1
    BY <1>7, <1>c, <2>2 DEF Quit, Begin, Listening
  <2> QED
    BY <2>1, <2>2
<1>8. ASSUME Waited PROVE Refines
  BY <1>a, <1>c, <1>8, Sizes DEF MainInPlace, InSearch, FlagsFollowTalk, Waited, Idle
<1>9. ASSUME Loops /\ SetupWorkers PROVE Refines
  BY <1>b, <1>9 DEF Loops, SetupWorkers, Post, Await, Idle, Last
<1>10. ASSUME Loops /\ ZeroTable PROVE Refines
  BY <1>b, <1>10 DEF Loops, ZeroTable, Post, Await, Idle, Last, AfterZero
<1>11. ASSUME Loops /\ ClearWorkers PROVE Refines
  BY <1>b, <1>11 DEF Loops, ClearWorkers, Post, Await, Idle, Last, AfterClear
<1>12. ASSUME StartMain PROVE Refines
  <2>1. owed = 0 /\ owed' = 1
    BY <1>a, <1>12 DEF FlagsFollowTalk, MainInPlace, InSearch, StartMain, Idle
  <2>2. /\ limits = limit /\ limit \in Limits /\ limits' = limits
        /\ ponder = limit.ponder /\ "stop" \notin told
    BY <1>a, <1>e, <1>12, LimitsTyped DEF FlagsFollowTalk, RootsAgree, Ready, SettingUp, PoolInOrder, StartMain, Idle, limits
  <2>3. Dialogue!Go
    BY <1>e, <1>12, <2>1, <2>2 DEF Dialogue!Go, StartMain, Idle
  <2> QED
    BY <2>3 DEF Refines, Dialogue!Next
<1>13. ASSUME HelpersWaited PROVE Refines
  BY <1>b, <1>13 DEF HelpersWaited, Idle
<1>14. ASSUME DestroyThread PROVE Refines
  BY <1>a, <1>c, <1>14, Sizes DEF MainInPlace, InSearch, FlagsFollowTalk, DestroyThread, Idle
<1>15. ASSUME AllDestroyed PROVE Refines
  BY <1>b, <1>15 DEF AllDestroyed
<1>16. ASSUME CreateThread PROVE Refines
  BY <1>a, <1>c, <1>16, Sizes DEF MainInPlace, InSearch, FlagsFollowTalk, CreateThread
<1>17. ASSUME Created PROVE Refines
  BY <1>b, <1>17 DEF Created, Await, Idle, Last
<1>18. ASSUME MainBegin PROVE Refines
  BY <1>b, <1>18 DEF MainBegin, Goto
<1>19. ASSUME MainLaunch PROVE Refines
  BY <1>b, <1>19 DEF MainLaunch, Goto, Helpers, Idle
<1>20. ASSUME MainIterate PROVE Refines
  BY <1>b, <1>20 DEF MainIterate, Goto, limits
<1>21. ASSUME MainComplete PROVE Refines
  BY <1>b, <1>21 DEF MainComplete, Goto
<1>22. ASSUME MainMate PROVE Refines
  BY <1>b, <1>22 DEF MainMate, Goto, limits
<1>23. ASSUME MainClock PROVE Refines
  BY <1>b, <1>23 DEF MainClock, Goto, limits
<1>24. ASSUME MainRelease PROVE Refines
  BY <1>b, <1>24 DEF MainRelease, Goto, Holding, limits
<1>25. ASSUME MainCollect PROVE Refines
  BY <1>b, <1>25 DEF MainCollect, Goto, Helpers, Idle
<1>26. ASSUME MainAnswer PROVE Refines
  <2>1. owed = 1 /\ owed' = 0
    BY <1>a, <1>26 DEF FlagsFollowTalk, MainAnswer, Goto
  <2>2. "stop" \in told \/ ~(ponder \/ limits.infinite)
    BY <1>a, <1>26 DEF StopReleases, FlagsFollowTalk, InSearch, MainAnswer, Goto
  <2>3. Dialogue!Bestmove
    BY <1>d, <2>1, <2>2 DEF Dialogue!Bestmove, Dialogue!Released
  <2> QED
    BY <2>3 DEF Refines, Dialogue!Next
<1>27. ASSUME MainDone PROVE Refines
  BY <1>b, <1>27 DEF MainDone, Goto
<1>28. ASSUME MainHold PROVE Refines
  BY <1>b, <1>28 DEF MainHold, vars
<1>29. ASSUME CheckTime PROVE Refines
  BY <1>b, <1>29 DEF CheckTime
<1>30. ASSUME FailLow PROVE Refines
  BY <1>b, <1>30 DEF FailLow
<1>31. ASSUME NEW t \in Threads, RunShortJob(t) PROVE Refines
  BY <1>b, <1>31 DEF RunShortJob
<1>32. ASSUME NEW t \in Threads, RunSetup(t) PROVE Refines
  <2>1. ~InSearch
    BY <1>a, <1>32, Sizes DEF JobsInPlace, InPlace, HandedOut, SearchHandedOut, RunSetup, MainInPlace, InSearch
  <2> QED
    BY <1>a, <1>c, <1>32, <2>1 DEF RunSetup, FlagsFollowTalk, InSearch
<1>33. ASSUME NEW t \in Threads, HelperMate(t) PROVE Refines
  BY <1>b, <1>33 DEF HelperMate, limits
<1>34. ASSUME NEW t \in Threads, HelperDone(t) PROVE Refines
  BY <1>b, <1>34 DEF HelperDone
<1>35. ASSUME Gone PROVE Refines
  BY <1>b, <1>35 DEF Gone, vars
<1>36. CASE UNCHANGED vars
  BY <1>36, <1>b DEF vars
<1> QED
  BY <1>1, <1>2, <1>3, <1>4, <1>5, <1>6, <1>7, <1>8, <1>9, <1>10, <1>11, <1>12, <1>13, <1>14, <1>15, <1>16, <1>17, <1>18, <1>19, <1>20, <1>21, <1>22, <1>23, <1>24, <1>25, <1>26, <1>27, <1>28, <1>29, <1>30, <1>31, <1>32, <1>33, <1>34, <1>35, <1>36 DEF Next, Command, UciStep, MainStep, ThreadStep, Loops

\* Under such limits the engine carries on the dialogue of UciDialogue: one
\* bestmove for each `go`, and none before the GUI allows it.  (That none is
\* withheld is the fairness of UciDialogue, which TLC checks.)
THEOREM CarriesOnDialogue ==
    ASSUME GuiEndsTheSearch
    PROVE  Spec => Dialogue!Init /\ [][Dialogue!Next]_(Dialogue!vars)
<1>1. Init => Dialogue!Init /\ StopReleases
  BY DEF Init, Dialogue!Init, StopReleases, InSearch
<1>2. TypeOK /\ IInv /\ StopReleases /\ [Next]_vars => StopReleases'
  BY StopStep
<1>3. TypeOK /\ IInv /\ StopReleases /\ [Next]_vars => [Dialogue!Next]_(Dialogue!vars)
  BY DialogueStep
<1> QED
  BY Invariance, <1>1, <1>2, <1>3, PTL DEF Spec

=============================================================================
