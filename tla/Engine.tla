------------------------------- MODULE Engine --------------------------------
(***************************************************************************)
(* The engine process: the UCI thread (uci.cpp, engine.cpp), the pool of   *)
(* search threads (thread.cpp) and the control of a search by the main     *)
(* worker (search.cpp).  They share the flags stop, ponder and             *)
(* stopOnPonderhit without a lock; everything else is ordered by the job   *)
(* slots of the threads (JobSlot, which Thread implements): job[t] is what *)
(* thread t was handed and has not finished, None when it is parked.       *)
(*                                                                         *)
(* A command of the UCI thread runs through phases, `at` being the index   *)
(* of its loops over the threads; a search runs through the labels of mpc. *)
(***************************************************************************)
EXTENDS Integers

CONSTANTS MaxThreads,   \* bound of the Threads option
          Positions,    \* what `position` can set up
          Terminal,     \* the ones without a legal move
          Start,        \* the one set up at start
          Limits,       \* what the arguments of `go` can ask for
          MaxPly,       \* MAX_PLY
          None

Main == 0
Threads == 0 .. MaxThreads - 1
Jobs == {"build", "setup", "clear", "zero", "search"}

ASSUME EngineAssumption ==
    /\ MaxThreads \in Nat \ {0}
    /\ MaxPly \in Nat \ {0, 1}
    /\ Start \in Positions /\ Terminal \subseteq Positions
    /\ Limits \subseteq [infinite : BOOLEAN, ponder : BOOLEAN, timed : BOOLEAN,
                         budget : BOOLEAN, mate : BOOLEAN, depth : Nat]
    /\ None \notin Positions /\ None \notin Limits /\ None \notin Jobs

VARIABLES
    phase,    \* of the command the UCI thread executes, or "idle"
    cmd,      \* that command
    at,       \* index of its loop over the threads
    limit,    \* its limits, if it is `go`: a local that setup jobs refer to
    want,     \* its thread count, if it sets Threads
    pos,      \* Engine::pos
    states,   \* Engine::states owns a StateInfo list
    setup,    \* ThreadPool::setupStates owns one
    live,     \* the threads of the pool
    job,      \* job[t]: what t was handed and has not finished
    root,     \* root[t]: position and limits its worker was set up with
    anchored, \* workers whose root refers to the list in setupStates
    stop, ponder, stopOnPonderhit,
    mpc,      \* where the main worker's search is
    mi,       \* index of its loop over the helpers
    depth,    \* its completedDepth
    owed,     \* searches started and not yet answered by a bestmove
    told      \* what the GUI said since the last search was started

uciVars == <<phase, cmd, at, limit, want, pos, states>>
poolVars == <<setup, live, root, anchored>>
flags == <<stop, ponder, stopOnPonderhit>>
searchVars == <<mpc, mi, depth>>
talk == <<owed, told>>
vars == <<uciVars, poolVars, job, flags, searchVars, talk>>

Idle(t) == job[t] = None
Last == want - 1

\* The constructor of Engine ends in resize_threads on an empty pool.
Init ==
    /\ phase = "create" /\ cmd = "resize" /\ at = 0
    /\ limit = None /\ want = 1
    /\ pos = Start /\ states = TRUE /\ setup = FALSE
    /\ live = {} /\ anchored = {}
    /\ job = [t \in Threads |-> None]
    /\ root = [t \in Threads |-> None]
    /\ stop = FALSE /\ ponder = FALSE /\ stopOnPonderhit = FALSE
    /\ mpc = "none" /\ mi = 0 /\ depth = 0
    /\ owed = 0 /\ told = {}

-----------------------------------------------------------------------------
(* Commands the UCI thread answers at once.                                *)

Listening == phase = "idle"

Stop ==
    /\ Listening
    /\ stop' = TRUE
    /\ told' = told \cup {"stop"}
    /\ UNCHANGED <<uciVars, poolVars, job, ponder, stopOnPonderhit, searchVars, owed>>

Ponderhit ==
    /\ Listening
    /\ ponder' = FALSE
    /\ told' = told \cup {"ponderhit"}
    /\ UNCHANGED <<uciVars, poolVars, job, stop, stopOnPonderhit, searchVars, owed>>

\* Even while a search runs: the engine drops its own list of states, never
\* the one handed to the pool.
Position ==
    /\ Listening
    /\ pos' \in Positions
    /\ states' = TRUE
    /\ UNCHANGED <<phase, cmd, at, limit, want, poolVars, job, flags, searchVars, talk>>

-----------------------------------------------------------------------------
(* Commands that first wait for the main thread.                           *)

Begin(c) ==
    /\ Listening
    /\ cmd' = c
    /\ phase' = "wait"
    /\ at' = 0
    /\ UNCHANGED <<pos, states, poolVars, job, ponder, stopOnPonderhit, searchVars, owed>>

Go ==
    /\ Begin("go")
    /\ limit' \in Limits
    /\ UNCHANGED <<want, stop, told>>

\* setoption: Threads (NumaPolicy alike), Hash, EvalFile, any other; and
\* ucinewgame (Clear Hash alike).
SetThreads ==
    /\ Begin("resize")
    /\ want' \in 1 .. MaxThreads
    /\ UNCHANGED <<limit, stop, told>>

SetOther ==
    /\ \E c \in {"hash", "network", "option", "newgame"} : Begin(c)
    /\ UNCHANGED <<limit, want, stop, told>>

\* Mutant of Quit: the loop is left, but the search is not stopped.
QuitOnly ==
    /\ Begin("quit")
    /\ UNCHANGED <<limit, want, stop, told>>

\* quit, or the end of the input.
Quit ==
    /\ Begin("quit")
    /\ stop' = TRUE
    /\ told' = told \cup {"stop"}
    /\ UNCHANGED <<limit, want>>

\* Mutant of Waited: only `go` waits.
WaitedForGoOnly ==
    /\ phase = "wait"
    /\ cmd = "go" => Idle(Main)
    /\ at' = 0
    /\ phase' = CASE cmd = "go" -> "setup"
                  [] cmd = "resize" -> "helpers"
                  [] cmd \in {"hash", "newgame"} -> "zero"
                  [] cmd = "network" -> "clear"
                  [] cmd = "option" -> "idle"
                  [] cmd = "quit" -> "destroy"
    /\ IF cmd = "go"
       THEN /\ stop' = FALSE /\ stopOnPonderhit' = FALSE
            /\ ponder' = limit.ponder
            /\ told' = {}
            /\ setup' = (setup \/ states)
            /\ states' = FALSE
            /\ anchored' = IF states THEN {} ELSE anchored
       ELSE UNCHANGED <<flags, told, setup, states, anchored>>
    /\ UNCHANGED <<cmd, limit, want, pos, live, root, job, searchVars, owed>>

\* main_thread()->wait_for_search_finished(), where each command begins.
\* For `go` this is the head of start_thinking.
Waited ==
    /\ phase = "wait"
    /\ Idle(Main)
    /\ at' = 0
    /\ phase' = CASE cmd = "go" -> "setup"
                  [] cmd = "resize" -> "helpers"
                  [] cmd \in {"hash", "newgame"} -> "zero"
                  [] cmd = "network" -> "clear"
                  [] cmd = "option" -> "idle"
                  [] cmd = "quit" -> "destroy"
    /\ IF cmd = "go"
       THEN /\ stop' = FALSE /\ stopOnPonderhit' = FALSE
            /\ ponder' = limit.ponder
            /\ told' = {}
            /\ setup' = (setup \/ states)
            /\ states' = FALSE
            /\ anchored' = IF states THEN {} ELSE anchored
       ELSE UNCHANGED <<flags, told, setup, states, anchored>>
    /\ UNCHANGED <<cmd, limit, want, pos, live, root, job, searchVars, owed>>

\* One round of a loop that hands a job to every thread, and of one that
\* waits for every thread.
Post(what, next) ==
    /\ Idle(at)
    /\ job' = [job EXCEPT ![at] = what]
    /\ at' = IF at = Last THEN 0 ELSE at + 1
    /\ phase' = IF at = Last THEN next ELSE phase

Await(next) ==
    /\ Idle(at)
    /\ at' = IF at = Last THEN 0 ELSE at + 1
    /\ phase' = IF at = Last THEN next ELSE phase

AfterZero == IF cmd = "newgame" THEN "clear" ELSE "idle"
AfterClear == IF cmd = "resize" THEN "zero" ELSE "idle"

\* Mutant of SetupWorkers: start_thinking does not wait for the setup jobs.
SetupWorkersAndGo == phase = "setup" /\ Post("setup", "start")

\* start_thinking: the workers are set up through references to locals, so
\* it waits for all of them before it starts the main thread and returns.
SetupWorkers ==
    \/ phase = "setup" /\ Post("setup", "awaitSetup")
    \/ phase = "awaitSetup" /\ Await("start") /\ UNCHANGED job

StartMain ==
    /\ phase = "start"
    /\ Idle(Main)
    /\ job' = [job EXCEPT ![Main] = "search"]
    /\ mpc' = "begin"
    /\ mi' = 0
    /\ depth' = 0
    /\ owed' = owed + 1
    /\ phase' = "idle"
    /\ UNCHANGED <<cmd, at, limit, want, pos, states, poolVars, flags, told>>

\* TranspositionTable::clear and ThreadPool::clear.
ZeroTable ==
    \/ phase = "zero" /\ Post("zero", "awaitZero")
    \/ phase = "awaitZero" /\ Await(AfterZero) /\ UNCHANGED job

ClearWorkers ==
    \/ phase = "clear" /\ Post("clear", "awaitClear")
    \/ phase = "awaitClear" /\ Await(AfterClear) /\ UNCHANGED job

Loops ==
    /\ SetupWorkers \/ ZeroTable \/ ClearWorkers
    /\ UNCHANGED <<cmd, limit, want, pos, states, poolVars, flags, searchVars, talk>>

-----------------------------------------------------------------------------
(* ThreadPool::set and ~ThreadPool.                                        *)

\* resize_threads waits for the helpers, then set for the main thread.
HelpersWaited ==
    /\ phase = "helpers"
    /\ \A t \in live : Idle(t)
    /\ phase' = "destroy"
    /\ UNCHANGED <<cmd, at, limit, want, pos, states, poolVars, job, flags, searchVars, talk>>

\* threads.clear() destroys the threads front to back.  What a worker knew
\* is gone with it.
DestroyThread ==
    /\ phase = "destroy"
    /\ live # {}
    /\ \E t \in live :
          /\ \A u \in live : t <= u
          /\ Idle(t)
          /\ live' = live \ {t}
          /\ root' = [root EXCEPT ![t] = None]
          /\ anchored' = anchored \ {t}
    /\ UNCHANGED <<uciVars, setup, job, flags, searchVars, talk>>

AllDestroyed ==
    /\ phase = "destroy"
    /\ live = {}
    /\ phase' = IF cmd = "quit" THEN "gone" ELSE "create"
    /\ UNCHANGED <<cmd, at, limit, want, pos, states, poolVars, job, flags, searchVars, talk>>

\* The constructor of Thread hands over the job that allocates the worker
\* and waits; a new SearchManager leaves its ponder flag uninitialised.
CreateThread ==
    /\ phase = "create"
    /\ at \notin live
    /\ live' = live \cup {at}
    /\ job' = [job EXCEPT ![at] = "build"]
    /\ IF at = Main THEN ponder' \in BOOLEAN ELSE UNCHANGED ponder
    /\ UNCHANGED <<uciVars, setup, root, anchored, stop, stopOnPonderhit, searchVars, talk>>

Created ==
    /\ phase = "create"
    /\ at \in live
    /\ Await("clear")
    /\ UNCHANGED <<cmd, limit, want, pos, states, poolVars, job, flags, searchVars, talk>>

-----------------------------------------------------------------------------
(* Short jobs of a thread.  The setup job reads what start_thinking and    *)
(* the engine hold at the moment it runs.                                  *)

RunShortJob(t) ==
    /\ job[t] \in {"build", "clear", "zero"}
    /\ job' = [job EXCEPT ![t] = None]
    /\ UNCHANGED <<uciVars, poolVars, flags, searchVars, talk>>

RunSetup(t) ==
    /\ job[t] = "setup"
    /\ job' = [job EXCEPT ![t] = None]
    /\ root' = [root EXCEPT ![t] = [pos |-> pos, limits |-> limit]]
    /\ anchored' = anchored \cup {t}
    /\ UNCHANGED <<uciVars, setup, live, flags, searchVars, talk>>

-----------------------------------------------------------------------------
(* The search of the main worker: Worker::start_searching, and the loop of *)
(* iterative_deepening as far as it decides to go on or stop.              *)

limits == root[Main].limits
Helpers == live \ {Main}

Goto(from, to) == mpc = from /\ mpc' = to

\* Mutant of MainBegin: the search clears stop itself, as it starts.
MainBeginClears ==
    /\ Goto("begin", IF root[Main].pos \in Terminal THEN "hold" ELSE "launch")
    /\ mi' = 1
    /\ stop' = FALSE
    /\ UNCHANGED <<uciVars, poolVars, job, ponder, stopOnPonderhit, depth, talk>>

\* Without a legal move nothing is searched and no helper is started.
MainBegin ==
    /\ Goto("begin", IF root[Main].pos \in Terminal THEN "hold" ELSE "launch")
    /\ mi' = 1
    /\ UNCHANGED <<uciVars, poolVars, job, flags, depth, talk>>

\* ThreadPool::start_searching, then ThreadPool::wait_for_search_finished.
MainLaunch ==
    \/ /\ mi \in Helpers
       /\ mpc = "launch"
       /\ Idle(mi)
       /\ job' = [job EXCEPT ![mi] = "search"]
       /\ mi' = mi + 1
       /\ UNCHANGED <<uciVars, poolVars, flags, mpc, depth, talk>>
    \/ /\ mi \notin Helpers
       /\ Goto("launch", "iterate")
       /\ UNCHANGED <<uciVars, poolVars, job, flags, mi, depth, talk>>

MainIterate ==
    /\ Goto("iterate",
            IF depth + 1 < MaxPly /\ ~stop /\ (limits.depth > 0 => depth < limits.depth)
            THEN "root" ELSE "hold")
    /\ UNCHANGED <<uciVars, poolVars, job, flags, mi, depth, talk>>

\* Somewhere inside a root search the clock or the node count runs out.
CheckTime ==
    /\ mpc = "root"
    /\ ~ponder
    /\ depth >= 1
    /\ limits.timed \/ limits.budget
    /\ stop' = TRUE
    /\ UNCHANGED <<uciVars, poolVars, job, ponder, stopOnPonderhit, searchVars, talk>>

\* A root search fails low and is repeated with a wider window.
FailLow ==
    /\ mpc = "root"
    /\ ~stop
    /\ stopOnPonderhit' = FALSE
    /\ UNCHANGED <<uciVars, poolVars, job, stop, ponder, searchVars, talk>>

\* The root search returns; it counts unless it was told to stop.
MainComplete ==
    /\ Goto("root", "mate")
    /\ depth' = IF stop THEN depth ELSE depth + 1
    /\ UNCHANGED <<uciVars, poolVars, job, flags, mi, talk>>

MainMate ==
    /\ Goto("mate", "clock")
    /\ \/ stop' = TRUE /\ limits.mate /\ ~stop
       \/ UNCHANGED stop
    /\ UNCHANGED <<uciVars, poolVars, job, ponder, stopOnPonderhit, mi, depth, talk>>

MainClock ==
    /\ Goto("clock", "iterate")
    /\ \/ /\ limits.timed /\ ~stop /\ ~stopOnPonderhit
          /\ IF ponder THEN stopOnPonderhit' = TRUE /\ UNCHANGED stop
                       ELSE stop' = TRUE /\ UNCHANGED stopOnPonderhit
       \/ UNCHANGED <<stop, stopOnPonderhit>>
    /\ UNCHANGED <<uciVars, poolVars, job, ponder, mi, depth, talk>>

\* The busy wait after the last iteration, and what ends it.
Holding == ~stop /\ (ponder \/ limits.infinite)

MainHold ==
    /\ mpc = "hold"
    /\ Holding
    /\ UNCHANGED vars

\* Mutant of MainRelease: no busy wait.
MainReleaseAtOnce ==
    /\ Goto("hold", "collect")
    /\ stop' = TRUE
    /\ mi' = 1
    /\ UNCHANGED <<uciVars, poolVars, job, ponder, stopOnPonderhit, depth, talk>>

MainRelease ==
    /\ Goto("hold", "collect")
    /\ ~Holding
    /\ stop' = TRUE
    /\ mi' = 1
    /\ UNCHANGED <<uciVars, poolVars, job, ponder, stopOnPonderhit, depth, talk>>

\* Mutant of MainCollect: the helpers are not waited for.
MainCollectNone ==
    /\ Goto("collect", "answer")
    /\ UNCHANGED <<uciVars, poolVars, job, flags, mi, depth, talk>>

MainCollect ==
    \/ /\ mi \in Helpers
       /\ mpc = "collect"
       /\ Idle(mi)
       /\ mi' = mi + 1
       /\ UNCHANGED <<uciVars, poolVars, job, flags, mpc, depth, talk>>
    \/ /\ mi \notin Helpers
       /\ Goto("collect", "answer")
       /\ UNCHANGED <<uciVars, poolVars, job, flags, mi, depth, talk>>

\* bestmove is printed by the search, before its thread parks.
MainAnswer ==
    /\ Goto("answer", "done")
    /\ owed' = owed - 1
    /\ UNCHANGED <<uciVars, poolVars, job, flags, mi, depth, told>>

MainDone ==
    /\ Goto("done", "none")
    /\ job' = [job EXCEPT ![Main] = None]
    /\ UNCHANGED <<uciVars, poolVars, flags, mi, depth, talk>>

\* A helper iterates until it sees stop, or reaches MAX_PLY; it raises stop
\* itself when it finds the mate asked for.
HelperMate(t) ==
    /\ t # Main /\ job[t] = "search"
    /\ root[t].limits.mate /\ ~stop
    /\ stop' = TRUE
    /\ UNCHANGED <<uciVars, poolVars, job, ponder, stopOnPonderhit, searchVars, talk>>

HelperDone(t) ==
    /\ t # Main /\ job[t] = "search"
    /\ job' = [job EXCEPT ![t] = None]
    /\ UNCHANGED <<uciVars, poolVars, flags, searchVars, talk>>

-----------------------------------------------------------------------------
UciStep ==
    \/ Waited \/ Loops \/ StartMain
    \/ HelpersWaited \/ DestroyThread \/ AllDestroyed \/ CreateThread \/ Created

Command ==
    Stop \/ Ponderhit \/ Position \/ Go \/ SetThreads \/ SetOther \/ Quit

MainStep ==
    \/ MainBegin \/ MainLaunch \/ MainIterate \/ MainComplete \/ MainMate
    \/ MainClock \/ MainRelease \/ MainCollect \/ MainAnswer \/ MainDone

ThreadStep(t) ==
    RunShortJob(t) \/ RunSetup(t) \/ HelperMate(t) \/ HelperDone(t)

\* The process has ended.
Gone == phase = "gone" /\ UNCHANGED vars

Next ==
    \/ Command \/ UciStep
    \/ MainStep \/ MainHold \/ CheckTime \/ FailLow
    \/ \E t \in Threads : ThreadStep(t)
    \/ Gone

Spec == Init /\ [][Next]_vars

\* Threads run; a root search is finite; a helper notices stop.  No command
\* is ever sure to arrive, and no limit sure to be hit.
Fairness ==
    /\ WF_vars(UciStep) /\ WF_vars(MainStep)
    /\ \A t \in Threads :
          /\ WF_vars(RunShortJob(t) \/ RunSetup(t))
          /\ WF_vars(stop /\ HelperDone(t))

FairSpec == Spec /\ Fairness

-----------------------------------------------------------------------------
(* Properties.                                                             *)

Phases ==
    {"idle", "wait", "setup", "awaitSetup", "start", "zero", "awaitZero",
     "clear", "awaitClear", "helpers", "destroy", "create", "gone"}

Labels ==
    {"none", "begin", "launch", "iterate", "root", "mate", "clock", "hold",
     "collect", "answer", "done"}

\* Types of the engine's variables.
TypeOK ==
    /\ phase \in Phases /\ mpc \in Labels
    /\ cmd \in {"go", "resize", "hash", "network", "option", "newgame", "quit"}
    /\ at \in Threads /\ mi \in 0 .. MaxThreads /\ depth \in 0 .. MaxPly
    /\ limit \in Limits \cup {None} /\ want \in 1 .. MaxThreads
    /\ pos \in Positions
    /\ live \subseteq Threads /\ anchored \subseteq Threads
    /\ job \in [Threads -> Jobs \cup {None}]
    /\ root \in [Threads -> [pos : Positions, limits : Limits] \cup {None}]
    /\ states \in BOOLEAN /\ setup \in BOOLEAN
    /\ stop \in BOOLEAN /\ ponder \in BOOLEAN /\ stopOnPonderhit \in BOOLEAN
    /\ owed \in Nat /\ told \subseteq {"stop", "ponderhit"}

Searching(t) == job[t] = "search"

\* Nothing shared is torn down under a search: the table is zeroed or
\* reallocated, networks are replaced and threads destroyed, only while no
\* thread searches.
NoTeardownUnderSearch ==
    phase \in {"zero", "awaitZero", "clear", "awaitClear", "destroy", "create", "gone"}
        => \A t \in Threads : ~Searching(t)

\* A setup job runs only while the locals of start_thinking that it refers
\* to exist, and a searching worker's root position refers to a list of
\* states that exists.
NoDanglingReference ==
    \A t \in Threads :
        /\ job[t] = "setup" => cmd = "go" /\ phase \in {"setup", "awaitSetup"}
        /\ Searching(t) => setup /\ t \in anchored

\* What the GUI says is not lost between the threads: from `stop` on the
\* search it was meant for has stop set, from `ponderhit` on it no longer
\* ponders.
CommandsHeeded ==
    /\ "stop" \in told => stop
    /\ "ponderhit" \in told /\ Searching(Main) => ~ponder

\* When the bestmove is chosen among the threads they are all at rest, and
\* have searched the same position under the same limits.
ChosenAtRest ==
    mpc = "answer" => \A t \in Helpers : Idle(t) /\ root[t] = root[Main]

\* The refinement: seen from the GUI, the engine carries on the dialogue of
\* UciDialogue, under limits that do not end a search by themselves before
\* the GUI says so.
Dialogue == INSTANCE UciDialogue WITH
    search <- IF owed = 1 THEN limits ELSE None,
    pondering <- owed = 1 /\ ponder,
    stopped <- owed = 1 /\ "stop" \in told

ImplementsDialogue == Dialogue!Spec

\* Quit ends the process, whatever the search is doing.
QuitEnds == cmd = "quit" ~> phase = "gone"
=============================================================================
