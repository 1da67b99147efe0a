-------------------------------- MODULE Thread --------------------------------
(***************************************************************************)
(* One `Thread` of src/src/thread.{h,cpp}: a native thread parked in       *)
(* idle_loop() on a condition variable, and the callers of                 *)
(* wait_for_search_finished(), run_custom_job() and the destructor.  Both  *)
(* sides sleep on the same condition variable `cv` and both wake the other *)
(* with notify_one(), under the one `mutex`.                               *)
(*                                                                         *)
(* A label of `pc` stands between two accesses to shared state:            *)
(*   "lock"    about to acquire the mutex                                  *)
(*   "announce" (worker) holds the mutex at the top of the loop            *)
(*   "check"   holds the mutex and evaluates the predicate of cv.wait      *)
(*   "asleep"  inside cv.wait, the mutex released                          *)
(*   "take"    (worker) the predicate held                                 *)
(*   "run"     (worker) the job was moved out and the mutex released       *)
(*   "notify"  (caller) the job is stored, the mutex released              *)
(*   "join"    (caller) in stdThread.join()                                *)
(***************************************************************************)
EXTENDS Integers

CONSTANTS Clients,   \* threads that call the member functions
          Owner,     \* the one that constructs and destroys the Thread
          Worker,    \* the native thread itself
          Jobs,      \* everything ever handed to run_custom_job
          Build,     \* the job of the constructor: allocate the worker object
          Search,    \* the job of start_searching
          None       \* the empty std::function; also "nobody"

ASSUME ThreadAssumption ==
    /\ Owner \in Clients
    /\ Worker \notin Clients
    /\ Build \in Jobs /\ Search \in Jobs /\ Build # Search
    /\ None \notin Jobs \cup Clients \cup {Worker, "wait"}
    /\ "wait" \notin Jobs

VARIABLES mutex,      \* the holder, or None
          asleep,     \* threads blocked on cv and not yet notified
          searching,  \* the predicate both sides wait on
          exit,       \* set by the destructor
          jobFunc,    \* the job handed over and not yet picked up
          job,        \* the worker's local copy of it
          built,      \* the worker object has been allocated
          pc,         \* where each thread is
          op,         \* op[c]: "wait" or the job c is handing over
          ctor        \* how many of its three calls the constructor has made

vars == <<mutex, asleep, searching, exit, jobFunc, job, built, pc, op, ctor>>

Threads == Clients \cup {Worker}

Init ==
    /\ mutex = None
    /\ asleep = {}
    /\ searching = TRUE
    /\ exit = FALSE
    /\ jobFunc = None
    /\ job = None
    /\ built = FALSE
    /\ pc = [t \in Threads |-> IF t = Worker THEN "lock" ELSE "idle"]
    /\ op = [c \in Clients |-> None]
    /\ ctor = 0

-----------------------------------------------------------------------------
(* The mutex and the condition variable.                                   *)

Goto(t, label) == pc' = [pc EXCEPT ![t] = label]

Acquire(t) == mutex = None /\ mutex' = t

Release(t) == mutex = t /\ mutex' = None

\* Mutant of NotifyOne: the notification is forgotten.
NotifyNobody == UNCHANGED asleep

\* One sleeper, any one, is woken; without a sleeper nothing happens.
NotifyOne ==
    IF asleep = {} THEN UNCHANGED asleep
                   ELSE \E t \in asleep : asleep' = asleep \ {t}

\* The part of cv.wait that gives the mutex up and blocks, in one step.
Block(t) ==
    /\ Release(t)
    /\ asleep' = asleep \cup {t}
    /\ Goto(t, "asleep")

\* The return from cv.wait's block: the mutex is taken again.
Rewake(t) ==
    /\ pc[t] = "asleep"
    /\ t \notin asleep
    /\ Acquire(t)
    /\ Goto(t, "check")
    /\ UNCHANGED <<asleep, searching, exit, jobFunc, job, built, op, ctor>>

\* A condition variable may wake a sleeper that nobody notified.
SpuriousWakeup(t) ==
    /\ t \in asleep
    /\ asleep' = asleep \ {t}
    /\ UNCHANGED <<mutex, searching, exit, jobFunc, job, built, pc, op, ctor>>

-----------------------------------------------------------------------------
(* idle_loop(), run by the worker.                                         *)

WorkerLock ==
    /\ pc[Worker] = "lock"
    /\ Acquire(Worker)
    /\ Goto(Worker, "announce")
    /\ UNCHANGED <<asleep, searching, exit, jobFunc, job, built, op, ctor>>

WorkerAnnounce ==
    /\ pc[Worker] = "announce"
    /\ searching' = FALSE
    /\ NotifyOne
    /\ Goto(Worker, "check")
    /\ UNCHANGED <<mutex, exit, jobFunc, job, built, op, ctor>>

WorkerCheck ==
    /\ pc[Worker] = "check"
    /\ \/ /\ searching
          /\ Goto(Worker, "take")
          /\ UNCHANGED <<mutex, asleep>>
       \/ /\ ~searching
          /\ Block(Worker)
    /\ UNCHANGED <<searching, exit, jobFunc, job, built, op, ctor>>

WorkerTake ==
    /\ pc[Worker] = "take"
    /\ Release(Worker)
    /\ \/ /\ exit
          /\ Goto(Worker, "exited")
          /\ UNCHANGED <<jobFunc, job>>
       \/ /\ ~exit
          /\ job' = jobFunc
          /\ jobFunc' = None
          /\ Goto(Worker, "run")
    /\ UNCHANGED <<asleep, searching, exit, built, op, ctor>>

\* The job runs to its end with the mutex released.
WorkerRun ==
    /\ pc[Worker] = "run"
    /\ built' = (built \/ job = Build)
    /\ job' = None
    /\ Goto(Worker, "lock")
    /\ UNCHANGED <<mutex, asleep, searching, exit, jobFunc, op, ctor>>

-----------------------------------------------------------------------------
(* The member functions, run by a caller.                                  *)

\* Callers take turns on one Thread: the second caller of a Thread only
\* comes when the first one has returned.
NoCallInProgress == \A c \in Clients : pc[c] = "idle"

Enter(c, what) ==
    /\ op' = [op EXCEPT ![c] = what]
    /\ Goto(c, "lock")
    /\ UNCHANGED <<mutex, asleep, searching, jobFunc, job, built>>

\* The constructor starts the native thread, then waits for it to park, has
\* it run Build, and waits again.
Construct ==
    /\ ctor < 3
    /\ pc[Owner] = "idle"
    /\ Enter(Owner, IF ctor = 1 THEN Build ELSE "wait")
    /\ ctor' = ctor + 1
    /\ UNCHANGED exit

\* wait_for_search_finished, or run_custom_job on behalf of
\* start_searching, clear_worker and ThreadPool::run_on_thread.
Call(c) ==
    /\ ctor = 3
    /\ ~exit
    /\ NoCallInProgress
    /\ \E what \in (Jobs \ {Build}) \cup {"wait"} : Enter(c, what)
    /\ UNCHANGED <<exit, ctor>>

\* The destructor asserts that the worker is parked, raises exit without
\* taking the mutex, and calls start_searching.
Destroy ==
    /\ ctor = 3
    /\ ~exit
    /\ NoCallInProgress
    /\ ~searching
    /\ exit' = TRUE
    /\ Enter(Owner, Search)
    /\ UNCHANGED ctor

ClientLock(c) ==
    /\ pc[c] = "lock"
    /\ Acquire(c)
    /\ Goto(c, "check")
    /\ UNCHANGED <<asleep, searching, exit, jobFunc, job, built, op, ctor>>

\* Both member functions block until the worker is parked.
ClientBlock(c) ==
    /\ pc[c] = "check"
    /\ searching
    /\ Block(c)
    /\ UNCHANGED <<searching, exit, jobFunc, job, built, op, ctor>>

\* Mutant of ClientReturn: the predicate of cv.wait is not looked at.
ClientReturnAtOnce(c) ==
    /\ pc[c] = "check"
    /\ op[c] = "wait"
    /\ Release(c)
    /\ Goto(c, "idle")
    /\ op' = [op EXCEPT ![c] = None]
    /\ UNCHANGED <<asleep, searching, exit, jobFunc, job, built, ctor>>

ClientReturn(c) ==
    /\ pc[c] = "check"
    /\ ~searching
    /\ op[c] = "wait"
    /\ Release(c)
    /\ Goto(c, "idle")
    /\ op' = [op EXCEPT ![c] = None]
    /\ UNCHANGED <<asleep, searching, exit, jobFunc, job, built, ctor>>

ClientStore(c) ==
    /\ pc[c] = "check"
    /\ ~searching
    /\ op[c] # "wait"
    /\ jobFunc' = op[c]
    /\ searching' = TRUE
    /\ Release(c)
    /\ Goto(c, "notify")
    /\ op' = [op EXCEPT ![c] = None]
    /\ UNCHANGED <<asleep, exit, job, built, ctor>>

\* Mutant of ClientNotify: run_custom_job returns without notifying.
ClientNotifyNobody(c) ==
    /\ pc[c] = "notify"
    /\ Goto(c, IF exit THEN "join" ELSE "idle")
    /\ UNCHANGED <<mutex, asleep, searching, exit, jobFunc, job, built, op, ctor>>

\* notify_one() after the mutex was released; the destructor goes on to join.
ClientNotify(c) ==
    /\ pc[c] = "notify"
    /\ NotifyOne
    /\ Goto(c, IF exit THEN "join" ELSE "idle")
    /\ UNCHANGED <<mutex, searching, exit, jobFunc, job, built, op, ctor>>

Join ==
    /\ pc[Owner] = "join"
    /\ pc[Worker] = "exited"
    /\ Goto(Owner, "joined")
    /\ UNCHANGED <<mutex, asleep, searching, exit, jobFunc, job, built, op, ctor>>

\* The Thread is gone.
Destroyed == pc[Owner] = "joined" /\ UNCHANGED vars

-----------------------------------------------------------------------------
WorkerStep == WorkerAnnounce \/ WorkerCheck \/ WorkerTake \/ WorkerRun

ClientStep(c) ==
    ClientBlock(c) \/ ClientReturn(c) \/ ClientStore(c) \/ ClientNotify(c)

Next ==
    \/ WorkerLock
    \/ WorkerStep
    \/ \E t \in Threads : Rewake(t) \/ SpuriousWakeup(t)
    \/ Construct
    \/ Destroy
    \/ Join
    \/ \E c \in Clients : Call(c) \/ ClientLock(c) \/ ClientStep(c)
    \/ Destroyed

Spec == Init /\ [][Next]_vars

\* Every thread that can run does; a thread that keeps finding the mutex
\* taken gets it eventually; a job ends.  Calls are made at will, except
\* that the constructor goes through its three calls.
Fairness ==
    /\ WF_vars(WorkerStep) /\ SF_vars(WorkerLock)
    /\ \A t \in Threads : SF_vars(Rewake(t))
    /\ \A c \in Clients : WF_vars(ClientStep(c)) /\ SF_vars(ClientLock(c))
    /\ WF_vars(Construct) /\ WF_vars(Join)

FairSpec == Spec /\ Fairness

-----------------------------------------------------------------------------
(* Properties.                                                             *)

Labels ==
    {"idle", "lock", "announce", "check", "asleep", "take", "run", "notify",
     "join", "joined", "exited"}

\* Types of the members of Thread and of the threads' positions.
TypeOK ==
    /\ mutex \in Threads \cup {None}
    /\ asleep \subseteq Threads
    /\ searching \in BOOLEAN /\ exit \in BOOLEAN /\ built \in BOOLEAN
    /\ jobFunc \in Jobs \cup {None} /\ job \in Jobs \cup {None}
    /\ pc \in [Threads -> Labels]
    /\ op \in [Clients -> Jobs \cup {"wait", None}]
    /\ ctor \in 0 .. 3

\* No wake-up is lost: a worker that sleeps although a
\* job is there has its notify_one() still to come, and a caller sleeps only
\* while the worker is not parked.
NoLostWakeup ==
    /\ Worker \in asleep /\ searching => \E c \in Clients : pc[c] = "notify"
    /\ \A c \in Clients : c \in asleep => searching

\* What the worker moves out of jobFunc in idle_loop is a job, never
\* an empty function, and a job other than the constructor's finds the
\* worker object allocated (the assertions of start_searching and clear_worker).
JobsAreReal ==
    /\ pc[Worker] = "run" => job # None
    /\ pc[Worker] = "run" /\ job # Build => built

\* A caller that is told "parked" is told the truth: between the return of
\* wait_for_search_finished and the next job handed over no job is running,
\* and the members the worker writes (jobFunc, the worker object) are its.
QuietWhenIdle == ~searching => jobFunc = None /\ job = None

\* The worker is never terminated with a job of a caller still in hand: after
\* the destructor raised exit nothing is run.
NothingRunsAfterExit == exit => pc[Worker] # "run"

\* Every call of a member function returns (a destructor's by joining).
CallsReturn ==
    \A c \in Clients : pc[c] \in {"lock", "join"} ~> pc[c] \in {"idle", "joined"}

\* The refinement: Thread implements the job slot its callers rely on.  The
\* slot is full from the moment the job is stored, before the notify_one().
InCall(c) == pc[c] \in {"lock", "check", "asleep"}

SlotStatus ==
    IF pc[Worker] = "exited" THEN "gone"
    ELSE IF ~searching THEN "idle"
    ELSE IF jobFunc # None THEN "full" ELSE "busy"

SlotPending == IF pc[Worker] = "exited" THEN None ELSE jobFunc

SlotAsked == [c \in Clients |-> IF InCall(c) THEN op[c] ELSE None]

Slot == INSTANCE JobSlot WITH
    status <- SlotStatus, pending <- SlotPending, asked <- SlotAsked

ImplementsJobSlot == Slot!Spec
=============================================================================
