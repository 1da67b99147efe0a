------------------------------- MODULE JobSlot -------------------------------
(***************************************************************************)
(* What one `Thread` (src/src/thread.h, thread.cpp) promises to its        *)
(* callers, without the mutex and the condition variable: a slot that      *)
(* holds at most one job.  The slot is idle, or full (a job was handed     *)
(* over and not yet picked up), or busy (the worker is running it, or is   *)
(* still on its way to park), or gone (the worker has returned from        *)
(* idle_loop).  A caller that asked for a job to be run is answered only   *)
(* by finding the slot idle and filling it; a caller that asked to wait is *)
(* answered only while the slot is idle.                                   *)
(***************************************************************************)
CONSTANTS Clients,   \* threads that call the member functions of Thread
          Jobs,      \* the jobs they hand over
          None       \* the empty std::function

VARIABLES status,    \* "idle" | "full" | "busy" | "gone"
          pending,   \* the job in the slot, None unless full
          asked      \* asked[c]: None, "wait", or the job c asks to run

vars == <<status, pending, asked>>

Init ==
    /\ status = "busy"
    /\ pending = None
    /\ asked = [c \in Clients |-> None]

\* A caller enters wait_for_search_finished or run_custom_job.
Ask(c, what) ==
    /\ asked[c] = None
    /\ asked' = [asked EXCEPT ![c] = what]
    /\ UNCHANGED <<status, pending>>

\* wait_for_search_finished returns.
Answer(c) ==
    /\ asked[c] = "wait"
    /\ status = "idle"
    /\ asked' = [asked EXCEPT ![c] = None]
    /\ UNCHANGED <<status, pending>>

\* run_custom_job stores its job and returns.
Fill(c) ==
    /\ asked[c] \in Jobs
    /\ status = "idle"
    /\ status' = "full"
    /\ pending' = asked[c]
    /\ asked' = [asked EXCEPT ![c] = None]

\* The worker picks the job up.
Take ==
    /\ status = "full"
    /\ status' = "busy"
    /\ pending' = None
    /\ UNCHANGED asked

\* The worker has run the job and is parked again.
Finish ==
    /\ status = "busy"
    /\ status' = "idle"
    /\ UNCHANGED <<pending, asked>>

\* The worker leaves idle_loop instead of running the job.
Leave ==
    /\ status = "full"
    /\ status' = "gone"
    /\ pending' = None
    /\ UNCHANGED asked

Next ==
    \/ \E c \in Clients : \/ \E what \in Jobs \cup {"wait"} : Ask(c, what)
                          \/ Answer(c)
                          \/ Fill(c)
    \/ Take
    \/ Finish
    \/ Leave

Spec == Init /\ [][Next]_vars
=============================================================================
