----------------------------- MODULE SharedMemory -----------------------------
(***************************************************************************)
(* The segment of shared memory in which the engines of one machine keep   *)
(* one copy of the networks (shm_linux.h).  A process opens the name or    *)
(* creates it, fills what it created, and leaves a file named after its    *)
(* pid beside it; the process that closes last removes the name.  Removing *)
(* a name leaves the segment to whoever has it open: `name` is what        *)
(* shm_open finds, `fd` what a process holds.                              *)
(*                                                                         *)
(* The mutex in the header and ref_count are left out: the mutex is taken  *)
(* only under flock, and is robust, so that it never blocks; nothing in    *)
(* the engine reads ref_count.                                             *)
(***************************************************************************)
EXTENDS Integers, FiniteSets

CONSTANTS Procs,      \* pids; a pid is used again after its process ended
          Inodes,     \* identities of segments, used again when nobody has them
          None,
          MaxOpens,   \* bound of the model: calls of open
          MaxCrashes  \* bound of the model: processes killed

ASSUME SharedMemoryAssumption ==
    /\ IsFiniteSet(Procs) /\ IsFiniteSet(Inodes)
    /\ Cardinality(Inodes) >= Cardinality(Procs)
    /\ None \notin Inodes \cup Procs
    /\ MaxOpens \in Nat /\ MaxCrashes \in Nat

VARIABLES
    name,      \* the segment shm_open(name_) finds, or None
    sized,     \* segments that have their size,
    filled,    \* that hold the whole constant,
    initialized, \* and whose header says so
    holder,    \* who holds the flock of each segment
    sentinel,  \* pids with a sentinel file
    pc, fd,    \* where a process is, and the segment it has open
    created,   \* created_new of its call of open
    invalid,   \* invalid_header of its call of open
    retried,   \* retried_stale of its call of open
    left,      \* directory entries its scan has not come to
    stale,     \* the dead pid whose sentinel its scan is about to unlink
    opens, crashes,
    litter     \* history: a process was killed, and nobody has cleaned up

seg == <<sized, filled, initialized>>
call == <<created, invalid, retried>>   \* locals of open: FALSE outside of it
scan == <<left, stale>>
bounds == <<opens, crashes, litter>>
vars == <<name, seg, holder, sentinel, pc, fd, call, scan, bounds>>

Init ==
    /\ name = None
    /\ sized = {} /\ filled = {} /\ initialized = {}
    /\ holder = [i \in Inodes |-> None]
    /\ sentinel = {}
    /\ pc = [p \in Procs |-> "off"]
    /\ fd = [p \in Procs |-> None]
    /\ created = [p \in Procs |-> FALSE]
    /\ invalid = [p \in Procs |-> FALSE]
    /\ retried = [p \in Procs |-> FALSE]
    /\ left = [p \in Procs |-> {}]
    /\ stale = [p \in Procs |-> None]
    /\ opens = 0 /\ crashes = 0 /\ litter = FALSE

Goto(p, label) == pc' = [pc EXCEPT ![p] = label]

\* unlock_file; nothing another process can tell apart happens between it and
\* the step before it, so the two are one step throughout.
Unlock(p) == holder' = [holder EXCEPT ![fd[p]] = None]

EndOfCall(p) ==
    /\ created' = [created EXCEPT ![p] = FALSE]
    /\ invalid' = [invalid EXCEPT ![p] = FALSE]
    /\ retried' = [retried EXCEPT ![p] = FALSE]

Alive(p) == pc[p] # "off"

Used == {i \in Inodes : i = name \/ \E p \in Procs : fd[p] = i}
Free == Inodes \ Used

\* The kernel frees a segment that has lost its name and whoever had it open.
Reclaim ==
    /\ sized' = sized \cap Used'
    /\ filled' = filled \cap Used'
    /\ initialized' = initialized \cap Used'

Start(p) ==
    /\ pc[p] = "off"
    /\ opens < MaxOpens
    /\ Goto(p, "idle")
    /\ UNCHANGED <<name, seg, holder, sentinel, fd, call, scan, bounds>>

\* A process without the segment, perhaps with a copy of its own, ends.
Exit(p) ==
    /\ pc[p] = "idle"
    /\ Goto(p, "off")
    /\ UNCHANGED <<name, seg, holder, sentinel, fd, call, scan, bounds>>

-----------------------------------------------------------------------------
(* open *)

Open(p) ==
    /\ pc[p] = "idle"
    /\ opens < MaxOpens
    /\ opens' = opens + 1
    /\ Goto(p, "create")
    /\ UNCHANGED <<name, seg, holder, sentinel, fd, call, scan, crashes, litter>>

\* shm_open fails when the name is there, or for want of memory or of files.
CreateExclusive(p) ==
    /\ pc[p] = "create"
    /\ \/ /\ name = None
          /\ LET i == CHOOSE i \in Free : TRUE IN
             /\ name' = i
             /\ fd' = [fd EXCEPT ![p] = i]
          /\ created' = [created EXCEPT ![p] = TRUE]
          /\ Goto(p, "lock")
       \/ /\ Goto(p, "reopen")
          /\ UNCHANGED <<name, fd, created>>
    /\ UNCHANGED <<seg, holder, sentinel, invalid, retried, scan, bounds>>

\* When this fails too, perhaps because the name is gone by now, the caller
\* keeps a copy of its own.
Reopen(p) ==
    /\ pc[p] = "reopen"
    /\ \/ /\ name # None
          /\ fd' = [fd EXCEPT ![p] = name]
          /\ Goto(p, "lock")
          /\ UNCHANGED call
       \/ /\ Goto(p, "idle")
          /\ EndOfCall(p)
          /\ UNCHANGED fd
    /\ UNCHANGED <<name, seg, holder, sentinel, scan, bounds>>

Lock(p) ==
    /\ pc[p] \in {"lock", "relock"}
    /\ holder[fd[p]] = None
    /\ holder' = [holder EXCEPT ![fd[p]] = p]
    /\ Goto(p, IF pc[p] = "relock" THEN "retire" ELSE IF created[p] THEN "size" ELSE "inspect")
    /\ UNCHANGED <<name, seg, sentinel, fd, call, scan, bounds>>

\* setup_new_region, one step per write another process could find half done
\* after a kill.  The segment gets its size even when no room is left for it.
Size(p) ==
    /\ pc[p] = "size"
    /\ \/ /\ sized' = sized \cup {fd[p]}
          /\ Goto(p, "fill") \/ Goto(p, "undo")
       \/ /\ Goto(p, "undo")
          /\ UNCHANGED sized
    /\ UNCHANGED <<name, filled, initialized, holder, sentinel, fd, call, scan, bounds>>

Fill(p) ==
    /\ pc[p] = "fill"
    /\ filled' = filled \cup {fd[p]}
    /\ Goto(p, "publish") \/ Goto(p, "undo")
    /\ UNCHANGED <<name, sized, initialized, holder, sentinel, fd, call, scan, bounds>>

Publish(p) ==
    /\ pc[p] = "publish"
    /\ initialized' = initialized \cup {fd[p]}
    /\ Goto(p, "announce")
    /\ UNCHANGED <<name, sized, filled, holder, sentinel, fd, call, scan, bounds>>

\* setup_existing_region
LargeEnough(i) == i \in sized
Sound(i) == i \in sized \cap initialized

Inspect(p) ==
    /\ pc[p] = "inspect"
    /\ invalid' = [invalid EXCEPT ![p] = ~Sound(fd[p])]
    /\ Goto(p, IF Sound(fd[p]) THEN "announce" ELSE "undo")
    /\ UNCHANGED <<name, seg, holder, sentinel, fd, created, retried, scan, bounds>>

\* mmap of a segment that is large enough fails.
MapFails(p) ==
    /\ pc[p] = "inspect" /\ fd[p] \in sized
    /\ Goto(p, "undo")
    /\ UNCHANGED <<name, seg, holder, sentinel, fd, call, scan, bounds>>

\* create_sentinel_file_locked: a file left by an earlier process with this
\* pid is unlinked first, in a step of its own.
Announce(p) ==
    /\ pc[p] = "announce"
    /\ \/ /\ p \in sentinel
          /\ sentinel' = sentinel \ {p}
          /\ UNCHANGED <<pc, holder, call>>
       \/ /\ p \notin sentinel
          /\ sentinel' = sentinel \cup {p}
          /\ Unlock(p)
          /\ EndOfCall(p)
          /\ Goto(p, "using")
       \/ /\ p \notin sentinel
          /\ Goto(p, "undo")
          /\ UNCHANGED <<sentinel, holder, call>>
    /\ UNCHANGED <<name, seg, fd, scan, bounds>>

\* shm_unlink takes a name: what it removes may be another's segment by now.
Condemned(p) == invalid[p]
Unlinks(p) == created[p] \/ invalid[p]

Undo(p) ==
    /\ pc[p] = "undo"
    /\ name' = IF Unlinks(p) THEN None ELSE name
    /\ Unlock(p)
    /\ fd' = [fd EXCEPT ![p] = None]
    /\ \/ /\ ~created[p] /\ invalid[p] /\ ~retried[p]
          /\ retried' = [retried EXCEPT ![p] = TRUE]
          /\ invalid' = [invalid EXCEPT ![p] = FALSE]
          /\ Goto(p, "create")
          /\ UNCHANGED created
       \/ /\ created[p] \/ ~invalid[p] \/ retried[p]
          /\ Goto(p, "idle")
          /\ EndOfCall(p)
    /\ Reclaim
    /\ UNCHANGED <<sentinel, scan, bounds>>

-----------------------------------------------------------------------------
(* close: by the destructor, at exit, or by the handler of a signal *)

Close(p) ==
    /\ pc[p] = "using"
    /\ Goto(p, "relock")
    /\ UNCHANGED <<name, seg, holder, sentinel, fd, call, scan, bounds>>

RetireBlindly(p) ==
    /\ pc[p] = "retire"
    /\ sentinel' = sentinel \ {p}
    /\ Goto(p, "scan")
    /\ UNCHANGED <<name, seg, holder, fd, call, scan, bounds>>

Retire(p) ==
    /\ pc[p] = "retire"
    /\ sentinel' = sentinel \ {p}
    /\ left' = [left EXCEPT ![p] = Procs \ {p}]
    /\ Goto(p, "scan")
    /\ UNCHANGED <<name, seg, holder, fd, call, stale, bounds>>

\* The end of close.
LetGo(p) ==
    /\ Unlock(p)
    /\ fd' = [fd EXCEPT ![p] = None]
    /\ Reclaim
    /\ left' = [left EXCEPT ![p] = {}]
    /\ Goto(p, "idle")

\* has_other_live_sentinels_locked comes to the entries in any order, and an
\* entry that appears during the scan may be missed.
Visit(p, q) ==
    /\ pc[p] = "scan" /\ q \in left[p]
    /\ UNCHANGED <<name, sentinel, call, bounds>>
    /\ \/ /\ q \notin sentinel
          /\ left' = [left EXCEPT ![p] = @ \ {q}]
          /\ UNCHANGED <<pc, seg, holder, fd, stale>>
       \/ /\ q \in sentinel /\ Alive(q)
          /\ LetGo(p)
          /\ UNCHANGED stale
       \/ /\ q \in sentinel /\ ~Alive(q)
          /\ left' = [left EXCEPT ![p] = @ \ {q}]
          /\ stale' = [stale EXCEPT ![p] = q]
          /\ Goto(p, "sweep")
          /\ UNCHANGED <<seg, holder, fd>>

Sweep(p) ==
    /\ pc[p] = "sweep"
    /\ sentinel' = sentinel \ {stale[p]}
    /\ stale' = [stale EXCEPT ![p] = None]
    /\ Goto(p, "scan")
    /\ UNCHANGED <<name, seg, holder, fd, call, left, bounds>>

\* A scan that returns false removes the name.
NobodyElse(p) ==
    /\ name' = None
    /\ litter' = (litter /\ sentinel # {})
    /\ LetGo(p)
    /\ UNCHANGED <<sentinel, call, stale, opens, crashes>>

Remove(p) ==
    /\ pc[p] = "scan" /\ left[p] = {}
    /\ NobodyElse(p)

\* When opendir fails, or readdir before the last entry, the scan returns false
\* as well, whoever it has not come to.
ScanFails(p) ==
    /\ pc[p] = "scan" /\ left[p] # {}
    /\ NobodyElse(p)

-----------------------------------------------------------------------------
\* SIGKILL, or a fault inside the calls above: the kernel closes what was
\* open and releases the lock; the name and the sentinel stay.
Crash(p) ==
    /\ pc[p] \notin {"off", "idle"}
    /\ crashes < MaxCrashes
    /\ crashes' = crashes + 1
    /\ litter' = TRUE
    /\ holder' = [i \in Inodes |-> IF holder[i] = p THEN None ELSE holder[i]]
    /\ fd' = [fd EXCEPT ![p] = None]
    /\ left' = [left EXCEPT ![p] = {}]
    /\ stale' = [stale EXCEPT ![p] = None]
    /\ EndOfCall(p)
    /\ Goto(p, "off")
    /\ UNCHANGED <<name, sentinel, opens>>
    /\ Reclaim

\* What a process does without being asked once it is inside open or close.
Step(p) ==
    \/ CreateExclusive(p) \/ Reopen(p) \/ Lock(p)
    \/ Size(p) \/ Fill(p) \/ Publish(p)
    \/ Inspect(p) \/ MapFails(p)
    \/ Announce(p) \/ Undo(p)
    \/ Retire(p) \/ Sweep(p) \/ Remove(p) \/ ScanFails(p)
    \/ \E q \in Procs : Visit(p, q)

Next ==
    \E p \in Procs : Start(p) \/ Exit(p) \/ Open(p) \/ Close(p) \/ Crash(p) \/ Step(p)

Spec == Init /\ [][Next]_vars

-----------------------------------------------------------------------------
Locked == {"size", "fill", "publish", "inspect", "announce", "undo",
           "retire", "scan", "sweep"}
Holding == Locked \cup {"lock", "using", "relock"}
Labels == Holding \cup {"off", "idle", "create", "reopen"}

Types ==
    /\ name \in Inodes \cup {None}
    /\ sized \subseteq Inodes /\ filled \subseteq Inodes /\ initialized \subseteq Inodes
    /\ holder \in [Inodes -> Procs \cup {None}]
    /\ sentinel \subseteq Procs
    /\ pc \in [Procs -> Labels]
    /\ fd \in [Procs -> Inodes \cup {None}]
    /\ created \in [Procs -> BOOLEAN] /\ invalid \in [Procs -> BOOLEAN]
    /\ retried \in [Procs -> BOOLEAN]
    /\ left \in [Procs -> SUBSET Procs] /\ stale \in [Procs -> Procs \cup {None}]
    /\ opens \in 0 .. MaxOpens /\ crashes \in 0 .. MaxCrashes /\ litter \in BOOLEAN

OpenWhere == \A p \in Procs : fd[p] # None <=> pc[p] \in Holding

LockedWhere ==
    \A i \in Inodes, p \in Procs : holder[i] = p <=> pc[p] \in Locked /\ fd[p] = i

\* The variables have their types, and the labels of pc mean what they say: a
\* process has a segment open exactly between its open and its close
\* (shm_linux.h:242-379), and holds that segment's flock, and no
\* other, exactly where the code relies on it.
TypeOK == Types /\ OpenWhere /\ LockedWhere

\* Whoever uses a segment finds the whole constant in it, even when the process
\* that created it was killed half way and its name has been used again since
\* (shm_linux.h:598-659).
ReadsTheConstant ==
    \A p \in Procs : pc[p] = "using" => fd[p] \in sized \cap filled

\* A close takes the name from no process that uses the same segment and has a
\* sentinel, unless it could not read /dev/shm to the end: then it takes it that
\* nobody is there, and the name goes though the segment is used
\* (shm_linux.h:348-365, 562-595).  A process loses its sentinel when its pid is
\* used again while a close on another segment, which found the pid dead, is
\* about to unlink the file.
TakesTheName(p) == pc[p] = "scan" /\ pc'[p] = "idle" /\ name' # name

StillUsedIsKept ==
    [][\A p, q \in Procs :
         /\ TakesTheName(p)
         /\ pc[q] = "using" /\ q \in sentinel /\ fd[q] = fd[p]
         => ScanFails(p)]_vars

\* When every process has ended, neither the name nor a sentinel is left in
\* /dev/shm, unless one was killed and no later close has swept since: nothing
\* else would ever free the memory (shm_linux.h:275-365).
NothingLeftBehind ==
    (\A p \in Procs : ~Alive(p)) /\ ~litter => name = None /\ sentinel = {}
=============================================================================
