# CounterLine in TLA+

A verification project for CounterLine: a Stockfish engine (`src/src/`, C++) and a Python UCI frontend
(`src/wrapper/`) that sits between a GUI and that engine and may replace its move at the end of two fixed
opening lines. Paths below are relative to the repository's parent, `src/` being the repository; a file named
without a directory is in `src/src/` or, if it ends in `.py`, in `src/wrapper/`.

The modules model the parts whose correctness depends on an order of steps (threads, subprocesses, processes,
transactions, late writers, nested calls) and those where much is kept up to date step by step that could be
recomputed (positions, accumulators, ranked lists, compressed tables).

## 1. The system

```
GUI --UCI--> uci_app.py --UCI (pipe)--> stockfish: uci.cpp -> engine.cpp -> thread.cpp -> search.cpp
                 |  \                                            |            |          |
                 |   arbitration: opening_lock, rollout,         |            |          position, movegen, movepick
                 |                plan_score, determine, fortify |            |          tt.cpp (shared, racy)
                 |                                               |            |          nnue_accumulator
                 repertoire_db.py (SQLite,                       syzygy       numa.h: one replica of the networks
                   shared by instances)                                       per node, in shm_linux.h's segment
```

### Components, their state and what makes them correct

| Part (source) | State | Operations | Hard because | Correct when | Modules |
|---|---|---|---|---|---|
| `Thread` (thread.h, thread.cpp 45-138) | mutex, condition variable, `searching`, `exit`, `jobFunc`, the worker object | constructor, `run_custom_job`, `wait_for_search_finished`, destructor; `idle_loop` | both sides sleep on one condition variable and wake with `notify_one`; `exit` is raised without the mutex | no wake-up lost, every call returns, each job run once, none after exit | `Thread`, `JobSlot` |
| `ThreadPool`, engine, UCI loop, search control (thread.cpp, engine.cpp, uci.cpp, search.cpp) | threads, `stop`, `ponder`, position and its state list, options | commands; start, iterate, hold, collect, answer | commands arrive at any moment, some wait and some do not; jobs refer to lists owned elsewhere; flags are shared without a lock | one bestmove per go, at the right time; `stop` and `ponderhit` are never lost; nothing is torn down under a search | `Engine`, `UciDialogue` |
| Best thread (thread.cpp 347-417) | votes, minimum, best so far | three loops | three kinds of results compared in one pass | the choice does not depend on the order of the threads | `BestThread` |
| Replicated networks, NUMA (numa.h, thread.cpp) | nodes, threads bound to them, one replica per node | policy, threads, load, access | a replica is made on demand while other threads look for it | a thread reads the current networks on its own node | `Numa` |
| Shared memory (shm.h, shm_linux.h) | a named segment, its flock, a sentinel file per pid | open, fill, announce, close, sweep | processes race and are killed half way; names are unlinked under those who have them open | a user finds the whole constant; nobody's segment is taken, nothing is left behind | `SharedMemory` |
| Search of a node (search.cpp) | frames, search stack, chain of positions, accumulators, `nmpMinPly` | search, qsearch, null move, verification, ProbCut, singular search | deep recursion over one position, cut short anywhere, with early returns between a do and its undo | the position is that of the node; nothing half-finished is stored; null moves do not follow each other | `Search` |
| Root moves (search.cpp) | list of root moves, window, line index | iterations, lines, aspiration, sorting | a list sorted in parts, aborted between any two scores | a loss in the answer was searched to its end, the window closes | `RootSearch` |
| Transposition table (tt.cpp, tt.h) | clusters of entries, a cyclic generation | probe, save, new search, clear | the writer of a probe is used after other probes and saves; bytes wrap | an entry is of one position; ages are true | `TranspositionTable` |
| Position, moves (position.cpp, movegen.cpp, bitboard.cpp) | board, chain of `StateInfo` | set, do, undo, null move, generate, legal, repetition, exchange | a dozen fields kept incrementally; Chess960; pins against en passant | it is the position, with the moves, of the rules | `Position`, `Bitboards`, `Chess` |
| Move picker (movepick.cpp) | stage, one array, five pointers | next move, skip quiets | stages share one array and put moves off | each pseudo-legal move once, in the order promised | `MovePicker` |
| Accumulators (nnue_accumulator.cpp, features/) | accumulations per ply, computed flags, caches | push, pop, evaluate, reset | updates forwards, backwards, fused over two moves, or from a cache | what is evaluated is the board's | `AccumulatorStack` |
| Tablebases (syzygy/tbprobe.cpp) | hash of tables, mappings, files | init, probe, rank | double-checked mapping by threads; five transformations per index; distances that count or do not count for the fifty moves | a table is found, whole and mapped once; index and value are the generator's; a win stays a win | `TableFiles`, `TableIndex`, `PairsData`, `Tablebases` |
| Wrapper (src/wrapper) | board, subprocess, repertoire rows | position, go, stop, quit; decide, remember, send | the subprocess dies, instances die, two instances update one row | a legal answer to each go; what was played is repeated | `CounterLine` |
| Time, options, histories, evaluation kernels, utilities, telemetry, scripts, tests | | | numeric, text, I/O or developers' tools | | not modelled, see section 5 |

### How they interact

The UCI thread reads commands one by one. `stop` and `ponderhit` only set a flag; `position` only touches what
the engine owns; all other commands begin with `wait_for_search_finished` on the main thread, after which no
thread is meant to search. `go` ranks the root moves by the tablebases, hands a set-up job to every thread, waits
for all of them, hands the search to the main thread and returns. The main worker starts the helpers with the same
member functions of `Thread`, iterates, holds the answer while it ponders or searches without end, raises `stop`,
waits for the helpers, chooses the best thread and prints. A worker owns a position, a stack of accumulators and
one list of root moves; the workers share the transposition table, the mapped tablebases and, per NUMA node, the
networks and some histories. The wrapper is a client of that dialogue and a server of the same one to its GUI; its
instances share a SQLite file.

### What is hard to test here

`PROJECT.json` lists the hazards with their lines. They are of four kinds: interleavings of few threads in places no
test drives (handshake, resize under a search, lazy replicas, lazy mapping, segments under kills); orders of
messages (stop before, during and after a search; ponderhit and limits); nested state under a search that is cut
short anywhere (stack, window, root list, late writers); and incremental state that agrees with recomputation on
almost every move (castling paths and rights, en passant keys, repetition distances, fused threats).

## 2. The modules

| Module | Models | Abstracts |
|---|---|---|
| `Thread` | thread.cpp 45-138 between two accesses to shared state: a label of `pc` per place where another thread may come in | what a job does, except the one that builds the worker object |
| `JobSlot` | what callers rely on: a slot that is idle, full, busy or gone | `Thread` implements it (`ImplementsJobSlot`) |
| `Engine` | uci.cpp, engine.cpp, thread.cpp and the control part of search.cpp. A thread is its job slot: `job[t]` is what it was handed and has not finished. A command is a `phase`, its loop over the threads an index `at`, so that others move between two rounds. The main search is at a label `mpc` | scores, clocks and node counts: what they may decide is a choice (`CheckTime`, `FailLow`, `MainMate`, `MainClock`). Text of commands; developers' commands |
| `UciDialogue` | what a GUI may rely on: a bestmove per go, not before it is released and not withheld after | `Engine` implements it (`ImplementsDialogue`) |
| `BestThread` | the three loops, a step per iteration, integer votes | the results of the searches are a constant set |
| `Numa` | `NumaConfig` from sysfs, from L3 caches and from the option, `distribute_threads_among_numa_nodes`, binding, histories per node, `LazyNumaReplicatedSystemWide` step by step | text, Windows, the name of the segment |
| `SharedMemory` | open and close of `SharedMemory<T>` on Linux, a step per system call another process can see half of | the data (whole or not), the header's mutex (taken under flock, robust), `ref_count` (never read), failures of flock and of unlinking (processes of one user), two segments of one name in one process |
| `Search` | search and qsearch as frames on a stack, with every call, early return and save: a frame is at a label between two calls | a value is low, in or high in its window and trusted or not; depths, margins, histories and whether a move is legal only choose alternatives |
| `RootSearch` | iterative_deepening of one worker: lines over ranks, windows that widen, scores left move by move, stable sorts, aborted iterations, the handicap | the value of a move is any of `Values`; when it stops is `Engine`'s |
| `TranspositionTable` | a cluster: `TTEntry::save`, `relative_age`, `probe`, `new_search`, `clear`; a stack of nodes that hold writers | value and evaluation of an entry (carried with the depth); several threads |
| `Bitboards`, `Chess` | the attack tables by the code's definitions; the rules of chess as rules, which is the reference and is not translated from position.cpp | the magic multiplication |
| `Position` | set, do_move, undo_move, null moves with every field of `StateInfo`, the generators, legal, pseudo_legal, gives_check, see_ge, draws, fen, and what is told to the accumulators | a Zobrist key is the set of numbers xored into it; characters of a FEN |
| `MovePicker` | constructors, score, partial_insertion_sort, select, the stages | the contents of the histories are a constant |
| `AccumulatorStack` | both feature sets for both nets: push, pop, reset, evaluate forwards, backwards, fused and from the caches | a row of weights is its feature, an accumulation a bag of features |
| `Tablebases` | the probes of WDL and DTZ with their search over captures, and root_probe, root_probe_wdl and rank_root_moves, in games of an endgame | an endgame is a graph of quiet moves with zeroing moves of given values; what the generator stores is external |
| `TableFiles` | TBTables, init, and `mapped` label by label | the contents of a file is good, bad or gone |
| `PairsData` | set_sizes, set_symlen, decompress_pairs, with words of 8 bits | the compressor is external |
| `TableIndex` | do_probe_table, set_groups and the maps of init | which order a file has is a constant |
| `CounterLine` | instances of the wrapper: commands, the subprocess with its death, the arbitration of choose_move with its integer scores, the two transactions | chess is a finite graph given by constants. Engines answer any legal move |

The modules whose names begin with `MC` extend the modules they serve and give the constants values. Where the parts
of one program do not touch each other's variables, one instance serves two of them, and a behaviour is of one or of
the other: `MCSearch` runs the tree of `Search` or a cluster of `TranspositionTable`, `MCThreadPool` the choice of
`BestThread` or the nodes of `Numa`, `MCTablebases` one of its four modules. `MCWorker` composes `Position` with the
two modules that extend it: pickers and accumulators follow the moves that `Position` makes. The modules whose names
end with `Proofs` extend the modules they prove something about. Definitions called mutants (the comment says of what)
are wrong variants of an action or operator, kept beside it to show that a property notices; no specification uses
them.

Details of the correspondence worth knowing:

- In `Engine`, `Waited` is both the wait with which a command begins and the head of what follows in the code
  without another wait, because nothing that others can see lies between; for `go` that is the reset of `stop`,
  `stopOnPonderhit` and `ponder` and the move of the state list (thread.cpp 286-320). `told` is a history variable:
  what the GUI has said since that reset.
- In `Search`, a frame of the stack holds what the C++ frame holds and others may point to: its `StateInfo` and its
  pv array. `ss` is the search stack, `pos` the chain of positions, `acc` the accumulators. `effects` is a history variable:
  what the last step stored in tables, and the pv array it wrote to.
- In `Position`, `game` is a history variable: the same game by the rules of `Chess`. In `Numa`, `loaded` says which
  networks were loaded last, so that a replica can be of old ones.
- In `CounterLine`, a `go` is one pass through `ask`, `decide`, `remember` and `send`; a death of the subprocess may
  come between any two, and `Restart` (the instance is killed, or ends by an exception that nothing catches) at any
  point at all.

## 3. What is checked

| Run | Question | Properties | States |
|---|---|---|---|
| `thread` | The handshake with the two callers the program has, from construction to joining | `NoLostWakeup`, `CallsReturn`, `ImplementsJobSlot` | 377 |
| `engine` | A session with every kind of search, positions with and without moves, all commands, up to two helpers | `NoTeardownUnderSearch`, `CommandsHeeded`, `NoDanglingReference`, `ChosenAtRest`, `ImplementsDialogue`, `QuitEnds` | 627,771 |
| `thread_pool` | The choice among three threads; and threads that are spread over the nodes of a machine, bound, resized, and look for the replica of their node | `ShortestMated`, `MostVoted`, `ReplicasAreCurrent`, `PoolFollowsNodes` | 992,753 |
| `shared_memory` | Three processes open and close one name, one of them killed anywhere, pids used again; `shm_open`, the setup, `mmap`, the sentinel and the scan of /dev/shm fail at will | `ReadsTheConstant`, `NothingLeftBehind`, `StillUsedIsKept` | 188,781 |
| `search_tree` | Every path through search and qsearch on a small tree, with a stop before any step; and a cluster of the table whose generation wraps | `PositionIsOfNode`, `PvArraysLive`, `NullMovesApart`, `OnlyFinishedSearchesCount`, `EntryIsOnePosition`, `AgeIsTrue` | 1,341,859 |
| `root_lines` | Iterations of several lines over ranked root moves, with values that contradict each other, aborted anywhere | `LossIsProven`, `LineEnds` | 96,418 |
| `worker` | Games from thirty-four set-ups: every do, undo and null move, every picking of moves, every choice of positions to evaluate | `PositionIsOfGame`, `MovesAreOfChess`, `RepetitionsAreOfGame`, `SeeIsExchange`, `PickedAsPromised`, `PiecesFollowBoard`, `ThreatsFollowBoard` | 16,263 |
| `tablebases` | Games along the tablebase ranks of an endgame, threads that map files while others probe, compressed values, indices | `DtzIsTrue`, `RankedResultIsKept`, `ReadsWholeTable`, `TablesAreFound`, `DecodesTrue`, `IndexIsUnique` | 753,146 |
| `wrapper` | One instance in all games, or two that meet at an exit on one database; subprocesses die, instances are killed | `AnswerIsLegal`, `GoAnswered`, `SameMoveForever` | 89,588 |

Each property is stated in words above its definition. Three more runs show a disagreement of the code with what it,
or its documentation, says:

| Run | What TLC shows |
|---|---|
| `fen_root` | `AnswerIsLegal` fails in a game set up by FEN: the wrapper sends its subprocess only the move stack (engine_pool.py 69-75), so the answer is for another position, and an illegal move is printed |
| `fused_threats` | `ThreatsAreOfBoard` fails: when two moves are fused and the second is a promotion that captures, the threat to the pawn that stands on the last rank for a moment is added and its removal skipped (full_threats.cpp 321), so the accumulator keeps it until a refresh. `ThreatsFollowBoard` is the same with that one case left out |
| `replica_race` | `NoTornRead` fails: threads of a node other than the first, cleared together by a load of networks (engine.cpp 312-317), look at the instance of their node without the mutex (numa.h 1595) while one of them assigns it. `ReplicasAreCurrent` leaves such a look out |

### Bounds, and why they are enough

- `thread`: two callers, since the program has two (the UCI thread and the main search thread), three jobs: the one
  of the constructor, a search and another. The theorems hold for any number of callers.
- `engine`: three threads, the least number where loops over the threads have a first, a middle and a last round;
  `MaxPly` 3 gives two iterations, the first of which may not be cut short; six kinds of limits. Searches follow
  one another without bound: no counter grows.
- `thread_pool`: three results: one that was best, one that displaces it and one that follows; two proven wins, two
  proven losses, two scores in between and none. Seven machines: with and without sysfs and caches, with a node that
  is empty or left out by the affinity, with caches larger and smaller than a bundle (`BundleSize` 4); seven
  policies; two or four threads, so that a pool shrinks and two threads meet on a node; three commands
  (`MaxCommands`): a load or an option between two uses.
- `shared_memory`: three processes, so that a close can meet a second user and an opener; `MaxOpens` 3, since each
  session of a process is one open and one close and a fourth would repeat one of them; `MaxCrashes` 1. Two
  processes with four opens and two kills pass as well.
- `search_tree`: `MaxPly` 3 and one ply with two moves: a null move needs a ply below it, a verification another,
  and a second null move the third; `VerifyPlies` 2 forbids it in the second ply and not in the third. The cluster
  has two entries, three keys of which one is 0, a byte of 24 with steps of 8, so that the generation comes round
  after three searches and four (`MaxSearches`) are made.
- `root_lines`: three root moves in two ranks, so that a rank has one line and one several; three lines (two by the
  option, raised by the handicap); two iterations; values on both sides of the window and of the bound of a loss.
- `worker`: a game stays in the zone of squares of its set-up, two to nine moves deep, with the null moves its
  set-up allows; each set-up is made for one meeting of rules (the comments name it). Twenty-three are for the
  position, three for the pickers, eight for the accumulators, which are evaluated at most twice (`MaxEvaluations`)
  with one undo (`MaxPops`) in two searches (`MaxSearches`): the second search finds the caches of the first.
- `tablebases`: the fifty moves are three (`Fifty` 6 plies), a chain of six positions is as long; every place of
  two zeroing moves and every value of both. Six buckets and three tables with five keys that meet; two directories;
  two searchers and the UCI thread, with `SYMMETRY` of the searchers (no liveness is checked there); two calls of
  init and one file that disappears. Words of 8 bits, codes of up to four. Six tables with and without pawns, unique
  pieces and leading groups.
- `wrapper`: seed lines of two moves and one, four and three moves at the exits with the scores that plan_score.py
  gives there; `MaxVisits` 2 bounds what a row counts (a `go` is not started beyond it), enough for an update that is
  lost and one that is put back.

Deadlock is checked unless a behaviour may end: in `shared_memory`, `root_lines`, `worker` and `tablebases`, where
the last open, iteration, move or probe is the last.

### Fairness

- `Thread`: steps of a running thread are weakly fair; taking the mutex is strongly fair (`SF` on `WorkerLock`,
  `ClientLock` and `Rewake`), since it can be found taken again and again but no holder keeps it; a job ends. Calls
  are not fair, except that the constructor goes through its own.
- `Engine`: the UCI thread carries a command on, a search thread its search; a root search is finite; a helper notices
  `stop`. No command is sure to come, and no limit is sure to be hit. The busy wait (`MainHold`) is a step that
  changes nothing, so a search that waits for a GUI that says nothing waits for ever, as the code does.
- `RootSearch`: the worker goes on. That a line ends (`LineEnds`) is then the arithmetic of the window, whatever the
  values of the moves are from one search to the next.
- `CounterLine`: a `go` is carried on; a live subprocess answers, one that is given an illegal line ends. That a
  subprocess hangs without ending is excluded: `read_until` has no limit and would hang with it.
- The safety runs state none.

### Observations without a run

Met while modelling; none of them contradicts a sentence of the repository.

- *Position.* With `UCI_Chess960` off, a set-up whose castling rook is not in the corner (`qR2K3 w Q` on the first
  rank) lets `legal` accept a castling that leaves the king in check, because only Chess960 looks whether the rook
  shielded it (position.cpp 710). Two claims for one side in a FEN leave the mask of the first rook. `fen` after a
  null move gives a wrong move number, since the side turns and the ply does not. The set-ups of `worker` are those
  of legal chess, in which the last test of en passant in `legal` and the pin test agree.
- *Search.* ProbCut stores a value when the search below it was stopped (search.cpp 989-996), the one place
  where a value that cannot be trusted reaches the table; `OnlyFinishedSearchesCount` leaves it out. `go ponder mate n`
  raises `stop` itself when the mate is found and prints its bestmove while the engine still ponders (484, against
  the reason given at 210-214). A handicapped engine picks from a list that need not be sorted when the search is
  stopped (1940 ff.).
- *Table.* Threads read and write entries field by field without a lock (tt.cpp 228), which tt.h accepts (36-39).
- *NUMA.* The scan of L3 caches stops at the first processor that is offline (numa.h 1169-1184). Empty nodes are
  removed without renumbering the nodes of the processors. The policy `system` groups by caches as `auto` does.
- *Tablebases.* A losing position whose best move is an en passant capture is not marked as having a zeroing best
  move (tbprobe.cpp 1298-1301 against 1356-1359): `DtzIsTrue` leaves out positions that only en passant saves.
- *Shared memory.* An opener that takes the flock before the creator finds the segment empty and unlinks its name
  (shm_linux.h 278): both go on, each with a copy of its own. A close that found a pid dead may unlink the sentinel
  of a new process with that pid (585-591), which keeps its mapping but no longer holds the name in place; therefore
  `StillUsedIsKept` speaks of users that have a sentinel. A close whose `opendir` fails, or whose `readdir` ends
  early, takes it that nobody else is there (563-565, 570, 595) and unlinks a name others use (350, 364-365): they keep
  their mapping, and who comes next makes a second copy. The model does so in `ScanFails`, which `StillUsedIsKept` names as
  the one exception; `ReadsTheConstant` and `NothingLeftBehind` hold with it. The flock is that of a segment, the name
  and the sentinels are common to all of that name: a close on a copy that has lost the name may unlink the name of the newer
  copy, which is why `StillUsedIsKept` compares segments.
- *Wrapper.* The Petroff exit set up by FEN passes for the Carlsbad family, because the empty move stack is a prefix of
  its seed line (opening_lock.py 62, 69). The base move enters the comparison of fortification with score 0
  (uci_app.py 113). The ponder move printed with an override is the reply to the base move (134). A `stop` read after
  its `go` was answered is answered by another `bestmove 0000` (172; `owed` goes to -1). A dead subprocess is not
  started again (engine_pool.py 27), and `read_until` has no limit (60). The exits are recognised by a whole FEN with
  its move counters (opening_lock.py 80).

## 4. What is proved

The theorems hold for every value of the constants that satisfies the assumptions named in the modules. TLC evaluates
these assumptions in the runs. Hardly any of the properties is inductive as it stands; what each one needs in addition
is said below.

**Thread** (`ThreadProofs`, `ThreadAssumption`): `TypeCorrect`, `WakeupsArrive` (`NoLostWakeup`), `JobsSafe`
(`JobsAreReal`, `QuietWhenIdle`, `NothingRunsAfterExit`) and `Refinement` (the safety part of `JobSlot`, which is all
of it). Whether a sleeping worker is woken depends on who holds the mutex and on which caller is where. `IInv` adds
who can be where (`Positions`), that one caller is active (`OneCaller`), what `searching` and `jobFunc` say about the
worker's place (`Handshake`), and the two phases of life where the handshake is not yet, or no longer, the usual one
(`Construction`, `Destruction`).

**Engine** (`EngineProofs`, `EngineAssumption`), for any number of threads, positions, limits and iterations.
`Invariance` is the inductive invariant, and the four safety properties of the run follow from it.

| Part of `IInv` | What it says | Needed because |
|---|---|---|
| `PoolInOrder` | the threads are the first `n`, except while a command destroys or creates them | the loops go by index |
| `JobsInPlace` | a thread has a job only if the loop of the command has come by and not yet waited for it, or if the main worker has started it and not yet collected it | a command that waits for the main thread alone may still go on: the helpers are the main worker's |
| `MainInPlace` | the main thread has its job exactly while the search is at a label; commands are then idle or waiting | this is what makes one wait enough |
| `RootsAgree` | who has run its set-up job has the position and limits of this `go`, on a list of states that exists | a worker reads them long after `go` has returned |
| `FlagsFollowTalk` | `stop` and `ponder` agree with what the GUI has said since they were reset | the flags are stores of several threads |

`TearsDownAtRest` (`NoTeardownUnderSearch`) needs the first three, `RefersToTheLiving` (`NoDanglingReference`) and
`ChoosesAtRest` (`ChosenAtRest`) `RootsAgree`, `HeedsCommands` (`CommandsHeeded`) the last. `CarriesOnDialogue` is the
refinement of `UciDialogue` without its fairness, step by step: a bestmove for each `go`, none before the GUI allows
it. It assumes `GuiEndsTheSearch` of the limits: nothing else than the GUI ends an infinite search, and a mate is not
looked for while pondering. That is the use for which the dialogue is promised (section 3 says what `go ponder mate`
does), and the limits of the run are of that kind. It needs one more fact, that `stop` is raised only when the answer
is released (`StopReleases`).

**Search** (`SearchProofs`, `SearchAssumption`), for any tree, depth and moment of a stop. `Invariance` is proved in
two stages. First, every action is one of three kinds of step: the frame on top `GoesOn`, a child is entered
(`Descends`), or the frame returns (`Leaves`); these say what a step of the kind may do to the stack, the chain of
positions, the search stack and the pv arrays. Then the invariant is shown for the three kinds.

| Part of `IInv` | What it says |
|---|---|
| `Path` | all frames but the top wait in a call, and each is as deep as the moves made above it |
| `Chain` | each element of the position's chain was made by the frame that owns its `StateInfo`, and is undone by it alone |
| `PushedInOrder` | accumulators are pushed with the moves; ProbCut's child is where they could part |
| `PvHeld` | what each pv pointer refers to while the frame that owns the array can be asked for it |
| `NullOnce` | who may try a null move below one, and under a verification |
| `Trusted` | a value that cannot be trusted comes with `stop`, and never from qsearch |

The four properties of the run are the theorems `ReadsItsOwnPosition` (`PositionIsOfNode`), `FollowsLivePv`
(`PvArraysLive`), `NullMovesStayApart` (`NullMovesApart`) and `ScoresAreOfFinishedSearches`
(`OnlyFinishedSearchesCount`).

**RootSearch** (`RootSearchProofs`, `RootAssumption`), for any root moves, ranks and values. `NoRootMoveIsLost`: the
list is always a permutation of the root moves, through stable sorts of a part, rotations, marks and the exchange at
the end. The sort is a fold in the model, of which the provers see little; the lemmas show that it puts each element
where counting those ahead of it says, and that counting is a permutation. `LossesAreProven` (`LossIsProven`) rests on
the depths that count completed iterations (`Counted`), on the rank of the line (`InRank`), and on the fact that while
another iteration may come the best move remembered has a score of a completed one (`LastIsProven`): this is what an
aborted iteration puts back in front.

**BestThread and Numa** (`ThreadPoolProofs`). `WinsFound`, `LossesFound` (`ShortestMated`), `VotesCount`
(`MostVoted`), `FullLines` and `AbortedLossesIgnored`, for any number of threads and any results. The invariant says
of the threads seen so far what the property says of all at the end (`WinSeen`, `LossSeen`, `VotesSeen`), and that the
minimum of the first loop is one (`MinIsLeast`), which makes a voting value positive. That the comparison is
transitive enough for one pass is what the steps of `PickStep` show. `ReplicasStayCurrent` (`ReplicasAreCurrent`):
what a thread reads through its token is the replica of its own node and of the networks loaded last, for all
machines, policies and numbers of threads. The invariant adds that every thread's node has room for an instance
(`RoomForAll`), that an instance is absent, current, or half assigned by a thread that holds the mutex
(`InstancesOnTheirWay`), and that nobody looks for one between two tasks (`RestIsIdle`), which is when policies,
threads and networks change. How threads are spread does not matter to it: one that is bound has found a processor of
its node, so the node exists.

`PoolStaysWithNodes` (`PoolFollowsNodes`) is the other half of `Numa`: for any machine, list of processors, size of a
bundle and number of threads. It rests on `NumaAssumption`, which is what the code relies on without looking: sysfs
names each processor in one node, sharing an L3 cache is an equivalence inside one node (the code takes the node of one
processor of a domain for that of all), and the process may run on some processor. The invariant (`PoolInv`) is that
the configuration is always the one of this machine and this option, and pool and histories are where it puts the
requested threads, unless the process has ended. What such a configuration and such a pool look like is then a matter
of the operators, lemma by lemma in the order of the code:

| Lemmas | What they say |
|---|---|
| `CpusAdded`, `AllAdded`, `EmptyRemoved` | sets of processors that are apart become the nodes, without the empty ones |
| `SystemRead`, `SystemNodesMade` | each node has the allowed processors of one system node, and all of them have one |
| `ScanGoesOn`, `DomainsFound` | the scan finds the caches whose files come before the first that is missing, each once |
| `MergeGoesOn`, `PassMade`, `AllMerged` | a pass shortens the list or finds no two neighbours that fit, so as many passes as there are domains are enough |
| `BundlingGoesOn`, `BundlesMade`, `BundlesAreNodes` | the bundles of the system nodes, one after the other, are the nodes |
| `MachineFollowed`, `ConfigFollows` | whichever option: nodes are apart and hold the machine's caches as a whole |
| `BestNodeIsLeast`, `BestNodeBalances`, `ThreadsSpread` | one more thread on the node it fills least keeps the spread (`Balanced`); fractions are compared by products |
| `PowerIsEnough`, `PlacesOnNode`, `PartsCover`, `HistoriesFilled` | the threads of a node have the places 0, 1, ... and their parts of the histories, none of them empty, are all of it |

All of these are folds in the model. The provers have no induction over data, but a left fold is a function on the
sets of places folded so far: `FoldExists` gives its values, one place after the other, from the definition of the
community modules, and an induction over a set of numbers (`NatSet`, `UpTo`) says what holds after each place. These
few lemmas stand in `TablebaseProofs` too, as the two modules extend different components and nothing in common.

**TranspositionTable** (`SearchProofs`, after the nodes that use it), assuming `Widths` (a byte of
256 and steps of 8): types, with the generation always a multiple of 8 so that the low bits have room; `OnePosition`,
where the strengthening is that an empty entry is all zero; `AgeCorrect`, where it is that the generation counts
searches modulo 32 and that of an entry the search that wrote it.

**TableFiles** (`TablebaseProofs`, `TableFilesAssumption`: the
keys of different materials differ and are not 0): `WholeTables` (`ReadsWholeTable`), for any materials, directories
and number of searchers. Who maps a file holds the mutex of its type (`MappersLock`); how much of an entry is done
depends on the label of the one who does it (`MappersAsFar`), and an entry that is in memory but not ready has
somebody at it (`EntriesKept`); searchers rest when init destroys the entries (`SearchersRest`). And the entry a probe
ends at must be the one its key was registered for: `TablesFound` (`TablesAreFound`), for any hash table, keys and
files. Its invariant is the one of Robin Hood hashing (`Ordered`): from the bucket a key belongs to, to the one it is in,
all are full and none holds a key that belongs farther on. While `insert` carries a key it has displaced, that key is
in no bucket; so within the fold over the buckets the invariant is stated of the table and of the key in hand
(`OnItsWay`), for each of the three things `insert` does at a bucket: the key `Settles`, another `GivesWay`, or it
`GoesBy`.

**Tablebases** (`TablebaseProofs`). `DtzProbesTrue` (`DtzIsTrue`): what a DTZ probe answers, for any endgame and any
even `Fifty`. Of the endgame it assumes what the generator of the files promises (`IsEndgame`): the distances `d`, and
those the tables are made from, which know no en passant, are truths ply by ply. A win is as long as the shortest of
its ways, a loss as long as the longest, the mated side has lost, and anything else is a draw (`IsTruth`). TLC evaluates
the assumption on every endgame of the run, whose distances it computes ply by ply from the mates. The choices of the
generator stay open: which side a table is for, what it stores where a capture is as good, where it counts in moves.
The proof goes along the code:

| Lemmas | What they say |
|---|---|
| `PlainAgree` | the two truths agree on positions without en passant, by induction on the plies of wins and losses (`AgreeStep`); all that a quiet move leads to are such positions |
| `StoredIs`, `SearchIs` | what `search` answers, by the best zeroing move (`Top`) and what the WDL table may hold in its place |
| `BestWins`, `ZeroingAlone`, `CursedZeroing`, `DrawIs` | where no table is asked, the distance of the best zeroing move is the truth |
| `TableWins`, `TableLoses`, `EpSaves` | where it is asked, it holds the truth, but for the positions `OnlyEpSaves` names |
| `MapScoreIs`, `TableReads`, `OwnSide` | a distance stored in moves loses a ply at most, never at the fifty moves or across them (`Reads`) |
| `MatedIs`, `QuietIs`, `ShortestWin`, `LongestLoss`, `OtherSide` | the search one ply on adds its ply without crossing the fifty moves; the least of the readings is a reading of the least |

**SharedMemory** (`SharedMemoryProofs`, `SharedMemoryAssumption`: at least as many identities of segments as
processes): `TypeCorrect`, which includes that a flock is held by one process and exactly where the code relies on it
(the creator always finds a free identity, by a count of who has what open); `Constant` (`ReadsTheConstant`), by what
each place of a process vouches for in the segment it has open (`Written`), which no step takes back before the
kernel frees it; `Kept` (`StillUsedIsKept`), because a sentinel of the same segment can only appear under the
flock the scan holds (`Pending`), so that a close takes the name from an announced user of its segment only in
`ScanFails`, the scan that could not read /dev/shm to the end; and `NothingLeft` (`NothingLeftBehind`), because as long as nobody was killed each
sentinel is of a process that has yet to remove it (`SentinelsAreOwned`) and the name has somebody who will unlink it
or leave it to such a process (`NameIsOwned`).

**CounterLine** (`CounterLineProofs`, `WrapperAssumption`), for any number of instances, chess graph, repertoire and
integer scores. `TypeCorrect`, which includes what the GUI is owed. `LegalAnswers` (`AnswerIsLegal`) for games from the
start position, which `fen_root` shows is needed: the move decided on fits the node of the board from the decision to
the answer (`Fitting`). `OneFavouriteForEver` (`SameMoveForever`): at each exit of a suite one move leads with a score
that no row or decision on its way falls below (`Settled`). That covers the instance that decides on a reading another
one has overwritten, and the one that is killed between deciding and writing: what they write is of the same move and
not lower.

Only model-checked:

- Liveness, which the provers do not reach: `CallsReturn`, `QuitEnds`, `GoAnswered`, `LineEnds`, and the fair part
  of `ImplementsDialogue`.
- What recursion over data computes, which is written with `RECURSIVE` operators that the provers do not take, or
  needs an induction over positions: `Position` with `Chess` and `Bitboards`, the exchange, and what extends them,
  `MovePicker` and the values in `AccumulatorStack`; and `PairsData`.
- `RankedResultIsKept`, of the endgames of the run (TLC finds it true of them with `Fifty` 8, 10 and 12 as well). Of every
  endgame it could not be said without more about the game before the first ranking, where positions that came up twice
  bar moves (`Thirdfold`) whatever the distances say.
- `TableIndex`, where the property compares with the count of all positions of a table.

## 5. What is not modelled

- *Evaluation kernels, histories, constants of the search*: numbers that order, prune and value moves. Which
  alternatives they choose from is in `Search` and `MovePicker`, which take any of them.
- *Time management* (timeman.cpp): a formula in floating point whose result is compared with a clock. What may come of
  the comparison is a choice in `Engine` (`CheckTime`, `MainClock`).
- *Options and tuning*: text to values; the handlers that do something to threads, table, networks and tablebases are
  commands of `Engine`, `Numa` and `TableFiles`.
- *Torn entries* of the table under several threads; *weak memory*: flags are read and written in one order that all
  threads see.
- Of the tablebases: the layout of a file's fields, the map of DTZ values by frequency, displayed scores and the
  extension of a line. Of the position: the characters of a FEN, `flip`, the material code of `set`.
- Logging, allocation, text, Windows and Android variants, telemetry (a line appended per decision), scripts, tests,
  and `bench`, `perft` and the like, which a GUI does not send during a search.

## 6. Plan

Done, in this order: `Thread`/`JobSlot`, `Engine`/`UciDialogue`, `BestThread`, `TranspositionTable`, `SharedMemory`,
`CounterLine`; then `Search`, `RootSearch`, `Position` with `Chess`, `MovePicker` and `AccumulatorStack`, the four
modules of the tablebases, and `Numa`.

Proved since: all safety properties of `Thread`, `Engine`, `Search`, `RootSearch`, `BestThread`,
`TranspositionTable`, `SharedMemory`, `CounterLine`, `Numa` and `TableFiles` that the runs check, and what a DTZ probe
tells in `Tablebases`.

Left to prove, most important first:

1. The control of `AccumulatorStack`: an accumulation that is marked computed was computed after its ply was last
   pushed, whatever the updates add up to.
2. The stages of `MovePicker`: the pointers stay in order, and no stage is entered twice.
3. What the ranks of `Tablebases` keep: the condition on the game so far under which `ResultIsKept` holds of every
   endgame.

To model: table entries written field by field by several threads, with what a search makes of a mixture; the
registry of segments of one process and its signal handler; the layout of a table file.
