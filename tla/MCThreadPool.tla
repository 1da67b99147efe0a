----------------------------- MODULE MCThreadPool -----------------------------
(* The choice of the best of three threads, with two moves and scores on    *)
(* both sides of a decisive one, beside the threads and replicas on the     *)
(* NUMA nodes of some machines: a behaviour is of one or of the other.      *)
EXTENDS BestThread, Numa

CONSTANTS e4, d4

(* ---- results ------------------------------------------------------------ *)

Left(scores, depths) ==
    [score : scores, bound : BOOLEAN, depth : depths, move : Moves, full : BOOLEAN]

Decisive == {r \in Left({-99, -98, 98, 99}, {1}) : r.full \/ r.bound}
Undecided == {r \in Left({0, 7}, {0, 1, 2}) : ~r.bound /\ (r.depth = 0 => r.full)}
Nothing == {r \in Left({-Infinity}, {0}) : ~r.bound /\ ~r.full}

Outcomes == Decisive \cup Undecided \cup Nothing

(* ---- machines ----------------------------------------------------------- *)

Shared(domains) == [c \in UNION domains |-> CHOOSE d \in domains : c \in d]
Machine(cpus, affinity, n, nodes, domains) ==
    [cpus |-> cpus, affinity |-> affinity, threadsNb |-> n, nodes |-> nodes, l3 |-> Shared(domains)]

MCMachines == {
    \* one node and one cache; no sysfs
    Machine(0 .. 3, 0 .. 3, 4, <<0 .. 3>>, {0 .. 3}),
    Machine(0 .. 3, {1, 2}, 4, <<>>, {}),
    \* two nodes, no cache files; one node without processors between them
    Machine(0 .. 5, 0 .. 5, 6, <<0 .. 3, {}, {4, 5}>>, {}),
    \* two nodes of several caches each; a cache larger than a bundle
    Machine(0 .. 9, 0 .. 9, 10, <<{0, 1, 4, 5, 8}, {2, 3, 6, 7, 9}>>, {{0, 4}, {1, 5}, {8}, {2, 3}, {6}, {7}, {9}}),
    Machine(0 .. 7, 0 .. 7, 8, <<0 .. 7>>, {0 .. 4, 5 .. 7}),
    \* an affinity that leaves out a node; a processor that is not online
    Machine(0 .. 5, {0, 1, 3}, 6, <<{0, 1}, {2, 3}, {4, 5}>>, {{0, 1}, {2, 3}, {4, 5}}),
    Machine({0, 2, 3, 4}, {0, 2, 3, 4}, 4, <<{0, 2}, {3, 4}>>, {{0, 2}, {3, 4}})}

Word(w) == [word |-> w, sets |-> <<>>]
ListOf(sets) == [word |-> "list", sets |-> sets]
MCPolicies == {Word("auto"), Word("hardware"), Word("none"), ListOf(<<{0}, {}, {2, 3}>>),
               ListOf(<<{0}, {0}>>), ListOf(<<{9}>>), ListOf(<<>>)}

(* ---- side by side ------------------------------------------------------- *)

NoMachine == [cpus |-> {}]
NoNodes ==
    /\ machine = NoMachine /\ policy = Word("none") /\ requested = 0 /\ config = Empty
    /\ pool = <<>> /\ bound = FALSE /\ sharedHists = <<>> /\ replicas = <<>> /\ pc = <<>>
    /\ torn = {} /\ task = "exited" /\ loaded = "first" /\ commands = 0
NoChoice ==
    /\ phase = "min" /\ i = 1 /\ rm = <<>> /\ minScore = 0 /\ votes = <<>> /\ best = 1

MCInit ==
    \/ Init /\ NoNodes
    \/ NoChoice /\ NumaInit

OnNodes == machine # NoMachine
MCNext ==
    \/ ~OnNodes /\ Next /\ UNCHANGED numaVars
    \/ OnNodes /\ NumaNext /\ UNCHANGED vars

MCSpec == MCInit /\ [][MCNext]_<<vars, numaVars>>
=============================================================================
