--------------------------------- MODULE Numa ---------------------------------
(***************************************************************************)
(* Where threads and networks live (numa.h, thread.cpp): the configuration *)
(* of NUMA nodes read from the machine or from option NumaPolicy, the      *)
(* nodes ThreadPool::set gives the threads, the histories the threads of a *)
(* node share, and one replica of the networks per node, made by the first *)
(* thread that needs it while others of its node look for it too.          *)
(*                                                                         *)
(* NUMA nodes count from 1 here, threads too; processors from 0.           *)
(***************************************************************************)
EXTENDS Integers, Sequences, FiniteSets, SequencesExt, FiniteSetsExt, Functions

CONSTANTS Machines,      \* what the kernel and its sysfs say: see below
          Policies,      \* of NumaPolicy: a word, "list" standing for sets of processors
          ThreadCounts,  \* of Threads
          BundleSize,    \* DefaultNumaPolicy
          HistoryBase,   \* entries of a shared history per thread
          MaxCommands    \* bound of the model: commands of the UCI thread

(* A machine: the processors it lets the process run on, the affinity the  *)
(* process was started with, SYSTEM_THREADS_NB, the processors of each     *)
(* node (none at all if sysfs cannot be read), the processors that share   *)
(* the L3 cache of each processor with such a file.                        *)
Processors(m) == 0 .. (m.threadsNb - 1)
Allowed(m, respect) == IF respect THEN m.affinity ELSE m.cpus
SystemNodeOf(m, c) == IF m.nodes = <<>> THEN 1 ELSE CHOOSE n \in DOMAIN m.nodes : c \in m.nodes[n]

\* A processor is in one node, sharing a cache is an equivalence, and processors
\* that share one are in one node.
IsMachine(m) ==
    /\ IsFiniteSet(m.cpus) /\ m.cpus \subseteq Nat
    /\ m.affinity # {} /\ m.affinity \subseteq m.cpus
    /\ m.threadsNb \in Nat
    /\ m.nodes \in Seq(SUBSET Nat)
    /\ m.cpus \subseteq IF m.nodes = <<>> THEN Processors(m) ELSE UNION Range(m.nodes)
    /\ \A n, k \in DOMAIN m.nodes : n # k => m.nodes[n] \cap m.nodes[k] = {}
    /\ DOMAIN m.l3 \subseteq Nat
    /\ \A c \in DOMAIN m.l3 :
           /\ c \in m.l3[c]
           /\ \A d \in m.l3[c] : d \in DOMAIN m.l3 /\ m.l3[d] = m.l3[c]
           /\ \A d, e \in m.l3[c] \cap m.cpus : SystemNodeOf(m, d) = SystemNodeOf(m, e)

IsPolicy(option) ==
    /\ option.word \in {"auto", "system", "hardware", "none", "list"}
    /\ option.sets \in Seq(SUBSET Nat)
    /\ \A cpus \in Range(option.sets) : IsFiniteSet(cpus)

ASSUME NumaAssumption ==
    /\ \A m \in Machines : IsMachine(m)
    /\ \A option \in Policies : IsPolicy(option)
    /\ ThreadCounts \subseteq Nat \ {0} /\ BundleSize \in Nat /\ HistoryBase \in Nat \ {0}

VARIABLES
    machine,
    policy, requested,   \* options NumaPolicy and Threads
    config,              \* numaContext.config
    pool,                \* the threads: node, idxInNuma, totalNuma
    bound,               \* boundThreadToNumaNode is not empty
    sharedHists,         \* size of the histories of a node
    replicas,            \* networks.instances
    pc,                  \* of each thread in networks[token]
    torn,                \* threads that read an instance while it was assigned
    task,                \* "rest", "clear", "search" or "exited"
    loaded,              \* history: the networks loaded last
    commands             \* how many were given

numaVars == <<machine, policy, requested, config, pool, bound, sharedHists, replicas, pc, torn,
              task, loaded, commands>>

-----------------------------------------------------------------------------
(* NumaConfig.                                                             *)

Empty == [nodes |-> <<>>, byCpu |-> <<>>, custom |-> FALSE]

Node(cfg, n) == IF n \in DOMAIN cfg.nodes THEN cfg.nodes[n] ELSE {}

\* add_cpu_to_node of each of the processors: those assigned already stay.
AddCpus(cfg, n, cpus) ==
    LET new == cpus \ DOMAIN cfg.byCpu
        size == IF new = {} THEN Len(cfg.nodes) ELSE Max({n, Len(cfg.nodes)})
    IN  [cfg EXCEPT !.nodes = [k \in 1 .. size |-> Node(cfg, k) \cup IF k = n THEN new ELSE {}],
                    !.byCpu = [c \in DOMAIN @ \cup new |-> IF c \in new THEN n ELSE @[c]]]

\* Each set of processors becomes a node of its own.
AddAll(sets) == FoldLeftDomain(LAMBDA cfg, n : AddCpus(cfg, n, sets[n]), Empty, sets)

NonEmpty(sets) ==
    FoldLeft(LAMBDA kept, cpus : IF cpus = {} THEN kept ELSE Append(kept, cpus), <<>>, sets)

\* Nodes are numbered anew; nodeByCpu is left as it is.
RemoveEmpty(cfg) == [cfg EXCEPT !.nodes = NonEmpty(@)]

FromSystemNuma(m, allowed) ==
    IF m.nodes = <<>> THEN AddCpus(Empty, 1, Processors(m) \cap allowed)
    ELSE AddAll([n \in DOMAIN m.nodes |-> m.nodes[n] \cap allowed])

\* from_system(SystemNumaPolicy{}, respect)
FromSystemNodes(m, respect) ==
    [RemoveEmpty(FromSystemNuma(m, Allowed(m, respect))) EXCEPT !.custom = ~respect]

\* The scan for L3 domains takes the first processor not seen yet, and ends
\* with the first one that has no file.
L3Step(m, respect, scan, c) ==
    IF c > scan.end \/ c \in scan.seen THEN scan
    ELSE IF c \notin DOMAIN m.l3 THEN [scan EXCEPT !.end = c]
    ELSE LET cpus == m.l3[c] \cap Allowed(m, respect)
             domain == [system |-> FromSystemNodes(m, respect).byCpu[Max(cpus)], cpus |-> cpus]
         IN  [scan EXCEPT !.seen = @ \cup m.l3[c],
                          !.domains = IF cpus = {} THEN @ ELSE Append(@, domain)]

L3Scan(m, respect) ==
    LET size == Max(m.cpus) + 1
    IN  FoldLeft(LAMBDA scan, c : L3Step(m, respect, scan, c),
                 [end |-> size, seen |-> {}, domains |-> <<>>],
                 [k \in 1 .. size |-> k - 1]).domains

\* The domains of one system node.
OfSystem(domains, n) ==
    NonEmpty([k \in DOMAIN domains |-> IF domains[k].system = n THEN domains[k].cpus ELSE {}])

\* One pass over them merges neighbours that fit into a bundle; the last one
\* merged is left alone until the next pass.
MergeStep(pass, cpus) ==
    LET last == Len(pass.done)
    IN  IF pass.left < last /\ Cardinality(pass.done[last]) + Cardinality(cpus) <= BundleSize
        THEN [left |-> last, done |-> [pass.done EXCEPT ![last] = @ \cup cpus]]
        ELSE [left |-> pass.left, done |-> Append(pass.done, cpus)]
MergePass(sets) == FoldLeft(MergeStep, [left |-> 0, done |-> <<>>], sets).done

\* As many passes as there are domains are enough: a pass that merges nothing
\* is the last that can change anything.
Merged(sets) == FoldLeft(LAMBDA merged, pass : MergePass(merged), sets, sets)

\* The bundles of one system node after the other.
Bundles(domains) ==
    FoldLeft(LAMBDA bundles, n : bundles \o Merged(OfSystem(domains, n)), <<>>,
             [n \in 1 .. Max({d.system : d \in Range(domains)}) |-> n])

FromL3(domains) == AddAll(Bundles(domains))

\* from_system(DefaultNumaPolicy, respect)
FromSystem(m, respect) ==
    LET domains == L3Scan(m, respect)
    IN  IF domains = <<>> THEN FromSystemNodes(m, respect)
        ELSE [RemoveEmpty(FromL3(domains)) EXCEPT !.custom = ~respect]

\* Sets listed without a processor do not count; one processor listed in two
\* of them ends the program.
FromStringFails(sets) == \E i, j \in DOMAIN sets : i # j /\ sets[i] \cap sets[j] # {}
FromString(sets) == [AddAll(NonEmpty(sets)) EXCEPT !.custom = TRUE]

RequiresReplication(cfg) == cfg.custom \/ \E n \in DOMAIN cfg.nodes : n # 1

\* 0.6 of the largest node and less is small.
SuggestsBinding(cfg, threads) ==
    LET largest == Max({Cardinality(cpus) : cpus \in Range(cfg.nodes)})
        notSmall == {n \in DOMAIN cfg.nodes : 10 * Cardinality(cfg.nodes[n]) > 6 * largest}
    IN  \/ cfg.custom
        \/ /\ threads > 1
           /\ threads > largest \div 2 \/ threads >= 4 * Cardinality(notSmall)
           /\ Len(cfg.nodes) > 1

\* Each thread goes to the first node that is filled least with it.
Occupation(ns, n) == Cardinality({t \in DOMAIN ns : ns[t] = n})

\* Node n with one more thread, compared with node k.
Fuller(cfg, ns, n, k) ==
    (Occupation(ns, n) + 1) * Cardinality(cfg.nodes[k]) > (Occupation(ns, k) + 1) * Cardinality(cfg.nodes[n])
BestNode(cfg, ns) == Min({n \in DOMAIN cfg.nodes : \A k \in DOMAIN cfg.nodes : ~Fuller(cfg, ns, n, k)})

Distribute(cfg, threads) ==
    IF Len(cfg.nodes) = 1 THEN [t \in 1 .. threads |-> 1]
    ELSE FoldLeft(LAMBDA ns, t : Append(ns, BestNode(cfg, ns)), <<>>, [t \in 1 .. threads |-> t])

\* bind_current_thread_to_numa_node finds a processor it may run on.
Bindable(cfg, n) == Node(cfg, n) \cap machine.cpus # {}

-----------------------------------------------------------------------------
(* ThreadPool::set.                                                        *)

DoBindThreads(cfg, option, threads) ==
    CASE option.word = "none" -> FALSE
      [] option.word = "auto" -> SuggestsBinding(cfg, threads)
      [] OTHER -> TRUE

NextPowerOfTwo(n) ==
    FoldLeft(LAMBDA p, k : IF p >= n THEN p ELSE 2 * p, 1, [k \in 1 .. n |-> k])

\* The threads on nodes ns, each with its place among those of its node.  The
\* mutant counts the threads created so far, not those of the node.
PlacedSoFar(ns) ==
    [t \in DOMAIN ns |-> [node |-> ns[t], idx |-> t - 1, total |-> Occupation(ns, ns[t])]]

Placed(ns) ==
    [t \in DOMAIN ns |-> [node |-> ns[t],
                          idx |-> Cardinality({u \in 1 .. (t - 1) : ns[u] = ns[t]}),
                          total |-> Occupation(ns, ns[t])]]

Histories(ns) == [n \in Range(ns) |-> HistoryBase * NextPowerOfTwo(Occupation(ns, n))]

\* The entries a thread fills when it is cleared.
ClearRange(th) ==
    LET size == sharedHists[th.node]
    IN  {e \in 0 .. (size - 1) :
            /\ e >= (th.idx * size) \div th.total
            /\ th.idx + 1 # th.total => e < ((th.idx + 1) * size) \div th.total}

-----------------------------------------------------------------------------
(* LazyNumaReplicatedSystemWide<Networks>.                                 *)

None == [net |-> "none", on |-> 0]
Half == [net |-> "half", on |-> 0]
Replica(net, n) == [net |-> net, on |-> n]

\* prepare_replicate_from: the first instance, room for the others.
Room(cfg) == IF RequiresReplication(cfg) THEN DOMAIN cfg.nodes ELSE {1}
PrepareFrom(net, cfg) == [n \in Room(cfg) |-> IF n = 1 THEN Replica(net, 1) ELSE None]

\* on_numa_config_changed, and modify_and_replicate with what it made of the
\* first instance.
Changed(cfg) == PrepareFrom(replicas[1].net, cfg)
Modified(net) == PrepareFrom(net, config)

\* ensure_present for one thread after the other, none of them at work.
EnsureEach(instances, threads) ==
    [n \in DOMAIN instances |->
        IF instances[n] = None /\ \E t \in DOMAIN threads : threads[t].node = n
        THEN Replica(instances[1].net, n) ELSE instances[n]]

-----------------------------------------------------------------------------
(* The commands.  They wait for the search, so nobody works before them.   *)

\* All threads start on a job that needs the networks.
AllBegin(job, threads) ==
    /\ pc' = [t \in DOMAIN threads |-> "check"]
    /\ torn' = {}
    /\ task' = job

Command == task = "rest" /\ commands < MaxCommands /\ commands' = commands + 1

Exit ==
    /\ task' = "exited"
    /\ UNCHANGED <<machine, config, pool, bound, sharedHists, replicas, pc, torn, loaded>>

\* ThreadPool::set with the instances it finds: each constructor looks for its
\* replica, and then all threads are cleared together.
Set(cfg, option, threads, instances) ==
    LET bind == DoBindThreads(cfg, option, threads)
        ns == IF bind THEN Distribute(cfg, threads) ELSE [t \in 1 .. threads |-> 1]
    IN  IF bind /\ \E t \in DOMAIN ns : ~Bindable(cfg, ns[t])
        THEN Exit
        ELSE /\ pool' = Placed(ns)
             /\ bound' = bind
             /\ sharedHists' = Histories(ns)
             /\ replicas' = EnsureEach(instances, Placed(ns))
             /\ config' = cfg
             /\ AllBegin("clear", ns)
             /\ UNCHANGED <<machine, loaded>>

Configured(m, option) ==
    CASE option.word \in {"auto", "system"} -> FromSystem(m, TRUE)
      [] option.word = "hardware" -> FromSystem(m, FALSE)
      [] option.word = "none" -> AddCpus(Empty, 1, Processors(m))
      [] OTHER -> FromString(option.sets)

\* set_numa_config_from_option: a new configuration, the networks replicated
\* from the first instance, and new threads.
SetPolicy(option) ==
    /\ Command
    /\ policy' = option /\ UNCHANGED requested
    /\ IF option.word = "list" /\ FromStringFails(option.sets) THEN Exit
       ELSE LET cfg == Configured(machine, option)
            IN  IF RequiresReplication(cfg) /\ ~Bindable(cfg, 1) THEN Exit
                ELSE Set(cfg, option, requested, Changed(cfg))

SetThreads(n) ==
    /\ Command
    /\ requested' = n /\ UNCHANGED policy
    /\ Set(config, policy, n, replicas)

\* load_big_network, load_small_network: the threads are cleared together
\* before each of them is asked to find its replica.
LoadNetwork ==
    /\ Command
    /\ loaded' = IF replicas[1].net = "first" THEN "second" ELSE "first"
    /\ replicas' = Modified(loaded')
    /\ AllBegin("clear", pool)
    /\ UNCHANGED <<machine, policy, requested, config, pool, bound, sharedHists>>

\* save_network replicates what it has saved.
SaveNetwork ==
    /\ Command
    /\ replicas' = Modified(replicas[1].net)
    /\ UNCHANGED <<machine, policy, requested, config, pool, bound, sharedHists, pc, torn, task, loaded>>

NewGame ==
    /\ Command
    /\ AllBegin("clear", pool)
    /\ UNCHANGED <<machine, policy, requested, config, pool, bound, sharedHists, replicas, loaded>>

Go ==
    /\ Command
    /\ AllBegin("search", pool)
    /\ UNCHANGED <<machine, policy, requested, config, pool, bound, sharedHists, replicas, loaded>>

-----------------------------------------------------------------------------
(* networks[token] in a thread t, while the other threads do the same.     *)

Keep == UNCHANGED <<machine, policy, requested, config, pool, bound, sharedHists, loaded, commands>>
GoOn(t, step) == pc' = [pc EXCEPT ![t] = step]
Instance(t) == replicas[pool[t].node]
MutexIsFree == \A t \in DOMAIN pc : pc[t] # "make"

\* The look at the instance without the mutex.  While it is being assigned the
\* look may see either, and what it then reads is not yet there.
CheckPresent(t) ==
    /\ pc[t] = "check"
    /\ \/ Instance(t) # None /\ GoOn(t, "read")
          /\ torn' = IF Instance(t) = Half THEN torn \cup {t} ELSE torn
       \/ Instance(t) \in {None, Half} /\ GoOn(t, "lock") /\ UNCHANGED torn
    /\ Keep /\ UNCHANGED <<replicas, task>>

\* Under the mutex the thread looks again.  The mutant does not.
LockUnchecked(t) ==
    /\ pc[t] = "lock" /\ MutexIsFree
    /\ GoOn(t, "make") /\ replicas' = [replicas EXCEPT ![pool[t].node] = Half]
    /\ Keep /\ UNCHANGED <<torn, task>>

Lock(t) ==
    /\ pc[t] = "lock" /\ MutexIsFree
    /\ IF Instance(t) # None THEN GoOn(t, "read") /\ UNCHANGED replicas
       ELSE GoOn(t, "make") /\ replicas' = [replicas EXCEPT ![pool[t].node] = Half]
    /\ Keep /\ UNCHANGED <<torn, task>>

\* A copy of the first instance, made on the node.
Make(t) ==
    /\ pc[t] = "make"
    /\ replicas' = [replicas EXCEPT ![pool[t].node] = Replica(replicas[1].net, pool[t].node)]
    /\ GoOn(t, "read")
    /\ Keep /\ UNCHANGED <<torn, task>>

\* The thread is done with the networks; the last one ends the task.
Done(t) ==
    /\ pc[t] = "read"
    /\ GoOn(t, "idle")
    /\ torn' = torn \ {t}
    /\ task' = IF \A u \in DOMAIN pc \ {t} : pc[u] = "idle" THEN "rest" ELSE task
    /\ Keep /\ UNCHANGED replicas

\* The engine is given no more commands, or has exited.
Stopped ==
    /\ task = "exited" \/ (task = "rest" /\ commands = MaxCommands)
    /\ UNCHANGED numaVars

\* Engine's constructor: NumaPolicy is auto and Threads is 1.  A process that
\* cannot bind to its first node does not get as far as this.
NumaInit ==
    /\ machine \in Machines
    /\ policy = [word |-> "auto", sets |-> <<>>] /\ requested = 1
    /\ config = FromSystem(machine, TRUE)
    /\ RequiresReplication(config) => Bindable(config, 1)
    /\ pool = Placed(<<1>>) /\ bound = FALSE /\ sharedHists = Histories(<<1>>)
    /\ replicas = PrepareFrom("first", config)
    /\ pc = <<"idle">> /\ torn = {} /\ task = "rest"
    /\ loaded = "first" /\ commands = 0

NumaNext ==
    \/ \E option \in Policies : SetPolicy(option)
    \/ \E n \in ThreadCounts : SetThreads(n)
    \/ LoadNetwork \/ SaveNetwork \/ NewGame \/ Go
    \/ \E t \in DOMAIN pc : CheckPresent(t) \/ Lock(t) \/ Make(t) \/ Done(t)
    \/ Stopped

NumaSpec == NumaInit /\ [][NumaNext]_numaVars

-----------------------------------------------------------------------------
(* Properties.                                                             *)

\* What a thread reads through its token is the replica of its own node and of
\* the networks loaded last, whoever made it, and nobody replaces it meanwhile.
\* A read of an instance while it is assigned is left to NoTornRead.
ReplicasAreCurrent ==
    \A t \in DOMAIN pc \ torn :
        pc[t] = "read" => Instance(t) = Replica(loaded, pool[t].node)

\* "Check again for races": with the second look, under the mutex, no thread
\* reads an instance that another one is assigning.
NoTornRead == torn = {}

(* The nodes follow the machine.                                           *)

FromMachine == policy.word \in {"auto", "system", "hardware"}
Respected == policy.word # "hardware"
SystemNodes(cpus) == {SystemNodeOf(machine, c) : c \in cpus}
Shares(cpus) == {machine.l3[c] \cap Allowed(machine, Respected) : c \in cpus} \ {{}}

\* All caches, and those whose files come before the first that is missing.
Caches == Shares(DOMAIN machine.l3)
Domains == Shares({c \in DOMAIN machine.l3 : 0 .. c \subseteq DOMAIN machine.l3})

\* No node is empty and no processor is in two.
NodesAreApart ==
    /\ \A n \in DOMAIN config.nodes : config.nodes[n] # {}
    /\ \A n, k \in DOMAIN config.nodes : n # k => config.nodes[n] \cap config.nodes[k] = {}

\* If no cache is found, or every processor up to the last has its file, all the
\* allowed ones are in a node; processors that share a cache are in one, no node
\* has processors of two system nodes, one with several caches is no larger than
\* a bundle, and no two neighbours in a system node would fit into one.
NodesHoldCaches ==
    FromMachine =>
        /\ Domains = {} \/ 0 .. Max(machine.cpus) \subseteq DOMAIN machine.l3 =>
               UNION Range(config.nodes) = Allowed(machine, Respected)
        /\ \A cpus \in Range(config.nodes) :
               /\ Cardinality(SystemNodes(cpus)) = 1
               /\ \A d \in Caches : d \subseteq cpus \/ d \cap cpus = {}
               /\ Cardinality(cpus) > BundleSize /\ Domains # {} => cpus \in Domains
        /\ Domains # {} =>
               \A n \in 1 .. (Len(config.nodes) - 1) :
                   LET both == config.nodes[n] \cup config.nodes[n + 1]
                   IN  Cardinality(SystemNodes(both)) = 1 => Cardinality(both) > BundleSize

\* No thread would fill another node less than the one it is bound to.
ThreadsAreSpread ==
    LET On(n) == Cardinality({t \in DOMAIN pool : pool[t].node = n})
        Size(n) == Cardinality(config.nodes[n])
    IN  bound => \A n, k \in DOMAIN config.nodes : On(n) * Size(k) <= (On(k) + 1) * Size(n)

\* The threads of a node fill all of its shared histories, each a part of its own.
HistoriesArePartitioned ==
    \A n \in {th.node : th \in Range(pool)} :
        LET on == {t \in DOMAIN pool : pool[t].node = n}
        IN  /\ n \in DOMAIN sharedHists /\ n \in DOMAIN replicas
            /\ UNION {ClearRange(pool[t]) : t \in on} = 0 .. (sharedHists[n] - 1)
            /\ \A t, u \in on : ClearRange(pool[t]) # {}
                                /\ (t # u => ClearRange(pool[t]) \cap ClearRange(pool[u]) = {})

\* Nodes, threads and histories as the caches of the machine, the option and
\* the number of threads would have them, after every command.
PoolFollowsNodes ==
    task # "exited" => NodesAreApart /\ NodesHoldCaches /\ ThreadsAreSpread /\ HistoriesArePartitioned
=============================================================================
