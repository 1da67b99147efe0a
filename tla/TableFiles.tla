------------------------------ MODULE TableFiles ------------------------------
(***************************************************************************)
(* The tables of the endgame files that were found, their hash table, and  *)
(* the mapping of a file at its first probe, while several threads search  *)
(* and the UCI thread may probe too (TBTables, TBFile and mapped in        *)
(* syzygy/tbprobe.cpp).                                                    *)
(***************************************************************************)
EXTENDS Integers, Sequences, FiniteSets, FiniteSetsExt, SequencesExt

CONSTANTS
    None, Codes,       \* the materials init asks for, in its order: <<white, black>>
    Pieces,      \* the number of pieces of each
    Starts,      \* [key, disk]: material keys and files [dir, code, type, state] there may be
    Boards,      \* the materials on the boards that are probed
    Paths,       \* the sequences of directories SyzygyPath may name
    Searchers,   \* threads of a search
    Uci,         \* the UCI thread
    Size,        \* 1 << 12: buckets, with Overflow = 1 more at the end
    MaxInits,    \* bound of the model: calls of init
    MaxRemovals  \* bound of the model: files that disappear

Flip(m) == <<m[2], m[1]>>
Materials == Range(Codes) \cup {Flip(m) : m \in Range(Codes)}

ASSUME TableFilesAssumption ==
    /\ Uci \notin Searchers /\ None \notin Searchers \cup {Uci}
    /\ Boards \subseteq Materials /\ Size \in Nat \ {0}
    /\ Codes \in Seq(Range(Codes)) /\ \A m \in Range(Codes) : m = <<m[1], m[2]>>
    /\ \A m \in Range(Codes) : Pieces[m] \in Nat
    /\ \A dirs \in Paths : DOMAIN dirs \subseteq Nat
    /\ \A s \in Starts :
          /\ s.key \in [Materials -> Nat \ {0}] /\ IsInjective(s.key)
          /\ \A f \in s.disk : f # None /\ f.state \in {"good", "corrupt", "truncated"}

Types == {"wdl", "dtz"}
Threads == Searchers \cup {Uci}

VARIABLES
    key,        \* material_key of a position with each material
    disk, removals,
    path,       \* TBFile::Paths, the directories in their order
    hashTable,  \* buckets: a key, and the place of its tables in the deques
    tables,     \* wdlTable and dtzTable
    largest,    \* MaxCardinality
    mappings,   \* calls of mmap without one of munmap
    mutex,      \* of mapped<WDL> and of mapped<DTZ>
    pc, probe,  \* where a thread is, and what it probes
    searching, exited, inits

files == <<disk, removals>>
registry == <<path, hashTable, largest>>
fileVars == <<key, files, registry, tables, mappings, mutex, pc, probe, searching, exited, inits>>

Empty == [key |-> 0, place |-> 0]
Home(k) == k % Size

NotProbing == [type |-> "wdl", material |-> Codes[1], place |-> 0]

FilesInit ==
    /\ \E s \in Starts : key = s.key /\ disk = s.disk
    /\ removals = 0
    /\ path = <<>>
    /\ hashTable = [b \in 0 .. Size |-> Empty]
    /\ tables = [type \in Types |-> <<>>]
    /\ largest = 0 /\ mappings = 0
    /\ mutex = [type \in Types |-> None]
    /\ pc = [t \in Threads |-> "idle"]
    /\ probe = [t \in Threads |-> NotProbing]
    /\ searching = FALSE /\ exited = FALSE /\ inits = 0

(* ---- the registry ---------------------------------------------------------- *)

\* TBFile: the file of the first directory that has one.
Places(code, type, dirs) ==
    {i \in DOMAIN dirs : \E f \in disk : f.dir = dirs[i] /\ f.code = code /\ f.type = type}
Exists(code, type, dirs) == Places(code, type, dirs) # {}
FileOf(code, type, dirs) ==
    CHOOSE f \in disk : /\ f.dir = dirs[Min(Places(code, type, dirs))]
                        /\ f.code = code /\ f.type = type

\* insert, one bucket: an entry that is farther from its home takes the place.
ProbedAndLost(c, b) ==
    IF ~c.done /\ (c.hash[b].key = c.entry.key \/ c.hash[b].place = 0 \/ Home(c.hash[b].key) > c.home)
    THEN [c EXCEPT !.hash[b] = c.entry, !.done = TRUE] ELSE c
Probed(c, b) ==
    IF c.done THEN c
    ELSE IF c.hash[b].key = c.entry.key \/ c.hash[b].place = 0
         THEN [c EXCEPT !.hash[b] = c.entry, !.done = TRUE]
    ELSE IF Home(c.hash[b].key) > c.home
         THEN [c EXCEPT !.hash[b] = c.entry, !.entry = c.hash[b], !.home = Home(c.hash[b].key)]
    ELSE c

Insert(reg, k, place) ==
    LET buckets == [i \in 1 .. (Size - Home(k)) |-> Home(k) + i - 1]
        c == FoldLeft(Probed, [hash |-> reg.hash, entry |-> [key |-> k, place |-> place],
                               home |-> Home(k), done |-> FALSE], buckets)
    IN  [reg EXCEPT !.hash = c.hash, !.full = reg.full \/ ~c.done]

\* TBTable: nothing mapped yet.  base: the file in memory; set: whether the
\* description of its data has been read.
NewTable(code) == [code |-> code, ready |-> FALSE, base |-> None, set |-> FALSE]

\* add: a table of each type if there is a WDL file, under both its keys.
Added(reg, code, dirs) ==
    IF reg.full \/ ~Exists(code, "wdl", dirs) THEN reg
    ELSE LET new == [reg EXCEPT !.list = Append(reg.list, code),
                                !.largest = Max({reg.largest, Pieces[code]})]
         IN  Insert(Insert(new, key[code], Len(new.list)), key[Flip(code)], Len(new.list))

NoTables == [hash |-> [b \in 0 .. Size |-> Empty], list |-> <<>>, largest |-> 0, full |-> FALSE]

\* setoption and ucinewgame wait for the search to finish before they call init.
SearchFinished == ~searching

\* Every material of up to seven men, unless the path is empty.
Asked(dirs) == IF dirs = <<>> THEN <<>> ELSE Codes

Mapped == {e \in Types \X DOMAIN tables["wdl"] : tables[e[1]][e[2]].base # None}

\* Tablebases::init: clear, which destroys the tables and unmaps their files,
\* and add.  Nothing else runs meanwhile.
InitTables(dirs) ==
    /\ ~exited /\ inits < MaxInits
    /\ pc[Uci] = "idle" /\ SearchFinished
    /\ LET reg == FoldLeft(LAMBDA r, code : Added(r, code, dirs), NoTables, Asked(dirs))
       IN  /\ hashTable' = reg.hash /\ largest' = reg.largest /\ exited' = reg.full
           /\ tables' = [type \in Types |-> [i \in DOMAIN reg.list |-> NewTable(reg.list[i])]]
    /\ mappings' = mappings - Cardinality(Mapped)
    /\ path' = dirs /\ inits' = inits + 1
    /\ UNCHANGED <<key, files, mutex, pc, probe, searching>>

(* ---- a probe ----------------------------------------------------------------- *)

\* get: the buckets from the key's home up to the key or an empty one.
Stops(k) == {b \in Home(k) .. Size : hashTable[b].key = k \/ hashTable[b].place = 0}
Get(k) == hashTable[Min(Stops(k))].place

MayProbe(t) == IF t = Uci THEN TRUE ELSE searching

\* probe_table; larger positions are not probed, and the king pair is a draw.
StartProbe(t) ==
    /\ ~exited /\ pc[t] = "idle" /\ MayProbe(t)
    /\ \E m \in Boards, type \in Types :
          /\ Pieces[m] > 2 /\ Pieces[m] <= largest
          /\ Get(key[m]) # 0
          /\ probe' = [probe EXCEPT ![t] = [type |-> type, material |-> m, place |-> Get(key[m])]]
          /\ pc' = [pc EXCEPT ![t] = "load"]
    /\ UNCHANGED <<key, files, registry, tables, mappings, mutex, searching, exited, inits>>

EntryOf(t) == tables[probe[t].type][probe[t].place]
Goto(t, label) == pc' = [pc EXCEPT ![t] = label]
AfterMapped(t) == IF EntryOf(t).base # None THEN "read" ELSE "idle"

\* mapped: ready is read without the mutex first.
LoadedByAddress(t) == EntryOf(t).base # None
Loaded(t) == EntryOf(t).ready

Load(t) ==
    /\ pc[t] = "load" /\ ~exited
    /\ Goto(t, IF Loaded(t) THEN AfterMapped(t) ELSE "lock")
    /\ UNCHANGED <<key, files, registry, tables, mappings, mutex, probe, searching, exited, inits>>

Recheck(t) == EntryOf(t).ready

Lock(t) ==
    /\ pc[t] = "lock" /\ ~exited
    /\ mutex[probe[t].type] = None
    /\ IF Recheck(t) THEN Goto(t, AfterMapped(t)) /\ UNCHANGED mutex
       ELSE Goto(t, "open") /\ mutex' = [mutex EXCEPT ![probe[t].type] = t]
    /\ UNCHANGED <<key, files, registry, tables, mappings, probe, searching, exited, inits>>

\* The file's name, from the pieces of the position, the stronger side first.
NameOf(t) ==
    IF key[EntryOf(t).code] = key[probe[t].material] THEN probe[t].material ELSE Flip(probe[t].material)

Update(t, entry) == tables' = [tables EXCEPT ![probe[t].type][probe[t].place] = entry]

\* TBFile::map: no file, one of a wrong size, or one in memory.
Open(t) ==
    /\ pc[t] = "open" /\ ~exited
    /\ LET name == NameOf(t)
           type == probe[t].type
           file == FileOf(name, type, path)
       IN  IF ~Exists(name, type, path)
           THEN Goto(t, "publish") /\ UNCHANGED <<tables, mappings, exited>>
           ELSE IF file.state = "truncated"
           THEN exited' = TRUE /\ UNCHANGED <<pc, tables, mappings>>
           ELSE /\ Update(t, [EntryOf(t) EXCEPT !.base = file]) /\ mappings' = mappings + 1
                /\ Goto(t, "check") /\ UNCHANGED exited
    /\ UNCHANGED <<key, files, registry, mutex, probe, searching, inits>>

\* The magic number: a corrupted table is unmapped again.
CheckMagic(t) ==
    /\ pc[t] = "check" /\ ~exited
    /\ IF EntryOf(t).base.state = "corrupt"
       THEN Update(t, [EntryOf(t) EXCEPT !.base = None]) /\ mappings' = mappings - 1 /\ Goto(t, "publish")
       ELSE Goto(t, "set") /\ UNCHANGED <<tables, mappings>>
    /\ UNCHANGED <<key, files, registry, mutex, probe, searching, exited, inits>>

\* set: the description of the table's data, from the file.
SetTable(t) ==
    /\ pc[t] = "set" /\ ~exited
    /\ Update(t, [EntryOf(t) EXCEPT !.set = TRUE])
    /\ Goto(t, "publish")
    /\ UNCHANGED <<key, files, registry, mappings, mutex, probe, searching, exited, inits>>

\* The store of ready, and the release of the mutex.
Publish(t) ==
    /\ pc[t] = "publish" /\ ~exited
    /\ Update(t, [EntryOf(t) EXCEPT !.ready = TRUE])
    /\ mutex' = [mutex EXCEPT ![probe[t].type] = None]
    /\ Goto(t, AfterMapped(t))
    /\ UNCHANGED <<key, files, registry, mappings, probe, searching, exited, inits>>

\* do_probe_table, up to its answer.
Read(t) ==
    /\ pc[t] = "read" /\ ~exited
    /\ Goto(t, "idle") /\ probe' = [probe EXCEPT ![t] = NotProbing]
    /\ UNCHANGED <<key, files, registry, tables, mappings, mutex, searching, exited, inits>>

(* ---- searches and the disk ----------------------------------------------------- *)

Go == ~searching /\ ~exited /\ pc[Uci] = "idle" /\ searching' = TRUE
      /\ UNCHANGED <<key, files, registry, tables, mappings, mutex, pc, probe, exited, inits>>
Finish ==
    /\ searching /\ ~exited /\ \A t \in Searchers : pc[t] = "idle"
    /\ searching' = FALSE
    /\ UNCHANGED <<key, files, registry, tables, mappings, mutex, pc, probe, exited, inits>>

\* Files go away between init and a probe (external).
RemoveFile ==
    /\ removals < MaxRemovals /\ ~exited
    /\ \E f \in disk : disk' = disk \ {f}
    /\ removals' = removals + 1
    /\ UNCHANGED <<key, registry, tables, mappings, mutex, pc, probe, searching, exited, inits>>

ProbeStep(t) ==
    StartProbe(t) \/ Load(t) \/ Lock(t) \/ Open(t) \/ CheckMagic(t) \/ SetTable(t) \/ Publish(t) \/ Read(t)

FilesNext ==
    \/ \E dirs \in Paths : InitTables(dirs)
    \/ \E t \in Threads : ProbeStep(t)
    \/ Go \/ Finish \/ RemoveFile

FilesSpec == FilesInit /\ [][FilesNext]_fileVars

(* ---- properties ---------------------------------------------------------------- *)

\* A probe reads a table that is still there, whose file is in memory, is the
\* one of its material and is not a corrupted one, and whose description has
\* been set up: neither a thread that maps it nor init is halfway.  And every
\* file in memory is one table's, which unmaps it: none is mapped twice.
ReadsWholeTable ==
    /\ mappings = Cardinality(Mapped)
    /\ \A t \in Threads : pc[t] = "read" =>
        /\ probe[t].place \in DOMAIN tables[probe[t].type]
        /\ EntryOf(t).set /\ EntryOf(t).base # None
        /\ EntryOf(t).base.code = EntryOf(t).code /\ EntryOf(t).base.state = "good"
        /\ probe[t].material \in {EntryOf(t).code, Flip(EntryOf(t).code)}

\* Unless the hash table was too small, each table that init found is found
\* under both its keys, no other material is, and every lookup ends.
TablesAreFound ==
    ~exited => \A m \in Materials :
        /\ Stops(key[m]) # {}
        /\ IF \E i \in DOMAIN tables["wdl"] : tables["wdl"][i].code \in {m, Flip(m)}
           THEN /\ Get(key[m]) \in DOMAIN tables["wdl"]
                /\ tables["wdl"][Get(key[m])].code \in {m, Flip(m)}
           ELSE Get(key[m]) = 0
=============================================================================
