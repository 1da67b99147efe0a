-------------------------- MODULE TranspositionTable --------------------------
(***************************************************************************)
(* One cluster of the transposition table (tt.cpp, tt.h) under one search  *)
(* thread.  A node of the search probes the cluster, is given a writer for *)
(* one of its entries, searches its children, which probe and write in     *)
(* their turn, and then writes through its writer: what the entry holds by *)
(* then may be of another position and of another worth.                   *)
(*                                                                         *)
(* Bytes wrap at Byte and the generation is counted in steps of Delta, the *)
(* low bits below Delta being the node type and the bound of an entry.     *)
(***************************************************************************)
EXTENDS Integers, Sequences

CONSTANTS Keys,            \* low 16 bits of the keys that fall into the cluster
          ClusterSize,
          Byte, Delta,     \* 256 and GENERATION_DELTA
          Depths,          \* depth8 of what is saved: 0 is an empty entry
          LowBits,         \* is_pv * 4 + bound
          TTMoves, MoveNone,
          MaxSearches,     \* bound of the model: searches since the last clear
          MaxWriters       \* bound of the model: nodes with a writer

Slots == 1 .. ClusterSize
Cycle == Byte \div Delta
Exact(low) == low % 4 = 3
PvBit(low) == low \div 4

ASSUME TableAssumption ==
    /\ ClusterSize \in Nat \ {0} /\ MaxWriters \in Nat /\ MaxSearches \in Nat
    /\ Delta \in Nat \ {0} /\ Byte \in Nat \ {0}
    /\ Keys \subseteq Nat /\ Depths \subseteq Nat \ {0} /\ LowBits \subseteq 0 .. (Delta - 1)
    /\ MoveNone \notin TTMoves

VARIABLES
    entry,     \* the entries of the cluster
    gen8,      \* generation8
    writers,   \* writers of the nodes being searched, innermost last
    search,    \* history: searches since the last clear
    born,      \* history: the search in which an entry was last overwritten
    source     \* history: the keys its data and its move were saved for

ttVars == <<entry, gen8, writers, search, born, source>>

Entry == [key : Nat, depth : Nat, gb : Nat, move : TTMoves \cup {MoveNone}]
Zero == [key |-> 0, depth |-> 0, gb |-> 0, move |-> MoveNone]

Cleared ==
    /\ entry' = [s \in Slots |-> Zero]
    /\ gen8' = 0
    /\ search' = 0
    /\ born' = [s \in Slots |-> 0]
    /\ source' = [s \in Slots |-> [data |-> 0, move |-> 0]]

TTInit ==
    /\ entry = [s \in Slots |-> Zero]
    /\ gen8 = 0 /\ search = 0
    /\ writers = <<>>
    /\ born = [s \in Slots |-> 0]
    /\ source = [s \in Slots |-> [data |-> 0, move |-> 0]]

-----------------------------------------------------------------------------
Occupied(e) == e.depth # 0

\* Age of an entry in steps of Delta.  The Delta - 1 that is added keeps the
\* low bits of gb from borrowing of the generation.
Masked(n) == ((n % Byte) \div Delta) * Delta
RelativeAgeBorrowing(g, gb) == Masked(Byte + g - gb)
RelativeAge(g, gb) == Masked(Byte + Delta - 1 + g - gb)

Worth(e) == e.depth - RelativeAge(gen8, e.gb)

\* The slot probe returns: the first with the key, or else the first of the
\* least worth.
Matching(k) == {s \in Slots : entry[s].key = k}

First(S) == CHOOSE s \in S : \A u \in S : s <= u

LeastWorth == First({s \in Slots : \A u \in Slots : Worth(entry[s]) <= Worth(entry[u])})

ProbedSlot(k) == IF Matching(k) # {} THEN First(Matching(k)) ELSE LeastWorth

Probe(k) ==
    /\ search > 0 /\ Len(writers) < MaxWriters
    /\ writers' = Append(writers, [key |-> k, slot |-> ProbedSlot(k)])
    /\ UNCHANGED <<entry, gen8, search, born, source>>

-----------------------------------------------------------------------------
\* TTEntry::save.  The old move is preserved if there is no new one.
MoveOfAnyone(e, k, m) == IF m # MoveNone THEN m ELSE e.move
SavedMove(e, k, m) == IF m # MoveNone \/ k # e.key THEN m ELSE e.move

\* Less valuable entries are overwritten.
Overwrites(e, k, d, low) ==
    \/ Exact(low) \/ k # e.key
    \/ d + 2 * PvBit(low) > e.depth - 4
    \/ RelativeAge(gen8, e.gb) # 0

\* A node writes, as often as it likes, through the writer it has.
Write(d, low, m) ==
    /\ writers # <<>>
    /\ LET k == writers[Len(writers)].key
           s == writers[Len(writers)].slot
           e == entry[s]
           over == Overwrites(e, k, d, low)
           move == SavedMove(e, k, m)
       IN  /\ entry' = [entry EXCEPT ![s] =
                IF over THEN [key |-> k, depth |-> d, gb |-> gen8 + low, move |-> move]
                ELSE [e EXCEPT !.move = move]]
           /\ born' = [born EXCEPT ![s] = IF over THEN search ELSE @]
           /\ source' = [source EXCEPT ![s] =
                [data |-> IF over THEN k ELSE @.data,
                 move |-> IF m # MoveNone THEN k ELSE @.move]]
    /\ UNCHANGED <<gen8, writers, search>>

\* The node returns.
NodeReturns ==
    /\ writers # <<>>
    /\ writers' = SubSeq(writers, 1, Len(writers) - 1)
    /\ UNCHANGED <<entry, gen8, search, born, source>>

\* A root search starts; the generation is a byte.
NextGen == (gen8 + Delta) % Byte

NewSearch ==
    /\ writers = <<>> /\ search < MaxSearches
    /\ gen8' = NextGen
    /\ search' = search + 1
    /\ UNCHANGED <<entry, writers, born, source>>

\* ucinewgame, or a resize: no search runs.
Clear ==
    /\ writers = <<>>
    /\ Cleared
    /\ UNCHANGED writers

TTNext ==
    \/ \E k \in Keys : Probe(k)
    \/ \E d \in Depths : \E low \in LowBits : \E m \in TTMoves \cup {MoveNone} : Write(d, low, m)
    \/ NodeReturns \/ NewSearch \/ Clear

TTSpec == TTInit /\ [][TTNext]_ttVars

-----------------------------------------------------------------------------
(* Properties.                                                             *)

\* Types; in particular generation and bound share one byte.
TypeOK ==
    /\ entry \in [Slots -> Entry]
    /\ \A s \in Slots : entry[s].gb \in 0 .. (Byte - 1)
    /\ gen8 \in 0 .. (Byte - 1)
    /\ writers \in Seq([key : Keys, slot : Slots])
    /\ search \in Nat /\ born \in [Slots -> Nat]
    /\ source \in [Slots -> [data : Nat, move : Nat]]

\* "Each non-empty TTEntry contains information on exactly one position":
\* under one thread, data and move of an entry are of saves for its key,
\* although writers are used long after the probe that gave them.
EntryIsOnePosition ==
    \A s \in Slots : Occupied(entry[s]) =>
        /\ source[s].data = entry[s].key
        /\ entry[s].move # MoveNone => source[s].move = entry[s].key

\* "The entry age [is calculated] correctly even after generation8
\* overflows": it is the number of searches since the entry was written, up
\* to the length of the cycle.
AgeIsTrue ==
    \A s \in Slots : Occupied(entry[s]) =>
        RelativeAge(gen8, entry[s].gb) = Delta * ((search - born[s]) % Cycle)
=============================================================================
