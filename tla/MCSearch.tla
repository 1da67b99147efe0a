------------------------------ MODULE MCSearch ------------------------------
(* A tree of three plies whose second one branches, beside a cluster of the  *)
(* table its nodes write: two entries, three keys (one of them 0, as in an   *)
(* empty entry) and a generation that comes round after three searches.      *)
(* A behaviour is of the tree or of the cluster: without a search stack      *)
(* there is no tree.                                                         *)
EXTENDS Search, TranspositionTable

CONSTANTS e4, d4

Branching == [p \in 0 .. 3 |-> IF p = 1 THEN {e4, d4} ELSE {e4}]
Captures == [p \in 0 .. 3 |-> IF p < 2 THEN {e4} ELSE {}]

NoTree == /\ stack = <<>> /\ ret = NoValue /\ pos = <<>> /\ acc = <<>> /\ ss = <<>>
          /\ nmpMinPly = 0 /\ stop = FALSE /\ effects = {}

MCInit ==
    /\ TTInit
    /\ NoTree \/ Init

InTree == ss # <<>>
MCNext ==
    \/ ~InTree /\ TTNext /\ UNCHANGED vars
    \/ InTree /\ Next /\ UNCHANGED ttVars

MCSpec == MCInit /\ [][MCNext]_<<ttVars, vars>>
=============================================================================
