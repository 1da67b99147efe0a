----------------------------- MODULE UciDialogue -----------------------------
(***************************************************************************)
(* What the engine promises to a GUI about searches: one bestmove for each *)
(* `go`, none before `stop` or `ponderhit` while it has to wait for them,  *)
(* and none withheld after that.  Engine implements it.                    *)
(***************************************************************************)
CONSTANTS Limits, None

VARIABLES search,     \* the limits of the search in progress, or None
          pondering,  \* it waits for ponderhit
          stopped     \* it was told to stop

vars == <<search, pondering, stopped>>

Init == search = None /\ pondering = FALSE /\ stopped = FALSE

Go ==
    /\ search = None
    /\ \E l \in Limits : search' = l /\ pondering' = l.ponder
    /\ stopped' = FALSE

Stop ==
    /\ search # None
    /\ stopped' = TRUE
    /\ UNCHANGED <<search, pondering>>

Ponderhit ==
    /\ search # None
    /\ pondering' = FALSE
    /\ UNCHANGED <<search, stopped>>

Released == stopped \/ ~(pondering \/ search.infinite)

Bestmove ==
    /\ search # None
    /\ Released
    /\ search' = None /\ pondering' = FALSE /\ stopped' = FALSE

Next == Go \/ Stop \/ Ponderhit \/ Bestmove

Spec == Init /\ [][Next]_vars /\ WF_vars(Bestmove)
=============================================================================
