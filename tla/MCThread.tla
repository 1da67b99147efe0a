------------------------------ MODULE MCThread ------------------------------
(* Thread with the two callers it has in the program: the UCI thread, which *)
(* owns it, and the main search thread, which starts and awaits helpers.    *)
EXTENDS Thread
CONSTANTS Uci, MainSearch, W, ClearJob
=============================================================================
