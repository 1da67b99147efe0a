---------------------------- MODULE MCSharedMemory ----------------------------
(* SharedMemory with three pids, which share every number of opens.         *)
EXTENDS SharedMemory

CONSTANTS p1, p2, p3
=============================================================================
