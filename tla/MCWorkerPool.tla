---------------------------- MODULE MCWorkerPool ----------------------------
(***************************************************************************)
(* A small pool: two threads, one piece of work in each queue that is used.*)
(***************************************************************************)
EXTENDS WorkerPool

CONSTANTS th1, th2, j1, f1, b1
=============================================================================
