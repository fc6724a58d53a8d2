---------------------------- MODULE MCTaskStore ----------------------------
(* Small instances of TaskStore for TLC. *)
EXTENDS TaskStore, TLC

CONSTANTS t1, t2, t3, o1, o2, k1, k2, w1, w2, th1, th2
============================================================================
