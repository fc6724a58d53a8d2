-------------------------- MODULE MCListenRegistry --------------------------
(* Small instances of ListenRegistry for TLC. *)
EXTENDS ListenRegistry

CONSTANTS c1, i1, i2, s1, s2, s3, t1

SymNames == Permutations(Streams) \cup Permutations(Ids)
=============================================================================
