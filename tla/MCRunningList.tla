--------------------------- MODULE MCRunningList ----------------------------
(***************************************************************************)
(* Four CPUs, four processes.  With three slots the list can be full, and  *)
(* a purge moves up to two processes; the cfg of the lookup gives it four, *)
(* so that every process that runs is listed.                              *)
(***************************************************************************)
EXTENDS RunningList

CONSTANTS c1, c2, c3, c4, p1, p2, p3, p4

MCCpus == {c1, c2, c3, c4}
MCProcs == {p1, p2, p3, p4}

(* Bound: one traversal at a time, since traversals only read.             *)
OneTraversal ==
    Cardinality({c \in Cpus : loc[c] \in {"test", "load", "deref", "reload", "call"}}) <= 1

Symmetry == Permutations(MCCpus) \cup Permutations(MCProcs)
=============================================================================
