------------------------------ MODULE MCRegions ------------------------------
(* One process with three regions, one of which may be a pool. Sizes 1 and 2
   split, use up and merge free regions; 3 fits only what two of them leave
   when merged. A page of two addresses makes sizes that are and are not a
   multiple of it, and a pool of 3 with slots of 2 is rounded up. *)
EXTENDS KmemCache

CONSTANTS r1, r2, r3

MCProcs == {"p"}
MCRgids == {r1, r2, r3}
MCPoolIds == {r1}
MCSizes == 1..3
MCPoolSizes == {3}
MCAligns == {0, 2}

(* Bounds: nothing is claimed of a process that freed a pool in use, and at
   most two addresses have been given up to growth and replacement. *)
NoneMisused == misused = {}

FewLost ==
  \A p \in Procs :
    Cardinality((0..(mm[p].sbrk - 1)) \ (UNION {Holds(p, o) : o \in Owners} \cup FreeBytes(p))) <= 2

(* No operation compares or orders indexes. *)
Symmetry == Permutations(MCRgids \ MCPoolIds)
=============================================================================
