-------------------------------- MODULE MCOs --------------------------------
(***************************************************************************)
(* Three processes on two CPUs, slices of two slots.  p1 and p3, of which  *)
(* p3 is less urgent, end inside their second slice, p2 at the end of its  *)
(* first.  p1 and p2 can end in the slot in which the loader adds p3.      *)
(***************************************************************************)
EXTENDS Os

CONSTANTS p1, p2, p3, c1, c2

MCProcs == {p1, p2, p3}
MCPrio == (p1 :> 0) @@ (p2 :> 0) @@ (p3 :> 1)
MCSize == (p1 :> 3) @@ (p2 :> 2) @@ (p3 :> 3)
MCStart == (p1 :> 0) @@ (p2 :> 1) @@ (p3 :> 3)
MCLoad == <<p1, p2, p3>>
MCCpus == {c1, c2}
MCDevs == MCCpus \cup {LOADER}
=============================================================================
