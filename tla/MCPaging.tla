------------------------------ MODULE MCPaging ------------------------------
(* Two processes with a region each, on two frames of RAM and two of swap, a
   page being one address. Three pages may be asked for when one frame is left.
   A process that has grown to four pages with one frame evicts until swap is
   full; two processes with two pages each evict at the same time. Swap frame
   0 is read as RAM frame 0, swap frame 1 as a frame beyond the device. *)
EXTENDS Paging

CONSTANTS p1, p2

MCProcs == {p1, p2}
MCRgids == {0}
MCSizes == {1, 3}

(* Bound: the areas have five addresses in all. *)
AreasBounded == mm[p1].sbrk + mm[p2].sbrk <= 5

Symmetry == Permutations(MCProcs)
=============================================================================
