----------------------------- MODULE MCPageTable -----------------------------
(* Two processes with tables of two words in three levels. Page 7 shares only
   the root with pages 1 and 2, which share all tables but the last and are
   also filled in one call. Entries look like numbers of tables. With all pages
   set there are fifteen tables: six and a kernel directory for each process,
   and the directory of main. *)
EXTENDS PageTable

CONSTANTS p1, p2

MCProcs == {p1, p2}
MCSetPages == {1, 7}
MCEntries == {1, 2}

Symmetry == Permutations(MCProcs)
=============================================================================
