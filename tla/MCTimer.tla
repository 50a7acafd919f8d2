------------------------------ MODULE MCTimer -------------------------------
(***************************************************************************)
(* Three devices (two CPUs and the loader), each working in at most three  *)
(* slots before it detaches; each may detach in any slot before.           *)
(***************************************************************************)
EXTENDS Timer
=============================================================================
