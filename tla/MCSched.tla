------------------------------ MODULE MCSched -------------------------------
(***************************************************************************)
(* Three processes of two of the three priorities, and two CPUs, so that a *)
(* scan skips empty queues, wraps around and finds all of them empty.      *)
(***************************************************************************)
EXTENDS Sched

CONSTANTS p1, p2, p3

MCProcs == {p1, p2, p3}
MCPrio == (p1 :> 0) @@ (p2 :> 2) @@ (p3 :> 2)
=============================================================================
