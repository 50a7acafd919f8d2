------------------------------- MODULE MCMlq --------------------------------
(***************************************************************************)
(* Four processes, two of the most urgent priority, on two CPUs; three     *)
(* priorities, so that turns of 3, 2 and 1 dispatches alternate.  Queues   *)
(* of two slots are full at times, and so is running_list.                 *)
(***************************************************************************)
EXTENDS MlqBypass

CONSTANTS p1, p2, p3, p4

MCProcs == {p1, p2, p3, p4}
MCPrio == (p1 :> 0) @@ (p2 :> 0) @@ (p3 :> 1) @@ (p4 :> 2)
=============================================================================
