----------------------------- MODULE MlqBypass ------------------------------
(***************************************************************************)
(* MlqSystem with a history variable that counts, for each priority with a *)
(* process ready, the dispatches the others got before it.                 *)
(***************************************************************************)
EXTENDS MlqSystem

VARIABLE bypass

Dispatched == \E c \in Cpus : proc[c] = NULL /\ proc'[c] # NULL
Served(r) == Len(queue'[r]) < Len(queue[r])

(* A turn of r, or an empty queue r, begins the count of r anew *)
CountBypass ==
    bypass' = [r \in Prios |->
        IF queue'[r] = <<>> \/ Served(r) THEN 0
        ELSE IF Dispatched /\ queue[r] # <<>> THEN bypass[r] + 1
        ELSE bypass[r]]

BypassInit == Init /\ bypass = [r \in Prios |-> 0]

BypassSpec ==
    /\ BypassInit
    /\ [][Next /\ CountBypass]_<<vars, bypass>>
    /\ \A c \in Cpus : WF_<<vars, bypass>>(CpuStep(c) /\ CountBypass)

(* No priority waits for more than one turn of each of the others, a turn  *)
(* of s being MAX_PRIO - s dispatches, however often the CPUs find queues  *)
(* empty and the scan renews the slots it passes (sched.c:66-104).         *)
BoundedBypass ==
    \A r \in Prios : bypass[r] <= SumFunctionOnSet([s \in Prios |-> Budget(s)], Prios \ {r})
=============================================================================
