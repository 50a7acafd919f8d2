-------------------------------- MODULE Mlq ---------------------------------
(***************************************************************************)
(* The multi-level queue scheduler of sched.c, its data and the effect of  *)
(* each of its operations.  An operation holds queue_lock from its first   *)
(* access to this data to its last, so it is one action here; Sched.tla    *)
(* takes get_mlq_proc apart, and MlqSystem.tla and Os.tla call the         *)
(* operations from the CPUs and the loader.                                *)
(***************************************************************************)
EXTENDS Integers, SequencesExt

CONSTANTS Procs,           (* the processes the loader will load            *)
          Prio,            (* the prio field of each                        *)
          MAX_PRIO,        (* the number of priorities, 0 the most urgent   *)
          MAX_QUEUE_SIZE   (* the length of the array of a queue_t          *)

ASSUME MlqAssumption ==
    /\ MAX_PRIO \in Nat \ {0}
    /\ MAX_QUEUE_SIZE \in Nat \ {0}
    /\ Prio \in [Procs -> 0..(MAX_PRIO - 1)]

Prios == 0..(MAX_PRIO - 1)

VARIABLES queue,         (* mlq_ready_queue                                 *)
          running_list,  (* the processes that a CPU holds                  *)
          curr_prio,     (* the priority whose turn it is                   *)
          curr_slot      (* how many more processes it may dispatch         *)

mlqVars == <<queue, running_list, curr_prio, curr_slot>>

NextPrio(r) == (r + 1) % MAX_PRIO

(* The slots of a priority when its turn begins *)
Budget(r) == MAX_PRIO - r

(* The queues and running_list hold processes, and the turn is a priority with
   between one slot and its full budget left. *)
MlqTypeOK ==
    /\ queue \in [Prios -> Seq(Procs)]
    /\ running_list \in Seq(Procs)
    /\ curr_prio \in Prios
    /\ curr_slot \in 1..Budget(curr_prio)

MlqInit ==
    /\ queue = [r \in Prios |-> <<>>]
    /\ running_list = <<>>
    /\ curr_prio = 0
    /\ curr_slot = Budget(0)
-----------------------------------------------------------------------------
(* Fault: the last slot of the array is never used *)
FaultEnqueueEarly(q, p) == IF Len(q) >= MAX_QUEUE_SIZE - 1 THEN q ELSE Append(q, p)

(* A full queue takes nothing, and nobody is told *)
Enqueue(q, p) == IF Len(q) >= MAX_QUEUE_SIZE THEN q ELSE Append(q, p)

(* How many priorities the scan of get_mlq_proc passes before it is at r *)
Distance(r) == (r - curr_prio) % MAX_PRIO

(* Fault: the scan starts at the most urgent priority, whoever's turn it is *)
FaultMostUrgent(r) == queue[r] # <<>> /\ \A s \in Prios : s < r => queue[s] = <<>>

(* The scan stops at r: the first non-empty queue from curr_prio on *)
InTurn(r) ==
    /\ queue[r] # <<>>
    /\ \A s \in Prios : Distance(s) < Distance(r) => queue[s] = <<>>

(* Priority r has dispatched a process of the slots it had *)
SpendSlot(r, slots) ==
    IF slots > 1
    THEN curr_prio' = r /\ curr_slot' = slots - 1
    ELSE curr_prio' = NextPrio(r) /\ curr_slot' = Budget(NextPrio(r))

(* get_proc returns p *)
Dispatch(p) ==
    LET r == Prio[p] IN
    /\ InTurn(r)
    /\ p = Head(queue[r])
    /\ queue' = [queue EXCEPT ![r] = Tail(@)]
    /\ running_list' = Enqueue(running_list, p)
    /\ SpendSlot(r, IF r = curr_prio THEN curr_slot ELSE Budget(r))

(* get_proc returns NULL: the scan came back to curr_prio and gave it all  *)
(* its slots again                                                         *)
NothingReady ==
    /\ \A r \in Prios : queue[r] = <<>>
    /\ curr_slot' = Budget(curr_prio)
    /\ UNCHANGED <<queue, running_list, curr_prio>>

(* Fault: put_proc leaves the process in running_list *)
FaultRequeueKeeps(p) ==
    /\ queue' = [queue EXCEPT ![Prio[p]] = Enqueue(@, p)]
    /\ UNCHANGED <<running_list, curr_prio, curr_slot>>

(* Fault: put_proc puts the process at the head of its queue *)
FaultRequeueFront(p) ==
    /\ running_list' = RemoveFirst(running_list, p)
    /\ queue' = [queue EXCEPT ![Prio[p]] = <<p>> \o @]
    /\ UNCHANGED <<curr_prio, curr_slot>>

(* put_proc *)
Requeue(p) ==
    /\ running_list' = RemoveFirst(running_list, p)
    /\ queue' = [queue EXCEPT ![Prio[p]] = Enqueue(@, p)]
    /\ UNCHANGED <<curr_prio, curr_slot>>

(* add_proc *)
Admit(p) ==
    /\ queue' = [queue EXCEPT ![Prio[p]] = Enqueue(@, p)]
    /\ UNCHANGED <<running_list, curr_prio, curr_slot>>

(* finish_proc *)
Retire(p) ==
    /\ running_list' = RemoveFirst(running_list, p)
    /\ UNCHANGED <<queue, curr_prio, curr_slot>>
=============================================================================
