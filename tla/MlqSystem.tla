----------------------------- MODULE MlqSystem ------------------------------
(***************************************************************************)
(* The scheduler with the CPUs that get, put back and finish processes and *)
(* the loader that adds them, in any order their lock allows.  This is the *)
(* contract of sched.c: Sched.tla implements it, loop and lock included.   *)
(***************************************************************************)
EXTENDS Mlq, FiniteSets

CONSTANTS Cpus, NULL

ASSUME MlqSystemAssumption == NULL \notin Procs

(* An array is long enough for the processes of a priority, and running_list  *)
(* for those of all CPUs: the code checks neither (queue.c:17).               *)
ASSUME QueuesLongEnough ==
    /\ IsFiniteSet(Procs) /\ IsFiniteSet(Cpus)
    /\ \A r \in Prios : Cardinality({p \in Procs : Prio[p] = r}) <= MAX_QUEUE_SIZE
    /\ Cardinality(Cpus) <= MAX_QUEUE_SIZE

VARIABLES proc,      (* the local variable proc of each CPU's thread       *)
          idle,      (* CPUs that wait for the next slot: get_proc returned NULL *)
          fresh,     (* processes not yet added                            *)
          finished   (* processes that ran to their end                    *)

vars == <<mlqVars, proc, idle, fresh, finished>>

Held == {proc[c] : c \in Cpus} \ {NULL}

(* The scheduler's data have their types and a CPU holds a process or NULL. *)
TypeOK ==
    /\ MlqTypeOK
    /\ proc \in [Cpus -> Procs \cup {NULL}]
    /\ idle \subseteq Cpus
    /\ fresh \subseteq Procs
    /\ finished \subseteq Procs

Init ==
    /\ MlqInit
    /\ proc = [c \in Cpus |-> NULL]
    /\ idle = {}
    /\ fresh = Procs
    /\ finished = {}

GetProc(c) ==
    /\ proc[c] = NULL /\ c \notin idle
    /\ \E p \in Procs : Dispatch(p) /\ proc' = [proc EXCEPT ![c] = p]
    /\ UNCHANGED <<idle, fresh, finished>>

GetNull(c) ==
    /\ proc[c] = NULL /\ c \notin idle
    /\ NothingReady
    /\ idle' = idle \cup {c}
    /\ UNCHANGED <<proc, fresh, finished>>

(* The CPU's next slot begins *)
Wake(c) ==
    /\ c \in idle
    /\ idle' = idle \ {c}
    /\ UNCHANGED <<mlqVars, proc, fresh, finished>>

PutProc(c) ==
    /\ proc[c] # NULL
    /\ Requeue(proc[c])
    /\ proc' = [proc EXCEPT ![c] = NULL]
    /\ UNCHANGED <<idle, fresh, finished>>

FinishProc(c) ==
    /\ proc[c] # NULL
    /\ Retire(proc[c])
    /\ finished' = finished \cup {proc[c]}
    /\ proc' = [proc EXCEPT ![c] = NULL]
    /\ UNCHANGED <<idle, fresh>>

AddProc(p) ==
    /\ p \in fresh
    /\ Admit(p)
    /\ fresh' = fresh \ {p}
    /\ UNCHANGED <<proc, idle, finished>>

CpuStep(c) == GetProc(c) \/ GetNull(c) \/ Wake(c) \/ PutProc(c) \/ FinishProc(c)

Next ==
    \/ \E c \in Cpus : CpuStep(c)
    \/ \E p \in Procs : AddProc(p)

Spec == Init /\ [][Next]_vars

(***************************************************************************)
(* A CPU goes on: cpu_routine calls get_proc when it has no process, and   *)
(* put_proc or finish_proc when the time slice or the process is over,     *)
(* which run and next_slot bring about (Os.tla).                           *)
(***************************************************************************)
FairSpec == Spec /\ \A c \in Cpus : WF_vars(CpuStep(c))
-----------------------------------------------------------------------------
(* Properties *)

Slots(p) ==
    {s \in Prios \X (1..MAX_QUEUE_SIZE) : s[2] <= Len(queue[s[1]]) /\ queue[s[1]][s[2]] = p}
Holders(p) == {c \in Cpus : proc[c] = p}

(* A process is in exactly one place: still to be added, in the queue of   *)
(* its priority, once, with one CPU, or finished.  Two CPUs never run the  *)
(* same process and none is lost, also when a queue is filled to its last  *)
(* slot (sched.c:59-140, queue.c:12-71).                                   *)
OnePlace ==
    \A p \in Procs :
        /\ Cardinality(Slots(p)) + Cardinality(Holders(p))
             + Cardinality({p} \cap fresh) + Cardinality({p} \cap finished) = 1
        /\ \A s \in Slots(p) : s[1] = Prio[p]

(* running_list, by which a system call finds the process it is made for   *)
(* (sys_mem.c:36-46), lists the processes that the CPUs hold, each once.   *)
RunningListExact ==
    /\ ToSet(running_list) = Held
    /\ Len(running_list) = Cardinality(Held)

(* A process in a ready queue is dispatched in the end, however urgent the *)
(* processes of the other queues are (sched.c:57-108).                     *)
NoStarvation == \A p \in Procs : Slots(p) # {} ~> Holders(p) # {}
=============================================================================
