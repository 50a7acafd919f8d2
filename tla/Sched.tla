------------------------------- MODULE Sched --------------------------------
(***************************************************************************)
(* sched.c step by step: queue_lock, and the loop of get_mlq_proc one      *)
(* iteration at a time.  Only the CPU inside the loop holds the lock for   *)
(* more than one step; put_proc, add_proc and finish_proc take it, do all  *)
(* their work and release it in one step.                                  *)
(***************************************************************************)
EXTENDS Mlq

CONSTANTS Cpus, NULL

ASSUME SchedAssumption == NULL \notin Procs \cup Cpus

VARIABLES holder,     (* the CPU that holds queue_lock inside the loop, or NULL *)
          i,          (* the loop counter of get_mlq_proc                   *)
          entryPrio,  (* history: curr_prio when the lock was taken         *)
          entrySlot,  (* history: curr_slot when the lock was taken         *)
          proc, idle, fresh, finished   (* as in MlqSystem *)

callers == <<proc, idle, fresh, finished>>
loop == <<holder, i, entryPrio, entrySlot>>
vars == <<mlqVars, loop, callers>>

Free == holder = NULL

(* The scheduler's data, the lock and the local variables of get_mlq_proc have
   their types. *)
TypeOK ==
    /\ queue \in [Prios -> Seq(Procs)]
    /\ running_list \in Seq(Procs)
    /\ curr_prio \in Prios
    /\ curr_slot \in 0..MAX_PRIO
    /\ holder \in Cpus \cup {NULL}
    /\ i \in 0..MAX_PRIO
    /\ entryPrio \in Prios
    /\ entrySlot \in 0..MAX_PRIO
    /\ proc \in [Cpus -> Procs \cup {NULL}]
    /\ idle \subseteq Cpus
    /\ fresh \subseteq Procs
    /\ finished \subseteq Procs

Init ==
    /\ MlqInit
    /\ holder = NULL
    /\ i = 0
    /\ entryPrio = 0
    /\ entrySlot = MAX_PRIO
    /\ proc = [c \in Cpus |-> NULL]
    /\ idle = {}
    /\ fresh = Procs
    /\ finished = {}
-----------------------------------------------------------------------------
(* get_mlq_proc *)

(* The guards of the code keep a priority's slots from being none *)
AtLeastOne(slots) == IF slots <= 0 THEN 1 ELSE slots

(* Fault: the next priority gets the slots of the one before it *)
FaultAdvance(r) ==
    /\ curr_prio' = NextPrio(r)
    /\ curr_slot' = AtLeastOne(MAX_PRIO - r)

(* The scan moves from priority r to the next *)
Advance(r) ==
    /\ curr_prio' = NextPrio(r)
    /\ curr_slot' = AtLeastOne(MAX_PRIO - NextPrio(r))

(* The priority and the slots that an iteration looks at: an exhausted     *)
(* priority is passed before its queue is tested                           *)
ScanPrio == IF curr_slot <= 0 THEN NextPrio(curr_prio) ELSE curr_prio
ScanSlot == IF curr_slot <= 0 THEN AtLeastOne(MAX_PRIO - ScanPrio) ELSE curr_slot

EnterGet(c) ==
    /\ Free
    /\ proc[c] = NULL /\ c \notin idle
    /\ holder' = c
    /\ i' = 0
    /\ entryPrio' = curr_prio
    /\ entrySlot' = curr_slot
    /\ UNCHANGED <<mlqVars, callers>>

(* The queue of the scanned priority has a process: take it and leave *)
ScanTake(c) ==
    LET r == ScanPrio IN
    /\ holder = c
    /\ i < MAX_PRIO
    /\ queue[r] # <<>>
    /\ proc' = [proc EXCEPT ![c] = Head(queue[r])]
    /\ queue' = [queue EXCEPT ![r] = Tail(@)]
    /\ IF ScanSlot - 1 <= 0
       THEN Advance(r)
       ELSE curr_prio' = r /\ curr_slot' = ScanSlot - 1
    /\ running_list' = Enqueue(running_list, Head(queue[r]))
    /\ holder' = NULL
    /\ UNCHANGED <<i, entryPrio, entrySlot, idle, fresh, finished>>

(* Fault: the loop passes a priority without a look at its queue *)
FaultSkipBlindly(c) ==
    /\ holder = c
    /\ i < MAX_PRIO
    /\ Advance(ScanPrio)
    /\ i' = i + 1
    /\ UNCHANGED <<queue, running_list, holder, entryPrio, entrySlot, callers>>

(* Fault: the loop has no bound *)
FaultSkipForever(c) ==
    /\ holder = c
    /\ queue[ScanPrio] = <<>>
    /\ Advance(ScanPrio)
    /\ i' = i + 1
    /\ UNCHANGED <<queue, running_list, holder, entryPrio, entrySlot, callers>>

(* The queue of the scanned priority is empty: go on with the next *)
ScanSkip(c) ==
    /\ holder = c
    /\ i < MAX_PRIO
    /\ queue[ScanPrio] = <<>>
    /\ Advance(ScanPrio)
    /\ i' = i + 1
    /\ UNCHANGED <<queue, running_list, holder, entryPrio, entrySlot, callers>>

(* Fault: the loop ends one priority early *)
FaultLeaveEarly(c) ==
    /\ holder = c
    /\ i >= MAX_PRIO - 1
    /\ holder' = NULL
    /\ idle' = idle \cup {c}
    /\ UNCHANGED <<mlqVars, i, entryPrio, entrySlot, proc, fresh, finished>>

(* Every priority was scanned: return NULL *)
LeaveGet(c) ==
    /\ holder = c
    /\ i >= MAX_PRIO
    /\ holder' = NULL
    /\ idle' = idle \cup {c}
    /\ UNCHANGED <<mlqVars, i, entryPrio, entrySlot, proc, fresh, finished>>
-----------------------------------------------------------------------------
PutProc(c) ==
    /\ Free
    /\ proc[c] # NULL
    /\ Requeue(proc[c])
    /\ proc' = [proc EXCEPT ![c] = NULL]
    /\ UNCHANGED <<loop, idle, fresh, finished>>

FinishProc(c) ==
    /\ Free
    /\ proc[c] # NULL
    /\ Retire(proc[c])
    /\ finished' = finished \cup {proc[c]}
    /\ proc' = [proc EXCEPT ![c] = NULL]
    /\ UNCHANGED <<loop, idle, fresh>>

AddProc(p) ==
    /\ Free
    /\ p \in fresh
    /\ Admit(p)
    /\ fresh' = fresh \ {p}
    /\ UNCHANGED <<loop, proc, idle, finished>>

Wake(c) ==
    /\ c \in idle
    /\ idle' = idle \ {c}
    /\ UNCHANGED <<mlqVars, loop, proc, fresh, finished>>

GetStep(c) == EnterGet(c) \/ ScanTake(c) \/ ScanSkip(c) \/ LeaveGet(c)
CpuStep(c) == GetStep(c) \/ PutProc(c) \/ FinishProc(c) \/ Wake(c)

Next ==
    \/ \E c \in Cpus : CpuStep(c)
    \/ \E p \in Procs : AddProc(p)

Spec == Init /\ [][Next]_vars
-----------------------------------------------------------------------------
(* Properties *)

(* The state the comment at sched.c:57 promises: outside the loop, and at  *)
(* each iteration of it, the priority in turn has from 1 to                *)
(* MAX_PRIO - prio slots; a dispatch never finds none left.                *)
SlotsInRange == curr_slot \in 1..(MAX_PRIO - curr_prio)

(* While the loop runs, every priority it has passed is empty, and it has  *)
(* passed i of them: a full loop has seen every queue (sched.c:67).        *)
ScanProgress ==
    ~Free => \A k \in 0..(i - 1) : queue[(entryPrio + k) % MAX_PRIO] = <<>>

(* A CPU goes idle only if no process is ready anywhere: get_proc is       *)
(* work-conserving (sched.c:59-108).                                       *)
WorkConserving ==
    [][\A c \in Cpus : c \notin idle /\ c \in idle' => \A r \in Prios : queue[r] = <<>>]_vars

(* The loop and its lock implement the atomic operations of MlqSystem, the *)
(* turn moving when the loop ends (sched.c:59-204).                        *)
Contract == INSTANCE MlqSystem WITH
    curr_prio <- IF Free THEN curr_prio ELSE entryPrio,
    curr_slot <- IF Free THEN curr_slot ELSE entrySlot

ImplementsMlqSystem == Contract!Spec
=============================================================================
