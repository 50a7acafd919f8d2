---------------------------- MODULE RunningList -----------------------------
(***************************************************************************)
(* running_list as the array it is.  The scheduler's operations change it  *)
(* under queue_lock, one store at a time (queue.c); a system call of a     *)
(* process that runs on another CPU traverses it without the lock          *)
(* (sys_mem.c:36-46), one load at a time, and reads the PCBs it finds.      *)
(* The rest of the scheduler is what Mlq.tla says of it: a CPU takes a     *)
(* process that no CPU holds, and gives it up with put_proc, or with       *)
(* finish_proc and then free_proc.                                         *)
(***************************************************************************)
EXTENDS Integers, SequencesExt

CONSTANTS Cpus, Procs, NULL,
          MAX_QUEUE_SIZE

ASSUME RunningListAssumption ==
    /\ NULL \notin Cpus \cup Procs
    /\ MAX_QUEUE_SIZE \in Nat \ {0}

VARIABLES arr,    (* running_list.proc                                     *)
          size,   (* running_list.size                                     *)
          holder, (* the CPU that holds queue_lock, or NULL                *)
          loc,    (* where each CPU is                                     *)
          proc,   (* the process it holds, or NULL                         *)
          idx,    (* its loop counter, of purgequeue or of __sys_memmap; 0
                     outside them                                         *)
          slot,   (* the PCB that __sys_memmap has loaded, or NULL         *)
          ending, (* CPUs in finish_proc                                   *)
          freed,  (* processes whose PCB is free memory                    *)
          since,  (* history: those freed since the CPU last tested size   *)
          model   (* history: running_list as the sequence of Mlq.tla      *)

list == <<arr, size, model>>
life == <<ending, freed, since>>
vars == <<list, holder, loc, proc, idx, slot, life>>

(***************************************************************************)
(* A CPU has no process; is in enqueue, before the store or before size++; *)
(* runs its process; is in purgequeue, searching or shifting, or about to  *)
(* free the process; or is in a system call, before the load of size, of a *)
(* slot, of the pid behind it or of the slot again, or has its caller,     *)
(* NULL if there is none.                                                  *)
(***************************************************************************)
Locations == {"none", "store", "grow", "run", "search", "shift", "free",
              "test", "load", "deref", "reload", "call"}

(* The array, its size and the callers' places have their types; size is at most
   the array's length. *)
TypeOK ==
    /\ arr \in [0..(MAX_QUEUE_SIZE - 1) -> Procs \cup {NULL}]
    /\ size \in 0..MAX_QUEUE_SIZE
    /\ holder \in Cpus \cup {NULL}
    /\ loc \in [Cpus -> Locations]
    /\ proc \in [Cpus -> Procs \cup {NULL}]
    /\ idx \in [Cpus -> 0..MAX_QUEUE_SIZE]
    /\ slot \in [Cpus -> Procs \cup {NULL}]
    /\ ending \subseteq Cpus /\ freed \subseteq Procs
    /\ since \in [Cpus -> SUBSET freed]
    /\ model \in Seq(Procs)

Init ==
    /\ arr = [k \in 0..(MAX_QUEUE_SIZE - 1) |-> NULL]
    /\ size = 0
    /\ holder = NULL
    /\ loc = [c \in Cpus |-> "none"]
    /\ proc = [c \in Cpus |-> NULL]
    /\ idx = [c \in Cpus |-> 0]
    /\ slot = [c \in Cpus |-> NULL]
    /\ ending = {} /\ freed = {}
    /\ since = [c \in Cpus |-> {}]
    /\ model = <<>>

Goto(c, l) == loc' = [loc EXCEPT ![c] = l]
-----------------------------------------------------------------------------
(* get_mlq_proc has dequeued p and calls enqueue(&running_list, p) *)
Take(c, p) ==
    /\ loc[c] = "none" /\ holder = NULL
    /\ p \notin freed \cup {proc[d] : d \in Cpus}
    /\ proc' = [proc EXCEPT ![c] = p]
    /\ holder' = c
    /\ Goto(c, "store")
    /\ UNCHANGED <<list, idx, slot, life>>

(* enqueue: a full list returns at once *)
StoreFull(c) ==
    /\ loc[c] = "store" /\ size >= MAX_QUEUE_SIZE
    /\ holder' = NULL
    /\ Goto(c, "run")
    /\ UNCHANGED <<list, proc, idx, slot, life>>

(* Fault: enqueue does not look whether there is a slot left *)
FaultStoreAnyway(c) ==
    /\ loc[c] = "store"
    /\ arr' = [arr EXCEPT ![size] = proc[c]]
    /\ Goto(c, "grow")
    /\ UNCHANGED <<size, model, holder, proc, idx, slot, life>>

StoreSlot(c) ==
    /\ loc[c] = "store" /\ size < MAX_QUEUE_SIZE
    /\ arr' = [arr EXCEPT ![size] = proc[c]]
    /\ Goto(c, "grow")
    /\ UNCHANGED <<size, model, holder, proc, idx, slot, life>>

Grow(c) ==
    /\ loc[c] = "grow"
    /\ size' = size + 1
    /\ model' = Append(model, proc[c])
    /\ holder' = NULL
    /\ Goto(c, "run")
    /\ UNCHANGED <<arr, proc, idx, slot, life>>
-----------------------------------------------------------------------------
(* put_proc and finish_proc call purgequeue(&running_list, proc) *)
Release(c) ==
    /\ loc[c] = "run" /\ holder = NULL
    /\ holder' = c
    /\ idx' = [idx EXCEPT ![c] = 0]
    /\ ending' \in {ending, ending \cup {c}}
    /\ Goto(c, "search")
    /\ UNCHANGED <<list, proc, slot, freed, since>>

SearchOn(c) ==
    /\ loc[c] = "search" /\ idx[c] < size /\ arr[idx[c]] # proc[c]
    /\ idx' = [idx EXCEPT ![c] = @ + 1]
    /\ UNCHANGED <<list, holder, loc, proc, slot, life>>

SearchHit(c) ==
    /\ loc[c] = "search" /\ idx[c] < size /\ arr[idx[c]] = proc[c]
    /\ Goto(c, "shift")
    /\ UNCHANGED <<list, holder, proc, idx, slot, life>>

(* purgequeue returns and queue_lock is released: a process that finishes
   is still to be freed *)
GiveUp(c) ==
    /\ holder' = NULL
    /\ idx' = [idx EXCEPT ![c] = 0]
    /\ IF c \in ending
       THEN Goto(c, "free") /\ UNCHANGED proc
       ELSE Goto(c, "none") /\ proc' = [proc EXCEPT ![c] = NULL]
    /\ UNCHANGED <<arr, slot, life>>

(* The process is not listed *)
SearchEnd(c) ==
    /\ loc[c] = "search" /\ idx[c] >= size
    /\ GiveUp(c)
    /\ UNCHANGED <<size, model>>

ShiftSlot(c) ==
    /\ loc[c] = "shift" /\ idx[c] < size - 1
    /\ arr' = [arr EXCEPT ![idx[c]] = arr[idx[c] + 1]]
    /\ idx' = [idx EXCEPT ![c] = @ + 1]
    /\ UNCHANGED <<size, model, holder, loc, proc, slot, life>>

(* Fault: the shift stops one slot early *)
FaultShrinkFirst(c) ==
    /\ loc[c] = "shift" /\ idx[c] >= size - 2
    /\ size' = size - 1
    /\ model' = RemoveFirst(model, proc[c])
    /\ GiveUp(c)

Shrink(c) ==
    /\ loc[c] = "shift" /\ idx[c] >= size - 1
    /\ size' = size - 1
    /\ model' = RemoveFirst(model, proc[c])
    /\ GiveUp(c)

Free(c, places) ==
    /\ loc[c] \in places
    /\ freed' = freed \cup {proc[c]}
    /\ since' = [d \in Cpus |->
                   IF loc[d] \in {"load", "deref"} THEN since[d] \cup {proc[c]} ELSE {}]
    /\ ending' = ending \ {c}
    /\ proc' = [proc EXCEPT ![c] = NULL]
    /\ Goto(c, "none")
    /\ UNCHANGED <<list, holder, idx, slot>>

(* Fault: the process is freed before finish_proc has removed it *)
FaultFreeProc(c) == Free(c, {"run"})

(* cpu_routine calls free_proc after finish_proc *)
FreeProc(c) == Free(c, {"free"})
-----------------------------------------------------------------------------
(* __sys_memmap, called by the process of CPU c *)
CallMemmap(c) ==
    /\ loc[c] = "run"
    /\ idx' = [idx EXCEPT ![c] = 0]
    /\ slot' = [slot EXCEPT ![c] = NULL]
    /\ Goto(c, "test")
    /\ UNCHANGED <<list, holder, proc, life>>

(* At the end no caller has been found *)
TestSize(c) ==
    /\ loc[c] = "test"
    /\ Goto(c, IF idx[c] < size THEN "load" ELSE "call")
    /\ since' = [since EXCEPT ![c] = {}]
    /\ UNCHANGED <<list, holder, proc, idx, slot, ending, freed>>

LoadSlot(c) ==
    /\ loc[c] = "load"
    /\ slot' = [slot EXCEPT ![c] = arr[idx[c]]]
    /\ Goto(c, "deref")
    /\ UNCHANGED <<list, holder, proc, idx, life>>

(* The pid of a PCB that is in use *)
Compare(c) ==
    /\ loc[c] = "deref"
    /\ IF slot[c] = proc[c]
       THEN Goto(c, "reload") /\ UNCHANGED <<idx, slot>>
       ELSE /\ Goto(c, "test")
            /\ idx' = [idx EXCEPT ![c] = @ + 1]
            /\ slot' = [slot EXCEPT ![c] = NULL]
    /\ UNCHANGED <<list, holder, proc, life>>

(* caller = running->proc[i] loads the slot once more *)
LoadCaller(c) ==
    /\ loc[c] = "reload"
    /\ slot' = [slot EXCEPT ![c] = arr[idx[c]]]
    /\ Goto(c, "call")
    /\ UNCHANGED <<list, holder, proc, idx, life>>

(* The operation on the caller's memory, or -1 without a caller *)
Return(c) ==
    /\ loc[c] = "call"
    /\ idx' = [idx EXCEPT ![c] = 0]
    /\ slot' = [slot EXCEPT ![c] = NULL]
    /\ since' = [since EXCEPT ![c] = {}]
    /\ Goto(c, "run")
    /\ UNCHANGED <<list, holder, proc, ending, freed>>

CpuStep(c) ==
    \/ \E p \in Procs : Take(c, p)
    \/ StoreFull(c) \/ StoreSlot(c) \/ Grow(c)
    \/ Release(c) \/ SearchOn(c) \/ SearchHit(c) \/ SearchEnd(c) \/ ShiftSlot(c) \/ Shrink(c)
    \/ FreeProc(c)
    \/ CallMemmap(c) \/ TestSize(c) \/ LoadSlot(c) \/ Compare(c) \/ LoadCaller(c) \/ Return(c)

Next == \E c \in Cpus : CpuStep(c)

Spec == Init /\ [][Next]_vars
-----------------------------------------------------------------------------
(* Properties *)

Contents == [k \in 1..size |-> arr[k - 1]]
Executing(c) == loc[c] \in {"run", "test", "load", "deref", "reload", "call"}

(* Between two operations the array is the sequence of Mlq.tla: enqueue    *)
(* appends, purgequeue removes the process and nothing else                *)
(* (queue.c:12-21, 55-71).                                                 *)
ArrayIsSequence == holder = NULL => Contents = model

(* Not even in the middle of a shift is an executing process absent from   *)
(* the slots below size, unless the list was full when it was dispatched:  *)
(* purgequeue copies before it shrinks (queue.c:64-66).                    *)
NeverAbsent ==
    \A c \in Cpus : Executing(c) /\ proc[c] \in ToSet(model) =>
        \E k \in 0..(size - 1) : arr[k] = proc[c]

(* The traversal reads the pid of freed memory only when the process was    *)
(* freed since it last compared its index with size: what may go wrong is  *)
(* confined to one turn of the loop (sys_mem.c:40-41, os.c:121-123).       *)
FreedOnlyInFlight ==
    \A c \in Cpus : loc[c] = "deref" /\ slot[c] \in freed => slot[c] \in since[c]

(* A system call acts on the process that makes it: "access PCB by         *)
(* traversing running_list with PID" (sys_mem.c:33), which add_proc set up *)
(* "so sys_mem can find this process via running_list" (sched.c:128).      *)
RunningProcessFound == \A c \in Cpus : loc[c] = "call" => slot[c] = proc[c]
=============================================================================
