--------------------------------- MODULE Os ---------------------------------
(***************************************************************************)
(* os.c: the CPU threads (cpu_routine) and the loader (ld_routine), on the *)
(* scheduler of Mlq.tla and the barrier of LockStep.tla.  A thread's steps *)
(* are its accesses to what it shares: queue_lock, done_mutex, the timer.  *)
(* What an instruction does to memory is left out: run is one step of the  *)
(* program counter.                                                        *)
(***************************************************************************)
EXTENDS Mlq, LockStep

CONSTANTS Cpus, LOADER, NULL,
          Size,        (* code->size of each process                       *)
          Load,        (* ld_processes: the processes in the order of the file *)
          Start,       (* start_time of each process                       *)
          time_slot    (* the slots a dispatched process may run for       *)

ASSUME OsAssumption ==
    /\ Devs = Cpus \cup {LOADER}
    /\ Cpus # {} /\ LOADER \notin Cpus
    /\ NULL \notin Procs
    /\ Size \in [Procs -> Nat]
    /\ Start \in [Procs -> 0..Horizon]
    /\ Load \in Seq(Procs) /\ IsInjective(Load) /\ ToSet(Load) = Procs
    /\ time_slot \in Nat

(* The arrays are long enough, as in MlqSystem *)
ASSUME QueuesLongEnough ==
    /\ IsFiniteSet(Procs) /\ IsFiniteSet(Cpus)
    /\ \A r \in Prios : Cardinality({p \in Procs : Prio[p] = r}) <= MAX_QUEUE_SIZE
    /\ Cardinality(Cpus) <= MAX_QUEUE_SIZE

VARIABLES cpc,        (* where each CPU's thread is in cpu_routine          *)
          proc,       (* its local variable proc                            *)
          time_left,  (* its local variable time_left                       *)
          pc,         (* the program counter of each process                *)
          done,       (* the flag of the loader                             *)
          lpc,        (* where the loader's thread is in ld_routine         *)
          next,       (* its local variable i, from 1                       *)
          finished,   (* processes that finish_proc and free_proc were called for *)
          ran,        (* history: slots each CPU has run its process for since
                         get_proc returned it *)
          busy        (* history: processes that ran in the current slot    *)

cpuVars == <<cpc, proc, time_left, ran>>
loaderVars == <<lpc, next, done>>
progress == <<pc, finished, busy>>
vars == <<mlqVars, barrierVars, cpuVars, loaderVars, progress>>

(***************************************************************************)
(* A CPU is at the head of the loop, before the get_proc that follows      *)
(* put_proc or finish_proc, before its read of done, before run, before    *)
(* next_slot with or without a process, before detach_event, or gone.      *)
(***************************************************************************)
CpuLocations ==
    {"top", "refetch", "check", "run", "slot", "skip", "detach", "exited"}

LoaderLocations == {"wait", "added", "detach", "exited"}

(* What is left of a slice; with time_slot 0 it begins at 0 and only falls *)
Remains == IF time_slot = 0 THEN Int ELSE 0..time_slot

(* The variables of the CPUs, the loader and what they share have their types. *)
TypeOK ==
    /\ MlqTypeOK
    /\ BarrierTypeOK
    /\ cpc \in [Cpus -> CpuLocations]
    /\ proc \in [Cpus -> Procs \cup {NULL}]
    /\ time_left \in [Cpus -> Remains]
    /\ pc \in [Procs -> Nat]
    /\ done \in BOOLEAN
    /\ lpc \in LoaderLocations
    /\ next \in 1..(Len(Load) + 1)
    /\ finished \subseteq Procs
    /\ ran \in [Cpus -> IF time_slot = 0 THEN Nat ELSE 0..time_slot]
    /\ busy \subseteq Procs

Init ==
    /\ MlqInit
    /\ BarrierInit
    /\ cpc = [c \in Cpus |-> "top"]
    /\ proc = [c \in Cpus |-> NULL]
    /\ time_left = [c \in Cpus |-> 0]
    /\ pc = [p \in Procs |-> 0]
    /\ done = FALSE
    /\ lpc = "wait"
    /\ next = 1
    /\ finished = {}
    /\ ran = [c \in Cpus |-> 0]
    /\ busy = {}
-----------------------------------------------------------------------------
(* cpu_routine.  A CPU takes its steps in a slot that it has entered: it   *)
(* is pending at the barrier.                                              *)

At(c, loc) == c \in pending /\ cpc[c] = loc
Goto(c, loc) == cpc' = [cpc EXCEPT ![c] = loc]

(* get_proc, with the location for either result *)
Fetch(c, some, none) ==
    \/ \E p \in Procs :
          /\ Dispatch(p)
          /\ proc' = [proc EXCEPT ![c] = p]
          /\ ran' = [ran EXCEPT ![c] = 0]
          /\ Goto(c, some)
    \/ /\ NothingReady
       /\ Goto(c, none)
       /\ UNCHANGED <<proc, ran>>

LoadProc(c) ==
    /\ At(c, "top") /\ proc[c] = NULL
    /\ Fetch(c, "check", "skip")
    /\ UNCHANGED <<barrierVars, loaderVars, time_left, progress>>

(* Fault: the next process gets what is left of this one's time slice *)
FaultFinishKeepsTime(c) ==
    /\ At(c, "top") /\ proc[c] # NULL
    /\ pc[proc[c]] = Size[proc[c]]
    /\ Retire(proc[c])
    /\ finished' = finished \cup {proc[c]}
    /\ proc' = [proc EXCEPT ![c] = NULL]
    /\ Goto(c, "refetch")
    /\ UNCHANGED <<barrierVars, loaderVars, ran, time_left, pc, busy>>

Finish(c) ==
    /\ At(c, "top") /\ proc[c] # NULL
    /\ pc[proc[c]] = Size[proc[c]]
    /\ Retire(proc[c])
    /\ finished' = finished \cup {proc[c]}
    /\ proc' = [proc EXCEPT ![c] = NULL]
    /\ time_left' = [time_left EXCEPT ![c] = 0]
    /\ Goto(c, "refetch")
    /\ UNCHANGED <<barrierVars, loaderVars, ran, pc, busy>>

(* Fault: the CPU lets go of the process without put_proc *)
FaultDropProc(c) ==
    /\ At(c, "top") /\ proc[c] # NULL
    /\ pc[proc[c]] # Size[proc[c]]
    /\ time_left[c] = 0
    /\ proc' = [proc EXCEPT ![c] = NULL]
    /\ Goto(c, "refetch")
    /\ UNCHANGED <<mlqVars, barrierVars, loaderVars, time_left, ran, progress>>

Preempt(c) ==
    /\ At(c, "top") /\ proc[c] # NULL
    /\ pc[proc[c]] # Size[proc[c]]
    /\ time_left[c] = 0
    /\ Requeue(proc[c])
    /\ proc' = [proc EXCEPT ![c] = NULL]
    /\ Goto(c, "refetch")
    /\ UNCHANGED <<barrierVars, loaderVars, time_left, ran, progress>>

KeepProc(c) ==
    /\ At(c, "top") /\ proc[c] # NULL
    /\ pc[proc[c]] # Size[proc[c]]
    /\ time_left[c] # 0
    /\ Goto(c, "check")
    /\ UNCHANGED <<mlqVars, barrierVars, loaderVars, proc, time_left, ran, progress>>

Refetch(c) ==
    /\ At(c, "refetch")
    /\ Fetch(c, "check", "check")
    /\ UNCHANGED <<barrierVars, loaderVars, time_left, progress>>

(* Fault: a CPU whose process begins a time slice does not set time_left *)
FaultNoSlice(c) ==
    /\ At(c, "check")
    /\ Goto(c, IF proc[c] # NULL THEN "run" ELSE IF done THEN "detach" ELSE "skip")
    /\ UNCHANGED <<mlqVars, barrierVars, loaderVars, proc, time_left, ran, progress>>

(* Fault: done is tested before the process *)
FaultDoneFirst(c) ==
    /\ At(c, "check")
    /\ Goto(c, IF done THEN "detach" ELSE IF proc[c] # NULL THEN "run" ELSE "skip")
    /\ time_left' = IF proc[c] # NULL /\ time_left[c] = 0
                    THEN [time_left EXCEPT ![c] = time_slot]
                    ELSE time_left
    /\ UNCHANGED <<mlqVars, barrierVars, loaderVars, proc, ran, progress>>

(* Read done, and decide what to do in this slot *)
CheckDone(c) ==
    /\ At(c, "check")
    /\ Goto(c, IF proc[c] # NULL THEN "run" ELSE IF done THEN "detach" ELSE "skip")
    /\ time_left' = IF proc[c] # NULL /\ time_left[c] = 0
                    THEN [time_left EXCEPT ![c] = time_slot]
                    ELSE time_left
    /\ UNCHANGED <<mlqVars, barrierVars, loaderVars, proc, ran, progress>>

Run(c) ==
    LET p == proc[c] IN
    /\ At(c, "run")
    /\ pc' = [pc EXCEPT ![p] = IF @ >= Size[p] THEN @ ELSE @ + 1]
    /\ time_left' = [time_left EXCEPT ![c] = @ - 1]
    /\ ran' = [ran EXCEPT ![c] = @ + 1]
    /\ busy' = busy \cup {p}
    /\ Goto(c, "slot")
    /\ UNCHANGED <<mlqVars, barrierVars, loaderVars, proc, finished>>

(* Fault: a CPU goes on to its next instruction in the same slot *)
FaultNoSlot(c) ==
    /\ At(c, "slot") \/ At(c, "skip")
    /\ IF cpc[c] = "skip" THEN Arrive(c) ELSE UNCHANGED barrierVars
    /\ Goto(c, "top")
    /\ UNCHANGED <<mlqVars, loaderVars, proc, time_left, ran, progress>>

NextSlot(c) ==
    /\ At(c, "slot") \/ At(c, "skip")
    /\ Arrive(c)
    /\ Goto(c, "top")
    /\ UNCHANGED <<mlqVars, loaderVars, proc, time_left, ran, progress>>

Stop(c) ==
    /\ At(c, "detach")
    /\ Leave(c)
    /\ Goto(c, "exited")
    /\ UNCHANGED <<mlqVars, loaderVars, proc, time_left, ran, progress>>

CpuStep(c) ==
    \/ LoadProc(c) \/ Finish(c) \/ Preempt(c) \/ KeepProc(c) \/ Refetch(c)
    \/ CheckDone(c) \/ Run(c) \/ NextSlot(c) \/ Stop(c)
-----------------------------------------------------------------------------
(* ld_routine *)

LoaderAt(loc) == LOADER \in pending /\ lpc = loc
Loading == next <= Len(Load)

LdWait ==
    /\ LoaderAt("wait") /\ Loading
    /\ now < Start[Load[next]]
    /\ Arrive(LOADER)
    /\ UNCHANGED <<mlqVars, cpuVars, loaderVars, progress>>

(* Fault: the loader does not wait for the slot to end after add_proc *)
FaultAddAtOnce ==
    /\ LoaderAt("wait") /\ Loading
    /\ now >= Start[Load[next]]
    /\ Admit(Load[next])
    /\ next' = next + 1
    /\ UNCHANGED <<barrierVars, cpuVars, lpc, done, progress>>

LdAdd ==
    /\ LoaderAt("wait") /\ Loading
    /\ now >= Start[Load[next]]
    /\ Admit(Load[next])
    /\ next' = next + 1
    /\ lpc' = "added"
    /\ UNCHANGED <<barrierVars, cpuVars, done, progress>>

LdNextSlot ==
    /\ LoaderAt("added")
    /\ Arrive(LOADER)
    /\ lpc' = "wait"
    /\ UNCHANGED <<mlqVars, cpuVars, next, done, progress>>

LdDone ==
    /\ LoaderAt("wait") /\ ~Loading
    /\ done' = TRUE
    /\ lpc' = "detach"
    /\ UNCHANGED <<mlqVars, barrierVars, cpuVars, next, progress>>

LdDetach ==
    /\ LoaderAt("detach")
    /\ Leave(LOADER)
    /\ lpc' = "exited"
    /\ UNCHANGED <<mlqVars, cpuVars, next, done, progress>>

LoaderStep == LdWait \/ LdAdd \/ LdNextSlot \/ LdDone \/ LdDetach

TimerTick ==
    /\ Tick
    /\ busy' = {}
    /\ UNCHANGED <<mlqVars, cpuVars, loaderVars, pc, finished>>

Next == (\E c \in Cpus : CpuStep(c)) \/ LoaderStep \/ TimerTick

Spec == Init /\ [][Next]_vars

(***************************************************************************)
(* Threads are scheduled by the host: each that can go on does, and the    *)
(* timer ticks when all have arrived (Timer.tla).                          *)
(***************************************************************************)
FairSpec ==
    /\ Spec
    /\ \A c \in Cpus : WF_vars(CpuStep(c))
    /\ WF_vars(LoaderStep)
    /\ WF_vars(TimerTick)
-----------------------------------------------------------------------------
(* Properties *)

Fresh == {Load[n] : n \in next..Len(Load)}

(* The CPUs do not all stop while a process is unfinished: a CPU that      *)
(* found the queues empty before the loader's last add_proc does not read  *)
(* done after it (os.c:131-141, 257-269).                                  *)
NothingAbandoned == (\A c \in Cpus : cpc[c] = "exited") => finished = Procs

(* A time slice is whole: put_proc is called for a process that ran for    *)
(* time_slot slots since get_proc, never for one that inherited what a     *)
(* process before it left of its slice; with time_slot 0 it is not called  *)
(* at all (os.c:125-132, 147-151).                                         *)
WholeSlice == [][\A c \in Cpus : Preempt(c) => ran[c] = time_slot]_vars

(* A process runs at most one instruction in a slot, on whichever CPUs:    *)
(* when one has run it, that CPU keeps it until the slot is over           *)
(* (os.c:108-180).                                                         *)
OneInstructionPerSlot == [][\A p \in Procs : pc'[p] # pc[p] => p \notin busy]_vars

(* Every process of the configuration is run to its end (os.c:108-180).    *)
EveryProcessFinishes == <>(finished = Procs)

(* With the loader done and nothing left to run, every CPU exits, as the   *)
(* comment at os.c:139 has it, and main can join them (os.c:492-495).      *)
CpusStop == <>(\A c \in Cpus : cpc[c] = "exited")

(* The CPUs and the loader use the scheduler as MlqSystem does             *)
(* (os.c:102-272): its properties are theirs.                              *)
Scheduler == INSTANCE MlqSystem WITH
    idle <- {c \in Cpus : proc[c] = NULL /\ cpc[c] \in {"check", "skip", "detach", "exited"}},
    fresh <- Fresh

UsesScheduler == Scheduler!Spec
=============================================================================
