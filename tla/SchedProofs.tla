---------------------------- MODULE SchedProofs -----------------------------
(***************************************************************************)
(* The scheduler's loop under its lock, for any number of processes, CPUs  *)
(* and priorities: types, the range of the slots, that a full loop has     *)
(* seen every queue, and that Sched.tla implements MlqSystem.tla.          *)
(***************************************************************************)
EXTENDS Sched, QueueProofs

(* Arithmetic of the turn: one step and one round of the priorities *)
LEMMA ModBelow == \A x \in 0..(MAX_PRIO - 1) : x % MAX_PRIO = x
  BY MlqAssumption

LEMMA ModAbove == \A x \in MAX_PRIO..(2 * MAX_PRIO - 1) : x % MAX_PRIO = x - MAX_PRIO
  BY MlqAssumption

LEMMA ModNegative == \A x \in (1 - MAX_PRIO)..(0 - 1) : x % MAX_PRIO = x + MAX_PRIO
  BY MlqAssumption

LEMMA NextPrioIs ==
    ASSUME NEW r \in Prios
    PROVE  NextPrio(r) = (IF r + 1 = MAX_PRIO THEN 0 ELSE r + 1) /\ NextPrio(r) \in Prios
  BY MlqAssumption, ModBelow, ModAbove DEF NextPrio, Prios

(* The priority a loop that began at r looks at in iteration k *)
Seen(r, k) == (r + k) % MAX_PRIO

LEMMA SeenIs ==
    ASSUME NEW r \in Prios, NEW k \in 0..(MAX_PRIO - 1)
    PROVE  /\ Seen(r, k) = (IF r + k < MAX_PRIO THEN r + k ELSE r + k - MAX_PRIO)
           /\ Seen(r, k) \in Prios
  BY MlqAssumption, ModBelow, ModAbove DEF Seen, Prios

LEMMA SeenRound ==
    ASSUME NEW r \in Prios PROVE Seen(r, 0) = r /\ Seen(r, MAX_PRIO) = r
  BY MlqAssumption, ModBelow, ModAbove DEF Seen, Prios

LEMMA SeenNext ==
    ASSUME NEW r \in Prios, NEW k \in 0..(MAX_PRIO - 1)
    PROVE  Seen(r, k + 1) = NextPrio(Seen(r, k))
<1> DEFINE x == Seen(r, k)
<1>1. x \in Prios /\ x = (IF r + k < MAX_PRIO THEN r + k ELSE r + k - MAX_PRIO)
  BY SeenIs
<1>2. NextPrio(x) = IF x + 1 = MAX_PRIO THEN 0 ELSE x + 1
  BY <1>1, NextPrioIs
<1>3. Seen(r, k + 1) =
        (IF r + (k + 1) < MAX_PRIO THEN r + (k + 1) ELSE r + (k + 1) - MAX_PRIO)
  BY MlqAssumption, ModBelow, ModAbove DEF Seen, Prios
<1> HIDE DEF x
<1>4. Seen(r, k + 1) = NextPrio(x)
  BY <1>1, <1>2, <1>3, MlqAssumption DEF Prios
<1> QED
  BY <1>4 DEF x

(* Every priority is looked at, and Distance is the iteration it is looked *)
(* at in                                                                   *)
LEMMA SeenDistance ==
    ASSUME NEW r \in Prios, NEW s \in Prios
    PROVE  /\ (s - r) % MAX_PRIO \in 0..(MAX_PRIO - 1)
           /\ Seen(r, (s - r) % MAX_PRIO) = s
<1> DEFINE d == (s - r) % MAX_PRIO
<1>1. d = IF s >= r THEN s - r ELSE s - r + MAX_PRIO
  BY MlqAssumption, ModBelow, ModNegative DEF Prios
<1> HIDE DEF d
<1>2. d \in 0..(MAX_PRIO - 1)
  BY <1>1, MlqAssumption DEF Prios
<1>3. Seen(r, d) = (IF r + d < MAX_PRIO THEN r + d ELSE r + d - MAX_PRIO)
  BY <1>2, SeenIs
<1>4. Seen(r, d) = s
  BY <1>1, <1>3, MlqAssumption DEF Prios
<1> QED
  BY <1>2, <1>4 DEF d

LEMMA DistanceSeen ==
    ASSUME NEW r \in Prios, NEW k \in 0..(MAX_PRIO - 1)
    PROVE  (Seen(r, k) - r) % MAX_PRIO = k
<1>1. CASE r + k < MAX_PRIO
  BY <1>1, SeenIs, ModBelow, MlqAssumption DEF Prios
<1>2. CASE r + k >= MAX_PRIO
  BY <1>2, SeenIs, ModNegative, MlqAssumption DEF Prios
<1> QED
  BY <1>1, <1>2, MlqAssumption DEF Prios
-----------------------------------------------------------------------------
(* Where the loop is: i iterations after the priority it began with *)
LoopInv ==
    ~Free =>
        /\ entrySlot \in 1..(MAX_PRIO - entryPrio)
        /\ curr_prio = Seen(entryPrio, i)
        /\ curr_slot = IF i = 0 THEN entrySlot ELSE MAX_PRIO - curr_prio
        /\ proc[holder] = NULL /\ holder \notin idle
        /\ \A k \in 0..(i - 1) : queue[Seen(entryPrio, k)] = <<>>

(* A process waits in the queue of its own priority *)
OwnQueue == \A r \in Prios : \A j \in 1..Len(queue[r]) : Prio[queue[r][j]] = r

IInv == TypeOK /\ SlotsInRange /\ LoopInv /\ OwnQueue

LEMMA BudgetIs ==
    ASSUME NEW r \in Prios
    PROVE  Budget(r) = MAX_PRIO - r /\ Budget(r) \in 1..MAX_PRIO /\ AtLeastOne(Budget(r)) = Budget(r)
  BY MlqAssumption DEF Budget, AtLeastOne, Prios

LEMMA InitIInv == Init => IInv
<1> SUFFICES ASSUME Init PROVE IInv
  OBVIOUS
<1> USE MlqAssumption, SchedAssumption DEF Init, MlqInit
<1>1. TypeOK
  BY EmptySeq DEF TypeOK, Prios, Budget
<1>2. SlotsInRange
  BY DEF SlotsInRange, Budget
<1>3. LoopInv
  BY DEF LoopInv, Free
<1>4. OwnQueue
  BY DEF OwnQueue
<1> QED
  BY <1>1, <1>2, <1>3, <1>4 DEF IInv

LEMMA EnqueueType ==
    ASSUME NEW q \in Seq(Procs), NEW p \in Procs PROVE Enqueue(q, p) \in Seq(Procs)
  BY AppendProperties DEF Enqueue

(* A process entering the queue of its priority, as put_proc and add_proc  *)
(* have it                                                                 *)
LEMMA EnqueueOwnQueue ==
    ASSUME queue \in [Prios -> Seq(Procs)], OwnQueue, NEW p \in Procs,
           queue' = [queue EXCEPT ![Prio[p]] = Enqueue(@, p)]
    PROVE  queue' \in [Prios -> Seq(Procs)] /\ OwnQueue'
<1>1. Prio[p] \in Prios
  BY MlqAssumption DEF Prios
<1>2. \A r \in Prios : queue'[r] = IF r = Prio[p] THEN Enqueue(queue[r], p) ELSE queue[r]
  BY <1>1
<1>3. queue' \in [Prios -> Seq(Procs)]
  BY <1>1, EnqueueType
<1>4. ASSUME NEW r \in Prios, NEW j \in 1..Len(queue'[r]) PROVE Prio[queue'[r][j]] = r
  <2>1. CASE r # Prio[p] \/ Len(queue[r]) >= MAX_QUEUE_SIZE
    BY <1>2, <1>4, <2>1 DEF OwnQueue, Enqueue
  <2>2. CASE r = Prio[p] /\ ~(Len(queue[r]) >= MAX_QUEUE_SIZE)
    <3>1. queue'[r] = Append(queue[r], p) /\ queue[r] \in Seq(Procs)
      BY <1>2, <2>2 DEF Enqueue
    <3>2. Len(queue'[r]) = Len(queue[r]) + 1 /\ Len(queue[r]) \in Nat
      BY <3>1, AppendProperties, LenProperties
    <3>3. CASE j = Len(queue[r]) + 1
      BY <3>1, <3>3, <2>2, AppendProperties
    <3>4. CASE j # Len(queue[r]) + 1
      <4>1. j \in 1..Len(queue[r])
        BY <1>4, <3>2, <3>4
      <4>2. queue'[r][j] = queue[r][j]
        BY <3>1, <4>1, AppendProperties
      <4> QED
        BY <4>1, <4>2 DEF OwnQueue
    <3> QED
      BY <3>3, <3>4
  <2> QED
    BY <2>1, <2>2
<1> QED
  BY <1>3, <1>4 DEF OwnQueue

(* While the loop does not hold the lock, nothing of it is left to keep *)
LEMMA CallerStep ==
    ASSUME IInv, Free, UNCHANGED <<holder, i, entryPrio, entrySlot, curr_prio, curr_slot>>,
           queue' \in [Prios -> Seq(Procs)], OwnQueue',
           running_list' \in Seq(Procs),
           proc' \in [Cpus -> Procs \cup {NULL}], idle' \subseteq Cpus,
           fresh' \subseteq Procs, finished' \subseteq Procs
    PROVE  IInv'
  BY DEF IInv, TypeOK, SlotsInRange, LoopInv, Free

LEMMA ScanLooksAt ==
    ASSUME IInv
    PROVE  ScanPrio = curr_prio /\ ScanSlot = curr_slot /\ curr_slot \in Nat \ {0}
  BY MlqAssumption DEF IInv, TypeOK, SlotsInRange, ScanPrio, ScanSlot, Prios

LEMMA AdvanceIs ==
    ASSUME NEW r \in Prios, Advance(r)
    PROVE  /\ curr_prio' = NextPrio(r) /\ curr_prio' \in Prios
           /\ curr_slot' = MAX_PRIO - curr_prio'
           /\ curr_slot' \in 1..(MAX_PRIO - curr_prio') /\ curr_slot' \in 0..MAX_PRIO
<1>1. curr_prio' = NextPrio(r) /\ NextPrio(r) \in Prios
  BY NextPrioIs DEF Advance
<1> QED
  BY <1>1, MlqAssumption DEF Advance, AtLeastOne, Prios

LEMMA TakeStep ==
    ASSUME IInv, NEW c \in Cpus, ScanTake(c) PROVE IInv'
<1> DEFINE r == curr_prio
<1>1. r \in Prios /\ ScanPrio = r /\ ScanSlot = curr_slot /\ curr_slot \in Nat \ {0}
  BY ScanLooksAt DEF IInv, TypeOK
<1>2. queue[r] \in Seq(Procs) /\ queue[r] # <<>>
  BY <1>1 DEF ScanTake, IInv, TypeOK
<1>3. Head(queue[r]) \in Procs /\ Tail(queue[r]) \in Seq(Procs)
      /\ Len(Tail(queue[r])) = Len(queue[r]) - 1 /\ Len(queue[r]) \in Nat
      /\ \A j \in 1..Len(Tail(queue[r])) : Tail(queue[r])[j] = queue[r][j + 1]
  BY <1>2, HeadTailProperties, LenProperties
<1>4. queue' = [queue EXCEPT ![r] = Tail(@)]
  BY <1>1 DEF ScanTake
<1>5. queue' \in [Prios -> Seq(Procs)]
  BY <1>1, <1>3, <1>4 DEF IInv, TypeOK
<1>6. OwnQueue'
  <2> SUFFICES ASSUME NEW s \in Prios, NEW j \in 1..Len(queue'[s])
               PROVE  Prio[queue'[s][j]] = s
    BY DEF OwnQueue
  <2>1. CASE s = r
    <3>1. queue'[s] = Tail(queue[r])
      BY <1>1, <1>4, <2>1 DEF IInv, TypeOK
    <3>2. j + 1 \in 1..Len(queue[r]) /\ queue'[s][j] = queue[r][j + 1]
      BY <1>3, <3>1
    <3> QED
      BY <1>1, <2>1, <3>2 DEF IInv, OwnQueue
  <2>2. CASE s # r
    BY <1>4, <2>2 DEF IInv, TypeOK, OwnQueue
  <2> QED
    BY <2>1, <2>2
<1>7. curr_prio' \in Prios /\ curr_slot' \in 1..(MAX_PRIO - curr_prio') /\ curr_slot' \in 0..MAX_PRIO
  <2>1. CASE curr_slot - 1 <= 0
    BY <1>1, <2>1, AdvanceIs DEF ScanTake
  <2>2. CASE ~(curr_slot - 1 <= 0)
    <3>1. curr_prio' = r /\ curr_slot' = curr_slot - 1
      BY <1>1, <2>2 DEF ScanTake
    <3> QED
      BY <1>1, <2>2, <3>1, MlqAssumption DEF IInv, SlotsInRange, Prios
  <2> QED
    BY <2>1, <2>2
<1>8. running_list' \in Seq(Procs)
  BY <1>1, <1>3, EnqueueType DEF ScanTake, IInv, TypeOK
<1>9. proc' \in [Cpus -> Procs \cup {NULL}]
  BY <1>1, <1>3 DEF ScanTake, IInv, TypeOK
<1>10. holder' = NULL /\ UNCHANGED <<i, entryPrio, entrySlot, idle, fresh, finished>>
  BY DEF ScanTake
<1>11. TypeOK'
  BY <1>5, <1>7, <1>8, <1>9, <1>10 DEF IInv, TypeOK
<1> QED
  BY <1>6, <1>7, <1>10, <1>11 DEF IInv, SlotsInRange, LoopInv, Free

LEMMA SkipStep ==
    ASSUME IInv, NEW c \in Cpus, ScanSkip(c) PROVE IInv'
<1>1. ~Free /\ i \in 0..(MAX_PRIO - 1) /\ entryPrio \in Prios /\ curr_prio \in Prios
  BY SchedAssumption, MlqAssumption DEF ScanSkip, IInv, TypeOK, Free
<1>2. ScanPrio = curr_prio /\ curr_prio = Seen(entryPrio, i)
  BY <1>1, ScanLooksAt DEF IInv, LoopInv
<1>3. Advance(curr_prio) /\ queue[curr_prio] = <<>> /\ i' = i + 1
      /\ UNCHANGED <<queue, running_list, holder, entryPrio, entrySlot, callers>>
  BY <1>2 DEF ScanSkip
<1>4. /\ curr_prio' = NextPrio(curr_prio) /\ curr_prio' \in Prios
      /\ curr_slot' = MAX_PRIO - curr_prio'
      /\ curr_slot' \in 1..(MAX_PRIO - curr_prio') /\ curr_slot' \in 0..MAX_PRIO
  BY <1>1, <1>3, AdvanceIs
<1>5. curr_prio' = Seen(entryPrio, i + 1)
  BY <1>1, <1>2, <1>4, SeenNext
<1>6. \A k \in 0..i : queue[Seen(entryPrio, k)] = <<>>
  <2>1. \A k \in 0..(i - 1) : queue[Seen(entryPrio, k)] = <<>>
    BY <1>1 DEF IInv, LoopInv
  <2> QED
    BY <1>1, <1>2, <1>3, <2>1
<1>7. TypeOK'
  BY <1>1, <1>3, <1>4, MlqAssumption DEF IInv, TypeOK, callers
<1>8. LoopInv'
  <2>1. i + 1 # 0 /\ (i + 1) - 1 = i
    BY <1>1
  <2> QED
    BY <1>1, <1>3, <1>4, <1>5, <1>6, <2>1 DEF IInv, LoopInv, Free, callers
<1>9. OwnQueue' /\ SlotsInRange'
  BY <1>3, <1>4 DEF IInv, OwnQueue, SlotsInRange
<1> QED
  BY <1>7, <1>8, <1>9 DEF IInv

LEMMA NextIInv == IInv /\ [Next]_vars => IInv'
<1> SUFFICES ASSUME IInv, [Next]_vars PROVE IInv'
  OBVIOUS
<1>1. ASSUME NEW c \in Cpus, EnterGet(c) PROVE IInv'
  <2>1. /\ Free /\ proc[c] = NULL /\ c \notin idle /\ holder' = c /\ i' = 0
        /\ entryPrio' = curr_prio /\ entrySlot' = curr_slot
        /\ UNCHANGED <<queue, running_list, curr_prio, curr_slot, proc, idle, fresh, finished>>
    BY <1>1 DEF EnterGet, mlqVars, callers
  <2>2. curr_prio \in Prios /\ curr_slot \in 1..(MAX_PRIO - curr_prio) /\ curr_slot \in 0..MAX_PRIO
    BY DEF IInv, TypeOK, SlotsInRange
  <2>3. TypeOK'
    BY <2>1, <2>2, MlqAssumption DEF IInv, TypeOK
  <2>4. LoopInv'
    BY <2>1, <2>2, SeenRound DEF LoopInv
  <2> QED
    BY <2>1, <2>3, <2>4 DEF IInv, SlotsInRange, OwnQueue
<1>2. ASSUME NEW c \in Cpus, ScanTake(c) PROVE IInv'
  BY <1>2, TakeStep
<1>3. ASSUME NEW c \in Cpus, ScanSkip(c) PROVE IInv'
  BY <1>3, SkipStep
<1>4. ASSUME NEW c \in Cpus, LeaveGet(c) PROVE IInv'
  BY <1>4, SchedAssumption DEF LeaveGet, mlqVars, IInv, TypeOK, SlotsInRange, LoopInv,
     OwnQueue, Free
<1>5. ASSUME NEW c \in Cpus, PutProc(c) PROVE IInv'
  <2>1. proc[c] \in Procs
    BY <1>5 DEF PutProc, IInv, TypeOK
  <2>2. queue' \in [Prios -> Seq(Procs)] /\ OwnQueue'
    BY <1>5, <2>1, EnqueueOwnQueue DEF PutProc, Requeue, IInv, TypeOK
  <2>3. running_list' \in Seq(Procs)
    BY <1>5, RemoveFirstType DEF PutProc, Requeue, IInv, TypeOK
  <2>4. proc' \in [Cpus -> Procs \cup {NULL}] /\ idle' \subseteq Cpus
        /\ fresh' \subseteq Procs /\ finished' \subseteq Procs
    BY <1>5 DEF PutProc, IInv, TypeOK
  <2>5. Free /\ UNCHANGED <<holder, i, entryPrio, entrySlot, curr_prio, curr_slot>>
    BY <1>5 DEF PutProc, Requeue, loop
  <2> QED
    BY <2>2, <2>3, <2>4, <2>5, CallerStep
<1>6. ASSUME NEW c \in Cpus, FinishProc(c) PROVE IInv'
  <2>1. proc[c] \in Procs
    BY <1>6 DEF FinishProc, IInv, TypeOK
  <2>2. queue' \in [Prios -> Seq(Procs)] /\ OwnQueue'
    BY <1>6 DEF FinishProc, Retire, IInv, TypeOK, OwnQueue
  <2>3. running_list' \in Seq(Procs)
    BY <1>6, RemoveFirstType DEF FinishProc, Retire, IInv, TypeOK
  <2>4. proc' \in [Cpus -> Procs \cup {NULL}] /\ idle' \subseteq Cpus
        /\ fresh' \subseteq Procs /\ finished' \subseteq Procs
    BY <1>6, <2>1 DEF FinishProc, IInv, TypeOK
  <2>5. Free /\ UNCHANGED <<holder, i, entryPrio, entrySlot, curr_prio, curr_slot>>
    BY <1>6 DEF FinishProc, Retire, loop
  <2> QED
    BY <2>2, <2>3, <2>4, <2>5, CallerStep
<1>7. ASSUME NEW p \in Procs, AddProc(p) PROVE IInv'
  <2>1. queue' \in [Prios -> Seq(Procs)] /\ OwnQueue'
    BY <1>7, EnqueueOwnQueue DEF AddProc, Admit, IInv, TypeOK
  <2>2. /\ running_list' \in Seq(Procs)
        /\ proc' \in [Cpus -> Procs \cup {NULL}] /\ idle' \subseteq Cpus
        /\ fresh' \subseteq Procs /\ finished' \subseteq Procs
    BY <1>7 DEF AddProc, Admit, IInv, TypeOK
  <2>3. Free /\ UNCHANGED <<holder, i, entryPrio, entrySlot, curr_prio, curr_slot>>
    BY <1>7 DEF AddProc, Admit, loop
  <2> QED
    BY <2>1, <2>2, <2>3, CallerStep
<1>8. ASSUME NEW c \in Cpus, Wake(c) PROVE IInv'
  BY <1>8 DEF Wake, mlqVars, loop, IInv, TypeOK, SlotsInRange, LoopInv, OwnQueue, Free
<1>9. CASE UNCHANGED vars
  BY <1>9 DEF vars, mlqVars, loop, callers, IInv, TypeOK, SlotsInRange, LoopInv, OwnQueue, Free
<1> QED
  BY <1>1, <1>2, <1>3, <1>4, <1>5, <1>6, <1>7, <1>8, <1>9 DEF Next, CpuStep, GetStep

(* The invariant that the theorems below rest on: what the loop of get_mlq_proc has
   seen when it is at its i-th priority. *)
THEOREM Inductive == Spec => []IInv
  BY InitIInv, NextIInv, PTL DEF Spec
-----------------------------------------------------------------------------
(* The scheduler's data keep their types: in particular the cursor stays   *)
(* within the array of queues (sched.c:59-108).                            *)
THEOREM TypeCorrect == Spec => []TypeOK
<1>1. IInv => TypeOK
  BY DEF IInv
<1> QED
  BY <1>1, Inductive, PTL

(* The priority in turn has from 1 to MAX_PRIO - prio slots, for every     *)
(* MAX_PRIO: the guards of sched.c:76-81 never act (sched.c:57).           *)
THEOREM SlotsStayInRange == Spec => []SlotsInRange
<1>1. IInv => SlotsInRange
  BY DEF IInv
<1> QED
  BY <1>1, Inductive, PTL

(* Iterations that passed a priority passed an empty queue (sched.c:97).   *)
THEOREM ScanNeverSkips == Spec => []ScanProgress
<1>1. IInv => ScanProgress
  BY DEF IInv, LoopInv, ScanProgress, Seen
<1> QED
  BY <1>1, Inductive, PTL

(* After MAX_PRIO iterations the loop has seen every queue empty *)
LEMMA FullLoop ==
    ASSUME IInv, ~Free, i >= MAX_PRIO PROVE \A r \in Prios : queue[r] = <<>>
<1> SUFFICES ASSUME NEW r \in Prios PROVE queue[r] = <<>>
  OBVIOUS
<1> DEFINE k == (r - entryPrio) % MAX_PRIO
<1>1. entryPrio \in Prios /\ i = MAX_PRIO
  BY MlqAssumption DEF IInv, TypeOK
<1>2. k \in 0..(MAX_PRIO - 1) /\ Seen(entryPrio, k) = r
  BY <1>1, SeenDistance
<1> HIDE DEF k
<1> QED
  BY <1>1, <1>2 DEF IInv, LoopInv

(* get_proc returns NULL only when no process is ready, whatever the       *)
(* cursor was and however many priorities there are (sched.c:59-108).      *)
THEOREM SchedulerConservesWork == Spec => WorkConserving
<1>1. IInv /\ [Next]_vars =>
        [\A c \in Cpus : c \notin idle /\ c \in idle' => \A r \in Prios : queue[r] = <<>>]_vars
  <2> SUFFICES ASSUME IInv, [Next]_vars, NEW c \in Cpus, c \notin idle, c \in idle'
               PROVE  \A r \in Prios : queue[r] = <<>>
    OBVIOUS
  <2>1. ASSUME NEW d \in Cpus, LeaveGet(d) PROVE \A r \in Prios : queue[r] = <<>>
    BY <2>1, FullLoop, SchedAssumption DEF LeaveGet, Free
  <2>2. CASE idle' \subseteq idle
    BY <2>2
  <2> QED
    BY <2>1, <2>2 DEF Next, CpuStep, GetStep, EnterGet, ScanTake, ScanSkip, PutProc,
       FinishProc, AddProc, Wake, vars, callers
<1> QED
  BY <1>1, Inductive, PTL DEF Spec, WorkConserving
-----------------------------------------------------------------------------
(* The cursor as MlqSystem sees it: it moves when the loop ends *)
PrioBar == IF Free THEN curr_prio ELSE entryPrio
SlotBar == IF Free THEN curr_slot ELSE entrySlot

LEMMA InitMaps == Init => Contract!Init
  BY DEF Init, MlqInit, Contract!Init, Contract!MlqInit, Free, Budget, Contract!Budget,
     Prios, Contract!Prios

(* The iteration that finds a process is the dispatch of its priority *)
LEMMA TakeMaps ==
    ASSUME IInv, NEW c \in Cpus, ScanTake(c) PROVE Contract!GetProc(c)
<1> DEFINE r == curr_prio
           p == Head(queue[r])
<1>1. /\ holder = c /\ ~Free /\ i \in 0..(MAX_PRIO - 1) /\ queue[r] # <<>>
      /\ r \in Prios /\ entryPrio \in Prios
      /\ ScanPrio = r /\ ScanSlot = curr_slot /\ curr_slot \in Nat \ {0}
  BY ScanLooksAt, SchedAssumption, MlqAssumption DEF ScanTake, IInv, TypeOK, Free
<1>2. /\ r = Seen(entryPrio, i)
      /\ curr_slot = IF i = 0 THEN entrySlot ELSE MAX_PRIO - r
      /\ proc[c] = NULL /\ c \notin idle
      /\ \A k \in 0..(i - 1) : queue[Seen(entryPrio, k)] = <<>>
  BY <1>1 DEF IInv, LoopInv
<1>3. p \in Procs /\ Prio[p] = r
  <2>1. queue[r] \in Seq(Procs) /\ queue[r] # <<>>
    BY <1>1 DEF IInv, TypeOK
  <2>2. p \in Procs
    BY <2>1, HeadTailProperties
  <2>3. 1 \in 1..Len(queue[r]) /\ p = queue[r][1]
    BY <2>1, LenProperties, EmptySeq
  <2> QED
    BY <1>1, <2>2, <2>3 DEF IInv, OwnQueue
<1>4. Contract!InTurn(r)
  <2>1. (r - entryPrio) % MAX_PRIO = i
    BY <1>1, <1>2, DistanceSeen
  <2>2. ASSUME NEW s \in Prios, (s - entryPrio) % MAX_PRIO < i PROVE queue[s] = <<>>
    <3> DEFINE k == (s - entryPrio) % MAX_PRIO
    <3>1. k \in 0..(MAX_PRIO - 1) /\ Seen(entryPrio, k) = s
      BY <1>1, SeenDistance
    <3> HIDE DEF k
    <3>2. k < i
      BY <2>2 DEF k
    <3> QED
      BY <1>1, <1>2, <3>1, <3>2
  <2> QED
    BY <1>1, <2>1, <2>2 DEF Contract!InTurn, Contract!Distance, Contract!Prios, Prios
<1>5. i = 0 <=> r = entryPrio
  <2>1. Seen(entryPrio, i) = IF entryPrio + i < MAX_PRIO THEN entryPrio + i ELSE entryPrio + i - MAX_PRIO
    BY <1>1, SeenIs
  <2> QED
    BY <1>1, <1>2, <2>1, MlqAssumption DEF Prios
<1>6. Free' /\ holder' = NULL
  BY DEF ScanTake, Free
<1>7. PrioBar' = curr_prio' /\ SlotBar' = curr_slot' /\ PrioBar = entryPrio /\ SlotBar = entrySlot
  BY <1>1, <1>6 DEF PrioBar, SlotBar
<1>8. (IF r = entryPrio THEN entrySlot ELSE Contract!Budget(r)) = curr_slot
  BY <1>2, <1>5 DEF Contract!Budget
<1>9. Contract!SpendSlot(r, curr_slot)
  <2>1. CASE curr_slot > 1
    <3>1. ~(curr_slot - 1 <= 0)
      BY <1>1, <2>1
    <3>2. curr_prio' = r /\ curr_slot' = curr_slot - 1
      BY <1>1, <3>1 DEF ScanTake
    <3> QED
      BY <1>6, <2>1, <3>2 DEF Contract!SpendSlot
  <2>2. CASE ~(curr_slot > 1)
    <3>1. curr_slot - 1 <= 0
      BY <1>1, <2>2
    <3>2. Advance(r)
      BY <1>1, <3>1 DEF ScanTake
    <3>3. curr_prio' = NextPrio(r) /\ curr_slot' = MAX_PRIO - NextPrio(r)
      BY <1>1, <3>2, AdvanceIs
    <3> QED
      BY <1>6, <2>2, <3>3 DEF Contract!SpendSlot, Contract!NextPrio, NextPrio, Contract!Budget
  <2> QED
    BY <2>1, <2>2
<1>10. /\ queue' = [queue EXCEPT ![r] = Tail(@)]
       /\ running_list' = Contract!Enqueue(running_list, p)
       /\ proc' = [proc EXCEPT ![c] = p]
       /\ UNCHANGED <<idle, fresh, finished>>
  BY <1>1 DEF ScanTake, Enqueue, Contract!Enqueue
<1> HIDE DEF p, r
<1>11. Contract!Dispatch(p)
  BY <1>1, <1>3, <1>4, <1>8, <1>9, <1>10 DEF Contract!Dispatch, p
<1> QED
  BY <1>2, <1>3, <1>10, <1>11 DEF Contract!GetProc

(* A full loop is the operation that finds nothing ready *)
LEMMA LeaveMaps ==
    ASSUME IInv, NEW c \in Cpus, LeaveGet(c) PROVE Contract!GetNull(c)
<1>1. holder = c /\ ~Free /\ i >= MAX_PRIO
  BY SchedAssumption DEF LeaveGet, Free
<1>2. i = MAX_PRIO /\ i # 0 /\ entryPrio \in Prios
  BY <1>1, MlqAssumption DEF IInv, TypeOK
<1>3. /\ curr_prio = entryPrio /\ curr_slot = MAX_PRIO - entryPrio
      /\ proc[c] = NULL /\ c \notin idle
  BY <1>1, <1>2, SeenRound DEF IInv, LoopInv
<1>4. \A r \in Prios : queue[r] = <<>>
  BY <1>1, FullLoop
<1> QED
  BY <1>1, <1>3, <1>4 DEF LeaveGet, mlqVars, Contract!GetNull, Contract!NothingReady,
     Contract!Budget, Contract!Prios, Prios, Free

(* The contract's copy of the library operator is the library's *)
LEMMA SameRemoveFirst ==
    ASSUME NEW s, NEW e PROVE Contract!RemoveFirst(s, e) = RemoveFirst(s, e)
  BY Zenon DEF RemoveFirst, RemoveAt, SelectInSeq, Min, Contract!RemoveFirst,
     Contract!RemoveAt, Contract!SelectInSeq, Contract!Min

LEMMA NextMaps == IInv /\ [Next]_vars => [Contract!Next]_(Contract!vars)
<1> SUFFICES ASSUME IInv, [Next]_vars PROVE Contract!Next \/ UNCHANGED Contract!vars
  OBVIOUS
<1> USE DEF Contract!Next, Contract!CpuStep
<1>1. ASSUME NEW c \in Cpus, EnterGet(c) \/ ScanSkip(c) PROVE UNCHANGED Contract!vars
  <2>1. UNCHANGED <<queue, running_list, proc, idle, fresh, finished>>
    BY <1>1 DEF EnterGet, ScanSkip, mlqVars, callers
  <2>2. PrioBar' = PrioBar /\ SlotBar' = SlotBar
    BY <1>1, SchedAssumption DEF EnterGet, ScanSkip, PrioBar, SlotBar, Free, mlqVars, callers
  <2> QED
    BY <2>1, <2>2 DEF Contract!vars, Contract!mlqVars, PrioBar, SlotBar
<1>2. ASSUME NEW c \in Cpus, ScanTake(c) PROVE Contract!Next
  BY <1>2, TakeMaps
<1>3. ASSUME NEW c \in Cpus, LeaveGet(c) PROVE Contract!Next
  BY <1>3, LeaveMaps
<1>4. ASSUME NEW c \in Cpus, PutProc(c) PROVE Contract!Next
  <2>1. Contract!PutProc(c)
    BY <1>4, SameRemoveFirst DEF PutProc, Requeue, Enqueue, loop, Free, Contract!PutProc,
       Contract!Requeue, Contract!Enqueue
  <2> QED
    BY <2>1
<1>5. ASSUME NEW c \in Cpus, FinishProc(c) PROVE Contract!Next
  <2>1. Contract!FinishProc(c)
    BY <1>5, SameRemoveFirst DEF FinishProc, Retire, loop, Free, Contract!FinishProc, Contract!Retire
  <2> QED
    BY <2>1
<1>6. ASSUME NEW p \in Procs, AddProc(p) PROVE Contract!Next
  <2>1. Contract!AddProc(p)
    BY <1>6 DEF AddProc, Admit, Enqueue, loop, Free, Contract!AddProc, Contract!Admit,
       Contract!Enqueue
  <2> QED
    BY <2>1
<1>7. ASSUME NEW c \in Cpus, Wake(c) PROVE Contract!Next
  <2>1. Contract!Wake(c)
    BY <1>7 DEF Wake, mlqVars, loop, Free, Contract!Wake, Contract!mlqVars
  <2> QED
    BY <2>1
<1>8. CASE UNCHANGED vars
  BY <1>8 DEF vars, mlqVars, loop, callers, Free, Contract!vars, Contract!mlqVars
<1> QED
  BY <1>1, <1>2, <1>3, <1>4, <1>5, <1>6, <1>7, <1>8 DEF Next, CpuStep, GetStep

(* sched.c with its lock and its loop is the scheduler of MlqSystem, whose *)
(* operations are atomic (sched.c:59-204).                                 *)
THEOREM SchedImplementsMlqSystem == Spec => ImplementsMlqSystem
  BY InitMaps, NextMaps, Inductive, PTL DEF Spec, ImplementsMlqSystem, Contract!Spec
=============================================================================
