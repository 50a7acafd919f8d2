-------------------------- MODULE MlqSystemProofs ---------------------------
(***************************************************************************)
(* The scheduler's contract for any number of processes, CPUs and           *)
(* priorities: whatever the callers do, every process is in one place and   *)
(* running_list lists those with a CPU, provided that the arrays are long   *)
(* enough (QueuesLongEnough), which sched.c takes for granted. And a        *)
(* priority with work is not passed over for more dispatches than the slots *)
(* of the others in one round.                                              *)
(***************************************************************************)
EXTENDS MlqBypass, QueueProofs

(* The processes in the queue of their priority *)
Waiting == {p \in Procs : p \in ToSet(queue[Prio[p]])}

(* A queue holds processes of its priority, each once *)
QueuesDistinct ==
    \A r \in Prios :
        /\ IsInjective(queue[r])
        /\ \A p \in ToSet(queue[r]) : Prio[p] = r

(* running_list holds the processes with a CPU, each once *)
ListDistinct == IsInjective(running_list) /\ ToSet(running_list) = Held

HeldOnce == \A c, d \in Cpus : proc[c] = proc[d] /\ proc[c] # NULL => c = d

(* The four places of a process *)
Apart(w, h, n, f) ==
    /\ w \cup h \cup n \cup f = Procs
    /\ w \cap h = {} /\ w \cap n = {} /\ w \cap f = {}
    /\ h \cap n = {} /\ h \cap f = {} /\ n \cap f = {}

Placed == Apart(Waiting, Held, fresh, finished)

IInv == TypeOK /\ QueuesDistinct /\ ListDistinct /\ HeldOnce /\ Placed
-----------------------------------------------------------------------------
(* enqueue, of a process that is not there and finds a slot *)
LEMMA EnqueueIs ==
    ASSUME NEW S, NEW s \in Seq(S), IsInjective(s), NEW e \in S, e \notin ToSet(s),
           Len(s) < MAX_QUEUE_SIZE
    PROVE  /\ Enqueue(s, e) \in Seq(S) /\ IsInjective(Enqueue(s, e))
           /\ Len(Enqueue(s, e)) = Len(s) + 1
           /\ ToSet(Enqueue(s, e)) = ToSet(s) \cup {e}
<1>1. Enqueue(s, e) = Append(s, e)
  BY LenProperties, MlqAssumption DEF Enqueue
<1> QED
  BY <1>1, AppendIs

(* A queue has a free slot for a process of its priority that is not in it *)
LEMMA RoomInQueue ==
    ASSUME TypeOK, QueuesDistinct, NEW p \in Procs
    PROVE  /\ Len(queue[Prio[p]]) <= MAX_QUEUE_SIZE
           /\ p \notin Waiting => Len(queue[Prio[p]]) < MAX_QUEUE_SIZE
<1> DEFINE r == Prio[p]
           peers == {q \in Procs : Prio[q] = r}
<1>1. r \in Prios
  BY MlqAssumption DEF Prios
<1>2. queue[r] \in Seq(Procs) /\ IsInjective(queue[r])
      /\ \A q \in ToSet(queue[r]) : Prio[q] = r
  BY <1>1 DEF TypeOK, MlqTypeOK, QueuesDistinct
<1>3. IsFiniteSet(ToSet(queue[r])) /\ Cardinality(ToSet(queue[r])) = Len(queue[r])
  BY <1>2, DistinctLength
<1>4. IsFiniteSet(peers) /\ Cardinality(peers) <= MAX_QUEUE_SIZE
  <2>1. IsFiniteSet(Procs) /\ peers \in SUBSET Procs
    BY QueuesLongEnough
  <2> QED
    BY <1>1, <2>1, QueuesLongEnough, FS_Subset
<1>5. ToSet(queue[r]) \in SUBSET peers
  <2>1. DOMAIN queue[r] = 1..Len(queue[r]) /\ queue[r] \in [1..Len(queue[r]) -> Procs]
    BY <1>2, LenProperties
  <2> QED
    BY <1>2, <2>1 DEF ToSet
<1>6. Len(queue[r]) <= Cardinality(peers) /\ Cardinality(peers) \in Nat
      /\ (Cardinality(peers) = Len(queue[r]) => peers = ToSet(queue[r]))
  BY <1>3, <1>4, <1>5, FS_Subset, FS_CardinalityType
<1>7. Len(queue[r]) \in Nat
  BY <1>2, LenProperties
<1>8. p \in peers /\ (p \notin Waiting => p \notin ToSet(queue[r]))
  BY DEF Waiting
<1> QED
  BY <1>4, <1>6, <1>7, <1>8, MlqAssumption

(* running_list has a free slot while a CPU is without a process *)
LEMMA RoomInList ==
    ASSUME TypeOK, ListDistinct, HeldOnce, NEW c \in Cpus, proc[c] = NULL
    PROVE  Len(running_list) < MAX_QUEUE_SIZE
<1> DEFINE others == Cpus \ {c}
           holder == [p \in Held |-> CHOOSE d \in Cpus : proc[d] = p]
<1>1. IsFiniteSet(Held) /\ Cardinality(Held) = Len(running_list) /\ Len(running_list) \in Nat
  <2>1. running_list \in Seq(Procs)
    BY DEF TypeOK, MlqTypeOK
  <2> QED
    BY <2>1, DistinctLength, LenProperties DEF ListDistinct
<1>2. holder \in Injection(Held, others)
  <2>1. \A p \in Held : holder[p] \in others /\ proc[holder[p]] = p
    BY DEF Held
  <2> QED
    BY <2>1 DEF Injection, IsInjective
<1>3. IsFiniteSet(Cpus) /\ Cardinality(Cpus) <= MAX_QUEUE_SIZE /\ Cardinality(Cpus) \in Nat
  BY QueuesLongEnough, FS_CardinalityType
<1>4. IsFiniteSet(others) /\ Cardinality(others) = Cardinality(Cpus) - 1
  BY <1>3, FS_RemoveElement
<1>5. Cardinality(Held) <= Cardinality(others)
  BY <1>2, <1>4, FS_Injection
<1> QED
  BY <1>1, <1>3, <1>4, <1>5, MlqAssumption
-----------------------------------------------------------------------------
(* A CPU takes a process, or lets go of its own *)
LEMMA TakeHeld ==
    ASSUME TypeOK, HeldOnce, NEW c \in Cpus, proc[c] = NULL, NEW p \in Procs, p \notin Held,
           proc' = [proc EXCEPT ![c] = p]
    PROVE  Held' = Held \cup {p} /\ HeldOnce' /\ proc' \in [Cpus -> Procs \cup {NULL}]
<1>1. \A d \in Cpus : proc'[d] = IF d = c THEN p ELSE proc[d]
  BY DEF TypeOK
<1>2. proc' \in [Cpus -> Procs \cup {NULL}]
  BY DEF TypeOK
<1>3. p # NULL
  BY MlqSystemAssumption
<1> QED
  BY <1>1, <1>2, <1>3 DEF Held, HeldOnce

LEMMA DropHeld ==
    ASSUME TypeOK, HeldOnce, NEW c \in Cpus, proc[c] # NULL,
           proc' = [proc EXCEPT ![c] = NULL]
    PROVE  /\ proc[c] \in Procs /\ proc[c] \in Held /\ Held' = Held \ {proc[c]}
           /\ HeldOnce' /\ proc' \in [Cpus -> Procs \cup {NULL}]
<1>1. \A d \in Cpus : proc'[d] = IF d = c THEN NULL ELSE proc[d]
  BY DEF TypeOK
<1>2. proc' \in [Cpus -> Procs \cup {NULL}]
  BY DEF TypeOK
<1>3. proc[c] \in Procs /\ proc[c] \in Held
  BY DEF TypeOK, Held
<1> QED
  BY <1>1, <1>2, <1>3 DEF Held, HeldOnce

(* A process enters the queue of its priority *)
LEMMA EnterQueue ==
    ASSUME TypeOK, QueuesDistinct, NEW p \in Procs, p \notin Waiting,
           queue' = [queue EXCEPT ![Prio[p]] = Enqueue(@, p)]
    PROVE  /\ queue' \in [Prios -> Seq(Procs)] /\ QueuesDistinct'
           /\ Waiting' = Waiting \cup {p}
<1> DEFINE r == Prio[p]
           new == Enqueue(queue[r], p)
<1>1. r \in Prios /\ queue \in [Prios -> Seq(Procs)]
  BY MlqAssumption DEF Prios, TypeOK, MlqTypeOK
<1>2. queue[r] \in Seq(Procs) /\ IsInjective(queue[r]) /\ p \notin ToSet(queue[r])
  BY <1>1 DEF QueuesDistinct, Waiting
<1>3. new \in Seq(Procs) /\ IsInjective(new) /\ ToSet(new) = ToSet(queue[r]) \cup {p}
  BY <1>2, RoomInQueue, EnqueueIs
<1> HIDE DEF new
<1>4. \A s \in Prios : queue'[s] = IF s = r THEN new ELSE queue[s]
  BY <1>1 DEF new
<1>5. queue' \in [Prios -> Seq(Procs)]
  BY <1>1, <1>3 DEF new
<1>6. QueuesDistinct'
  BY <1>1, <1>3, <1>4 DEF QueuesDistinct
<1>7. \A q \in Procs : Prio[q] \in Prios
  BY MlqAssumption DEF Prios
<1>8. Waiting' = Waiting \cup {p}
  BY <1>1, <1>3, <1>4, <1>7 DEF Waiting
<1> QED
  BY <1>5, <1>6, <1>8

(* The first process of a queue leaves it *)
LEMMA LeaveQueue ==
    ASSUME TypeOK, QueuesDistinct, NEW r \in Prios, queue[r] # <<>>,
           queue' = [queue EXCEPT ![r] = Tail(@)]
    PROVE  /\ queue' \in [Prios -> Seq(Procs)] /\ QueuesDistinct'
           /\ Head(queue[r]) \in Waiting /\ Waiting' = Waiting \ {Head(queue[r])}
<1> DEFINE new == Tail(queue[r])
           p == Head(queue[r])
<1>1. queue \in [Prios -> Seq(Procs)] /\ queue[r] \in Seq(Procs) /\ IsInjective(queue[r])
  BY DEF TypeOK, MlqTypeOK, QueuesDistinct
<1>2. /\ p \in ToSet(queue[r]) /\ new \in Seq(Procs) /\ IsInjective(new)
      /\ ToSet(new) = ToSet(queue[r]) \ {p}
  BY <1>1, TailIs
<1>3. p \in Procs /\ Prio[p] = r
  BY <1>1, <1>2, HeadTailProperties DEF QueuesDistinct
<1> HIDE DEF new, p
<1>4. \A s \in Prios : queue'[s] = IF s = r THEN new ELSE queue[s]
  BY <1>1 DEF new
<1>5. queue' \in [Prios -> Seq(Procs)]
  BY <1>1, <1>2 DEF new
<1>6. QueuesDistinct'
  BY <1>2, <1>4 DEF QueuesDistinct
<1>7. \A q \in Procs : Prio[q] \in Prios
  BY MlqAssumption DEF Prios
<1>8. p \in Waiting /\ Waiting' = Waiting \ {p}
  BY <1>2, <1>3, <1>4, <1>7 DEF Waiting
<1> QED
  BY <1>5, <1>6, <1>8 DEF p

(* The turn stays within the priorities and its budget *)
LEMMA SpendSlotType ==
    ASSUME NEW r \in Prios, NEW n \in 1..Budget(r), SpendSlot(r, n)
    PROVE  curr_prio' \in Prios /\ curr_slot' \in 1..Budget(curr_prio')
<1>1. NextPrio(r) \in Prios
  <2>1. r + 1 \in Nat /\ MAX_PRIO \in Nat \ {0}
    BY MlqAssumption DEF Prios
  <2>2. (r + 1) % MAX_PRIO \in 0..(MAX_PRIO - 1)
    BY <2>1
  <2> QED
    BY <2>2 DEF NextPrio, Prios
<1>2. Budget(r) \in Nat \ {0} /\ Budget(NextPrio(r)) \in Nat \ {0}
  BY <1>1, MlqAssumption DEF Budget, Prios
<1>3. CASE n > 1
  BY <1>2, <1>3 DEF SpendSlot
<1>4. CASE ~(n > 1)
  BY <1>1, <1>2, <1>4 DEF SpendSlot
<1> QED
  BY <1>3, <1>4
-----------------------------------------------------------------------------
LEMMA InitIInv == Init => IInv
<1> SUFFICES ASSUME Init PROVE IInv
  OBVIOUS
<1> USE MlqAssumption DEF Init, MlqInit
<1>1. queue \in [Prios -> Seq(Procs)] /\ running_list = <<>> /\ running_list \in Seq(Procs)
  BY EmptySeq
<1>2. IsInjective(<<>>) /\ ToSet(<<>>) = {}
  BY DEF IsInjective, ToSet
<1>3. Held = {}
  BY DEF Held
<1>4. Waiting = {}
  BY <1>2 DEF Waiting, Prios
<1>5. TypeOK
  BY <1>1 DEF TypeOK, MlqTypeOK, Prios, Budget
<1>6. QueuesDistinct /\ ListDistinct /\ HeldOnce
  BY <1>1, <1>2, <1>3 DEF QueuesDistinct, ListDistinct, HeldOnce
<1>7. Placed
  BY <1>3, <1>4 DEF Placed, Apart
<1> QED
  BY <1>5, <1>6, <1>7 DEF IInv

LEMMA GetProcStep ==
    ASSUME IInv, NEW c \in Cpus, GetProc(c) PROVE IInv'
<1> USE DEF IInv
<1>1. PICK p \in Procs : Dispatch(p) /\ proc' = [proc EXCEPT ![c] = p]
  BY DEF GetProc
<1> DEFINE r == Prio[p]
<1>2. proc[c] = NULL /\ UNCHANGED <<idle, fresh, finished>>
  BY DEF GetProc
<1>3. /\ r \in Prios /\ queue[r] # <<>> /\ p = Head(queue[r])
      /\ queue' = [queue EXCEPT ![r] = Tail(@)]
      /\ running_list' = Enqueue(running_list, p)
      /\ SpendSlot(r, IF r = curr_prio THEN curr_slot ELSE Budget(r))
  BY <1>1, MlqAssumption DEF Dispatch, InTurn, Prios
<1>4. /\ queue' \in [Prios -> Seq(Procs)] /\ QueuesDistinct'
      /\ p \in Waiting /\ Waiting' = Waiting \ {p}
  BY <1>3, LeaveQueue
<1>5. p \notin Held
  BY <1>4 DEF Placed, Apart
<1>6. Held' = Held \cup {p} /\ HeldOnce' /\ proc' \in [Cpus -> Procs \cup {NULL}]
  BY <1>1, <1>2, <1>5, TakeHeld
<1>7. running_list' \in Seq(Procs) /\ ListDistinct'
  <2>1. running_list \in Seq(Procs) /\ IsInjective(running_list) /\ p \notin ToSet(running_list)
    BY <1>5 DEF TypeOK, MlqTypeOK, ListDistinct
  <2>2. Len(running_list) < MAX_QUEUE_SIZE
    BY <1>2, RoomInList
  <2>3. /\ running_list' \in Seq(Procs) /\ IsInjective(running_list')
        /\ ToSet(running_list') = ToSet(running_list) \cup {p}
    <3> DEFINE new == Enqueue(running_list, p)
    <3>1. new \in Seq(Procs) /\ IsInjective(new) /\ ToSet(new) = ToSet(running_list) \cup {p}
      BY <2>1, <2>2, EnqueueIs
    <3> QED
      BY <1>3, <3>1
  <2> QED
    BY <1>6, <2>3 DEF ListDistinct
<1>8. curr_prio' \in Prios /\ curr_slot' \in 1..Budget(curr_prio')
  <2> DEFINE n == IF r = curr_prio THEN curr_slot ELSE Budget(r)
  <2>1. n \in 1..Budget(r)
    BY <1>3, MlqAssumption, SMTT(30) DEF TypeOK, MlqTypeOK, Budget, Prios
  <2> HIDE DEF n
  <2>2. SpendSlot(r, n)
    BY <1>3 DEF n
  <2> QED
    BY <1>3, <2>1, <2>2, SpendSlotType
<1>9. TypeOK'
  BY <1>2, <1>4, <1>6, <1>7, <1>8 DEF TypeOK, MlqTypeOK
<1>10. Placed'
  BY <1>2, <1>4, <1>5, <1>6 DEF Placed, Apart
<1> QED
  BY <1>4, <1>6, <1>7, <1>9, <1>10

(* put_proc and finish_proc take the process off running_list *)
LEMMA OffList ==
    ASSUME IInv, NEW c \in Cpus, proc[c] # NULL, proc' = [proc EXCEPT ![c] = NULL],
           running_list' = RemoveFirst(running_list, proc[c])
    PROVE  running_list' \in Seq(Procs) /\ ListDistinct'
<1> DEFINE new == RemoveFirst(running_list, proc[c])
<1>1. Held' = Held \ {proc[c]} /\ proc[c] \in Held
  BY DropHeld DEF IInv
<1>2. /\ running_list \in Seq(Procs) /\ IsInjective(running_list)
      /\ proc[c] \in ToSet(running_list) /\ ToSet(running_list) = Held
  BY <1>1 DEF IInv, TypeOK, MlqTypeOK, ListDistinct
<1>3. new \in Seq(Procs) /\ IsInjective(new) /\ ToSet(new) = Held \ {proc[c]}
  BY <1>2, RemoveFirstIs
<1> HIDE DEF new
<1>4. running_list' = new
  BY DEF new
<1> QED
  BY <1>1, <1>3, <1>4 DEF ListDistinct

LEMMA PutProcStep ==
    ASSUME IInv, NEW c \in Cpus, PutProc(c) PROVE IInv'
<1> DEFINE p == proc[c]
<1>1. /\ p # NULL /\ proc' = [proc EXCEPT ![c] = NULL]
      /\ running_list' = RemoveFirst(running_list, p)
      /\ queue' = [queue EXCEPT ![Prio[p]] = Enqueue(@, p)]
      /\ UNCHANGED <<curr_prio, curr_slot, idle, fresh, finished>>
  BY DEF PutProc, Requeue
<1>2. /\ p \in Procs /\ p \in Held /\ Held' = Held \ {p} /\ HeldOnce'
      /\ proc' \in [Cpus -> Procs \cup {NULL}]
  BY <1>1, DropHeld DEF IInv
<1>3. p \notin Waiting
  BY <1>2 DEF IInv, Placed, Apart
<1>4. /\ queue' \in [Prios -> Seq(Procs)] /\ QueuesDistinct'
      /\ Waiting' = Waiting \cup {p}
  BY <1>1, <1>2, <1>3, EnterQueue DEF IInv
<1>5. running_list' \in Seq(Procs) /\ ListDistinct'
  BY <1>1, OffList
<1>6. TypeOK'
  BY <1>1, <1>2, <1>4, <1>5 DEF IInv, TypeOK, MlqTypeOK
<1>7. Placed'
  BY <1>1, <1>2, <1>3, <1>4 DEF IInv, Placed, Apart
<1> QED
  BY <1>2, <1>4, <1>5, <1>6, <1>7 DEF IInv

LEMMA FinishProcStep ==
    ASSUME IInv, NEW c \in Cpus, FinishProc(c) PROVE IInv'
<1> DEFINE p == proc[c]
<1>1. /\ p # NULL /\ proc' = [proc EXCEPT ![c] = NULL]
      /\ running_list' = RemoveFirst(running_list, p)
      /\ finished' = finished \cup {p}
      /\ UNCHANGED <<queue, curr_prio, curr_slot, idle, fresh>>
  BY DEF FinishProc, Retire
<1>2. /\ p \in Procs /\ p \in Held /\ Held' = Held \ {p} /\ HeldOnce'
      /\ proc' \in [Cpus -> Procs \cup {NULL}]
  BY <1>1, DropHeld DEF IInv
<1>3. running_list' \in Seq(Procs) /\ ListDistinct'
  BY <1>1, OffList
<1>4. TypeOK' /\ QueuesDistinct' /\ Waiting' = Waiting
  BY <1>1, <1>2, <1>3 DEF IInv, TypeOK, MlqTypeOK, QueuesDistinct, Waiting
<1>5. Placed'
  BY <1>1, <1>2, <1>4 DEF IInv, Placed, Apart
<1> QED
  BY <1>2, <1>3, <1>4, <1>5 DEF IInv

LEMMA AddProcStep ==
    ASSUME IInv, NEW p \in Procs, AddProc(p) PROVE IInv'
<1>1. /\ p \in fresh /\ fresh' = fresh \ {p}
      /\ queue' = [queue EXCEPT ![Prio[p]] = Enqueue(@, p)]
      /\ UNCHANGED <<running_list, curr_prio, curr_slot, proc, idle, finished>>
  BY DEF AddProc, Admit
<1>2. p \notin Waiting
  BY <1>1 DEF IInv, Placed, Apart
<1>3. /\ queue' \in [Prios -> Seq(Procs)] /\ QueuesDistinct'
      /\ Waiting' = Waiting \cup {p}
  BY <1>1, <1>2, EnterQueue DEF IInv
<1>4. Held' = Held /\ ListDistinct' /\ HeldOnce'
  BY <1>1 DEF IInv, Held, ListDistinct, HeldOnce
<1>5. TypeOK'
  BY <1>1, <1>3 DEF IInv, TypeOK, MlqTypeOK
<1>6. Placed'
  BY <1>1, <1>2, <1>3, <1>4 DEF IInv, Placed, Apart
<1> QED
  BY <1>3, <1>4, <1>5, <1>6 DEF IInv

(* The steps that move no process *)
LEMMA QuietStep ==
    ASSUME IInv, UNCHANGED <<queue, running_list, curr_prio, proc, fresh, finished>>,
           curr_slot' \in 1..Budget(curr_prio), idle' \subseteq Cpus
    PROVE  IInv'
<1>1. Held' = Held /\ Waiting' = Waiting
  BY DEF Held, Waiting
<1> QED
  BY <1>1 DEF IInv, TypeOK, MlqTypeOK, QueuesDistinct, ListDistinct, HeldOnce, Placed, Budget

LEMMA NextIInv == IInv /\ [Next]_vars => IInv'
<1> SUFFICES ASSUME IInv, [Next]_vars PROVE IInv'
  OBVIOUS
<1>1. ASSUME NEW c \in Cpus, GetProc(c) PROVE IInv'
  BY <1>1, GetProcStep
<1>2. ASSUME NEW c \in Cpus, GetNull(c) PROVE IInv'
  <2>1. curr_prio \in Prios /\ Budget(curr_prio) \in 1..Budget(curr_prio)
    BY MlqAssumption DEF IInv, TypeOK, MlqTypeOK, Budget, Prios
  <2>2. idle' \subseteq Cpus
    BY <1>2 DEF GetNull, IInv, TypeOK
  <2> QED
    BY <1>2, <2>1, <2>2, QuietStep DEF GetNull, NothingReady
<1>3. ASSUME NEW c \in Cpus, Wake(c) PROVE IInv'
  <2>1. curr_slot \in 1..Budget(curr_prio) /\ idle \subseteq Cpus
    BY DEF IInv, TypeOK, MlqTypeOK
  <2> QED
    BY <1>3, <2>1, QuietStep DEF Wake, mlqVars
<1>4. ASSUME NEW c \in Cpus, PutProc(c) PROVE IInv'
  BY <1>4, PutProcStep
<1>5. ASSUME NEW c \in Cpus, FinishProc(c) PROVE IInv'
  BY <1>5, FinishProcStep
<1>6. ASSUME NEW p \in Procs, AddProc(p) PROVE IInv'
  BY <1>6, AddProcStep
<1>7. CASE UNCHANGED vars
  <2>1. curr_slot \in 1..Budget(curr_prio) /\ idle \subseteq Cpus
    BY DEF IInv, TypeOK, MlqTypeOK
  <2> QED
    BY <1>7, <2>1, QuietStep DEF vars, mlqVars
<1> QED
  BY <1>1, <1>2, <1>3, <1>4, <1>5, <1>6, <1>7 DEF Next, CpuStep

(* The invariant that the theorems below rest on: every process is in one place,
   fresh, in the queue of its priority, on one CPU or finished, and in each list once. *)
THEOREM Inductive == Spec => []IInv
  BY InitIInv, NextIInv, PTL DEF Spec
-----------------------------------------------------------------------------
(* The scheduler's data keep their types: the turn is a priority and has   *)
(* between one slot and its budget (sched.c:57-108).                       *)
THEOREM TypeCorrect == Spec => []TypeOK
<1>1. IInv => TypeOK
  BY DEF IInv
<1> QED
  BY <1>1, Inductive, PTL

(* The slots that hold a process are those of its place in its own queue *)
LEMMA SlotsIs ==
    ASSUME IInv, NEW p \in Procs
    PROVE  /\ \A s \in Slots(p) : s[1] = Prio[p]
           /\ Cardinality(Slots(p)) = IF p \in Waiting THEN 1 ELSE 0
<1>1. \A r \in Prios : queue[r] \in Seq(Procs) /\ Len(queue[r]) \in Nat
                       /\ DOMAIN queue[r] = 1..Len(queue[r])
  BY LenProperties DEF IInv, TypeOK, MlqTypeOK
<1>2. Prio[p] \in Prios
  BY MlqAssumption DEF Prios
<1>3. \A s \in Slots(p) : s[1] \in Prios /\ s[2] \in 1..Len(queue[s[1]]) /\ queue[s[1]][s[2]] = p
  BY <1>1 DEF Slots
<1>4. \A s \in Slots(p) : s[1] = Prio[p] /\ p \in Waiting
  BY <1>1, <1>3 DEF IInv, QueuesDistinct, ToSet, Waiting
<1>5. CASE p \notin Waiting
  BY <1>4, <1>5, FS_EmptySet
<1>6. CASE p \in Waiting
  <2>1. PICK j \in 1..Len(queue[Prio[p]]) : queue[Prio[p]][j] = p
    BY <1>1, <1>2, <1>6 DEF Waiting, ToSet
  <2>2. j \in 1..MAX_QUEUE_SIZE
    BY <1>1, <1>2, RoomInQueue, MlqAssumption DEF IInv
  <2>3. <<Prio[p], j>> \in Slots(p)
    BY <1>1, <1>2, <2>1, <2>2 DEF Slots
  <2>4. ASSUME NEW s \in Slots(p) PROVE s = <<Prio[p], j>>
    <3>1. s \in Prios \X (1..MAX_QUEUE_SIZE) /\ s[1] = Prio[p] /\ s[2] \in 1..Len(queue[Prio[p]])
          /\ queue[Prio[p]][s[2]] = p
      BY <1>3, <1>4, <2>4 DEF Slots
    <3>2. s[2] = j
      BY <1>1, <1>2, <2>1, <3>1 DEF IInv, QueuesDistinct, IsInjective
    <3> QED
      BY <3>1, <3>2
  <2>5. Slots(p) = {<<Prio[p], j>>}
    BY <2>3, <2>4
  <2> QED
    BY <1>4, <1>6, <2>5, FS_Singleton
<1> QED
  BY <1>4, <1>5, <1>6

(* No process is lost or doubled by the scheduler, however many processes, *)
(* priorities and CPUs there are, also when queues are full to their last  *)
(* slot (sched.c:59-140, queue.c:12-71).                                   *)
THEOREM NoneLostNorDoubled == Spec => []OnePlace
<1>1. ASSUME IInv, NEW p \in Procs
      PROVE  Cardinality(Holders(p)) = IF p \in Held THEN 1 ELSE 0
  <2>1. p # NULL
    BY MlqSystemAssumption
  <2>2. CASE p \notin Held
    <3>1. Holders(p) = {}
      BY <2>1, <2>2 DEF Holders, Held
    <3> QED
      BY <2>2, <3>1, FS_EmptySet
  <2>3. CASE p \in Held
    <3>1. PICK c \in Cpus : Holders(p) = {c}
      BY <1>1, <2>1, <2>3 DEF Holders, Held, IInv, HeldOnce
    <3> QED
      BY <2>3, <3>1, FS_Singleton
  <2> QED
    BY <2>2, <2>3
<1>2. ASSUME NEW p, NEW S PROVE Cardinality({p} \cap S) = IF p \in S THEN 1 ELSE 0
  <2>1. {p} \cap S = IF p \in S THEN {p} ELSE {}
    OBVIOUS
  <2> QED
    BY <2>1, FS_EmptySet, FS_Singleton
<1>3. IInv => OnePlace
  <2> SUFFICES ASSUME IInv, NEW p \in Procs
               PROVE  /\ Cardinality(Slots(p)) + Cardinality(Holders(p))
                           + Cardinality({p} \cap fresh) + Cardinality({p} \cap finished) = 1
                      /\ \A s \in Slots(p) : s[1] = Prio[p]
    BY DEF OnePlace
  <2>1. /\ Cardinality(Slots(p)) = IF p \in Waiting THEN 1 ELSE 0
        /\ Cardinality(Holders(p)) = IF p \in Held THEN 1 ELSE 0
        /\ Cardinality({p} \cap fresh) = IF p \in fresh THEN 1 ELSE 0
        /\ Cardinality({p} \cap finished) = IF p \in finished THEN 1 ELSE 0
    BY <1>1, <1>2, SlotsIs
  <2>2. /\ p \in Waiting \/ p \in Held \/ p \in fresh \/ p \in finished
        /\ ~(p \in Waiting /\ p \in Held) /\ ~(p \in Waiting /\ p \in fresh)
        /\ ~(p \in Waiting /\ p \in finished) /\ ~(p \in Held /\ p \in fresh)
        /\ ~(p \in Held /\ p \in finished) /\ ~(p \in fresh /\ p \in finished)
    BY DEF IInv, Placed, Apart
  <2> QED
    BY <2>1, <2>2, SlotsIs
<1> QED
  BY <1>3, Inductive, PTL

(* running_list is exact whenever no operation of the scheduler is under   *)
(* way: the process sys_memmap looks for is there (sched.c:93, 121,        *)
(* 203).                                                                   *)
THEOREM RunningListIsExact == Spec => []RunningListExact
<1>1. IInv => RunningListExact
  BY DistinctLength DEF IInv, TypeOK, MlqTypeOK, ListDistinct, RunningListExact
<1> QED
  BY <1>1, Inductive, PTL
-----------------------------------------------------------------------------
(* Bounded bypass *)

(* The dispatches that each other priority had since the turn of r, at most:
   its whole turn if the scan has passed it, none if it is still ahead.  c is
   the priority whose turn it is, with the slots left *)
Dist(c, s) == (s - c) % MAX_PRIO

Spent(r, c, slots) ==
    [s \in Prios |-> IF s = c THEN Budget(s) - slots
                     ELSE IF Dist(c, s) < Dist(c, r) THEN 0 ELSE Budget(s)]

Others(r) == Prios \ {r}

(* Nobody is counted against an empty queue, nor more often than the others
   have spent slots *)
BypassInv ==
    /\ bypass \in [Prios -> Nat]
    /\ \A r \in Prios :
          /\ queue[r] = <<>> => bypass[r] = 0
          /\ bypass[r] <= SumFunctionOnSet(Spent(r, curr_prio, curr_slot), Others(r))

LEMMA DistIs ==
    ASSUME NEW c \in Prios, NEW s \in Prios
    PROVE  Dist(c, s) = IF s >= c THEN s - c ELSE s - c + MAX_PRIO
<1>1. CASE s >= c
  <2>1. s - c \in 0..(MAX_PRIO - 1)
    BY <1>1, MlqAssumption DEF Prios
  <2>2. (s - c) % MAX_PRIO = s - c
    BY <2>1, MlqAssumption
  <2> QED
    BY <1>1, <2>2 DEF Dist
<1>2. CASE ~(s >= c)
  <2>1. s - c \in (1 - MAX_PRIO)..(0 - 1)
    BY <1>2, MlqAssumption DEF Prios
  <2>2. (s - c) % MAX_PRIO = s - c + MAX_PRIO
    BY <2>1, MlqAssumption
  <2> QED
    BY <1>2, <2>2 DEF Dist
<1> QED
  BY <1>1, <1>2

LEMMA SpentType ==
    ASSUME NEW r \in Prios, NEW c \in Prios, NEW slots \in 1..Budget(c)
    PROVE  /\ Spent(r, c, slots) \in [Prios -> Nat]
           /\ \A x \in Prios : Spent(r, c, slots)[x] <= Budget(x)
<1>1. \A x \in Prios : Budget(x) \in Nat
  BY MlqAssumption DEF Budget, Prios
<1>2. Budget(c) - slots \in Nat /\ Budget(c) - slots <= Budget(c)
  BY <1>1
<1> QED
  BY <1>1, <1>2 DEF Spent

LEMMA OthersFinite == \A r \in Prios : IsFiniteSet(Others(r)) /\ Others(r) \subseteq Prios
<1>1. IsFiniteSet(Prios)
  BY MlqAssumption, FS_Interval DEF Prios
<1> QED
  BY <1>1, FS_Subset DEF Others

LEMMA SumOfSpent ==
    ASSUME NEW r \in Prios, NEW c \in Prios, NEW slots \in 1..Budget(c)
    PROVE  SumFunctionOnSet(Spent(r, c, slots), Others(r)) \in Nat
<1> DEFINE f == Spent(r, c, slots)
           S == Others(r)
<1>1. f \in [Prios -> Nat] /\ IsFiniteSet(S) /\ S \subseteq Prios
  BY SpentType, OthersFinite
<1> HIDE DEF f, S
<1>2. \A x \in S : f[x] <= f[x]
  BY <1>1
<1>3. SumFunctionOnSet(f, S) \in Nat
  BY <1>1, <1>2, SumGrows
<1> QED
  BY <1>3 DEF f, S

(* A dispatch from the queue of s, before the turn of r, spends a slot of s *)
LEMMA SpentGrows ==
    ASSUME NEW r \in Prios, NEW c \in Prios, NEW slots \in 1..Budget(c),
           NEW s \in Prios, Dist(c, s) < Dist(c, r), NEW n,
           n = IF s = c THEN slots ELSE Budget(s),
           NEW d, NEW left,
           IF n > 1 THEN d = s /\ left = n - 1 ELSE d = NextPrio(s) /\ left = Budget(NextPrio(s))
    PROVE  /\ \A x \in Others(r) : Spent(r, c, slots)[x] <= Spent(r, d, left)[x]
           /\ s \in Others(r) /\ Spent(r, c, slots)[s] + 1 <= Spent(r, d, left)[s]
<1>1. \A x \in Prios : Budget(x) = MAX_PRIO - x /\ x \in 0..(MAX_PRIO - 1)
  BY MlqAssumption DEF Budget, Prios
<1>2. MAX_PRIO \in Nat \ {0} /\ slots \in 1..(MAX_PRIO - c)
  BY <1>1, MlqAssumption
<1>3. n \in 1..(MAX_PRIO - s) /\ r # s
  <2>1. n \in 1..(MAX_PRIO - s)
    <3>1. CASE s = c
      BY <1>2, <3>1
    <3>2. CASE s # c
      BY <1>1, <1>2, <3>2
    <3> QED
      BY <3>1, <3>2
  <2>2. r # s
    BY <1>1, <1>2, DistIs
  <2> QED
    BY <2>1, <2>2
<1>4. CASE n > 1
  <2>1. d = s /\ left = n - 1
    BY <1>4
  <2>2. ASSUME NEW x \in Prios, x # r PROVE Spent(r, c, slots)[x] <= Spent(r, s, n - 1)[x]
    BY <1>1, <1>2, <1>3, <1>4, <2>2, DistIs DEF Spent
  <2>3. Spent(r, c, slots)[s] + 1 <= Spent(r, s, n - 1)[s]
    BY <1>1, <1>2, <1>3, <1>4, DistIs DEF Spent
  <2> QED
    BY <1>3, <2>1, <2>2, <2>3 DEF Others
<1>5. CASE ~(n > 1)
  <2>1. d = NextPrio(s) /\ left = Budget(d) /\ n = 1
    BY <1>3, <1>5
  <2>2. d \in Prios /\ d = IF s + 1 = MAX_PRIO THEN 0 ELSE s + 1
    BY <1>1, <1>2, <2>1 DEF NextPrio, Prios
  <2>3. ASSUME NEW x \in Prios, x # r PROVE Spent(r, c, slots)[x] <= Spent(r, d, Budget(d))[x]
    BY <1>1, <1>2, <1>3, <2>1, <2>2, <2>3, DistIs DEF Spent
  <2>4. Spent(r, c, slots)[s] + 1 <= Spent(r, d, Budget(d))[s]
    BY <1>1, <1>2, <1>3, <2>1, <2>2, DistIs DEF Spent
  <2> QED
    BY <1>3, <2>1, <2>3, <2>4 DEF Others
<1> QED
  BY <1>4, <1>5

(* Steps of the scheduler that are no dispatch: the turn stays, or no process
   is ready *)
LEMMA NoDispatch ==
    ASSUME IInv, BypassInv, CountBypass, proc' = proc \/ ~Dispatched,
           curr_prio' = curr_prio,
           curr_slot' = curr_slot \/ \A r \in Prios : queue[r] = <<>> /\ queue'[r] = <<>>,
           curr_slot' \in 1..Budget(curr_prio)
    PROVE  BypassInv'
<1>1. ~Dispatched
  BY DEF Dispatched
<1>2. \A r \in Prios : bypass'[r] = IF queue'[r] = <<>> \/ Served(r) THEN 0 ELSE bypass[r]
  BY <1>1 DEF CountBypass
<1>3. DOMAIN bypass' = Prios /\ bypass' = [r \in Prios |-> bypass'[r]]
  BY DEF CountBypass
<1>4. bypass' \in [Prios -> Nat]
  BY <1>2, <1>3 DEF BypassInv
<1>5. ASSUME NEW r \in Prios
      PROVE  /\ queue'[r] = <<>> => bypass'[r] = 0
             /\ bypass'[r] <= SumFunctionOnSet(Spent(r, curr_prio', curr_slot'), Others(r))
  <2>1. SumFunctionOnSet(Spent(r, curr_prio', curr_slot'), Others(r)) \in Nat
    BY SumOfSpent DEF IInv, TypeOK, MlqTypeOK
  <2>2. CASE bypass'[r] = 0
    BY <2>1, <2>2
  <2>3. CASE bypass'[r] # 0
    <3>1. bypass'[r] = bypass[r] /\ queue'[r] # <<>>
      BY <1>2, <2>3
    <3>2. curr_slot' = curr_slot
      BY <3>1
    <3> QED
      BY <3>1, <3>2 DEF BypassInv
  <2> QED
    BY <2>2, <2>3
<1> QED
  BY <1>4, <1>5 DEF BypassInv, Others, Spent, Prios, Budget, Dist

(* A CPU gets a process *)
LEMMA DispatchBypass ==
    ASSUME IInv, BypassInv, CountBypass, NEW c \in Cpus, GetProc(c) PROVE BypassInv'
<1>1. PICK p \in Procs : Dispatch(p)
  BY DEF GetProc
<1> DEFINE s == Prio[p]
           n == IF s = curr_prio THEN curr_slot ELSE Budget(s)
<1>2. /\ s \in Prios /\ queue[s] # <<>>
      /\ \A x \in Prios : Distance(x) < Distance(s) => queue[x] = <<>>
      /\ queue' = [queue EXCEPT ![s] = Tail(@)]
      /\ SpendSlot(s, n)
  BY <1>1, MlqAssumption DEF Dispatch, InTurn, Prios
<1>3. /\ curr_prio \in Prios /\ curr_slot \in 1..Budget(curr_prio)
      /\ queue \in [Prios -> Seq(Procs)]
  BY DEF IInv, TypeOK, MlqTypeOK
<1>4. /\ curr_prio' \in Prios /\ curr_slot' \in 1..Budget(curr_prio')
      /\ curr_slot' \in 1..Budget(curr_prio)'
  <2>1. n \in 1..Budget(s)
    BY <1>2, <1>3, MlqAssumption DEF Budget, Prios
  <2> HIDE DEF n
  <2> QED
    BY <1>2, <2>1, SpendSlotType DEF Budget
<1>5. IF n > 1 THEN curr_prio' = s /\ curr_slot' = n - 1
      ELSE curr_prio' = NextPrio(s) /\ curr_slot' = Budget(NextPrio(s))
  BY <1>2 DEF SpendSlot
<1> HIDE DEF n
<1>6. \A r \in Prios : r # s => queue'[r] = queue[r]
  BY <1>2, <1>3
<1>7. Served(s)
  <2>1. queue'[s] = Tail(queue[s]) /\ Len(Tail(queue[s])) = Len(queue[s]) - 1 /\ Len(queue[s]) \in Nat
    BY <1>2, <1>3, HeadTailProperties, LenProperties
  <2> QED
    BY <2>1 DEF Served
<1>8. \A r \in Prios :
        bypass'[r] = IF queue'[r] = <<>> \/ Served(r) THEN 0
                     ELSE IF Dispatched /\ queue[r] # <<>> THEN bypass[r] + 1 ELSE bypass[r]
  BY DEF CountBypass
<1>9. bypass' \in [Prios -> Nat]
  BY <1>8 DEF BypassInv, CountBypass
<1>10. ASSUME NEW r \in Prios
       PROVE  /\ queue'[r] = <<>> => bypass'[r] = 0
              /\ bypass'[r] <= SumFunctionOnSet(Spent(r, curr_prio', curr_slot'), Others(r))
  <2>0. queue'[r] = <<>> => bypass'[r] = 0
    BY <1>8
  <2>1. SumFunctionOnSet(Spent(r, curr_prio', curr_slot'), Others(r)) \in Nat
    BY <1>4, SumOfSpent DEF Budget
  <2>2. CASE bypass'[r] = 0
    BY <2>1, <2>2
  <2>3. CASE bypass'[r] # 0
    <3>1. r # s /\ queue[r] # <<>> /\ bypass'[r] <= bypass[r] + 1 /\ bypass[r] \in Nat
      BY <1>6, <1>7, <1>8, <2>3 DEF BypassInv
    <3> DEFINE f == Spent(r, curr_prio, curr_slot)
               g == Spent(r, curr_prio', curr_slot')
               S == Others(r)
    <3>2. Dist(curr_prio, s) < Dist(curr_prio, r)
      <4>1. ~(Distance(r) < Distance(s))
        BY <1>2, <3>1
      <4>2. ~(Dist(curr_prio, r) < Dist(curr_prio, s))
        BY <4>1 DEF Distance, Dist
      <4> DEFINE c0 == curr_prio
      <4>3. c0 \in Prios /\ s \in Prios /\ r \in Prios /\ r # s
        BY <1>2, <1>3, <3>1
      <4> HIDE DEF c0, s
      <4>4. /\ Dist(c0, r) = IF r >= c0 THEN r - c0 ELSE r - c0 + MAX_PRIO
            /\ Dist(c0, s) = IF s >= c0 THEN s - c0 ELSE s - c0 + MAX_PRIO
        BY <4>3, DistIs
      <4>5. ~(Dist(c0, r) < Dist(c0, s)) => Dist(c0, s) < Dist(c0, r)
        BY <4>3, <4>4, MlqAssumption DEF Prios
      <4> QED
        BY <4>2, <4>5 DEF c0
    <3>3. (\A x \in S : f[x] <= g[x]) /\ s \in S /\ f[s] + 1 <= g[s]
      BY <1>2, <1>3, <1>5, <3>2, SpentGrows DEF n
    <3>4. f \in [Prios -> Nat] /\ g \in [Prios -> Nat] /\ IsFiniteSet(S) /\ S \subseteq Prios
      BY <1>3, <1>4, SpentType, OthersFinite DEF Budget
    <3>5. bypass[r] <= SumFunctionOnSet(f, S)
      BY DEF BypassInv
    <3> HIDE DEF f, g, S
    <3>6. /\ SumFunctionOnSet(f, S) + 1 <= SumFunctionOnSet(g, S)
          /\ SumFunctionOnSet(f, S) \in Nat /\ SumFunctionOnSet(g, S) \in Nat
      BY <3>3, <3>4, SumGrows
    <3>7. bypass'[r] <= SumFunctionOnSet(g, S)
      BY <1>9, <3>1, <3>5, <3>6
    <3> QED
      BY <2>0, <3>7 DEF g, S
  <2> QED
    BY <2>0, <2>2, <2>3
<1> QED
  BY <1>9, <1>10 DEF BypassInv, Others, Spent, Prios, Budget, Dist

LEMMA BypassStep ==
    ASSUME IInv, BypassInv, [Next /\ CountBypass]_<<vars, bypass>> PROVE BypassInv'
<1>1. curr_prio \in Prios /\ curr_slot \in 1..Budget(curr_prio)
  BY DEF IInv, TypeOK, MlqTypeOK
<1>2. ASSUME NEW c \in Cpus, GetProc(c), CountBypass PROVE BypassInv'
  BY <1>2, DispatchBypass
<1>3. ASSUME NEW c \in Cpus, GetNull(c), CountBypass PROVE BypassInv'
  <2>1. Budget(curr_prio) \in 1..Budget(curr_prio)
    BY <1>1, MlqAssumption DEF Budget, Prios
  <2> QED
    BY <1>3, <2>1, NoDispatch DEF GetNull, NothingReady
<1>4. ASSUME NEW c \in Cpus, Wake(c), CountBypass PROVE BypassInv'
  BY <1>1, <1>4, NoDispatch DEF Wake, mlqVars
<1>5. ASSUME NEW c \in Cpus, PutProc(c) \/ FinishProc(c), CountBypass PROVE BypassInv'
  <2>1. proc' = [proc EXCEPT ![c] = NULL] /\ UNCHANGED <<curr_prio, curr_slot>>
    BY <1>5 DEF PutProc, Requeue, FinishProc, Retire
  <2>2. ~Dispatched
    BY <2>1 DEF Dispatched, IInv, TypeOK
  <2> QED
    BY <1>1, <1>5, <2>1, <2>2, NoDispatch
<1>6. ASSUME NEW p \in Procs, AddProc(p), CountBypass PROVE BypassInv'
  BY <1>1, <1>6, NoDispatch DEF AddProc, Admit
<1>7. CASE UNCHANGED <<vars, bypass>>
  BY <1>7 DEF vars, mlqVars, BypassInv, Others, Spent, Prios, Budget, Dist
<1> QED
  BY <1>2, <1>3, <1>4, <1>5, <1>6, <1>7 DEF Next, CpuStep

(* Counting where the scheduler does nothing changes no count *)
LEMMA BypassStutters ==
    ASSUME IInv, BypassInv, CountBypass, UNCHANGED vars PROVE UNCHANGED bypass
<1>1. ~Dispatched /\ queue' = queue
  BY DEF Dispatched, vars, mlqVars
<1>2. ASSUME NEW r \in Prios PROVE ~Served(r)
  <2>1. Len(queue[r]) \in Nat
    BY LenProperties DEF IInv, TypeOK, MlqTypeOK
  <2> QED
    BY <1>1 DEF Served
<1>3. \A r \in Prios : bypass'[r] = bypass[r]
  BY <1>1, <1>2 DEF CountBypass, BypassInv
<1>4. bypass' = [r \in Prios |-> bypass'[r]] /\ bypass = [r \in Prios |-> bypass[r]]
  BY DEF CountBypass, BypassInv
<1> QED
  BY <1>3, <1>4

LEMMA InitBypass == ASSUME IInv, bypass = [r \in Prios |-> 0] PROVE BypassInv
<1>1. curr_prio \in Prios /\ curr_slot \in 1..Budget(curr_prio)
  BY DEF IInv, TypeOK, MlqTypeOK
<1>2. \A r \in Prios : SumFunctionOnSet(Spent(r, curr_prio, curr_slot), Others(r)) \in Nat
  BY <1>1, SumOfSpent
<1> QED
  BY <1>2 DEF BypassInv

LEMMA BypassInductive == BypassSpec => [](IInv /\ BypassInv)
<1>1. BypassInit => IInv /\ BypassInv
  BY InitIInv, InitBypass DEF BypassInit
<1>2. IInv /\ BypassInv /\ [Next /\ CountBypass]_<<vars, bypass>> => IInv' /\ BypassInv'
  <2>1. IInv /\ [Next /\ CountBypass]_<<vars, bypass>> => IInv'
    BY NextIInv
  <2> QED
    BY <2>1, BypassStep
<1> QED
  BY <1>1, <1>2, PTL DEF BypassSpec

(* What each of the others has spent is at most its turn *)
LEMMA BypassInvIs == IInv /\ BypassInv => BoundedBypass
<1> SUFFICES ASSUME IInv, BypassInv, NEW r \in Prios
             PROVE  bypass[r] <= SumFunctionOnSet([s \in Prios |-> Budget(s)], Prios \ {r})
  BY DEF BoundedBypass
<1> DEFINE f == Spent(r, curr_prio, curr_slot)
           g == [s \in Prios |-> Budget(s)]
           S == Others(r)
<1>1. curr_prio \in Prios /\ curr_slot \in 1..Budget(curr_prio)
  BY DEF IInv, TypeOK, MlqTypeOK
<1>2. f \in [Prios -> Nat] /\ g \in [Prios -> Nat] /\ (\A x \in Prios : f[x] <= g[x])
      /\ IsFiniteSet(S) /\ S \subseteq Prios
  <2>1. \A x \in Prios : Budget(x) \in Nat
    BY MlqAssumption DEF Budget, Prios
  <2> QED
    BY <1>1, <2>1, SpentType, OthersFinite
<1>3. bypass[r] <= SumFunctionOnSet(f, S) /\ bypass[r] \in Nat
  BY DEF BypassInv
<1> HIDE DEF f, g, S
<1>4. \A x \in S : f[x] <= g[x]
  BY <1>2
<1>5. /\ SumFunctionOnSet(f, S) <= SumFunctionOnSet(g, S)
      /\ SumFunctionOnSet(f, S) \in Nat /\ SumFunctionOnSet(g, S) \in Nat
  BY <1>2, <1>4, SumGrows
<1>6. bypass[r] <= SumFunctionOnSet(g, S)
  BY <1>3, <1>5
<1> QED
  BY <1>6 DEF g, S, Others

(* A priority with a process ready waits for at most one turn of each of the
   others, for every number of priorities (sched.c:57-108): what was dispatched
   before it is not more than the slots that the scan has gone past. *)
THEOREM BypassIsBounded == BypassSpec => []BoundedBypass
  BY BypassInvIs, BypassInductive, PTL
=============================================================================
