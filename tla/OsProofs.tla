------------------------------ MODULE OsProofs ------------------------------
(***************************************************************************)
(* The CPU threads and the loader for any number of CPUs, processes,       *)
(* priorities and slots: types, that they use the scheduler as its         *)
(* contract has it, whole time slices, one instruction in a slot, and that *)
(* no process is left behind when the CPUs stop.                           *)
(***************************************************************************)
EXTENDS Os, QueueProofs

(* History, beside the threads: the dispatches that others got before each
   priority, counted as MlqBypass does *)
VARIABLE bypass

(* The contract with its inductive invariants *)
Contract == INSTANCE MlqSystemProofs WITH
    idle <- {c \in Cpus : proc[c] = NULL /\ cpc[c] \in {"check", "skip", "detach", "exited"}},
    fresh <- Fresh

Idle == {c \in Cpus : proc[c] = NULL /\ cpc[c] \in {"check", "skip", "detach", "exited"}}

(* The threads' own variables *)
OwnTypeOK ==
    /\ BarrierTypeOK
    /\ cpc \in [Cpus -> CpuLocations]
    /\ time_left \in [Cpus -> Remains]
    /\ pc \in [Procs -> Nat]
    /\ done \in BOOLEAN
    /\ lpc \in LoaderLocations
    /\ next \in 1..(Len(Load) + 1)
    /\ ran \in [Cpus -> IF time_slot = 0 THEN Nat ELSE 0..time_slot]
    /\ busy \subseteq Procs

(* Whether a CPU has a process, and whether it works in this slot *)
CpuInv(c) ==
    /\ cpc[c] \in {"refetch", "skip", "detach", "exited"} => proc[c] = NULL
    /\ cpc[c] \in {"run", "slot"} => proc[c] # NULL
    /\ cpc[c] \notin {"top", "exited"} => c \in pending
    /\ cpc[c] \in {"detach", "exited"} => done

(* What a CPU's process has run and what is left make a time slice *)
SliceInv(c) ==
    /\ proc[c] = NULL => time_left[c] = 0
    /\ proc[c] # NULL => \/ ran[c] + time_left[c] = time_slot
                            /\ (cpc[c] = "check" => time_left[c] # 0)
                         \/ cpc[c] = "check" /\ ran[c] = 0 /\ time_left[c] = 0
    /\ cpc[c] = "run" => ran[c] + time_left[c] = time_slot
                         /\ (time_slot # 0 => time_left[c] > 0)
    /\ cpc[c] \in {"slot", "top"} /\ proc[c] # NULL => ran[c] > 0

LoaderInv ==
    /\ done <=> lpc \in {"detach", "exited"}
    /\ done => ~Loading
    /\ lpc = "added" => LOADER \in pending

(* Who ran in this slot is with the CPU that ran it, which is done *)
BusyInv ==
    \A p \in busy : \E c \in Cpus :
        proc[c] = p /\ (cpc[c] = "slot" \/ (cpc[c] = "top" /\ c \notin pending))

OwnInv ==
    /\ OwnTypeOK /\ LoaderInv /\ BusyInv
    /\ \A c \in Cpus : CpuInv(c) /\ SliceInv(c)

(* The last add_proc was in an earlier slot *)
Loaded ==
    \/ lpc \in {"detach", "exited"}
    \/ lpc = "wait" /\ ~Loading /\ LOADER \in pending

(* CPUs that found nothing ready since, and stop or are about to *)
Out == {c \in Cpus : \/ cpc[c] \in {"detach", "exited"}
                     \/ Loaded /\ cpc[c] = "check" /\ proc[c] = NULL}

(* The CPUs that go on are enough for the processes there are *)
EnoughCpus == Out # {} => Cardinality(Procs \ finished) <= Cardinality(Cpus \ Out)

IInv == Contract!IInv /\ OwnInv /\ EnoughCpus
-----------------------------------------------------------------------------
(* The assumptions of the contract hold of the instance *)
LEMMA SameFiniteSets ==
    /\ \A S : Contract!IsFiniteSet(S) <=> IsFiniteSet(S)
    /\ \A S : Contract!Cardinality(S) = Cardinality(S)
  BY Zenon DEF IsFiniteSet, Cardinality, Contract!IsFiniteSet, Contract!Cardinality

LEMMA ContractAssumption ==
    /\ Contract!IsFiniteSet(Procs) /\ Contract!IsFiniteSet(Cpus)
    /\ \A r \in Contract!Prios :
          Contract!Cardinality({p \in Procs : Prio[p] = r}) <= MAX_QUEUE_SIZE
    /\ Contract!Cardinality(Cpus) <= MAX_QUEUE_SIZE
    /\ NULL \notin Procs
  BY QueuesLongEnough, OsAssumption, SameFiniteSets DEF Prios, Contract!Prios

LEMMA ContractInit == Contract!Init => Contract!IInv
  BY ContractAssumption, MlqAssumption, Contract!InitIInv

LEMMA ContractNext == Contract!IInv /\ [Contract!Next]_(Contract!vars) => Contract!IInv'
  BY ContractAssumption, MlqAssumption, Contract!NextIInv

(* Two instances of one specification *)
LEMMA SameRemoveFirst ==
    ASSUME NEW s, NEW e PROVE Scheduler!RemoveFirst(s, e) = Contract!RemoveFirst(s, e)
  BY Zenon DEF Scheduler!RemoveFirst, Contract!RemoveFirst, Scheduler!RemoveAt,
     Contract!RemoveAt, Scheduler!SelectInSeq, Contract!SelectInSeq,
     Scheduler!Min, Contract!Min

LEMMA SameOperations ==
    ASSUME NEW p
    PROVE  /\ Scheduler!Dispatch(p) <=> Contract!Dispatch(p)
           /\ Scheduler!Requeue(p) <=> Contract!Requeue(p)
           /\ Scheduler!Retire(p) <=> Contract!Retire(p)
           /\ Scheduler!Admit(p) <=> Contract!Admit(p)
           /\ Scheduler!NothingReady <=> Contract!NothingReady
<1>1. Scheduler!Dispatch(p) <=> Contract!Dispatch(p)
  BY Zenon DEF Scheduler!Dispatch, Contract!Dispatch, Scheduler!Prios, Contract!Prios,
     Scheduler!NextPrio, Contract!NextPrio, Scheduler!Budget,
     Contract!Budget, Scheduler!Distance, Contract!Distance,
     Scheduler!InTurn, Contract!InTurn, Scheduler!SpendSlot,
     Contract!SpendSlot, Scheduler!Enqueue, Contract!Enqueue
<1>2. Scheduler!Requeue(p) <=> Contract!Requeue(p)
  BY SameRemoveFirst, Zenon DEF Scheduler!Requeue, Contract!Requeue, Scheduler!Enqueue,
     Contract!Enqueue
<1>3. Scheduler!Retire(p) <=> Contract!Retire(p)
  BY SameRemoveFirst, Zenon DEF Scheduler!Retire, Contract!Retire
<1>4. Scheduler!Admit(p) <=> Contract!Admit(p)
  BY Zenon DEF Scheduler!Admit, Contract!Admit, Scheduler!Enqueue, Contract!Enqueue
<1>5. Scheduler!NothingReady <=> Contract!NothingReady
  BY Zenon DEF Scheduler!NothingReady, Contract!NothingReady, Scheduler!Prios,
     Contract!Prios, Scheduler!Budget, Contract!Budget
<1> QED
  BY <1>1, <1>2, <1>3, <1>4, <1>5

LEMMA SameSpec ==
    /\ Contract!Init => Scheduler!Init
    /\ [Contract!Next]_(Contract!vars) => [Scheduler!Next]_(Scheduler!vars)
<1>1. Contract!Init => Scheduler!Init
  BY Zenon DEF Scheduler!Init, Contract!Init, Scheduler!MlqInit, Contract!MlqInit,
     Scheduler!Prios, Contract!Prios, Scheduler!Budget, Contract!Budget
<1>2. Contract!Next => Scheduler!Next
  <2>1. ASSUME NEW c \in Cpus, Contract!CpuStep(c) PROVE Scheduler!CpuStep(c)
    BY <2>1, SameOperations, Zenon
    DEF Scheduler!CpuStep, Contract!CpuStep, Scheduler!GetProc,
        Contract!GetProc, Scheduler!GetNull, Contract!GetNull,
        Scheduler!Wake, Contract!Wake, Scheduler!PutProc, Contract!PutProc,
        Scheduler!FinishProc, Contract!FinishProc, Scheduler!mlqVars,
        Contract!mlqVars
  <2>2. ASSUME NEW p \in Procs, Contract!AddProc(p) PROVE Scheduler!AddProc(p)
    BY <2>2, SameOperations, Zenon DEF Scheduler!AddProc, Contract!AddProc
  <2> QED
    BY <2>1, <2>2, Zenon DEF Scheduler!Next, Contract!Next
<1>3. UNCHANGED Contract!vars => UNCHANGED Scheduler!vars
  BY Zenon DEF Scheduler!vars, Contract!vars, Scheduler!mlqVars, Contract!mlqVars
<1> QED
  BY <1>1, <1>2, <1>3
-----------------------------------------------------------------------------
(* What the contract's invariant says of the variables it shares with the  *)
(* threads                                                                 *)
LEMMA ContractSays ==
    ASSUME Contract!IInv
    PROVE  /\ proc \in [Cpus -> Procs \cup {NULL}] /\ finished \subseteq Procs /\ MlqTypeOK
           /\ \A c, d \in Cpus : proc[c] = proc[d] /\ proc[c] # NULL => c = d
  BY DEF Contract!IInv, Contract!TypeOK, Contract!MlqTypeOK, Contract!HeldOnce, MlqTypeOK,
     Contract!Prios, Prios, Contract!Budget, Budget

(* The operations of the scheduler are those of the contract *)
LEMMA ContractOperations ==
    ASSUME NEW p
    PROVE  /\ Dispatch(p) <=> Contract!Dispatch(p)
           /\ Requeue(p) <=> Contract!Requeue(p)
           /\ Retire(p) <=> Contract!Retire(p)
           /\ Admit(p) <=> Contract!Admit(p)
           /\ NothingReady <=> Contract!NothingReady
<1> USE DEF Prios, Contract!Prios, Budget, Contract!Budget, Enqueue, Contract!Enqueue
<1>1. \A s, e : RemoveFirst(s, e) = Contract!RemoveFirst(s, e)
  BY Zenon DEF RemoveFirst, RemoveAt, SelectInSeq, Min, Contract!RemoveFirst,
     Contract!RemoveAt, Contract!SelectInSeq, Contract!Min
<1>2. Dispatch(p) <=> Contract!Dispatch(p)
  BY Zenon DEF Dispatch, NextPrio, Distance, InTurn, SpendSlot, Contract!Dispatch,
     Contract!NextPrio, Contract!Distance, Contract!InTurn, Contract!SpendSlot
<1>3. Requeue(p) <=> Contract!Requeue(p)
  BY <1>1, Zenon DEF Requeue, Contract!Requeue
<1>4. Retire(p) <=> Contract!Retire(p)
  BY <1>1, Zenon DEF Retire, Contract!Retire
<1>5. Admit(p) <=> Contract!Admit(p)
  BY Zenon DEF Admit, Contract!Admit
<1>6. NothingReady <=> Contract!NothingReady
  BY Zenon DEF NothingReady, Contract!NothingReady
<1> QED
  BY <1>2, <1>3, <1>4, <1>5, <1>6

(* A step that leaves the scheduler, proc, next and the idle CPUs alone *)
LEMMA ContractStutters ==
    ASSUME UNCHANGED <<mlqVars, proc, next, finished>>, Idle' = Idle
    PROVE  UNCHANGED Contract!vars
  BY DEF Contract!vars, Contract!mlqVars, mlqVars, Idle, Fresh

(* get_proc *)
LEMMA FetchMaps ==
    ASSUME Contract!IInv, OwnInv, NEW c \in Cpus, proc[c] = NULL,
           cpc[c] \in {"top", "refetch"}, NEW none \in {"check", "skip"},
           Fetch(c, "check", none), UNCHANGED <<next, finished>>
    PROVE  Contract!GetProc(c) \/ Contract!GetNull(c)
<1>1. c \notin Idle /\ Fresh' = Fresh
  BY DEF Idle, Fresh
<1>2. proc \in [Cpus -> Procs \cup {NULL}] /\ cpc \in [Cpus -> CpuLocations]
  BY ContractSays DEF OwnInv, OwnTypeOK
<1>3. ASSUME NEW p \in Procs, Dispatch(p), proc' = [proc EXCEPT ![c] = p], Goto(c, "check")
      PROVE  Contract!GetProc(c)
  <2>1. p # NULL
    BY OsAssumption
  <2>2. Idle' = Idle
    BY <1>1, <1>2, <1>3, <2>1 DEF Idle, Goto
  <2>3. Contract!Dispatch(p)
    BY <1>3, ContractOperations
  <2> QED
    BY <1>1, <1>3, <2>2, <2>3 DEF Contract!GetProc, Idle
<1>4. ASSUME NothingReady, Goto(c, none), UNCHANGED proc
      PROVE  Contract!GetNull(c)
  <2>1. Idle' = Idle \cup {c}
    BY <1>2, <1>4 DEF Idle, Goto
  <2>2. Contract!NothingReady
    BY <1>4, ContractOperations
  <2> QED
    BY <1>1, <1>4, <2>1, <2>2 DEF Contract!GetNull, Idle
<1> QED
  BY <1>3, <1>4 DEF Fetch

LEMMA FinishMaps ==
    ASSUME Contract!IInv, OwnInv, NEW c \in Cpus, Finish(c) PROVE Contract!FinishProc(c)
<1>1. proc \in [Cpus -> Procs \cup {NULL}] /\ cpc \in [Cpus -> CpuLocations]
  BY ContractSays DEF OwnInv, OwnTypeOK
<1>2. Idle' = Idle /\ Fresh' = Fresh
  BY <1>1 DEF Finish, At, Goto, Idle, Fresh, loaderVars
<1>3. Contract!Retire(proc[c])
  BY ContractOperations DEF Finish
<1> QED
  BY <1>2, <1>3 DEF Finish, Contract!FinishProc, Idle

LEMMA PreemptMaps ==
    ASSUME Contract!IInv, OwnInv, NEW c \in Cpus, Preempt(c) PROVE Contract!PutProc(c)
<1>1. proc \in [Cpus -> Procs \cup {NULL}] /\ cpc \in [Cpus -> CpuLocations]
  BY ContractSays DEF OwnInv, OwnTypeOK
<1>2. Idle' = Idle /\ Fresh' = Fresh
  BY <1>1 DEF Preempt, At, Goto, Idle, Fresh, loaderVars
<1>3. Contract!Requeue(proc[c])
  BY ContractOperations DEF Preempt
<1> QED
  BY <1>2, <1>3 DEF Preempt, progress, Contract!PutProc, Idle

LEMMA NextSlotMaps ==
    ASSUME Contract!IInv, OwnInv, NEW c \in Cpus, NextSlot(c)
    PROVE  Contract!Wake(c) \/ UNCHANGED Contract!vars
<1>1. proc \in [Cpus -> Procs \cup {NULL}] /\ cpc \in [Cpus -> CpuLocations]
  BY ContractSays DEF OwnInv, OwnTypeOK
<1>2. UNCHANGED <<mlqVars, proc, next, finished>> /\ Fresh' = Fresh
  BY DEF NextSlot, loaderVars, progress, Fresh
<1>3. CASE cpc[c] = "skip"
  <2>1. proc[c] = NULL /\ c \in Idle
    BY <1>3 DEF OwnInv, CpuInv, Idle
  <2>2. Idle' = Idle \ {c}
    BY <1>1, <1>2, <1>3 DEF NextSlot, Goto, Idle
  <2> QED
    BY <1>2, <2>1, <2>2 DEF Contract!Wake, Contract!mlqVars, mlqVars, Idle
<1>4. CASE cpc[c] = "slot"
  <2>1. Idle' = Idle
    BY <1>1, <1>2, <1>4 DEF NextSlot, Goto, Idle
  <2> QED
    BY <1>2, <2>1, ContractStutters
<1> QED
  BY <1>3, <1>4 DEF NextSlot, At

LEMMA LdAddMaps ==
    ASSUME Contract!IInv, OwnInv, LdAdd PROVE \E p \in Procs : Contract!AddProc(p)
<1> DEFINE p == Load[next]
<1>1. /\ next \in 1..Len(Load) /\ next \in DOMAIN Load /\ DOMAIN Load = 1..Len(Load)
      /\ Len(Load) \in Nat
  BY OsAssumption, LenProperties DEF LdAdd, Loading, OwnInv, OwnTypeOK
<1>2. p \in Procs /\ p \in Fresh
  BY <1>1, OsAssumption, ElementOfSeq DEF Fresh
<1>3. next' = next + 1 /\ Admit(p) /\ Idle' = Idle
      /\ UNCHANGED <<proc, finished>>
  BY DEF LdAdd, cpuVars, progress, Idle
<1>4. \A n, m \in 1..Len(Load) : Load[n] = Load[m] => n = m
  BY <1>1, OsAssumption DEF IsInjective
<1>5. Fresh' = Fresh \ {p}
  <2>1. next..Len(Load) = {next} \cup ((next + 1)..Len(Load)) /\ next \notin (next + 1)..Len(Load)
    BY <1>1
  <2>2. Fresh' = {Load[n] : n \in (next + 1)..Len(Load)}
    BY <1>3 DEF Fresh
  <2>3. \A n \in (next + 1)..Len(Load) : Load[n] # p
    BY <1>1, <1>4
  <2> QED
    BY <2>1, <2>2, <2>3 DEF Fresh
<1>6. Contract!Admit(p)
  BY <1>3, ContractOperations
<1> HIDE DEF p
<1>7. Contract!AddProc(p)
  BY <1>2, <1>3, <1>5, <1>6 DEF Contract!AddProc, Idle
<1> QED
  BY <1>2, <1>7

LEMMA NextMaps ==
    ASSUME Contract!IInv, OwnInv, [Next]_vars PROVE [Contract!Next]_(Contract!vars)
<1> USE DEF Contract!Next, Contract!CpuStep
<1>1. proc \in [Cpus -> Procs \cup {NULL}] /\ cpc \in [Cpus -> CpuLocations]
  BY ContractSays DEF OwnInv, OwnTypeOK
<1>2. ASSUME NEW c \in Cpus, LoadProc(c) PROVE Contract!Next
  BY <1>2, FetchMaps DEF LoadProc, At, loaderVars, progress
<1>3. ASSUME NEW c \in Cpus, Refetch(c) PROVE Contract!Next
  <2>1. proc[c] = NULL
    BY <1>3 DEF Refetch, At, OwnInv, CpuInv
  <2> QED
    BY <1>3, <2>1, FetchMaps DEF Refetch, At, loaderVars, progress
<1>4. ASSUME NEW c \in Cpus, Finish(c) PROVE Contract!Next
  BY <1>4, FinishMaps
<1>5. ASSUME NEW c \in Cpus, Preempt(c) PROVE Contract!Next
  BY <1>5, PreemptMaps
<1>6. ASSUME NEW c \in Cpus, KeepProc(c) \/ CheckDone(c) \/ Run(c) \/ Stop(c)
      PROVE  UNCHANGED Contract!vars
  <2>1. UNCHANGED <<mlqVars, proc, next, finished>>
    BY <1>6 DEF KeepProc, CheckDone, Run, Stop, loaderVars, progress
  <2>2. Idle' = Idle
    BY <1>1, <1>6, <2>1 DEF KeepProc, CheckDone, Run, Stop, At, Goto, Idle, OwnInv, CpuInv
  <2> QED
    BY <2>1, <2>2, ContractStutters
<1>7. ASSUME NEW c \in Cpus, NextSlot(c) PROVE [Contract!Next]_(Contract!vars)
  BY <1>7, NextSlotMaps
<1>8. CASE LdAdd
  BY <1>8, LdAddMaps
<1>9. CASE LdWait \/ LdNextSlot \/ LdDone \/ LdDetach \/ TimerTick \/ UNCHANGED vars
  <2>1. UNCHANGED <<mlqVars, proc, next, finished, cpc>>
    BY <1>9 DEF LdWait, LdNextSlot, LdDone, LdDetach, TimerTick, vars, cpuVars, loaderVars,
       progress
  <2>2. Idle' = Idle
    BY <2>1 DEF Idle
  <2> QED
    BY <2>1, <2>2, ContractStutters
<1> QED
  BY <1>2, <1>3, <1>4, <1>5, <1>6, <1>7, <1>8, <1>9 DEF Next, CpuStep, LoaderStep
-----------------------------------------------------------------------------
LEMMA InitIInv == Init => IInv
<1> SUFFICES ASSUME Init PROVE IInv
  OBVIOUS
<1>1. Contract!Init
  <2>1. Idle = {}
    BY DEF Init, Idle
  <2>2. Fresh = Procs
    <3>1. Load \in Seq(Procs) /\ DOMAIN Load = 1..Len(Load) /\ ToSet(Load) = Procs
      BY OsAssumption, LenProperties
    <3> QED
      BY <3>1 DEF Init, Fresh, ToSet
  <2> QED
    BY <2>1, <2>2 DEF Init, MlqInit, Contract!Init, Contract!MlqInit, Contract!Prios, Prios,
       Contract!Budget, Budget, Idle
<1>2. OwnInv
  <2>1. Len(Load) \in Nat
    BY OsAssumption, LenProperties
  <2>2. OwnTypeOK
    <3>1. 0 \in Remains /\ 0 \in (IF time_slot = 0 THEN Nat ELSE 0..time_slot)
      BY OsAssumption DEF Remains
    <3>2. BarrierTypeOK
      BY HorizonAssumption DEF Init, BarrierInit, BarrierTypeOK
    <3>3. /\ cpc \in [Cpus -> CpuLocations] /\ lpc \in LoaderLocations /\ done \in BOOLEAN
          /\ busy \subseteq Procs
      BY DEF Init, CpuLocations, LoaderLocations
    <3>4. pc \in [Procs -> Nat] /\ next \in 1..(Len(Load) + 1)
      BY <2>1 DEF Init
    <3>5. /\ time_left \in [Cpus -> Remains]
          /\ ran \in [Cpus -> IF time_slot = 0 THEN Nat ELSE 0..time_slot]
      BY <3>1 DEF Init
    <3> QED
      BY <3>2, <3>3, <3>4, <3>5 DEF OwnTypeOK
  <2>3. LoaderInv /\ BusyInv
    BY DEF Init, LoaderInv, BusyInv
  <2>4. \A c \in Cpus : CpuInv(c) /\ SliceInv(c)
    BY DEF Init, CpuInv, SliceInv
  <2> QED
    BY <2>2, <2>3, <2>4 DEF OwnInv
<1>3. EnoughCpus
  BY DEF Init, EnoughCpus, Out
<1> QED
  BY <1>1, <1>2, <1>3, ContractInit DEF IInv

(* get_proc, the start of a slice, and an instruction, for the CPU that    *)
(* takes the step                                                          *)
LEMMA FetchOwn ==
    ASSUME IInv, NEW c \in Cpus, c \in pending, proc[c] = NULL, cpc[c] \in {"top", "refetch"},
           NEW none \in {"check", "skip"}, Fetch(c, "check", none),
           UNCHANGED <<barrierVars, loaderVars, time_left, progress>>
    PROVE  OwnTypeOK' /\ CpuInv(c)' /\ SliceInv(c)'
<1>1. OwnTypeOK /\ SliceInv(c) /\ proc \in [Cpus -> Procs \cup {NULL}] /\ time_left[c] = 0
  BY ContractSays DEF IInv, OwnInv, SliceInv
<1>2. /\ NULL \notin Procs /\ 0 \in (IF time_slot = 0 THEN Nat ELSE 0..time_slot)
      /\ {"check", none} \subseteq CpuLocations
  BY OsAssumption DEF CpuLocations
<1>3. cpc' \in [Cpus -> CpuLocations]
  BY <1>1, <1>2 DEF Fetch, Goto, OwnTypeOK
<1>4. ran' \in [Cpus -> IF time_slot = 0 THEN Nat ELSE 0..time_slot]
  BY <1>1, <1>2 DEF Fetch, OwnTypeOK
<1>5. OwnTypeOK'
  BY <1>1, <1>3, <1>4 DEF OwnTypeOK, BarrierTypeOK, barrierVars, loaderVars, progress
<1>6. \/ cpc'[c] = "check" /\ proc'[c] # NULL /\ ran'[c] = 0
      \/ cpc'[c] = none /\ proc'[c] = NULL
  BY <1>1, <1>2 DEF Fetch, Goto, OwnTypeOK
<1>7. c \in pending' /\ time_left'[c] = 0
  BY <1>1 DEF barrierVars
<1> QED
  BY <1>5, <1>6, <1>7 DEF CpuInv, SliceInv

LEMMA CheckOwn ==
    ASSUME IInv, NEW c \in Cpus, CheckDone(c)
    PROVE  OwnTypeOK' /\ CpuInv(c)' /\ SliceInv(c)'
<1>1. OwnTypeOK /\ SliceInv(c) /\ time_slot \in Nat
  BY OsAssumption DEF IInv, OwnInv
<1>2. /\ c \in pending /\ cpc[c] = "check"
      /\ cpc' = [cpc EXCEPT ![c] =
                   IF proc[c] # NULL THEN "run" ELSE IF done THEN "detach" ELSE "skip"]
      /\ UNCHANGED <<mlqVars, barrierVars, loaderVars, proc, ran, progress>>
  BY DEF CheckDone, At, Goto
<1>3. time_slot \in Remains
  BY <1>1 DEF Remains
<1>4. time_left' \in [Cpus -> Remains]
  BY <1>1, <1>3 DEF CheckDone, OwnTypeOK
<1>5. cpc' \in [Cpus -> CpuLocations]
  BY <1>1, <1>2 DEF OwnTypeOK, CpuLocations
<1>6. OwnTypeOK'
  BY <1>1, <1>2, <1>4, <1>5 DEF OwnTypeOK, BarrierTypeOK, barrierVars, loaderVars, progress
<1>7. CpuInv(c)'
  BY <1>1, <1>2 DEF CpuInv, OwnTypeOK, barrierVars, loaderVars
<1>8. time_left[c] \in Remains /\ ran[c] \in (IF time_slot = 0 THEN Nat ELSE 0..time_slot)
      /\ time_left'[c] = IF proc[c] # NULL /\ time_left[c] = 0 THEN time_slot ELSE time_left[c]
  BY <1>1 DEF OwnTypeOK, CheckDone
<1>9. cpc'[c] = IF proc[c] # NULL THEN "run" ELSE IF done THEN "detach" ELSE "skip"
  BY <1>1, <1>2 DEF OwnTypeOK
<1>10. CASE proc[c] = NULL
  BY <1>1, <1>2, <1>6, <1>7, <1>8, <1>9, <1>10 DEF SliceInv
<1>11. CASE proc[c] # NULL
  <2>1. \/ ran[c] + time_left[c] = time_slot /\ time_left[c] # 0
        \/ ran[c] = 0 /\ time_left[c] = 0
    BY <1>1, <1>2, <1>11 DEF SliceInv
  <2>2. ran[c] + time_left'[c] = time_slot /\ (time_slot # 0 => time_left'[c] > 0)
    <3>1. CASE time_slot = 0
      BY <1>8, <1>11, <2>1, <3>1 DEF Remains
    <3>2. CASE time_slot # 0
      BY <1>1, <1>8, <1>11, <2>1, <3>2 DEF Remains
    <3> QED
      BY <3>1, <3>2
  <2> QED
    BY <1>2, <1>6, <1>7, <1>9, <1>11, <2>2 DEF SliceInv
<1> QED
  BY <1>10, <1>11

LEMMA RunOwn ==
    ASSUME IInv, NEW c \in Cpus, Run(c)
    PROVE  OwnTypeOK' /\ CpuInv(c)' /\ SliceInv(c)'
<1>1. OwnTypeOK /\ SliceInv(c) /\ CpuInv(c) /\ time_slot \in Nat
      /\ proc \in [Cpus -> Procs \cup {NULL}] /\ Size \in [Procs -> Nat]
  BY ContractSays, OsAssumption DEF IInv, OwnInv
<1>2. /\ c \in pending /\ cpc[c] = "run" /\ cpc' = [cpc EXCEPT ![c] = "slot"]
      /\ time_left' = [time_left EXCEPT ![c] = @ - 1]
      /\ ran' = [ran EXCEPT ![c] = @ + 1]
      /\ busy' = busy \cup {proc[c]}
      /\ UNCHANGED <<mlqVars, barrierVars, loaderVars, proc, finished>>
  BY DEF Run, At, Goto
<1>3. proc[c] \in Procs
  BY <1>1, <1>2 DEF CpuInv
<1>4. /\ time_left[c] \in Remains /\ ran[c] \in (IF time_slot = 0 THEN Nat ELSE 0..time_slot)
      /\ ran[c] + time_left[c] = time_slot /\ (time_slot # 0 => time_left[c] > 0)
  BY <1>1, <1>2 DEF OwnTypeOK, SliceInv
<1>5. /\ time_left[c] - 1 \in Remains
      /\ ran[c] + 1 \in (IF time_slot = 0 THEN Nat ELSE 0..time_slot)
      /\ (ran[c] + 1) + (time_left[c] - 1) = time_slot /\ ran[c] + 1 > 0
  <2>1. CASE time_slot = 0
    BY <1>4, <2>1 DEF Remains
  <2>2. CASE time_slot # 0
    BY <1>1, <1>4, <2>2 DEF Remains
  <2> QED
    BY <2>1, <2>2
<1>6. time_left' \in [Cpus -> Remains]
  BY <1>1, <1>2, <1>5 DEF OwnTypeOK
<1>7. ran' \in [Cpus -> IF time_slot = 0 THEN Nat ELSE 0..time_slot]
  BY <1>1, <1>2, <1>5 DEF OwnTypeOK
<1>8. cpc' \in [Cpus -> CpuLocations] /\ cpc'[c] = "slot"
  BY <1>1, <1>2 DEF OwnTypeOK, CpuLocations
<1>9. pc' \in [Procs -> Nat]
  BY <1>1, <1>3 DEF Run, OwnTypeOK
<1>10. OwnTypeOK'
  BY <1>1, <1>2, <1>3, <1>6, <1>7, <1>8, <1>9 DEF OwnTypeOK, BarrierTypeOK, barrierVars,
     loaderVars
<1>11. time_left'[c] = time_left[c] - 1 /\ ran'[c] = ran[c] + 1
  BY <1>1, <1>2 DEF OwnTypeOK
<1> QED
  BY <1>1, <1>2, <1>5, <1>8, <1>10, <1>11 DEF CpuInv, SliceInv, barrierVars

(* A step of one CPU in its slot, up to its own variables: the others and  *)
(* the loader are left alone                                               *)
LEMMA CpuStepOwn ==
    ASSUME IInv, NEW c \in Cpus, CpuStep(c) PROVE OwnInv'
<1> DEFINE Typed == /\ proc \in [Cpus -> Procs \cup {NULL}] /\ OwnTypeOK
<1>1. Typed /\ NULL \notin Procs /\ time_slot \in Nat
  BY ContractSays, OsAssumption DEF IInv, OwnInv
<1>2. CpuInv(c) /\ SliceInv(c) /\ LoaderInv /\ BusyInv /\ c # LOADER /\ c \in pending
  BY OsAssumption DEF IInv, OwnInv, CpuStep, LoadProc, Finish, Preempt, KeepProc, Refetch,
     CheckDone, Run, NextSlot, Stop, At
<1>3. /\ \A d \in Cpus \ {c} :
            /\ cpc'[d] = cpc[d] /\ proc'[d] = proc[d] /\ time_left'[d] = time_left[d]
            /\ ran'[d] = ran[d] /\ (d \in pending' <=> d \in pending)
      /\ UNCHANGED loaderVars /\ (LOADER \in pending' <=> LOADER \in pending)
  BY <1>1, <1>2 DEF CpuStep, LoadProc, Fetch, Finish, Preempt, KeepProc, Refetch, CheckDone,
     Run, NextSlot, Stop, At, Goto, OwnTypeOK, barrierVars, loaderVars, Arrive, Leave
<1>4. OwnTypeOK' /\ CpuInv(c)' /\ SliceInv(c)'
  <2> USE <1>1, <1>2 DEF OwnTypeOK, BarrierTypeOK, CpuInv, SliceInv, Remains, CpuLocations,
     At, Goto, barrierVars, loaderVars, progress
  <2>1. CASE LoadProc(c)
    BY <2>1, FetchOwn DEF LoadProc
  <2>2. CASE Refetch(c)
    BY <2>2, FetchOwn DEF Refetch
  <2>3. CASE Finish(c)
    BY <2>3 DEF Finish
  <2>4. CASE Preempt(c)
    BY <2>4 DEF Preempt
  <2>5. CASE KeepProc(c)
    BY <2>5 DEF KeepProc
  <2>6. CASE CheckDone(c)
    BY <2>6, CheckOwn
  <2>7. CASE Run(c)
    BY <2>7, RunOwn
  <2>8. CASE NextSlot(c)
    BY <2>8 DEF NextSlot, Arrive
  <2>9. CASE Stop(c)
    BY <2>9 DEF Stop, Leave
  <2> QED
    BY <2>1, <2>2, <2>3, <2>4, <2>5, <2>6, <2>7, <2>8, <2>9 DEF CpuStep
<1>5. \A d \in Cpus : CpuInv(d)' /\ SliceInv(d)'
  BY <1>3, <1>4 DEF IInv, OwnInv, CpuInv, SliceInv, loaderVars
<1>6. LoaderInv'
  BY <1>2, <1>3 DEF LoaderInv, loaderVars, Loading
<1>7. BusyInv'
  <2>1. CASE Run(c)
    BY <1>1, <1>2, <1>3, <2>1 DEF Run, At, Goto, BusyInv, OwnTypeOK, CpuInv
  <2>2. CASE NextSlot(c)
    BY <1>1, <1>2, <1>3, <2>2 DEF NextSlot, Arrive, At, Goto, BusyInv, OwnTypeOK, progress
  <2>3. CASE ~Run(c) /\ ~NextSlot(c)
    <3>1. busy' = busy /\ cpc[c] # "slot"
      BY <2>3 DEF CpuStep, LoadProc, Finish, Preempt, KeepProc, Refetch, CheckDone, Stop,
         progress, At
    <3> QED
      BY <1>2, <1>3, <3>1 DEF BusyInv
  <2> QED
    BY <2>1, <2>2, <2>3
<1> QED
  BY <1>4, <1>5, <1>6, <1>7 DEF OwnInv

(* The clock stays below its bound *)
LEMMA CappedType ==
    ASSUME NEW n \in 0..Horizon PROVE Capped(n + 1) \in 0..Horizon
  BY HorizonAssumption DEF Capped

LEMMA OtherStepOwn ==
    ASSUME IInv, LoaderStep \/ TimerTick \/ UNCHANGED vars PROVE OwnInv'
<1>1. OwnTypeOK /\ LoaderInv /\ BusyInv /\ (\A c \in Cpus : CpuInv(c) /\ SliceInv(c))
      /\ Len(Load) \in Nat /\ LOADER \notin Cpus
  BY OsAssumption, LenProperties DEF IInv, OwnInv
<1> USE <1>1 DEF OwnTypeOK, BarrierTypeOK, LoaderInv, LoaderLocations, Loading
<1>2. CASE LdWait
  <2>1. \A c \in Cpus : (c \in pending' <=> c \in pending)
    BY <1>2 DEF LdWait, Arrive
  <2> QED
    BY <1>2, <2>1 DEF LdWait, LoaderAt, Arrive, cpuVars, loaderVars, progress, OwnInv, CpuInv,
       SliceInv, BusyInv
<1>3. CASE LdAdd
  BY <1>3 DEF LdAdd, LoaderAt, barrierVars, cpuVars, progress, OwnInv, CpuInv, SliceInv, BusyInv
<1>4. CASE LdNextSlot
  <2>1. \A c \in Cpus : (c \in pending' <=> c \in pending)
    BY <1>4 DEF LdNextSlot, Arrive
  <2> QED
    BY <1>4, <2>1 DEF LdNextSlot, LoaderAt, Arrive, cpuVars, progress, OwnInv, CpuInv, SliceInv,
       BusyInv
<1>5. CASE LdDone
  BY <1>5 DEF LdDone, LoaderAt, barrierVars, cpuVars, progress, OwnInv, CpuInv, SliceInv, BusyInv
<1>6. CASE LdDetach
  <2>1. \A c \in Cpus : (c \in pending' <=> c \in pending)
    BY <1>6 DEF LdDetach, Leave
  <2> QED
    BY <1>6, <2>1 DEF LdDetach, LoaderAt, Leave, cpuVars, progress, OwnInv, CpuInv, SliceInv,
       BusyInv
<1>7. CASE TimerTick
  <2>1. pending = {} /\ busy' = {} /\ now' = Capped(now + 1)
        /\ pending' = Devs \ left /\ left' = left
        /\ UNCHANGED <<mlqVars, cpuVars, loaderVars, pc, finished>>
    BY <1>7 DEF TimerTick, Tick
  <2>2. \A c \in Cpus : cpc[c] \in {"top", "exited"}
    BY <2>1 DEF CpuInv
  <2>3. now' \in 0..Horizon
    BY <2>1, CappedType
  <2> QED
    BY <2>1, <2>2, <2>3 DEF cpuVars, loaderVars, OwnInv, CpuInv, SliceInv, BusyInv
<1>8. CASE UNCHANGED vars
  BY <1>8 DEF vars, barrierVars, cpuVars, loaderVars, progress, OwnInv, CpuInv, SliceInv, BusyInv
<1> QED
  BY <1>2, <1>3, <1>4, <1>5, <1>6, <1>7, <1>8 DEF LoaderStep
-----------------------------------------------------------------------------
(* EnoughCpus: a process less, or a CPU more, is as good *)
LEMMA FewerProcs ==
    ASSUME EnoughCpus, Out' \subseteq Out, finished \subseteq finished'
    PROVE  EnoughCpus'
<1>1. IsFiniteSet(Procs) /\ IsFiniteSet(Cpus)
  BY QueuesLongEnough
<1>2. IsFiniteSet(Procs \ finished) /\ Procs \ finished' \in SUBSET (Procs \ finished)
  BY <1>1, FS_Subset
<1>3. IsFiniteSet(Cpus \ Out') /\ Cpus \ Out \in SUBSET (Cpus \ Out')
  BY <1>1, FS_Subset
<1>4. /\ Cardinality(Procs \ finished') <= Cardinality(Procs \ finished)
      /\ Cardinality(Cpus \ Out) <= Cardinality(Cpus \ Out')
  BY <1>2, <1>3, FS_Subset
<1>5. /\ Cardinality(Procs \ finished') \in Nat /\ Cardinality(Procs \ finished) \in Nat
      /\ Cardinality(Cpus \ Out) \in Nat /\ Cardinality(Cpus \ Out') \in Nat
  BY <1>2, <1>3, FS_Subset, FS_CardinalityType
<1>6. Out' # {} => Cardinality(Procs \ finished) <= Cardinality(Cpus \ Out)
  BY DEF EnoughCpus
<1> QED
  BY <1>4, <1>5, <1>6 DEF EnoughCpus

(* When the queues are empty and no process is to come, each process left  *)
(* is with a CPU that goes on                                              *)
LEMMA AllHeld ==
    ASSUME Contract!IInv, Fresh = {}, \A r \in Prios : queue[r] = <<>>,
           NEW S \in SUBSET {c \in Cpus : proc[c] = NULL}
    PROVE  Cardinality(Procs \ finished) <= Cardinality(Cpus \ S)
<1> DEFINE holder == [p \in Procs \ finished |-> CHOOSE c \in Cpus : proc[c] = p]
<1>1. Contract!Waiting = {}
  <2>1. \A p \in Procs : Prio[p] \in Prios
    BY MlqAssumption DEF Prios
  <2> QED
    BY <2>1 DEF Contract!Waiting, Contract!ToSet
<1>2. Procs \ finished \subseteq Contract!Held
  BY <1>1 DEF Contract!IInv, Contract!Placed, Contract!Apart
<1>3. \A p \in Procs \ finished : holder[p] \in Cpus \ S /\ proc[holder[p]] = p
  BY <1>2 DEF Contract!Held
<1>4. holder \in Injection(Procs \ finished, Cpus \ S)
  BY <1>3 DEF Injection, IsInjective
<1>5. IsFiniteSet(Cpus \ S)
  BY QueuesLongEnough, FS_Subset
<1> QED
  BY <1>4, <1>5, FS_Injection

LEMMA CpuStepEnough ==
    ASSUME IInv, NEW c \in Cpus, CpuStep(c) PROVE EnoughCpus'
<1>1. /\ proc \in [Cpus -> Procs \cup {NULL}] /\ cpc \in [Cpus -> CpuLocations]
      /\ finished \subseteq Procs /\ CpuInv(c) /\ c # LOADER /\ NULL \notin Procs
      /\ EnoughCpus
  BY ContractSays, OsAssumption DEF IInv, OwnInv, OwnTypeOK
<1>2. Loaded' <=> Loaded
  <2>1. UNCHANGED loaderVars /\ (LOADER \in pending' <=> LOADER \in pending)
    BY <1>1 DEF CpuStep, LoadProc, Finish, Preempt, KeepProc, Refetch, CheckDone, Run, NextSlot,
       Stop, Arrive, Leave, barrierVars
  <2> QED
    BY <2>1 DEF Loaded, Loading, loaderVars
<1>3. CASE Refetch(c) /\ NothingReady /\ UNCHANGED proc /\ Loaded
  <2>1. Fresh = {} /\ Fresh' = Fresh
    <3>1. ~Loading
      BY <1>3 DEF Loaded, IInv, OwnInv, LoaderInv
    <3>2. next \in 1..(Len(Load) + 1) /\ Len(Load) \in Nat
      BY OsAssumption, LenProperties DEF IInv, OwnInv, OwnTypeOK
    <3> QED
      BY <1>3, <3>1, <3>2 DEF Loading, Fresh, Refetch, loaderVars
  <2>2. Out' \in SUBSET {d \in Cpus : proc[d] = NULL}
    <3>1. cpc' = [cpc EXCEPT ![c] = "check"] /\ proc[c] = NULL
      BY <1>1, <1>3, OsAssumption, Zenon DEF Refetch, At, Fetch, Goto, CpuInv
    <3>2. \A d \in Cpus : cpc[d] \in {"detach", "exited"} => proc[d] = NULL
      BY DEF IInv, OwnInv, CpuInv
    <3> QED
      BY <1>1, <1>3, <3>1, <3>2 DEF Out
  <2>3. finished' = finished /\ \A r \in Prios : queue[r] = <<>>
    BY <1>3 DEF Refetch, progress, NothingReady
  <2>4. Cardinality(Procs \ finished) <= Cardinality(Cpus \ Out')
    <3> DEFINE S == Out'
    <3>1. S \in SUBSET {d \in Cpus : proc[d] = NULL}
      BY <2>2
    <3> HIDE DEF S
    <3>2. Cardinality(Procs \ finished) <= Cardinality(Cpus \ S)
      BY <2>1, <2>3, <3>1, AllHeld DEF IInv
    <3> QED
      BY <3>2 DEF S
  <2> QED
    BY <2>3, <2>4 DEF EnoughCpus
<1>4. CASE Refetch(c) /\ ~(NothingReady /\ UNCHANGED proc /\ Loaded)
  <2>1. Out' \subseteq Out
    BY <1>1, <1>2, <1>4 DEF Refetch, Fetch, At, Goto, Out
  <2> QED
    BY <1>1, <1>4, <2>1, FewerProcs DEF Refetch, progress
<1>5. CASE LoadProc(c)
  <2>1. Out' \subseteq Out
    BY <1>1, <1>2, <1>5 DEF LoadProc, Fetch, At, Goto, Out
  <2> QED
    BY <1>1, <1>5, <2>1, FewerProcs DEF LoadProc, progress
<1>6. CASE Finish(c)
  <2>1. Out' \subseteq Out
    BY <1>1, <1>2, <1>6 DEF Finish, At, Goto, Out
  <2> QED
    BY <1>1, <1>6, <2>1, FewerProcs DEF Finish
<1>7. CASE Preempt(c) \/ KeepProc(c) \/ Run(c) \/ NextSlot(c) \/ Stop(c)
  <2>1. Out' \subseteq Out
    BY <1>1, <1>2, <1>7 DEF Preempt, KeepProc, Run, NextSlot, Stop, At, Goto, Out
  <2> QED
    BY <1>1, <1>7, <2>1, FewerProcs DEF Preempt, KeepProc, Run, NextSlot, Stop, progress
<1>8. CASE CheckDone(c)
  <2>1. done => Loaded
    BY DEF IInv, OwnInv, LoaderInv, Loaded
  <2>2. Out' \subseteq Out
    BY <1>1, <1>2, <1>8, <2>1 DEF CheckDone, At, Goto, Out
  <2> QED
    BY <1>1, <1>8, <2>2, FewerProcs DEF CheckDone, progress
<1> QED
  BY <1>3, <1>4, <1>5, <1>6, <1>7, <1>8 DEF CpuStep

LEMMA OtherStepEnough ==
    ASSUME IInv, LoaderStep \/ TimerTick \/ UNCHANGED vars PROVE EnoughCpus'
<1>1. UNCHANGED <<cpc, proc, finished>>
  BY DEF LoaderStep, LdWait, LdAdd, LdNextSlot, LdDone, LdDetach, TimerTick, vars, cpuVars,
     progress
<1>2. Loaded' /\ ~Loaded => \A c \in Cpus : cpc[c] # "check"
  <2>1. CASE TimerTick
    BY <2>1 DEF TimerTick, Tick, IInv, OwnInv, CpuInv
  <2>2. CASE ~TimerTick
    <3>1. ~(Loaded' /\ ~Loaded)
      BY <2>2 DEF LoaderStep, LdWait, LdAdd, LdNextSlot, LdDone, LdDetach, vars, LoaderAt,
         Arrive, Leave, Loaded, Loading, barrierVars, loaderVars
    <3> QED
      BY <3>1
  <2> QED
    BY <2>1, <2>2
<1>3. Out' \subseteq Out
  BY <1>1, <1>2 DEF Out
<1> QED
  BY <1>1, <1>3, FewerProcs DEF IInv

LEMMA NextIInv == IInv /\ [Next]_vars => IInv'
<1> SUFFICES ASSUME IInv, [Next]_vars PROVE IInv'
  OBVIOUS
<1>1. Contract!IInv'
  BY NextMaps, ContractNext DEF IInv
<1>2. OwnInv' /\ EnoughCpus'
  BY CpuStepOwn, OtherStepOwn, CpuStepEnough, OtherStepEnough DEF Next
<1> QED
  BY <1>1, <1>2 DEF IInv

(* The invariant that the theorems below rest on: that of the scheduler, what each
   CPU and the loader hold where they are in their loops, and that enough CPUs go on. *)
THEOREM Inductive == Spec => []IInv
  BY InitIInv, NextIInv, PTL DEF Spec
-----------------------------------------------------------------------------
(* The threads' variables keep their types: what is left of a slice is     *)
(* never negative unless time_slot is 0 (os.c:102-180, 185-272).           *)
THEOREM TypeCorrect == Spec => []TypeOK
<1>1. IInv => TypeOK
  BY ContractSays DEF IInv, OwnInv, OwnTypeOK, TypeOK
<1> QED
  BY <1>1, Inductive, PTL

(* The CPUs and the loader call the scheduler as its contract allows, so   *)
(* they lose no process and run none twice (os.c:108-141, 257-263).        *)
THEOREM OsUsesScheduler == Spec => UsesScheduler
<1>1. Init => Scheduler!Init
  <2>1. Init => Contract!Init
    <3>1. Init => Idle = {} /\ Fresh = Procs
      <4>1. Load \in Seq(Procs) /\ DOMAIN Load = 1..Len(Load) /\ ToSet(Load) = Procs
        BY OsAssumption, LenProperties
      <4> QED
        BY <4>1 DEF Init, Fresh, ToSet, Idle
    <3> QED
      BY <3>1 DEF Init, MlqInit, Contract!Init, Contract!MlqInit, Contract!Prios, Prios,
         Contract!Budget, Budget, Idle
  <2> QED
    BY <2>1, SameSpec
<1>2. IInv /\ [Next]_vars => [Scheduler!Next]_(Scheduler!vars)
  BY NextMaps, SameSpec DEF IInv
<1> QED
  BY <1>1, <1>2, Inductive, PTL DEF Spec, UsesScheduler, Scheduler!Spec

(* put_proc ends whole slices only, for every time_slot (os.c:125-151).    *)
THEOREM SlicesAreWhole == Spec => WholeSlice
<1>1. IInv /\ [Next]_vars => [\A c \in Cpus : Preempt(c) => ran[c] = time_slot]_vars
  <2> SUFFICES ASSUME IInv, NEW c \in Cpus, Preempt(c) PROVE ran[c] = time_slot
    OBVIOUS
  <2>1. SliceInv(c) /\ cpc[c] = "top" /\ proc[c] # NULL /\ time_left[c] = 0
    BY DEF IInv, OwnInv, Preempt, At
  <2>2. ran[c] + time_left[c] = time_slot /\ ran[c] \in Int
    <3>1. ran[c] \in (IF time_slot = 0 THEN Nat ELSE 0..time_slot)
      BY DEF IInv, OwnInv, OwnTypeOK
    <3> QED
      BY <2>1, <3>1, OsAssumption DEF SliceInv
  <2> QED
    BY <2>1, <2>2
<1> QED
  BY <1>1, Inductive, PTL DEF Spec, WholeSlice

(* With time_slot 0 no process is ever preempted: its CPU keeps it until   *)
(* it ends (os.c:125, 148, 178).                                           *)
THEOREM ZeroSlotNeverPreempts ==
    Spec => [][time_slot = 0 => \A c \in Cpus : ~Preempt(c)]_vars
<1>1. IInv /\ [Next]_vars => [time_slot = 0 => \A c \in Cpus : ~Preempt(c)]_vars
  <2> SUFFICES ASSUME IInv, time_slot = 0, NEW c \in Cpus, Preempt(c) PROVE FALSE
    OBVIOUS
  <2>1. SliceInv(c) /\ cpc[c] = "top" /\ proc[c] # NULL /\ time_left[c] = 0
        /\ ran[c] \in Nat
    BY DEF IInv, OwnInv, OwnTypeOK, Preempt, At
  <2> QED
    BY <2>1 DEF SliceInv
<1> QED
  BY <1>1, Inductive, PTL DEF Spec

(* However many CPUs there are, a process runs on one of them in a slot,   *)
(* and there once (os.c:108-180).                                          *)
THEOREM OneInstruction == Spec => OneInstructionPerSlot
<1>1. IInv /\ [Next]_vars => [\A p \in Procs : pc'[p] # pc[p] => p \notin busy]_vars
  <2> SUFFICES ASSUME IInv, Next, NEW p \in Procs, pc'[p] # pc[p] PROVE p \notin busy
    BY DEF vars, progress
  <2>1. PICK c \in Cpus : Run(c)
    BY DEF Next, CpuStep, LoadProc, Refetch, Finish, Preempt, KeepProc, CheckDone, NextSlot,
       Stop, LoaderStep, LdWait, LdAdd, LdNextSlot, LdDone, LdDetach, TimerTick, progress
  <2>2. p = proc[c] /\ p # NULL /\ cpc[c] = "run"
    <3>1. pc \in [Procs -> Nat] /\ CpuInv(c)
      BY DEF IInv, OwnInv, OwnTypeOK
    <3> QED
      BY <2>1, <3>1 DEF Run, At, CpuInv
  <2>3. \A d \in Cpus : proc[d] = p => d = c
    BY <2>2, ContractSays DEF IInv
  <2> QED
    BY <2>2, <2>3 DEF IInv, OwnInv, BusyInv
<1> QED
  BY <1>1, Inductive, PTL DEF Spec, OneInstructionPerSlot

(* When the last CPU stops nothing is left to run, whatever the start      *)
(* times are (os.c:131-141, 257-269).                                      *)
THEOREM NothingIsAbandoned == Spec => []NothingAbandoned
<1>1. IInv => NothingAbandoned
  <2> SUFFICES ASSUME IInv, \A c \in Cpus : cpc[c] = "exited" PROVE finished = Procs
    BY DEF NothingAbandoned
  <2>1. Out = Cpus /\ Out # {} /\ Cpus \ Out = {}
    BY OsAssumption DEF Out
  <2>2. Cardinality(Procs \ finished) <= 0
    BY <2>1, FS_EmptySet DEF IInv, EnoughCpus
  <2>3. IsFiniteSet(Procs \ finished) /\ Cardinality(Procs \ finished) \in Nat
    BY QueuesLongEnough, FS_Subset, FS_CardinalityType
  <2>4. Procs \ finished = {}
    BY <2>2, <2>3, FS_EmptySet
  <2> QED
    BY <2>4, ContractSays DEF IInv
<1> QED
  BY <1>1, Inductive, PTL

(* The threads with the count of the dispatches *)
BypassSpec ==
    Spec /\ bypass = [r \in Prios |-> 0] /\ [][Contract!CountBypass]_<<vars, bypass>>

(* A priority with a process ready waits for at most one turn of each of the
   others while the CPU threads get, put back and finish processes and the
   loader adds them (os.c:108-141, sched.c:57-108). *)
THEOREM ThreadsBypassIsBounded == BypassSpec => []Contract!BoundedBypass
<1> DEFINE Inv == IInv /\ Contract!BypassInv
<1>1. Init /\ bypass = [r \in Prios |-> 0] => Inv
  <2> SUFFICES ASSUME Init, bypass = [r \in Prios |-> 0] PROVE Inv
    OBVIOUS
  <2>1. IInv
    BY InitIInv
  <2>2. Contract!BypassInv
    <3>1. \A r \in Prios : bypass[r] = 0
      OBVIOUS
    <3>2. Contract!IInv /\ bypass = [r \in Contract!Prios |-> 0]
      BY <2>1 DEF IInv, Prios, Contract!Prios
    <3> QED
      BY <3>2, ContractAssumption, MlqAssumption, Contract!InitBypass
  <2> QED
    BY <2>1, <2>2
<1>2. Inv /\ [Next]_vars /\ [Contract!CountBypass]_<<vars, bypass>> => Inv'
  <2> SUFFICES ASSUME Inv, [Next]_vars, [Contract!CountBypass]_<<vars, bypass>>
               PROVE  Inv'
    OBVIOUS
  <2>1. IInv' /\ [Contract!Next]_(Contract!vars) /\ Contract!IInv
    BY NextIInv, NextMaps DEF IInv
  <2>2. CASE UNCHANGED <<vars, bypass>>
    <3>1. UNCHANGED Contract!vars
      BY <2>2 DEF vars, mlqVars, progress, loaderVars, cpuVars, Contract!vars,
                  Contract!mlqVars, Fresh
    <3> QED
      BY <2>1, <2>2, <3>1, ContractAssumption, MlqAssumption, Contract!BypassStep
  <2>3. CASE Contract!CountBypass
    BY <2>1, <2>3, ContractAssumption, MlqAssumption, Contract!BypassStep, Contract!BypassStutters
  <2> QED
    BY <2>2, <2>3
<1>3. Inv => Contract!BoundedBypass
  BY ContractAssumption, MlqAssumption, Contract!BypassInvIs DEF IInv
<1> QED
  BY <1>1, <1>2, <1>3, PTL DEF BypassSpec, Spec
=============================================================================
