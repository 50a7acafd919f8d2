------------------------- MODULE RunningListProofs --------------------------
(***************************************************************************)
(* running_list for any number of CPUs and processes and any length of the *)
(* array: between operations it is the sequence of the scheduler's model,  *)
(* not even a shift hides an executing process, and what a traversal reads *)
(* of freed memory was freed in the same turn of its loop.                 *)
(***************************************************************************)
EXTENDS RunningList, QueueProofs

(* Who has the lock, and who has which process *)
HeldInv ==
    /\ \A c \in Cpus : holder = c <=> loc[c] \in {"store", "grow", "search", "shift"}
    /\ \A c \in Cpus : loc[c] = "none" <=> proc[c] = NULL
    /\ \A c, d \in Cpus : proc[c] = proc[d] /\ proc[c] # NULL => c = d
    /\ \A c \in Cpus : proc[c] \notin freed

(* CPUs whose process was enlisted, or found no slot, and is not yet removed *)
Enlisted(c) == loc[c] \notin {"none", "store", "grow", "free"}

(* The sequence holds processes of such CPUs, each once; a search that is
   over has found its process or shown that there is none *)
ModelInv ==
    /\ IsInjective(model)
    /\ \A p \in ToSet(model) : \E c \in Cpus : Enlisted(c) /\ proc[c] = p
    /\ \A c \in Cpus : loc[c] = "search" =>
          idx[c] <= size /\ \A k \in 1..idx[c] : model[k] # proc[c]

(* In a shift the slots from the process's on are copies of their successors,
   up to the loop counter *)
Shifted(c) ==
    \E at \in 1..size :
        /\ model[at] = proc[c] /\ at <= idx[c] + 1 /\ idx[c] < size
        /\ \A k \in 0..(size - 1) :
              arr[k] = IF at <= k + 1 /\ k < idx[c] THEN model[k + 2] ELSE model[k + 1]

ArrayInv ==
    /\ size = Len(model)
    /\ (\A c \in Cpus : loc[c] # "shift") => \A k \in 0..(size - 1) : arr[k] = model[k + 1]
    /\ \A c \in Cpus : loc[c] = "shift" => Shifted(c)
    /\ \A c \in Cpus : loc[c] = "grow" => size < MAX_QUEUE_SIZE /\ arr[size] = proc[c]

(* A slot that is about to be loaded, or was, holds no process that was freed
   before the turn began *)
FlightInv ==
    /\ \A c \in Cpus : loc[c] \in {"load", "deref", "reload"} => idx[c] < MAX_QUEUE_SIZE
    /\ \A c \in Cpus : loc[c] = "load" /\ arr[idx[c]] \in freed => arr[idx[c]] \in since[c]
    /\ FreedOnlyInFlight

IInv == TypeOK /\ HeldInv /\ ModelInv /\ ArrayInv /\ FlightInv
-----------------------------------------------------------------------------
LEMMA InitIInv == Init => IInv
<1> SUFFICES ASSUME Init PROVE IInv
  OBVIOUS
<1> USE RunningListAssumption DEF Init
<1>1. model \in Seq(Procs) /\ Len(model) = 0 /\ DOMAIN model = {}
  BY EmptySeq
<1>2. TypeOK
  BY <1>1 DEF TypeOK, Locations
<1>3. HeldInv
  BY DEF HeldInv
<1>4. ModelInv
  BY <1>1 DEF ModelInv, IsInjective, ToSet
<1>5. ArrayInv
  BY <1>1 DEF ArrayInv
<1>6. FlightInv
  BY DEF FlightInv, FreedOnlyInFlight
<1> QED
  BY <1>2, <1>3, <1>4, <1>5, <1>6 DEF IInv

(* The positions of the sequence *)
LEMMA Positions ==
    ASSUME TypeOK, ArrayInv
    PROVE  /\ size \in Nat /\ DOMAIN model = 1..size /\ size <= MAX_QUEUE_SIZE
           /\ ToSet(model) = {model[k] : k \in 1..size}
           /\ \A k \in 1..size : model[k] \in Procs
<1>1. model \in Seq(Procs) /\ size = Len(model) /\ size \in 0..MAX_QUEUE_SIZE
  BY DEF TypeOK, ArrayInv
<1>2. DOMAIN model = 1..size /\ size \in Nat /\ model \in [1..size -> Procs]
  BY <1>1, LenProperties
<1> QED
  BY <1>1, <1>2, RunningListAssumption DEF ToSet

(* Nobody else is in a section of the lock *)
LEMMA Alone ==
    ASSUME HeldInv, NEW c \in Cpus, loc[c] \in {"store", "grow", "search", "shift"}, NEW d \in Cpus, d # c
    PROVE  loc[d] \notin {"store", "grow", "search", "shift"}
  BY DEF HeldInv

(* The slots below size hold processes of the sequence, none of them freed *)
LEMMA LiveSlots ==
    ASSUME IInv, NEW k \in 0..(size - 1) PROVE arr[k] \in ToSet(model) /\ arr[k] \notin freed
<1> USE DEF IInv
<1>1. /\ size \in Nat /\ ToSet(model) = {model[j] : j \in 1..size}
  BY Positions
<1>2. arr[k] \in ToSet(model)
  <2>1. CASE \A c \in Cpus : loc[c] # "shift"
    BY <1>1, <2>1 DEF ArrayInv
  <2>2. CASE \E c \in Cpus : loc[c] = "shift"
    <3>1. PICK c \in Cpus : Shifted(c)
      BY <2>2 DEF ArrayInv
    <3>2. /\ idx[c] < size
          /\ arr[k] = model[k + 1] \/ (k < idx[c] /\ arr[k] = model[k + 2])
      <4>1. PICK at \in 1..size :
              /\ idx[c] < size
              /\ arr[k] = IF at <= k + 1 /\ k < idx[c] THEN model[k + 2] ELSE model[k + 1]
        BY <3>1 DEF Shifted
      <4>2. CASE at <= k + 1 /\ k < idx[c]
        BY <4>1, <4>2
      <4>3. CASE ~(at <= k + 1 /\ k < idx[c])
        BY <4>1, <4>3
      <4> QED
        BY <4>2, <4>3
    <3>4. idx[c] \in Nat
      BY RunningListAssumption DEF TypeOK
    <3>3. k + 1 \in 1..size /\ (k < idx[c] => k + 2 \in 1..size)
      BY <1>1, <3>2, <3>4
    <3> QED
      BY <1>1, <3>2, <3>3
  <2> QED
    BY <2>1, <2>2
<1> QED
  BY <1>2 DEF ModelInv, HeldInv
-----------------------------------------------------------------------------
(* The end of a purge, both ways *)
LEMMA GiveUpIs ==
    ASSUME TypeOK, NEW c \in Cpus, GiveUp(c)
    PROVE  /\ holder' = NULL /\ idx'[c] = 0
           /\ UNCHANGED <<arr, slot, ending, freed, since>>
           /\ \/ loc'[c] = "free" /\ proc'[c] = proc[c]
              \/ loc'[c] = "none" /\ proc'[c] = NULL
           /\ \A d \in Cpus \ {c} : loc'[d] = loc[d] /\ proc'[d] = proc[d] /\ idx'[d] = idx[d]
<1>1. /\ holder' = NULL /\ idx' = [idx EXCEPT ![c] = 0]
      /\ UNCHANGED <<arr, slot, ending, freed, since>>
  BY Zenon DEF GiveUp, life
<1>2. CASE c \in ending
  BY <1>1, <1>2 DEF GiveUp, TypeOK, Goto
<1>3. CASE c \notin ending
  BY <1>1, <1>3 DEF GiveUp, TypeOK, Goto
<1> QED
  BY <1>2, <1>3

LEMMA GiveUpType ==
    ASSUME TypeOK, NEW c \in Cpus, GiveUp(c)
    PROVE  /\ holder' = NULL /\ UNCHANGED <<arr, slot, ending, freed, since>>
           /\ loc' \in [Cpus -> Locations] /\ proc' \in [Cpus -> Procs \cup {NULL}]
           /\ idx' \in [Cpus -> 0..MAX_QUEUE_SIZE]
<1> USE RunningListAssumption
<1>1. /\ holder' = NULL /\ idx' = [idx EXCEPT ![c] = 0]
      /\ UNCHANGED <<arr, slot, ending, freed, since>>
  BY Zenon DEF GiveUp, life
<1>2. loc' \in [Cpus -> Locations] /\ proc' \in [Cpus -> Procs \cup {NULL}]
  <2>1. CASE c \in ending
    BY <2>1 DEF GiveUp, TypeOK, Goto, Locations
  <2>2. CASE c \notin ending
    BY <2>2 DEF GiveUp, TypeOK, Goto, Locations
  <2> QED
    BY <2>1, <2>2
<1>3. idx' \in [Cpus -> 0..MAX_QUEUE_SIZE]
  BY <1>1 DEF TypeOK
<1> QED
  BY <1>1, <1>2, <1>3

LEMMA TypeStep == IInv /\ [Next]_vars => TypeOK'
<1> SUFFICES ASSUME IInv, [Next]_vars PROVE TypeOK'
  OBVIOUS
<1> USE RunningListAssumption DEF IInv, TypeOK, list, life, Goto, Locations
<1>1. CASE UNCHANGED vars
  BY <1>1 DEF vars
<1>2. ASSUME NEW c \in Cpus, NEW p \in Procs, Take(c, p) PROVE TypeOK'
  BY <1>2 DEF Take
<1>3. ASSUME NEW c \in Cpus, StoreFull(c) PROVE TypeOK'
  BY <1>3 DEF StoreFull
<1>4. ASSUME NEW c \in Cpus, StoreSlot(c) PROVE TypeOK'
  BY <1>4 DEF StoreSlot
<1>5. ASSUME NEW c \in Cpus, Grow(c) PROVE TypeOK'
  <2>1. proc[c] \in Procs
    BY <1>5 DEF Grow, HeldInv
  <2>2. model' \in Seq(Procs)
    BY <1>5, <2>1, AppendProperties DEF Grow
  <2>3. size + 1 \in 0..MAX_QUEUE_SIZE
    BY <1>5 DEF Grow, ArrayInv
  <2> QED
    BY <1>5, <2>2, <2>3 DEF Grow
<1>6. ASSUME NEW c \in Cpus, Release(c) PROVE TypeOK'
  BY <1>6 DEF Release
<1>7. ASSUME NEW c \in Cpus, SearchOn(c) PROVE TypeOK'
  BY <1>7 DEF SearchOn
<1>8. ASSUME NEW c \in Cpus, SearchHit(c) PROVE TypeOK'
  BY <1>8 DEF SearchHit
<1>9. ASSUME NEW c \in Cpus, SearchEnd(c) PROVE TypeOK'
  <2>1. GiveUp(c) /\ UNCHANGED <<size, model>>
    BY <1>9 DEF SearchEnd
  <2> QED
    BY <2>1, GiveUpType
<1>10. ASSUME NEW c \in Cpus, ShiftSlot(c) PROVE TypeOK'
  <2>1. /\ arr' = [arr EXCEPT ![idx[c]] = arr[idx[c] + 1]] /\ idx' = [idx EXCEPT ![c] = idx[c] + 1]
        /\ UNCHANGED <<size, model, holder, loc, proc, slot, ending, freed, since>>
    BY <1>10, Zenon DEF ShiftSlot
  <2>2. idx[c] + 1 \in 0..(MAX_QUEUE_SIZE - 1) /\ idx[c] + 1 \in 0..MAX_QUEUE_SIZE
    BY <1>10 DEF ShiftSlot
  <2>3. arr[idx[c] + 1] \in Procs \cup {NULL}
    BY <2>2
  <2>4. arr' \in [0..(MAX_QUEUE_SIZE - 1) -> Procs \cup {NULL}] /\ idx' \in [Cpus -> 0..MAX_QUEUE_SIZE]
    BY <2>1, <2>2, <2>3
  <2> QED
    BY <2>1, <2>4
<1>11. ASSUME NEW c \in Cpus, Shrink(c) PROVE TypeOK'
  <2>1. model' \in Seq(Procs)
    BY <1>11, RemoveFirstType DEF Shrink
  <2>2. size > 0
    BY <1>11 DEF Shrink, ArrayInv, Shifted
  <2>3. size' \in 0..MAX_QUEUE_SIZE
    BY <1>11, <2>2 DEF Shrink
  <2>4. GiveUp(c)
    BY <1>11 DEF Shrink
  <2> QED
    BY <2>1, <2>3, <2>4, GiveUpType
<1>12. ASSUME NEW c \in Cpus, FreeProc(c) PROVE TypeOK'
  <2>1. proc[c] \in Procs
    BY <1>12 DEF FreeProc, Free, HeldInv
  <2> QED
    BY <1>12, <2>1 DEF FreeProc, Free
<1>13. ASSUME NEW c \in Cpus, CallMemmap(c) PROVE TypeOK'
  BY <1>13 DEF CallMemmap
<1>14. ASSUME NEW c \in Cpus, TestSize(c) PROVE TypeOK'
  BY <1>14 DEF TestSize
<1>15. ASSUME NEW c \in Cpus, LoadSlot(c) PROVE TypeOK'
  BY <1>15 DEF LoadSlot, FlightInv
<1>16. ASSUME NEW c \in Cpus, Compare(c) PROVE TypeOK'
  <2>1. idx[c] + 1 \in 0..MAX_QUEUE_SIZE
    BY <1>16 DEF Compare, FlightInv
  <2>2. UNCHANGED <<arr, size, model, holder, proc, ending, freed, since>>
    BY <1>16 DEF Compare
  <2>3. CASE slot[c] = proc[c]
    BY <1>16, <2>2, <2>3 DEF Compare
  <2>4. CASE slot[c] # proc[c]
    <3>1. /\ idx' = [idx EXCEPT ![c] = idx[c] + 1] /\ slot' = [slot EXCEPT ![c] = NULL]
          /\ loc' = [loc EXCEPT ![c] = "test"]
      BY <1>16, <2>4, Zenon DEF Compare
    <3>2. idx' \in [Cpus -> 0..MAX_QUEUE_SIZE]
      BY <2>1, <3>1
    <3>3. slot' \in [Cpus -> Procs \cup {NULL}] /\ loc' \in [Cpus -> Locations]
      BY <3>1
    <3> QED
      BY <2>2, <3>2, <3>3
  <2> QED
    BY <2>3, <2>4
<1>17. ASSUME NEW c \in Cpus, LoadCaller(c) PROVE TypeOK'
  BY <1>17 DEF LoadCaller, FlightInv
<1>18. ASSUME NEW c \in Cpus, Return(c) PROVE TypeOK'
  BY <1>18 DEF Return
<1> QED
  BY <1>1, <1>2, <1>3, <1>4, <1>5, <1>6, <1>7, <1>8, <1>9, <1>10, <1>11, <1>12, <1>13,
     <1>14, <1>15, <1>16, <1>17, <1>18 DEF Next, CpuStep

LEMMA HeldStep == IInv /\ [Next]_vars => HeldInv'
<1> SUFFICES ASSUME IInv, [Next]_vars PROVE HeldInv'
  OBVIOUS
<1> USE RunningListAssumption DEF IInv, TypeOK, HeldInv, list, life, Goto
<1>1. CASE UNCHANGED vars
  BY <1>1 DEF vars
<1>2. ASSUME NEW c \in Cpus, NEW p \in Procs, Take(c, p) PROVE HeldInv'
  BY <1>2 DEF Take
<1>3. ASSUME NEW c \in Cpus, StoreFull(c) PROVE HeldInv'
  BY <1>3 DEF StoreFull
<1>4. ASSUME NEW c \in Cpus, StoreSlot(c) PROVE HeldInv'
  BY <1>4 DEF StoreSlot
<1>5. ASSUME NEW c \in Cpus, Grow(c) PROVE HeldInv'
  BY <1>5 DEF Grow
<1>6. ASSUME NEW c \in Cpus, Release(c) PROVE HeldInv'
  BY <1>6 DEF Release
<1>7. ASSUME NEW c \in Cpus, SearchOn(c) PROVE HeldInv'
  BY <1>7 DEF SearchOn
<1>8. ASSUME NEW c \in Cpus, SearchHit(c) PROVE HeldInv'
  BY <1>8 DEF SearchHit
<1>9. ASSUME NEW c \in Cpus, GiveUp(c), loc[c] \in {"search", "shift"} PROVE HeldInv'
  <2>1. /\ holder' = NULL /\ freed' = freed
        /\ \/ loc'[c] = "free" /\ proc'[c] = proc[c]
           \/ loc'[c] = "none" /\ proc'[c] = NULL
        /\ \A d \in Cpus \ {c} : loc'[d] = loc[d] /\ proc'[d] = proc[d]
    BY <1>9, GiveUpIs
  <2>2. holder = c /\ proc[c] # NULL
    BY <1>9
  <2>3. \A d \in Cpus : loc'[d] \notin {"store", "grow", "search", "shift"}
    BY <1>9, <2>1, Alone
  <2>4. \A d \in Cpus : loc'[d] = "none" <=> proc'[d] = NULL
    BY <2>1, <2>2
  <2>5. \A d \in Cpus : proc'[d] # NULL => proc'[d] = proc[d]
    BY <2>1
  <2>6. \A d, e \in Cpus : proc'[d] = proc'[e] /\ proc'[d] # NULL => d = e
    BY <2>5
  <2>7. \A d \in Cpus : proc'[d] \notin freed'
    BY <2>1, <2>5
  <2>8. \A d \in Cpus : holder' # d
    BY <2>1
  <2> QED
    BY <2>3, <2>4, <2>6, <2>7, <2>8
<1>10. ASSUME NEW c \in Cpus, ShiftSlot(c) PROVE HeldInv'
  BY <1>10 DEF ShiftSlot
<1>11. ASSUME NEW c \in Cpus, SearchEnd(c) \/ Shrink(c) PROVE HeldInv'
  BY <1>9, <1>11 DEF SearchEnd, Shrink
<1>12. ASSUME NEW c \in Cpus, FreeProc(c) PROVE HeldInv'
  BY <1>12 DEF FreeProc, Free
<1>13. ASSUME NEW c \in Cpus, CallMemmap(c) PROVE HeldInv'
  BY <1>13 DEF CallMemmap
<1>14. ASSUME NEW c \in Cpus, TestSize(c) PROVE HeldInv'
  BY <1>14 DEF TestSize
<1>15. ASSUME NEW c \in Cpus, LoadSlot(c) PROVE HeldInv'
  BY <1>15 DEF LoadSlot
<1>16. ASSUME NEW c \in Cpus, Compare(c) PROVE HeldInv'
  BY <1>16 DEF Compare
<1>17. ASSUME NEW c \in Cpus, LoadCaller(c) PROVE HeldInv'
  BY <1>17 DEF LoadCaller
<1>18. ASSUME NEW c \in Cpus, Return(c) PROVE HeldInv'
  BY <1>18 DEF Return
<1> QED
  BY <1>1, <1>2, <1>3, <1>4, <1>5, <1>6, <1>7, <1>8, <1>10, <1>11, <1>12, <1>13,
     <1>14, <1>15, <1>16, <1>17, <1>18 DEF Next, CpuStep
-----------------------------------------------------------------------------
(* A step of c that leaves the list alone, and does not take an enlisted
   process out, keeps the sequence right; its own search is the caller's *)
LEMMA ModelFrame ==
    ASSUME ModelInv, UNCHANGED <<size, model>>, NEW c \in Cpus,
           \A d \in Cpus \ {c} : loc'[d] = loc[d] /\ proc'[d] = proc[d] /\ idx'[d] = idx[d],
           Enlisted(c) /\ proc[c] \in ToSet(model) => Enlisted(c)' /\ proc'[c] = proc[c],
           loc'[c] = "search" =>
              idx'[c] <= size /\ \A k \in 1..idx'[c] : model[k] # proc'[c]
    PROVE  ModelInv'
<1>1. IsInjective(model)'
  BY DEF ModelInv
<1>2. ASSUME NEW p \in ToSet(model)' PROVE \E d \in Cpus : Enlisted(d)' /\ proc'[d] = p
  <2>1. PICK d \in Cpus : Enlisted(d) /\ proc[d] = p
    BY DEF ModelInv
  <2>2. CASE d = c
    BY <2>1, <2>2
  <2>3. CASE d # c
    BY <2>1, <2>3 DEF Enlisted
  <2> QED
    BY <2>2, <2>3
<1>3. ASSUME NEW d \in Cpus, loc'[d] = "search"
      PROVE  idx'[d] <= size' /\ \A k \in 1..idx'[d] : model'[k] # proc'[d]
  <2>1. CASE d = c
    BY <1>3, <2>1
  <2>2. CASE d # c
    BY <1>3, <2>2 DEF ModelInv
  <2> QED
    BY <2>1, <2>2
<1> QED
  BY <1>1, <1>2, <1>3 DEF ModelInv

LEMMA ArrayFrame ==
    ASSUME ArrayInv, UNCHANGED <<arr, size, model>>, NEW c \in Cpus,
           \A d \in Cpus \ {c} : loc'[d] = loc[d] /\ proc'[d] = proc[d] /\ idx'[d] = idx[d],
           loc[c] \notin {"shift", "grow"}, loc'[c] \notin {"shift", "grow"}
    PROVE  ArrayInv'
<1>1. ASSUME NEW d \in Cpus, loc'[d] = "shift" PROVE Shifted(d)'
  <2>1. d # c /\ Shifted(d)
    BY <1>1 DEF ArrayInv
  <2> QED
    BY <2>1 DEF Shifted
<1>2. (\A d \in Cpus : loc'[d] # "shift") => \A k \in 0..(size - 1) : arr[k] = model[k + 1]
  BY DEF ArrayInv
<1>3. \A d \in Cpus : loc'[d] = "grow" => size < MAX_QUEUE_SIZE /\ arr[size] = proc'[d]
  BY DEF ArrayInv
<1> QED
  BY <1>1, <1>2, <1>3 DEF ArrayInv

(* A step of a CPU changes its own place, process and counters only *)
LEMMA OthersStay ==
    ASSUME IInv, NEW c \in Cpus, CpuStep(c)
    PROVE  \A d \in Cpus \ {c} : loc'[d] = loc[d] /\ proc'[d] = proc[d]
                                 /\ idx'[d] = idx[d] /\ slot'[d] = slot[d]
<1> USE DEF IInv, TypeOK, Goto
<1> DEFINE Stay == \A d \in Cpus \ {c} : loc'[d] = loc[d] /\ proc'[d] = proc[d]
                                        /\ idx'[d] = idx[d] /\ slot'[d] = slot[d]
<1>1. ASSUME NEW p \in Procs, Take(c, p) PROVE Stay
  BY <1>1 DEF Take
<1>2. ASSUME StoreFull(c) \/ StoreSlot(c) \/ Grow(c) PROVE Stay
  BY <1>2 DEF StoreFull, StoreSlot, Grow
<1>3. ASSUME Release(c) \/ SearchOn(c) \/ SearchHit(c) \/ ShiftSlot(c) PROVE Stay
  BY <1>3 DEF Release, SearchOn, SearchHit, ShiftSlot
<1>4. ASSUME SearchEnd(c) \/ Shrink(c) PROVE Stay
  <2>1. GiveUp(c)
    BY <1>4 DEF SearchEnd, Shrink
  <2> QED
    BY <2>1, GiveUpIs
<1>5. ASSUME FreeProc(c) PROVE Stay
  BY <1>5 DEF FreeProc, Free
<1>6. ASSUME CallMemmap(c) \/ TestSize(c) \/ LoadSlot(c) PROVE Stay
  BY <1>6 DEF CallMemmap, TestSize, LoadSlot
<1>7. ASSUME LoadCaller(c) \/ Return(c) PROVE Stay
  BY <1>7 DEF LoadCaller, Return
<1>8. ASSUME Compare(c) PROVE Stay
  <2>1. CASE slot[c] = proc[c]
    BY <1>8, <2>1 DEF Compare
  <2>2. CASE slot[c] # proc[c]
    BY <1>8, <2>2 DEF Compare
  <2> QED
    BY <2>1, <2>2
<1> QED
  BY <1>1, <1>2, <1>3, <1>4, <1>5, <1>6, <1>7, <1>8 DEF CpuStep
-----------------------------------------------------------------------------
LEMMA ModelStep == IInv /\ [Next]_vars => ModelInv'
<1> SUFFICES ASSUME IInv, [Next]_vars PROVE ModelInv'
  OBVIOUS
<1>1. CASE UNCHANGED vars
  BY <1>1 DEF IInv, ModelInv, Enlisted, vars, list, life
<1>2. ASSUME NEW c \in Cpus, CpuStep(c) PROVE ModelInv'
  <2> USE RunningListAssumption DEF IInv, TypeOK, Goto, list, life
  <2>0. \A d \in Cpus \ {c} : loc'[d] = loc[d] /\ proc'[d] = proc[d] /\ idx'[d] = idx[d]
    BY <1>2, OthersStay
  <2>1. ASSUME NEW p \in Procs, Take(c, p) PROVE ModelInv'
    BY <2>0, <2>1, ModelFrame DEF Take, Enlisted
  <2>2. ASSUME StoreFull(c) \/ StoreSlot(c) PROVE ModelInv'
    BY <2>0, <2>2, ModelFrame DEF StoreFull, StoreSlot, Enlisted
  <2>3. ASSUME Grow(c) PROVE ModelInv'
    <3>1. proc[c] \in Procs /\ proc[c] \notin ToSet(model)
      <4>1. ASSUME proc[c] \in ToSet(model) PROVE FALSE
        <5>1. PICK d \in Cpus : Enlisted(d) /\ proc[d] = proc[c]
          BY <4>1 DEF ModelInv
        <5> QED
          BY <2>3, <5>1 DEF Grow, HeldInv, Enlisted
      <4> QED
        BY <2>3, <4>1 DEF Grow, HeldInv
    <3>2. IsInjective(model') /\ ToSet(model') = ToSet(model) \cup {proc[c]}
      BY <2>3, <3>1, AppendIs DEF Grow, ModelInv
    <3>3. loc'[c] = "run" /\ proc'[c] = proc[c]
      BY <2>3 DEF Grow
    <3>4. \A d \in Cpus : loc'[d] # "search"
      BY <2>0, <2>3, <3>3, Alone DEF Grow
    <3>5. \A d \in Cpus : Enlisted(d) => Enlisted(d)' /\ proc'[d] = proc[d]
      BY <2>0, <3>3 DEF Enlisted
    <3> QED
      BY <3>2, <3>3, <3>4, <3>5, ZenonT(30) DEF ModelInv, Enlisted
  <2>4. ASSUME Release(c) PROVE ModelInv'
    BY <2>0, <2>4, ModelFrame DEF Release, Enlisted
  <2>5. ASSUME SearchOn(c) PROVE ModelInv'
    <3>1. /\ loc'[c] = "search" /\ idx'[c] = idx[c] + 1 /\ proc'[c] = proc[c]
          /\ idx[c] \in Nat /\ idx[c] < size /\ size \in Nat
      BY <2>5 DEF SearchOn
    <3>2. arr[idx[c]] = model[idx[c] + 1]
      BY <2>5, <3>1, Alone DEF SearchOn, ArrayInv
    <3>3. \A k \in 1..idx'[c] : model[k] # proc'[c]
      BY <2>5, <3>1, <3>2 DEF SearchOn, ModelInv
    <3> QED
      BY <2>0, <2>5, <3>1, <3>3, ModelFrame DEF SearchOn, Enlisted
  <2>6. ASSUME SearchHit(c) \/ ShiftSlot(c) PROVE ModelInv'
    <3>1. /\ UNCHANGED <<size, model, proc>>
          /\ loc[c] \in {"search", "shift"} /\ loc'[c] = "shift"
      BY <2>6 DEF SearchHit, ShiftSlot
    <3>2. Enlisted(c)'
      BY <3>1 DEF Enlisted
    <3> QED
      BY <2>0, <3>1, <3>2, ModelFrame
  <2>7. ASSUME SearchEnd(c) PROVE ModelInv'
    <3>1. GiveUp(c) /\ UNCHANGED <<size, model>>
      BY <2>7 DEF SearchEnd
    <3>2. loc'[c] # "search"
      BY <3>1, GiveUpIs
    <3>3. proc[c] \notin ToSet(model)
      <4>1. idx[c] = size /\ \A k \in 1..idx[c] : model[k] # proc[c]
        BY <2>7 DEF SearchEnd, ModelInv
      <4> QED
        BY <4>1, Positions
    <3> QED
      BY <2>0, <3>1, <3>2, <3>3, ModelFrame
  <2>8. ASSUME Shrink(c) PROVE ModelInv'
    <3>1. proc[c] \in ToSet(model)
      <4>1. PICK at \in 1..size : model[at] = proc[c]
        BY <2>8 DEF Shrink, ArrayInv, Shifted
      <4>2. ToSet(model) = {model[k] : k \in 1..size}
        BY Positions
      <4> QED
        BY <4>1, <4>2
    <3>2. IsInjective(model') /\ ToSet(model') = ToSet(model) \ {proc[c]}
      BY <2>8, <3>1, RemoveFirstIs DEF Shrink, ModelInv
    <3>3. loc'[c] \notin {"store", "grow", "search", "shift"}
      BY <2>8, GiveUpIs DEF Shrink
    <3>4. \A d \in Cpus : loc'[d] # "search"
      BY <2>0, <2>8, <3>3, Alone DEF Shrink
    <3>5. ASSUME NEW p \in ToSet(model') PROVE \E d \in Cpus : Enlisted(d)' /\ proc'[d] = p
      <4>1. PICK d \in Cpus : Enlisted(d) /\ proc[d] = p
        BY <3>2, <3>5 DEF ModelInv
      <4> QED
        BY <2>0, <3>2, <4>1 DEF Enlisted
    <3> QED
      BY <3>2, <3>4, <3>5 DEF ModelInv
  <2>9. ASSUME FreeProc(c) PROVE ModelInv'
    BY <2>0, <2>9, ModelFrame DEF FreeProc, Free, Enlisted
  <2>10. ASSUME CallMemmap(c) \/ TestSize(c) \/ LoadSlot(c) PROVE ModelInv'
    BY <2>0, <2>10, ModelFrame, ZenonT(30) DEF CallMemmap, TestSize, LoadSlot, Enlisted
  <2>11. ASSUME Compare(c) \/ LoadCaller(c) \/ Return(c) PROVE ModelInv'
    BY <2>0, <2>11, ModelFrame, ZenonT(30) DEF Compare, LoadCaller, Return, Enlisted
  <2> QED
    BY <1>2, <2>1, <2>2, <2>3, <2>4, <2>5, <2>6, <2>7, <2>8, <2>9, <2>10, <2>11 DEF CpuStep
<1> QED
  BY <1>1, <1>2 DEF Next
-----------------------------------------------------------------------------
LEMMA ArrayStep == IInv /\ [Next]_vars => ArrayInv'
<1> SUFFICES ASSUME IInv, [Next]_vars PROVE ArrayInv'
  OBVIOUS
<1>1. CASE UNCHANGED vars
  BY <1>1, SMTT(30) DEF IInv, ArrayInv, Shifted, vars, list, life
<1>2. ASSUME NEW c \in Cpus, CpuStep(c) PROVE ArrayInv'
  <2> USE RunningListAssumption DEF IInv, TypeOK, Goto, list, life
  <2>0. \A d \in Cpus \ {c} : loc'[d] = loc[d] /\ proc'[d] = proc[d] /\ idx'[d] = idx[d]
    BY <1>2, OthersStay
  <2>p. /\ size \in Nat /\ DOMAIN model = 1..size /\ size <= MAX_QUEUE_SIZE
        /\ ToSet(model) = {model[k] : k \in 1..size}
        /\ \A k \in 1..size : model[k] \in Procs
    BY Positions
  <2>1. ASSUME NEW p \in Procs, Take(c, p) PROVE ArrayInv'
    BY <2>0, <2>1, ArrayFrame DEF Take
  <2>2. ASSUME StoreFull(c) PROVE ArrayInv'
    BY <2>0, <2>2, ArrayFrame DEF StoreFull
  <2>3. ASSUME StoreSlot(c) PROVE ArrayInv'
    <3>1. \A d \in Cpus \ {c} : loc'[d] \notin {"shift", "grow"}
      BY <2>0, <2>3, Alone DEF StoreSlot
    <3>2. /\ loc'[c] = "grow" /\ size < MAX_QUEUE_SIZE /\ arr'[size] = proc'[c]
          /\ UNCHANGED <<size, model>>
      BY <2>3 DEF StoreSlot
    <3>3. \A k \in 0..(size - 1) : arr'[k] = arr[k] /\ arr[k] = model[k + 1]
      <4>1. \A d \in Cpus : loc[d] # "shift"
        BY <2>3, Alone DEF StoreSlot
      <4>2. \A k \in 0..(size - 1) : arr[k] = model[k + 1]
        BY <4>1 DEF ArrayInv
      <4> QED
        BY <2>3, <4>2 DEF StoreSlot
    <3> QED
      BY <3>1, <3>2, <3>3 DEF ArrayInv
  <2>4. ASSUME Grow(c) PROVE ArrayInv'
    <3>1. \A d \in Cpus : loc'[d] \notin {"shift", "grow"}
      BY <2>0, <2>4, Alone DEF Grow
    <3>2. \A d \in Cpus : loc[d] # "shift"
      BY <2>4, Alone DEF Grow
    <3>3. proc[c] \in Procs /\ arr[size] = proc[c]
      BY <2>4 DEF Grow, HeldInv, ArrayInv
    <3>4. /\ Len(model') = size + 1 /\ model'[size + 1] = proc[c]
          /\ \A k \in 1..size : model'[k] = model[k]
      BY <2>4, <3>3, AppendProperties DEF Grow, ArrayInv
    <3>5. ASSUME NEW k \in 0..size PROVE arr[k] = model'[k + 1]
      <4>1. CASE k = size
        BY <3>3, <3>4, <4>1
      <4>2. CASE k # size
        <5>1. k \in 0..(size - 1) /\ k + 1 \in 1..size
          BY <2>p, <4>2
        <5>2. arr[k] = model[k + 1]
          BY <3>2, <5>1 DEF ArrayInv
        <5> QED
          BY <3>4, <5>1, <5>2
      <4> QED
        BY <4>1, <4>2
    <3>6. size' = size + 1 /\ arr' = arr /\ (size + 1) - 1 = size
      BY <2>4, <2>p DEF Grow
    <3> QED
      BY <3>1, <3>4, <3>5, <3>6 DEF ArrayInv
  <2>5. ASSUME Release(c) \/ SearchOn(c) PROVE ArrayInv'
    BY <2>0, <2>5, ArrayFrame DEF Release, SearchOn
  <2>6. ASSUME SearchHit(c) PROVE ArrayInv'
    <3>1. \A d \in Cpus \ {c} : loc'[d] \notin {"shift", "grow"}
      BY <2>0, <2>6, Alone DEF SearchHit
    <3>2. \A k \in 0..(size - 1) : arr[k] = model[k + 1]
      <4>1. \A d \in Cpus : loc[d] # "shift"
        BY <2>6, Alone DEF SearchHit
      <4> QED
        BY <4>1 DEF ArrayInv
    <3>3. /\ UNCHANGED <<arr, size, model, proc, idx>> /\ loc'[c] = "shift"
          /\ idx[c] \in Nat /\ idx[c] < size /\ arr[idx[c]] = proc[c]
      BY <2>6 DEF SearchHit
    <3>4. Shifted(c)'
      <4> DEFINE at == idx[c] + 1
      <4>1. at \in 1..size /\ model[at] = proc[c]
        BY <2>p, <3>2, <3>3
      <4>2. \A k \in 0..(size - 1) : ~(at <= k + 1 /\ k < idx[c])
        BY <3>3
      <4> QED
        BY <2>p, <3>2, <3>3, <4>1, <4>2 DEF Shifted
    <3> QED
      BY <3>1, <3>3, <3>4 DEF ArrayInv
  <2>7. ASSUME SearchEnd(c) PROVE ArrayInv'
    BY <2>0, <2>7, GiveUpIs, ArrayFrame DEF SearchEnd
  <2>8. ASSUME ShiftSlot(c) PROVE ArrayInv'
    <3>1. \A d \in Cpus \ {c} : loc'[d] \notin {"shift", "grow"}
      BY <2>0, <2>8, Alone DEF ShiftSlot
    <3>2. /\ UNCHANGED <<size, model, proc>> /\ loc'[c] = "shift"
          /\ idx[c] \in Nat /\ idx[c] < size - 1 /\ idx'[c] = idx[c] + 1
          /\ idx[c] \in 0..(MAX_QUEUE_SIZE - 1)
      BY <2>8 DEF ShiftSlot
    <3>3. /\ arr'[idx[c]] = arr[idx[c] + 1]
          /\ \A k \in 0..(size - 1) : k # idx[c] => arr'[k] = arr[k]
      BY <2>8, <2>p, <3>2 DEF ShiftSlot
    <3>4. PICK at \in 1..size :
            /\ model[at] = proc[c] /\ at <= idx[c] + 1
            /\ \A k \in 0..(size - 1) :
                  arr[k] = IF at <= k + 1 /\ k < idx[c] THEN model[k + 2] ELSE model[k + 1]
      BY <2>8 DEF ShiftSlot, ArrayInv, Shifted
    <3>5. ASSUME NEW k \in 0..(size - 1)
          PROVE  arr'[k] = IF at <= k + 1 /\ k < idx[c] + 1 THEN model[k + 2] ELSE model[k + 1]
      <4>1. CASE k = idx[c]
        <5>1. idx[c] + 1 \in 0..(size - 1) /\ ~(idx[c] + 1 < idx[c])
          BY <2>p, <3>2
        <5>2. arr[idx[c] + 1] = model[idx[c] + 1 + 1]
          BY <3>4, <5>1
        <5> QED
          BY <3>2, <3>3, <3>4, <4>1, <5>2
      <4>2. CASE k # idx[c]
        <5>1. k < idx[c] <=> k < idx[c] + 1
          BY <2>p, <3>2, <4>2
        <5> QED
          BY <3>3, <3>4, <4>2, <5>1
      <4> QED
        BY <4>1, <4>2
    <3>6. Shifted(c)'
      <4>1. at <= idx[c] + 1 + 1 /\ idx[c] + 1 < size
        BY <2>p, <3>2, <3>4
      <4>2. /\ model'[at] = proc'[c] /\ at <= idx'[c] + 1 /\ idx'[c] < size'
            /\ \A k \in 0..(size' - 1) :
                  arr'[k] = IF at <= k + 1 /\ k < idx'[c] THEN model'[k + 2] ELSE model'[k + 1]
        BY <3>2, <3>4, <3>5, <4>1
      <4>3. at \in 1..size'
        BY <3>2
      <4> QED
        BY <4>2, <4>3, Zenon DEF Shifted
    <3> QED
      BY <3>1, <3>2, <3>6 DEF ArrayInv
  <2>9. ASSUME Shrink(c) PROVE ArrayInv'
    <3>1. \A d \in Cpus : loc'[d] \notin {"shift", "grow"}
      BY <2>0, <2>9, GiveUpIs, Alone, SMTT(30) DEF Shrink
    <3>2. /\ arr' = arr /\ size' = size - 1 /\ model' = RemoveFirst(model, proc[c])
      BY <2>9, GiveUpIs DEF Shrink
    <3>3. PICK at \in 1..size :
            /\ model[at] = proc[c] /\ idx[c] = size - 1
            /\ \A k \in 0..(size - 1) :
                  arr[k] = IF at <= k + 1 /\ k < idx[c] THEN model[k + 2] ELSE model[k + 1]
      BY <2>9, <2>p DEF Shrink, ArrayInv, Shifted
    <3>4. PICK m \in 1..size :
            /\ model[m] = proc[c] /\ Len(model') = size - 1
            /\ \A j \in 1..(size - 1) : model'[j] = IF j < m THEN model[j] ELSE model[j + 1]
      <4> DEFINE e == proc[c]
                 t == RemoveFirst(model, e)
      <4>1. e \in ToSet(model) /\ Len(model) = size /\ model \in Seq(Procs)
        BY <2>p, <3>3 DEF ArrayInv
      <4> HIDE DEF e
      <4>2. PICK m \in 1..Len(model) :
              /\ model[m] = e /\ t \in Seq(Procs) /\ Len(t) = Len(model) - 1
              /\ \A j \in 1..(Len(model) - 1) : t[j] = IF j < m THEN model[j] ELSE model[j + 1]
        BY ONLY <4>1, RemoveFirstAt, ZenonT(30)
      <4> QED
        BY <3>2, <4>1, <4>2 DEF e
    <3>5. m = at
      BY <2>p, <3>3, <3>4 DEF ModelInv, IsInjective
    <3>6. ASSUME NEW k \in 0..(size - 2) PROVE arr[k] = model'[k + 1]
      <4>1. k \in 0..(size - 1) /\ k < idx[c] /\ k + 1 \in 1..(size - 1) /\ (k + 1) + 1 = k + 2
        BY <2>p, <3>3
      <4>2. model'[k + 1] = IF k + 1 < at THEN model[k + 1] ELSE model[k + 2]
        BY <3>4, <3>5, <4>1
      <4>3. at <= k + 1 <=> ~(k + 1 < at)
        BY <2>p, <4>1
      <4> QED
        BY <3>3, <4>1, <4>2, <4>3, SMTT(30)
    <3>7. (size - 1) - 1 = size - 2
      BY <2>p
    <3> QED
      BY <3>1, <3>2, <3>4, <3>6, <3>7 DEF ArrayInv
  <2>10. ASSUME FreeProc(c) PROVE ArrayInv'
    BY <2>0, <2>10, ArrayFrame DEF FreeProc, Free
  <2>11. ASSUME CallMemmap(c) \/ TestSize(c) \/ LoadSlot(c) PROVE ArrayInv'
    BY <2>0, <2>11, ArrayFrame DEF CallMemmap, TestSize, LoadSlot
  <2>12. ASSUME Compare(c) \/ LoadCaller(c) \/ Return(c) PROVE ArrayInv'
    BY <2>0, <2>12, ArrayFrame, ZenonT(30) DEF Compare, LoadCaller, Return
  <2> QED
    BY <1>2, <2>1, <2>2, <2>3, <2>4, <2>5, <2>6, <2>7, <2>8, <2>9, <2>10, <2>11, <2>12
    DEF CpuStep
<1> QED
  BY <1>1, <1>2 DEF Next
-----------------------------------------------------------------------------
LEMMA FlightStep == IInv /\ [Next]_vars => FlightInv'
<1> SUFFICES ASSUME IInv, [Next]_vars PROVE FlightInv'
  OBVIOUS
<1>1. CASE UNCHANGED vars
  BY <1>1 DEF IInv, FlightInv, FreedOnlyInFlight, vars, list, life
<1>2. ASSUME NEW c \in Cpus, CpuStep(c) PROVE FlightInv'
  <2> USE RunningListAssumption DEF IInv, TypeOK, FlightInv, FreedOnlyInFlight, Goto, list, life
  <2>0. \A d \in Cpus \ {c} : loc'[d] = loc[d] /\ idx'[d] = idx[d] /\ slot'[d] = slot[d]
    BY <1>2, OthersStay
  <2>1. ASSUME NEW p \in Procs, Take(c, p) PROVE FlightInv'
    BY <2>0, <2>1 DEF Take
  <2>2. ASSUME StoreFull(c) PROVE FlightInv'
    BY <2>0, <2>2 DEF StoreFull
  <2>3. ASSUME StoreSlot(c) PROVE FlightInv'
    <3>1. proc[c] \notin freed /\ UNCHANGED <<freed, since>> /\ loc'[c] = "grow"
      BY <2>3 DEF StoreSlot, HeldInv
    <3>2. \A k \in 0..(MAX_QUEUE_SIZE - 1) : arr'[k] \in {arr[k], proc[c]}
      BY <2>3 DEF StoreSlot
    <3>3. ASSUME NEW d \in Cpus, loc'[d] \in {"load", "deref", "reload"}
          PROVE  d # c /\ idx'[d] = idx[d] /\ idx[d] \in 0..(MAX_QUEUE_SIZE - 1)
      BY <2>0, <3>1, <3>3
    <3>4. ASSUME NEW d \in Cpus, loc'[d] = "load", arr'[idx'[d]] \in freed'
          PROVE  arr'[idx'[d]] \in since'[d]
      <4>1. loc[d] = "load" /\ idx'[d] = idx[d] /\ idx[d] \in 0..(MAX_QUEUE_SIZE - 1)
        BY <2>0, <3>3, <3>4
      <4>2. arr'[idx[d]] = arr[idx[d]]
        BY <3>1, <3>2, <3>4, <4>1
      <4> QED
        BY <3>1, <3>4, <4>1, <4>2
    <3>5. FreedOnlyInFlight'
      BY <2>0, <3>1
    <3> QED
      BY <3>3, <3>4, <3>5
  <2>4. ASSUME Grow(c) PROVE FlightInv'
    BY <2>0, <2>4 DEF Grow
  <2>5. ASSUME Release(c) \/ SearchOn(c) \/ SearchHit(c) PROVE FlightInv'
    BY <2>0, <2>5 DEF Release, SearchOn, SearchHit
  <2>6. ASSUME SearchEnd(c) \/ Shrink(c) PROVE FlightInv'
    <3>1. /\ UNCHANGED <<arr, freed, since>>
          /\ loc'[c] \in {"free", "none"}
      BY <2>6, GiveUpIs DEF SearchEnd, Shrink
    <3> QED
      BY <2>0, <3>1
  <2>7. ASSUME ShiftSlot(c) PROVE FlightInv'
    <3>1. /\ UNCHANGED <<freed, since>> /\ loc'[c] = "shift"
          /\ idx[c] + 1 \in 0..(size - 1)
      BY <2>7 DEF ShiftSlot
    <3>2. arr[idx[c] + 1] \notin freed
      BY <3>1, LiveSlots
    <3>3. \A k \in 0..(MAX_QUEUE_SIZE - 1) : arr'[k] \in {arr[k], arr[idx[c] + 1]}
      BY <2>7 DEF ShiftSlot
    <3>4. ASSUME NEW d \in Cpus, loc'[d] \in {"load", "deref", "reload"}
          PROVE  d # c /\ idx'[d] = idx[d] /\ idx[d] \in 0..(MAX_QUEUE_SIZE - 1)
      BY <2>0, <3>1, <3>4
    <3>5. ASSUME NEW d \in Cpus, loc'[d] = "load", arr'[idx'[d]] \in freed'
          PROVE  arr'[idx'[d]] \in since'[d]
      <4>1. loc[d] = "load" /\ idx'[d] = idx[d] /\ idx[d] \in 0..(MAX_QUEUE_SIZE - 1)
        BY <2>0, <3>4, <3>5
      <4>2. arr'[idx[d]] = arr[idx[d]]
        BY <3>1, <3>2, <3>3, <3>5, <4>1
      <4> QED
        BY <3>1, <3>5, <4>1, <4>2
    <3>6. FreedOnlyInFlight'
      BY <2>0, <3>1
    <3> QED
      BY <3>4, <3>5, <3>6
  <2>8. ASSUME FreeProc(c) PROVE FlightInv'
    <3>1. /\ loc'[c] = "none" /\ UNCHANGED <<arr, idx, slot>>
          /\ freed' = freed \cup {proc[c]}
      BY <2>8 DEF FreeProc, Free
    <3>2. \A d \in Cpus : loc[d] \in {"load", "deref"} => since'[d] = since[d] \cup {proc[c]}
      BY <2>8 DEF FreeProc, Free
    <3> QED
      BY <2>0, <3>1, <3>2
  <2>9. ASSUME CallMemmap(c) PROVE FlightInv'
    BY <2>0, <2>9 DEF CallMemmap
  <2>10. ASSUME TestSize(c) PROVE FlightInv'
    <3>1. /\ UNCHANGED <<arr, idx, slot, freed>>
          /\ \A d \in Cpus \ {c} : since'[d] = since[d]
          /\ loc'[c] \in {"load", "call"}
          /\ loc'[c] = "load" => idx[c] \in 0..(size - 1)
      BY <2>10 DEF TestSize
    <3>2. loc'[c] = "load" => arr[idx[c]] \notin freed
      BY <3>1, LiveSlots
    <3>3. \A d \in Cpus : loc'[d] \in {"load", "deref", "reload"} => idx'[d] < MAX_QUEUE_SIZE
      BY <2>0, <3>1
    <3>4. ASSUME NEW d \in Cpus, loc'[d] = "load", arr'[idx'[d]] \in freed'
          PROVE  arr'[idx'[d]] \in since'[d]
      BY <2>0, <3>1, <3>2, <3>4
    <3>5. FreedOnlyInFlight'
      BY <2>0, <3>1
    <3> QED
      BY <3>3, <3>4, <3>5
  <2>11. ASSUME LoadSlot(c) PROVE FlightInv'
    BY <2>0, <2>11 DEF LoadSlot
  <2>12. ASSUME Compare(c) PROVE FlightInv'
    <3>1. CASE slot[c] = proc[c]
      BY <2>0, <2>12, <3>1 DEF Compare
    <3>2. CASE slot[c] # proc[c]
      BY <2>0, <2>12, <3>2 DEF Compare
    <3> QED
      BY <3>1, <3>2
  <2>13. ASSUME LoadCaller(c) PROVE FlightInv'
    BY <2>0, <2>13 DEF LoadCaller
  <2>14. ASSUME Return(c) PROVE FlightInv'
    BY <2>0, <2>14 DEF Return
  <2> QED
    BY <1>2, <2>1, <2>2, <2>3, <2>4, <2>5, <2>6, <2>7, <2>8, <2>9, <2>10, <2>11, <2>12,
       <2>13, <2>14 DEF CpuStep
<1> QED
  BY <1>1, <1>2 DEF Next
-----------------------------------------------------------------------------
(* However the stores and loads of the CPUs interleave, IInv holds.         *)
THEOREM Inductive == Spec => []IInv
<1>1. IInv /\ [Next]_vars => IInv'
  BY TypeStep, HeldStep, ModelStep, ArrayStep, FlightStep DEF IInv
<1> QED
  BY InitIInv, <1>1, PTL DEF Spec

(* The array never holds anything but a PCB or an untouched slot, and no    *)
(* counter leaves it (queue.c:12-21, 55-71; sys_mem.c:36-46).               *)
THEOREM TypeCorrect == Spec => []TypeOK
<1>1. IInv => TypeOK
  BY DEF IInv
<1> QED
  BY Inductive, <1>1, PTL

(* Whenever queue_lock is free, running_list is the sequence that the       *)
(* scheduler's model says, for any number of slots (queue.c:12-21, 55-71).  *)
THEOREM ArrayImplementsSequence == Spec => []ArrayIsSequence
<1>1. IInv => ArrayIsSequence
  <2> SUFFICES ASSUME IInv, holder = NULL PROVE Contents = model
    BY DEF ArrayIsSequence
  <2>1. \A c \in Cpus : loc[c] # "shift"
    BY RunningListAssumption DEF IInv, HeldInv
  <2>2. size = Len(model) /\ model \in Seq(Procs) /\ size \in Nat
        /\ \A k \in 0..(size - 1) : arr[k] = model[k + 1]
    BY <2>1 DEF IInv, ArrayInv, TypeOK
  <2>3. model = [k \in 1..size |-> model[k]]
    BY <2>2
  <2>4. \A k \in 1..size : arr[k - 1] = model[k]
    BY <2>2
  <2> QED
    BY <2>3, <2>4 DEF Contents
<1> QED
  BY Inductive, <1>1, PTL

(* An executing process that was enlisted is in a slot below size at every  *)
(* store of a purge by another CPU (queue.c:64-66).                         *)
THEOREM ShiftHidesNobody == Spec => []NeverAbsent
<1>1. IInv => NeverAbsent
  <2> SUFFICES ASSUME IInv, NEW c \in Cpus, Executing(c), proc[c] \in ToSet(model)
               PROVE  \E k \in 0..(size - 1) : arr[k] = proc[c]
    BY DEF NeverAbsent
  <2>1. /\ size \in Nat /\ ToSet(model) = {model[k] : k \in 1..size}
    BY Positions DEF IInv
  <2>2. PICK m \in 1..size : model[m] = proc[c]
    BY <2>1
  <2>3. CASE \A d \in Cpus : loc[d] # "shift"
    <3>1. m - 1 \in 0..(size - 1) /\ (m - 1) + 1 = m
      BY <2>1
    <3>2. arr[m - 1] = model[(m - 1) + 1]
      BY <2>3, <3>1 DEF IInv, ArrayInv
    <3> QED
      BY <2>2, <3>1, <3>2
  <2>4. CASE \E d \in Cpus : loc[d] = "shift"
    <3>1. PICK d \in Cpus : loc[d] = "shift" /\ Shifted(d)
      BY <2>4 DEF IInv, ArrayInv
    <3>2. PICK at \in 1..size :
            /\ model[at] = proc[d] /\ at <= idx[d] + 1 /\ idx[d] < size
            /\ \A k \in 0..(size - 1) :
                  arr[k] = IF at <= k + 1 /\ k < idx[d] THEN model[k + 2] ELSE model[k + 1]
      BY <3>1 DEF Shifted
    <3>3. idx[d] \in Nat
      BY RunningListAssumption DEF IInv, TypeOK
    <3>4. m # at
      BY <2>2, <3>1, <3>2 DEF IInv, HeldInv, Executing
    <3>5. CASE m < at \/ m - 1 >= idx[d]
      <4>1. m - 1 \in 0..(size - 1) /\ ~(at <= (m - 1) + 1 /\ m - 1 < idx[d]) /\ (m - 1) + 1 = m
        BY <2>1, <3>3, <3>5
      <4>2. arr[m - 1] = model[(m - 1) + 1]
        BY <3>2, <4>1
      <4> QED
        BY <2>2, <4>1, <4>2
    <3>6. CASE at < m /\ m - 1 < idx[d]
      <4>1. /\ m - 2 \in 0..(size - 1) /\ at <= (m - 2) + 1 /\ m - 2 < idx[d]
            /\ (m - 2) + 2 = m
        BY <2>1, <3>3, <3>6
      <4>2. arr[m - 2] = model[(m - 2) + 2]
        BY <3>2, <4>1
      <4> QED
        BY <2>2, <4>1, <4>2
    <3> QED
      BY <2>1, <3>3, <3>4, <3>5, <3>6
  <2> QED
    BY <2>3, <2>4
<1> QED
  BY Inductive, <1>1, PTL

(* What a traversal may read of a freed PCB was freed after its last test   *)
(* of size (sys_mem.c:40-41, os.c:121-123).                                 *)
THEOREM FreedReadsAreInFlight == Spec => []FreedOnlyInFlight
<1>1. IInv => FreedOnlyInFlight
  BY DEF IInv, FlightInv
<1> QED
  BY Inductive, <1>1, PTL
=============================================================================
