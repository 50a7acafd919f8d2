---------------------------- MODULE TimerProofs -----------------------------
(***************************************************************************)
(* The timer's protocol for any number of devices and slots: the inductive *)
(* invariant, the safety properties of Timer.tla, and that the protocol    *)
(* implements the barrier of LockStep.tla.                                 *)
(***************************************************************************)
EXTENDS Timer, TLAPS

(* Positions of the scan: who was seen done (or detached) in this slot *)
Scanned(d) ==
    \/ tpc \in {"scan", "asleep"} /\ d < cur
    \/ tpc = "tick"
    \/ tpc = "reset" /\ cur <= d

(* _time++ is over and device d is still to be released *)
ToRelease(d) == tpc = "reset" /\ cur <= d

(* What each device's location says of its flags and of its slot *)
DeviceInv(d) ==
    /\ fsh[d] <=> dpc[d] = "exited"
    /\ dpc[d] = "work" => ~done[d] /\ slots[d] = time
    /\ dpc[d] = "asleep" => done[d]
    /\ Scanned(d) => done[d] \/ fsh[d]
    /\ dpc[d] \in {"waiting", "asleep"} =>
          IF done[d] /\ ~ToRelease(d) THEN slots[d] = time ELSE slots[d] + 1 = time

(* What the timer's location says of its cursor and counters *)
TimerInv ==
    /\ tpc \in {"scan", "asleep", "reset"} => cur \in 1..N
    /\ tpc = "asleep" => ~done[cur] /\ ~fsh[cur]
    /\ nfsh <= nevent
    /\ tpc \in {"scan", "asleep"} => nevent = cur - 1
    /\ tpc \in {"tick", "reset", "decide"} => nevent = N

(* Counters that agree have counted detached devices only *)
CountInv ==
    /\ tpc \in {"scan", "asleep"} /\ nfsh = nevent => \A d \in 1..(cur - 1) : fsh[d]
    /\ tpc \in {"tick", "reset", "decide"} /\ nfsh = nevent => \A d \in Devs : fsh[d]
    /\ tpc = "exited" \/ main # "joining" => \A d \in Devs : fsh[d]

IInv == TypeOK /\ (\A d \in Devs : DeviceInv(d)) /\ TimerInv /\ CountInv
-----------------------------------------------------------------------------
LEMMA InitIInv == Init => IInv
  BY TimerAssumption DEF Init, IInv, TypeOK, DeviceInv, Scanned, ToRelease,
     TimerInv, CountInv, Devs, TimerLocations, DeviceLocations

LEMMA NextIInv == IInv /\ [Next]_vars => IInv'
<1> SUFFICES ASSUME IInv, [Next]_vars PROVE IInv'
  OBVIOUS
<1> USE TimerAssumption DEF IInv, TypeOK, DeviceInv, Scanned, ToRelease,
     TimerInv, CountInv, Devs, TimerLocations, DeviceLocations
<1>1. CASE LoopHead
  BY <1>1 DEF LoopHead, timer_stop
<1>2. CASE AwaitDevice
  BY <1>2 DEF AwaitDevice
<1>3. CASE CountDevice
  BY <1>3 DEF CountDevice
<1>4. CASE IncreaseTime
  BY <1>4 DEF IncreaseTime
<1>5. CASE ReleaseDevice
  BY <1>5 DEF ReleaseDevice, SignalTimer
<1>6. CASE Decide
  BY <1>6 DEF Decide
<1>7. ASSUME NEW d \in Devs, TellDone(d) PROVE IInv'
  BY <1>7 DEF TellDone, SignalEvent
<1>8. ASSUME NEW d \in Devs, AwaitSlot(d) PROVE IInv'
  BY <1>8 DEF AwaitSlot, timerLocals
<1>9. ASSUME NEW d \in Devs, EnterSlot(d) PROVE IInv'
  BY <1>9 DEF EnterSlot, timerLocals
<1>10. ASSUME NEW d \in Devs, Detach(d) PROVE IInv'
  BY <1>10 DEF Detach, SignalEvent
<1>11. ASSUME NEW d \in Devs, SpuriousDevice(d) PROVE IInv'
  BY <1>11 DEF SpuriousDevice, timerLocals
<1>12. CASE SpuriousTimer
  BY <1>12 DEF SpuriousTimer
<1>13. CASE StopTimer
  BY <1>13 DEF StopTimer, timerLocals
<1>14. CASE FreeDevices
  BY <1>14 DEF FreeDevices, timerLocals
<1>15. CASE UNCHANGED vars
  BY <1>15 DEF vars, timerLocals
<1>16. QED
  BY <1>1, <1>2, <1>3, <1>4, <1>5, <1>6, <1>7, <1>8, <1>9, <1>10, <1>11,
     <1>12, <1>13, <1>14, <1>15 DEF Next, TimerStep, DeviceStep, Terminated

(* The invariant that the theorems below rest on: which devices the timer has seen
   done in this slot, and which it has still to release. *)
THEOREM Inductive == Spec => []IInv
  BY InitIInv, NextIInv, PTL DEF Spec
-----------------------------------------------------------------------------
(* The variables of the timer and of its devices keep their types          *)
(* (timer.c:13-18 and struct timer_id_t).                                  *)
THEOREM TypeCorrect == Spec => []TypeOK
<1>1. IInv => TypeOK
  BY DEF IInv
<1> QED
  BY <1>1, Inductive, PTL

(* No device is released twice for one slot or left out of one, however    *)
(* many CPUs there are (timer.c:26-53).                                    *)
THEOREM LockStepSafe == Spec => []WorkInLockStep
<1>1. IInv => WorkInLockStep
  BY DEF IInv, DeviceInv, WorkInLockStep
<1> QED
  BY <1>1, Inductive, PTL

(* Neither side ever sleeps on a condition that already holds: the two     *)
(* conditions of timer.c lose no wakeup (timer.c:31-36, 64-75).            *)
THEOREM WakeupsKept == Spec => []NoLostWakeup
<1>1. IInv => NoLostWakeup
  BY DEF IInv, DeviceInv, TimerInv, NoLostWakeup
<1> QED
  BY <1>1, Inductive, PTL

(* The two writes of done, made under different locks, never meet          *)
(* (timer.c:50, 64).                                                       *)
THEOREM WritesApart == Spec => []NoWriteRace
<1>1. IInv => NoWriteRace
  BY TimerAssumption DEF IInv, TypeOK, DeviceInv, TimerInv, Scanned, NoWriteRace, Devs
<1> QED
  BY <1>1, Inductive, PTL

(* The timer thread leaves no device behind (timer.c:37, 54).              *)
THEOREM TimerExitsLast == Spec => []ExitedAlone
<1>1. IInv => ExitedAlone
  BY DEF IInv, CountInv, ExitedAlone
<1> QED
  BY <1>1, Inductive, PTL

(* A device that works reads the same current_time all the way             *)
(* (timer.c:45, os.c:237).                                                 *)
THEOREM ClockStable == Spec => ClockStableInSlot
<1>1. IInv /\ [Next]_vars =>
        [\A d \in Devs : dpc[d] = "work" /\ dpc'[d] = "work" => time' = time]_vars
  <2> SUFFICES ASSUME IInv, [Next]_vars,
                      NEW d \in Devs, dpc[d] = "work", dpc'[d] = "work"
               PROVE  time' = time
    OBVIOUS
  <2>1. CASE IncreaseTime
    BY <2>1, TimerAssumption DEF IncreaseTime, IInv, TypeOK, DeviceInv, Scanned
  <2>2. CASE UNCHANGED time
    BY <2>2
  <2> QED
    BY <2>1, <2>2 DEF Next, TimerStep, DeviceStep, Terminated, vars, timerLocals,
       LoopHead, AwaitDevice, CountDevice, ReleaseDevice, Decide, TellDone,
       AwaitSlot, EnterSlot, Detach, SpuriousDevice, SpuriousTimer, StopTimer,
       FreeDevices
<1> QED
  BY <1>1, Inductive, PTL DEF Spec, ClockStableInSlot
-----------------------------------------------------------------------------
(* The barrier's variables under the mapping of Abstract *)
NowBar == IF time < MaxSlots THEN time ELSE MaxSlots
PendingBar == {d \in Devs : ~fsh[d] /\ Unfinished(d)}
LeftBar == {d \in Devs : fsh[d]}

LEMMA InitMaps == Init => Abstract!BarrierInit
  BY TimerAssumption DEF Init, Abstract!BarrierInit, Devs, Unfinished

(* A device of the barrier's pending set is one that works or is still to  *)
(* resume; the two actions of a device map to the barrier's.               *)
LEMMA TellDoneMaps ==
    ASSUME IInv, NEW d \in Devs, TellDone(d) PROVE Abstract!Arrive(d)
<1> USE DEF Devs, Unfinished
<1>1. dpc[d] = "work" /\ ~fsh[d] /\ ~done[d] /\ ~ToRelease(d)
  BY DEF TellDone, IInv, TypeOK, DeviceInv, Scanned, ToRelease
<1>2. \A e \in Devs : done'[e] = IF e = d THEN TRUE ELSE done[e]
  BY DEF TellDone, IInv, TypeOK
<1>3. time' = time /\ fsh' = fsh /\ cur' = cur /\ (tpc' = "reset" <=> tpc = "reset")
  BY DEF TellDone, SignalEvent
<1>4. PendingBar' = PendingBar \ {d} /\ d \in PendingBar
  BY <1>1, <1>2, <1>3 DEF PendingBar, ToRelease
<1> QED
  BY <1>3, <1>4 DEF Abstract!Arrive, PendingBar

LEMMA DetachMaps ==
    ASSUME IInv, NEW d \in Devs, Detach(d) PROVE Abstract!Leave(d)
<1> USE DEF Devs, Unfinished
<1>1. dpc[d] = "work" /\ ~fsh[d] /\ ~done[d]
  BY DEF Detach, IInv, TypeOK, DeviceInv
<1>2. \A e \in Devs : fsh'[e] = IF e = d THEN TRUE ELSE fsh[e]
  BY DEF Detach, IInv, TypeOK
<1>3. time' = time /\ done' = done /\ cur' = cur /\ (tpc' = "reset" <=> tpc = "reset")
  BY DEF Detach, SignalEvent
<1>4. PendingBar' = PendingBar \ {d} /\ d \in PendingBar
  BY <1>1, <1>2, <1>3 DEF PendingBar
<1>5. LeftBar' = LeftBar \cup {d}
  BY <1>2 DEF LeftBar
<1> QED
  BY <1>3, <1>4, <1>5 DEF Abstract!Leave, PendingBar, LeftBar

(* _time++ is the barrier's step to the next slot *)
LEMMA IncreaseTimeMaps ==
    ASSUME IInv, IncreaseTime PROVE Abstract!Tick
<1> USE TimerAssumption DEF Devs, Unfinished
<1>1. tpc = "tick" /\ \A d \in Devs : done[d] \/ fsh[d]
  BY DEF IncreaseTime, IInv, DeviceInv, Scanned
<1>2. PendingBar = {}
  BY <1>1 DEF PendingBar
<1>3. PendingBar' = Devs \ LeftBar /\ LeftBar' = LeftBar
  BY DEF IncreaseTime, PendingBar, LeftBar
<1>4. NowBar' = IF NowBar + 1 < MaxSlots THEN NowBar + 1 ELSE MaxSlots
  BY DEF IncreaseTime, IInv, TypeOK, NowBar
<1> QED
  BY <1>2, <1>3, <1>4 DEF Abstract!Tick, Abstract!Capped, PendingBar, LeftBar, NowBar

(* To release a device is to leave the barrier as it is *)
LEMMA ReleaseDeviceStutters ==
    ASSUME IInv, ReleaseDevice PROVE UNCHANGED <<NowBar, PendingBar, LeftBar>>
<1> USE TimerAssumption DEF Devs, Unfinished
<1>1. cur \in 1..N /\ time' = time /\ fsh' = fsh
  BY DEF ReleaseDevice, IInv, TimerInv
<1>2. \A d \in Devs : (~fsh[d] /\ Unfinished(d))' <=> (~fsh[d] /\ Unfinished(d))
  BY <1>1 DEF ReleaseDevice, IInv, TypeOK
<1> QED
  BY <1>1, <1>2 DEF NowBar, PendingBar, LeftBar

LEMMA NextMaps == IInv /\ [Next]_vars => [Abstract!BarrierNext]_(Abstract!barrierVars)
<1> SUFFICES ASSUME IInv, [Next]_vars
             PROVE  Abstract!BarrierNext \/ UNCHANGED <<NowBar, PendingBar, LeftBar>>
  BY DEF Abstract!barrierVars, NowBar, PendingBar, LeftBar
<1>1. ASSUME NEW d \in Devs, TellDone(d) PROVE Abstract!BarrierNext
  BY <1>1, TellDoneMaps DEF Abstract!BarrierNext
<1>2. ASSUME NEW d \in Devs, Detach(d) PROVE Abstract!BarrierNext
  BY <1>2, DetachMaps DEF Abstract!BarrierNext
<1>3. CASE IncreaseTime
  BY <1>3, IncreaseTimeMaps DEF Abstract!BarrierNext
<1>4. CASE ReleaseDevice
  BY <1>4, ReleaseDeviceStutters
<1>5. CASE UNCHANGED <<time, done, fsh, cur, tpc>>
  BY <1>5 DEF NowBar, PendingBar, LeftBar, Unfinished
<1>6. CASE LoopHead \/ CountDevice \/ AwaitDevice \/ Decide \/ SpuriousTimer
  <2>1. UNCHANGED <<time, done, fsh>> /\ tpc # "reset" /\ tpc' # "reset"
    BY <1>6 DEF LoopHead, CountDevice, AwaitDevice, Decide, SpuriousTimer
  <2> QED
    BY <2>1 DEF NowBar, PendingBar, LeftBar, Unfinished
<1> QED
  BY <1>1, <1>2, <1>3, <1>4, <1>5, <1>6 DEF Next, TimerStep, DeviceStep, Terminated,
     vars, timerLocals, AwaitSlot, EnterSlot, SpuriousDevice, StopTimer, FreeDevices

(* Every behaviour of the condition-variable protocol is a behaviour of    *)
(* the barrier (timer.c:21-93).                                            *)
THEOREM TimerImplementsLockStep == Spec => ImplementsLockStep
  BY InitMaps, NextMaps, Inductive, PTL DEF Spec, ImplementsLockStep, Abstract!BarrierSpec
=============================================================================
