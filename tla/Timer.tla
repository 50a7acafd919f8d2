------------------------------- MODULE Timer --------------------------------
(***************************************************************************)
(* timer.c: the timer thread and the devices that synchronise with it.     *)
(*                                                                         *)
(* A device is a position of dev_list, 1 the head.  All of them were       *)
(* attached, and the timer thread started, before the first step           *)
(* (os.c:434-439).  Each of the timer's sections on event_lock and         *)
(* timer_lock, and each of a device's, is one action: the mutex excludes   *)
(* the other side for its length.  pthread_cond_wait releases the mutex,   *)
(* so a section that waits ends in a state of its own ("asleep"), which a  *)
(* signal or a spurious wakeup leaves for the state that tests the         *)
(* condition again.  Note that the flag done[d] is written under           *)
(* event_lock by the device and under timer_lock by the timer.             *)
(***************************************************************************)
EXTENDS Naturals

CONSTANTS N,         (* the number of devices in dev_list                  *)
          MaxSlots   (* bound: a device that worked in this many slots detaches *)

ASSUME TimerAssumption == N \in Nat \ {0} /\ MaxSlots \in Nat \ {0}

Devs == 1..N

VARIABLES time,      (* _time                                              *)
          done,      (* id.done of each device                             *)
          fsh,       (* id.fsh of each device                              *)
          tpc,       (* where the timer thread is                          *)
          cur,       (* the device temp points to                          *)
          nfsh,      (* the local counter fsh of timer_routine             *)
          nevent,    (* the local counter event of timer_routine           *)
          dpc,       (* where each device's thread is                      *)
          slots,     (* history: how many calls of next_slot have returned *)
          main       (* where the main thread is                           *)

timerLocals == <<tpc, cur, nfsh, nevent>>
vars == <<time, done, fsh, timerLocals, dpc, slots, main>>

(***************************************************************************)
(* The timer thread is at the loop head, at the test of the condition of   *)
(* device cur, asleep on its event_cond, before _time++, at the release of *)
(* device cur, at the test fsh == event, or has exited.                    *)
(***************************************************************************)
TimerLocations == {"head", "scan", "asleep", "tick", "reset", "decide", "exited"}

(* A device works, is at the test of done in next_slot, asleep, or gone *)
DeviceLocations == {"work", "waiting", "asleep", "exited"}

(* The clock, the flags, the timer's counters and the places of all threads have
   their types. *)
TypeOK ==
    /\ time \in Nat
    /\ done \in [Devs -> BOOLEAN]
    /\ fsh \in [Devs -> BOOLEAN]
    /\ tpc \in TimerLocations
    /\ cur \in 1..(N + 1)
    /\ nfsh \in 0..N
    /\ nevent \in 0..N
    /\ dpc \in [Devs -> DeviceLocations]
    /\ slots \in [Devs -> Nat]
    /\ main \in {"joining", "stopping", "freed"}

Init ==
    /\ time = 0
    /\ done = [d \in Devs |-> FALSE]
    /\ fsh = [d \in Devs |-> FALSE]
    /\ tpc = "head"
    /\ cur = 1
    /\ nfsh = 0
    /\ nevent = 0
    /\ dpc = [d \in Devs |-> "work"]
    /\ slots = [d \in Devs |-> 0]
    /\ main = "joining"
-----------------------------------------------------------------------------
(* The timer thread *)

timer_stop == main # "joining"

(* pthread_cond_signal(event_cond) of device d: only the timer waits there *)
SignalEvent(d) == tpc' = IF tpc = "asleep" /\ cur = d THEN "scan" ELSE tpc

(* Fault: the timer forgets pthread_cond_signal(timer_cond) *)
FaultNoSignal(d) == UNCHANGED dpc

(* pthread_cond_signal(timer_cond) of device d: only d waits there *)
SignalTimer(d) == dpc' = [dpc EXCEPT ![d] = IF @ = "asleep" THEN "waiting" ELSE @]

(* Fault: the counters keep the values of the slot before *)
FaultKeepCounters ==
    /\ tpc = "head"
    /\ tpc' = IF timer_stop THEN "exited" ELSE "scan"
    /\ cur' = 1
    /\ UNCHANGED <<time, done, fsh, nfsh, nevent, dpc, slots, main>>

LoopHead ==
    /\ tpc = "head"
    /\ IF timer_stop
       THEN tpc' = "exited" /\ UNCHANGED <<cur, nfsh, nevent>>
       ELSE tpc' = "scan" /\ cur' = 1 /\ nfsh' = 0 /\ nevent' = 0
    /\ UNCHANGED <<time, done, fsh, dpc, slots, main>>

(* The device has not done its job: sleep until it says so *)
AwaitDevice ==
    /\ tpc = "scan"
    /\ ~done[cur] /\ ~fsh[cur]
    /\ tpc' = "asleep"
    /\ UNCHANGED <<time, done, fsh, cur, nfsh, nevent, dpc, slots, main>>

(* Fault: the timer does not wait for the device to be done *)
FaultNoWait ==
    /\ tpc = "scan"
    /\ nfsh' = IF fsh[cur] THEN nfsh + 1 ELSE nfsh
    /\ nevent' = nevent + 1
    /\ cur' = cur + 1
    /\ tpc' = IF cur = N THEN "tick" ELSE "scan"
    /\ UNCHANGED <<time, done, fsh, dpc, slots, main>>

(* The device has done its job or is detached: count it, go to the next *)
CountDevice ==
    /\ tpc = "scan"
    /\ done[cur] \/ fsh[cur]
    /\ nfsh' = IF fsh[cur] THEN nfsh + 1 ELSE nfsh
    /\ nevent' = nevent + 1
    /\ cur' = cur + 1
    /\ tpc' = IF cur = N THEN "tick" ELSE "scan"
    /\ UNCHANGED <<time, done, fsh, dpc, slots, main>>

IncreaseTime ==
    /\ tpc = "tick"
    /\ time' = time + 1
    /\ cur' = 1
    /\ tpc' = "reset"
    /\ UNCHANGED <<done, fsh, nfsh, nevent, dpc, slots, main>>

ReleaseDevice ==
    /\ tpc = "reset"
    /\ done' = [done EXCEPT ![cur] = FALSE]
    /\ SignalTimer(cur)
    /\ cur' = cur + 1
    /\ tpc' = IF cur = N THEN "decide" ELSE "reset"
    /\ UNCHANGED <<time, fsh, nfsh, nevent, slots, main>>

(* Fault: the timer leaves with the first device that detaches *)
FaultDecideAny ==
    /\ tpc = "decide"
    /\ tpc' = IF nfsh > 0 THEN "exited" ELSE "head"
    /\ UNCHANGED <<time, done, fsh, cur, nfsh, nevent, dpc, slots, main>>

Decide ==
    /\ tpc = "decide"
    /\ tpc' = IF nfsh = nevent THEN "exited" ELSE "head"
    /\ UNCHANGED <<time, done, fsh, cur, nfsh, nevent, dpc, slots, main>>

TimerStep ==
    LoopHead \/ AwaitDevice \/ CountDevice \/ IncreaseTime \/ ReleaseDevice \/ Decide
-----------------------------------------------------------------------------
(* A device *)

(* First section of next_slot *)
TellDone(d) ==
    /\ dpc[d] = "work"
    /\ slots[d] < MaxSlots
    /\ done' = [done EXCEPT ![d] = TRUE]
    /\ SignalEvent(d)
    /\ dpc' = [dpc EXCEPT ![d] = "waiting"]
    /\ UNCHANGED <<time, fsh, cur, nfsh, nevent, slots, main>>

(* Second section of next_slot, when done is still set *)
AwaitSlot(d) ==
    /\ dpc[d] = "waiting"
    /\ done[d]
    /\ dpc' = [dpc EXCEPT ![d] = "asleep"]
    /\ UNCHANGED <<time, done, fsh, timerLocals, slots, main>>

(* Second section of next_slot, when the timer has cleared done *)
EnterSlot(d) ==
    /\ dpc[d] = "waiting"
    /\ ~done[d]
    /\ dpc' = [dpc EXCEPT ![d] = "work"]
    /\ slots' = [slots EXCEPT ![d] = @ + 1]
    /\ UNCHANGED <<time, done, fsh, timerLocals, main>>

(* Fault: detach_event does not wake the timer up *)
FaultSilentDetach(d) ==
    /\ dpc[d] = "work"
    /\ fsh' = [fsh EXCEPT ![d] = TRUE]
    /\ dpc' = [dpc EXCEPT ![d] = "exited"]
    /\ UNCHANGED <<time, done, timerLocals, slots, main>>

(* detach_event, the last call of a device's thread *)
Detach(d) ==
    /\ dpc[d] = "work"
    /\ fsh' = [fsh EXCEPT ![d] = TRUE]
    /\ SignalEvent(d)
    /\ dpc' = [dpc EXCEPT ![d] = "exited"]
    /\ UNCHANGED <<time, done, cur, nfsh, nevent, slots, main>>

DeviceStep(d) == TellDone(d) \/ AwaitSlot(d) \/ EnterSlot(d) \/ Detach(d)
-----------------------------------------------------------------------------
(* pthread_cond_wait may return without a signal *)
SpuriousTimer ==
    /\ tpc = "asleep"
    /\ tpc' = "scan"
    /\ UNCHANGED <<time, done, fsh, cur, nfsh, nevent, dpc, slots, main>>

SpuriousDevice(d) ==
    /\ dpc[d] = "asleep"
    /\ dpc' = [dpc EXCEPT ![d] = "waiting"]
    /\ UNCHANGED <<time, done, fsh, timerLocals, slots, main>>

(* main has joined every device's thread and calls stop_timer *)
StopTimer ==
    /\ main = "joining"
    /\ \A d \in Devs : dpc[d] = "exited"
    /\ main' = "stopping"
    /\ UNCHANGED <<time, done, fsh, timerLocals, dpc, slots>>

(* stop_timer has joined the timer thread and frees dev_list *)
FreeDevices ==
    /\ main = "stopping"
    /\ tpc = "exited"
    /\ main' = "freed"
    /\ UNCHANGED <<time, done, fsh, timerLocals, dpc, slots>>

(* The program is over: the only state without a successor *)
Terminated == main = "freed" /\ UNCHANGED vars

Next ==
    \/ TimerStep
    \/ \E d \in Devs : DeviceStep(d) \/ SpuriousDevice(d)
    \/ SpuriousTimer
    \/ StopTimer
    \/ FreeDevices
    \/ Terminated

Spec == Init /\ [][Next]_vars

(***************************************************************************)
(* Every thread that can take a step takes one in the end.  A device's     *)
(* work ends: run executes one instruction.  Nothing is assumed of         *)
(* spurious wakeups.                                                       *)
(***************************************************************************)
FairSpec ==
    /\ Spec
    /\ WF_vars(TimerStep)
    /\ \A d \in Devs : WF_vars(DeviceStep(d))
    /\ WF_vars(StopTimer)
    /\ WF_vars(FreeDevices)
-----------------------------------------------------------------------------
(* Properties *)

(* A device that works does so in the slot that the clock shows: it is     *)
(* never released twice for a slot, and never misses one (timer.c:26-53).  *)
WorkInLockStep == \A d \in Devs : dpc[d] = "work" => slots[d] = time

(* Whoever sleeps has a reason to: the timer sleeps on a device that has   *)
(* not finished its slot, a device sleeps while done is set.  A signal     *)
(* sent before its waiter sleeps would break this (timer.c:31, 70).        *)
NoLostWakeup ==
    /\ tpc = "asleep" => ~done[cur] /\ ~fsh[cur]
    /\ \A d \in Devs : dpc[d] = "asleep" => done[d]

(* done is written under two different locks (timer.c:64, 50), yet the     *)
(* timer never reaches its write while the device can reach its own.       *)
NoWriteRace ==
    \A d \in Devs : ~(tpc = "reset" /\ cur <= d /\ dpc[d] = "work")

(* The timer stops ticking only when every device is detached: no thread   *)
(* is left in next_slot without somebody to release it (timer.c:37, 54).   *)
ExitedAlone == tpc = "exited" => \A d \in Devs : fsh[d]

(* current_time is read without a lock (os.c:237): it is stable from the   *)
(* return of a next_slot to the next call of the device.                   *)
ClockStableInSlot ==
    [][\A d \in Devs : dpc[d] = "work" /\ dpc'[d] = "work" => time' = time]_vars

(* A call of next_slot returns, whatever the other devices do (timer.c:61) *)
NextSlotReturns == \A d \in Devs : dpc[d] \in {"waiting", "asleep"} ~> dpc[d] = "work"

(* The timer thread is joined and main gets to free the devices, without   *)
(* a device's thread being left behind (timer.c:120-131).                  *)
TimerTerminates == <>(main = "freed")

(***************************************************************************)
(* The protocol implements the barrier of LockStep: a device has its work  *)
(* of the slot before it until it sets done, and again from _time++ on,    *)
(* when done is still to be cleared.                                       *)
(***************************************************************************)
Unfinished(d) == ~done[d] \/ (tpc = "reset" /\ cur <= d)

Abstract == INSTANCE LockStep WITH
    Horizon <- MaxSlots,
    now <- IF time < MaxSlots THEN time ELSE MaxSlots,
    pending <- {d \in Devs : ~fsh[d] /\ Unfinished(d)},
    left <- {d \in Devs : fsh[d]}

(* timer.c, whatever the interleaving of its threads, is the barrier       *)
(* (timer.c:21-93).                                                        *)
ImplementsLockStep == Abstract!BarrierSpec
=============================================================================
