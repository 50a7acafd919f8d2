------------------------------ MODULE LockStep ------------------------------
(***************************************************************************)
(* What timer.c promises to its devices (one per CPU thread, one for the   *)
(* loader): time is a sequence of slots, in each slot every attached       *)
(* device does its work once, and the clock moves to the next slot only    *)
(* when all of them have called next_slot or detach_event.                 *)
(*                                                                         *)
(* Timer.tla is the protocol of condition variables that implements this   *)
(* module; Os.tla composes the CPUs and the loader with it.                *)
(***************************************************************************)
EXTENDS Naturals

CONSTANTS Devs,     (* the attached devices                                *)
          Horizon   (* the clock saturates here: nobody tells later times apart *)

ASSUME HorizonAssumption == Horizon \in Nat

VARIABLES now,      (* the number of the current slot                      *)
          pending,  (* devices whose work for the current slot is not over *)
          left      (* devices that have detached                          *)

barrierVars == <<now, pending, left>>

Capped(t) == IF t < Horizon THEN t ELSE Horizon

(* The clock, the devices that still work in its slot and those that detached. *)
BarrierTypeOK ==
    /\ now \in 0..Horizon
    /\ pending \subseteq Devs
    /\ left \subseteq Devs

BarrierInit ==
    /\ now = 0
    /\ pending = Devs
    /\ left = {}

(* next_slot: the device's work in this slot is over *)
Arrive(d) ==
    /\ d \in pending
    /\ pending' = pending \ {d}
    /\ UNCHANGED <<now, left>>

(* detach_event: the device will do no more work, in this slot or later *)
Leave(d) ==
    /\ d \in pending
    /\ pending' = pending \ {d}
    /\ left' = left \cup {d}
    /\ UNCHANGED now

(* The slot is over for everybody: the next one begins *)
Tick ==
    /\ pending = {}
    /\ now' = Capped(now + 1)
    /\ pending' = Devs \ left
    /\ UNCHANGED left

BarrierNext ==
    \/ \E d \in Devs : Arrive(d) \/ Leave(d)
    \/ Tick

BarrierSpec == BarrierInit /\ [][BarrierNext]_barrierVars
=============================================================================
