------------------------------ MODULE Allocator ------------------------------
(***************************************************************************)
(* What the allocators of libmem.c promise to one process, without lists,   *)
(* page sizes or slots: every address below the top of the area belongs to  *)
(* at most one owner or is spare, an allocation takes spare addresses or    *)
(* new ones, and a slot is carved out of what its pool still has.           *)
(***************************************************************************)
EXTENDS Integers

CONSTANT Owners     \* variables of the program and pools

VARIABLES
  held,             \* the addresses of each owner
  spare,            \* addresses of freed regions
  top               \* first address that was never allocated

vars == <<held, spare, top>>

Init ==
  /\ held = [o \in Owners |-> {}]
  /\ spare = {}
  /\ top = 0

(* The step gives addresses to o only. What o held before is given up without
   becoming spare, and so is what one other owner held: a new pool replaces a
   variable and a pool. *)
Hand(o, replaced) ==
  /\ held'[o] # {}
  /\ held' = [held EXCEPT ![replaced] = {}, ![o] = held'[o]]

Reuse(o, replaced) ==
  /\ held'[o] \subseteq spare
  /\ spare' = spare \ held'[o]
  /\ UNCHANGED top
  /\ Hand(o, replaced)

Extend(o, replaced) ==
  /\ top' \in Nat
  /\ held'[o] \subseteq top..(top' - 1)
  /\ UNCHANGED spare
  /\ Hand(o, replaced)

Carve(o, pool) ==
  /\ pool # o
  /\ held'[o] # {} /\ held'[o] \subseteq held[pool]
  /\ held' = [held EXCEPT ![pool] = @ \ held'[o], ![o] = held'[o]]
  /\ UNCHANGED <<spare, top>>

Free(o) ==
  /\ held[o] # {}
  /\ held' = [held EXCEPT ![o] = {}]
  /\ spare' = spare \cup held[o]
  /\ UNCHANGED top

Next ==
  \/ \E o, other \in Owners :
       Reuse(o, other) \/ Extend(o, other) \/ Carve(o, other)
  \/ \E o \in Owners : Free(o)

Spec == Init /\ [][Next]_vars

(* No address has two owners: two variables that share an address would
   overwrite each other's data. *)
OneOwner ==
  /\ \A o \in Owners : held[o] \cap spare = {}
  /\ \A o, other \in Owners : o # other => held[o] \cap held[other] = {}
=============================================================================
