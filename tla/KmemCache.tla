------------------------------ MODULE KmemCache ------------------------------
(***************************************************************************)
(* The memory instructions of one process on its regions (libmem.c): alloc, *)
(* kmalloc and free, the pools of kernel objects, which hand out slots of a *)
(* region of their own, and the copies between user and kernel regions.     *)
(*                                                                          *)
(* A process runs on one CPU at a time and no other reaches its mm_struct:  *)
(* each instruction is one step.                                            *)
(***************************************************************************)
EXTENDS Regions

CONSTANTS
  PoolIds,          \* the indexes that pools are created under
  PoolSizes,        \* sizes that pools are created with
  Aligns            \* sizes of a slot, 0 included

ASSUME KmemAssumption ==
  /\ PoolIds \subseteq Rgids
  /\ PoolSizes \subseteq Nat \ {0}
  /\ Aligns \subseteq Nat

VARIABLES
  pools,            \* kcpooltbl of each process; absent is all zeros
  handles,          \* history: the indexes that still name a whole pool
  misused           \* history: the processes that freed a pool in use

kvars == <<mm, pools, handles, misused>>

NoPool == [size |-> 0, align |-> 0, storage |-> 0]

KmemInit ==
  /\ MmInit
  /\ pools = [p \in Procs |-> [id \in PoolIds |-> NoPool]]
  /\ handles = [p \in Procs |-> {}]
  /\ misused = {}

(* alloc and kmalloc take the same path. *)
AllocVariable(p, id, size) ==
  /\ Alloc(p, id, size)
  /\ handles' = [handles EXCEPT ![p] = @ \ {id}]
  /\ UNCHANGED <<pools, misused>>

(* The pool of a region that is freed goes on as if nothing had happened. *)
FreeVariable(p, id) ==
  /\ Free(p, id)
  /\ handles' = [handles EXCEPT ![p] = @ \ {id}]
  /\ misused' = IF id \in handles[p] THEN misused \cup {p} ELSE misused
  /\ UNCHANGED pools

-----------------------------------------------------------------------------
(* Pools. *)

SlotSize(align) == IF align = 0 THEN 1 ELSE align

(* The size rounded up to whole slots. *)
WholeSlots(size, align) ==
  IF size % align = 0 THEN size ELSE size + (align - (size % align))

(* Storage 0 counts as no pool: the index of such a pool names a region of
   its own like any other. *)
PoolAt(p, id, size, align, reserved) ==
  /\ Alloc(p, id, reserved)
  /\ LET storage == mm'[p].symrg[id].start
     IN /\ pools' = [pools EXCEPT ![p][id] =
             [size |-> size, align |-> align, storage |-> storage]]
        /\ handles' = [handles EXCEPT ![p] =
             IF storage = 0 THEN @ \ {id} ELSE @ \cup {id}]
  /\ UNCHANGED misused

(* Fault: the region has the size asked for, the pool the rounded one *)
FaultPoolCreate(p, id, size, align) ==
  PoolAt(p, id, WholeSlots(size, SlotSize(align)), SlotSize(align), size)

(* A pool under an index in use replaces the region and the pool there. *)
PoolCreate(p, id, size, align) ==
  LET whole == WholeSlots(size, SlotSize(align))
  IN PoolAt(p, id, whole, SlotSize(align), whole)

HasSlot(pool) == pool.align > 0 /\ pool.size >= pool.align /\ pool.storage # 0

(* Fault: the slot is not taken off what is left of the pool *)
FaultSpend(pool) == [pool EXCEPT !.storage = @ + pool.align]

Spend(pool) ==
  [pool EXCEPT !.storage = @ + pool.align, !.size = @ - pool.align]

CacheAlloc(p, pool, id) ==
  LET from == pools[p][pool]
  IN /\ HasSlot(from)
     /\ pools' = [pools EXCEPT ![p][pool] = Spend(@)]
     /\ mm' = [mm EXCEPT ![p].symrg[id] =
          [start |-> from.storage, end |-> from.storage + from.align]]
     /\ handles' = [handles EXCEPT ![p] = @ \ {id}]
     /\ UNCHANGED misused

KmemNext ==
  \E p \in Procs :
    \/ \E id \in Rgids :
         \/ \E size \in Sizes : AllocVariable(p, id, size)
         \/ FreeVariable(p, id)
         \/ \E pool \in PoolIds : CacheAlloc(p, pool, id)
    \/ \E id \in PoolIds, size \in PoolSizes, align \in Aligns :
         PoolCreate(p, id, size, align)

KmemSpec == KmemInit /\ [][KmemNext]_kvars

-----------------------------------------------------------------------------
(* Copies between user and kernel regions. They change the bytes of memory
   only: bytes is what each address holds, and unreachable are the addresses
   whose page pg_getpage cannot bring in. *)

Reaches(p, id, offset) ==
  /\ mm[p].symrg[id] # NoRegion
  /\ mm[p].symrg[id].start + offset < mm[p].symrg[id].end

Address(p, id, offset) == mm[p].symrg[id].start + offset

(* Fault: the write does not test the end of its region *)
FaultCopyByte(p, source, destination, unreachable, at, k) ==
  IF /\ at.ok /\ Reaches(p, source, k) /\ mm[p].symrg[destination] # NoRegion
     /\ {Address(p, source, k), Address(p, destination, k)} \cap unreachable = {}
  THEN [at EXCEPT !.bytes = [@ EXCEPT
          ![Address(p, destination, k)] = at.bytes[Address(p, source, k)]]]
  ELSE [at EXCEPT !.ok = FALSE]

(* One byte: __read and then __write, either of which may fail. *)
CopyByte(p, source, destination, unreachable, at, k) ==
  IF /\ at.ok /\ Reaches(p, source, k) /\ Reaches(p, destination, k)
     /\ {Address(p, source, k), Address(p, destination, k)} \cap unreachable = {}
  THEN [at EXCEPT !.bytes = [@ EXCEPT
          ![Address(p, destination, k)] = at.bytes[Address(p, source, k)]]]
  ELSE [at EXCEPT !.ok = FALSE]

(* copy_from_user and copy_to_user: the first byte that fails ends the copy,
   and those before it stay copied. *)
Copy(p, source, destination, offset, size, unreachable, bytes) ==
  FoldLeft(LAMBDA at, i :
             CopyByte(p, source, destination, unreachable, at, offset + i - 1),
           [bytes |-> bytes, ok |-> TRUE],
           [i \in 1..size |-> i])

-----------------------------------------------------------------------------
(* Areas, regions and pools have their types. *)
KmemTypeOK ==
  /\ MmTypeOK
  /\ pools \in [Procs -> [PoolIds -> [size : Nat, align : Nat, storage : Nat]]]
  /\ handles \in [Procs -> SUBSET PoolIds]
  /\ misused \subseteq Procs

Owners == ({"variable"} \X Rgids) \cup ({"pool"} \X PoolIds)

(* What a pool has left; its region's index holds nothing of its own. *)
Unspent(pool) ==
  IF pool.storage = 0 THEN {}
  ELSE pool.storage..(pool.storage + pool.size - 1)

Holds(p, o) ==
  IF o[1] = "pool" THEN Unspent(pools[p][o[2]])
  ELSE IF o[2] \in handles[p] THEN {}
  ELSE Bytes(mm[p].symrg[o[2]])

A(p) == INSTANCE Allocator
          WITH held <- [o \in Owners |-> Holds(p, o)],
               spare <- FreeBytes(p),
               top <- mm[p].sbrk

(* Variables, slots and what pools have left share no address with each other
   nor with a free region, and all lie inside the area that inc_vma_limit has
   reserved: regions are split, merged and reused in any order, the second
   growth leaves a gap, slots are freed one by one into the common free list,
   and an index or a pool in use may be replaced. A program that frees a
   pool's own region while the pool is in use gives up this promise. *)
OwnersDisjoint ==
  \A p \in Procs \ misused :
    /\ A(p)!OneOwner
    /\ \A o \in Owners : \A a \in Holds(p, o) : a < mm[p].sbrk
    /\ \A rg \in ToSet(mm[p].freerg) : rg.end <= mm[p].sbrk
    /\ mm[p].sbrk <= mm[p].vm_end

(* Lists, symbol table and pools keep the promise of the abstract allocator:
   in particular no operation loses addresses, except those of a variable or
   a pool that it replaces. *)
ImplementsAllocator ==
  /\ \A p \in Procs : A(p)!Init
  /\ [][\A p \in Procs \ misused' : [A(p)!Next]_(A(p)!vars)]_kvars

(* A copy moves the longest prefix of the bytes asked for that both regions
   have and that paging can reach, succeeds only when that is all of them, and
   changes no other address, whatever the loop has done when a byte fails.
   An index that names a whole pool overlaps the pool's slots: a copy between
   the two may copy a byte again. Memory begins with each address holding
   itself. *)
CopyIsPrefix ==
  \A p \in Procs \ misused : \A source, destination \in Rgids \ handles[p] :
    \A offset \in 0..1, unreachable \in {{}, {MaxBrk - 1}} :
      LET size == 2
          moved == {k \in 0..(size - 1) : \A j \in 0..k :
                      /\ Reaches(p, source, offset + j)
                      /\ Reaches(p, destination, offset + j)
                      /\ Address(p, source, offset + j) \notin unreachable
                      /\ Address(p, destination, offset + j) \notin unreachable}
      IN Copy(p, source, destination, offset, size, unreachable,
              [a \in 0..MaxBrk |-> a])
         = [bytes |-> [a \in 0..MaxBrk |->
              IF \E k \in moved : a = Address(p, destination, offset + k)
              THEN a + Address(p, source, 0) - Address(p, destination, 0)
              ELSE a],
            ok |-> moved = 0..(size - 1)]
=============================================================================
