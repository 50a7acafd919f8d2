------------------------------- MODULE Regions -------------------------------
(***************************************************************************)
(* The region allocator of libmem.c: __alloc and __free on the one memory   *)
(* area of each process, its list of free regions and its symbol table.     *)
(* Both run under mmvm_lock from beginning to end: each is one step. The     *)
(* modules KmemCache and Paging say which steps there are.                  *)
(***************************************************************************)
EXTENDS Integers, SequencesExt

CONSTANTS
  Procs,            \* processes; each has its own mm_struct
  Rgids,            \* indexes of the symbol table
  PAGESZ,           \* PAGING64_PAGESZ
  Sizes,            \* sizes that programs ask for
  MaxBrk            \* bound: no area grows past this address

ASSUME RegionsAssumption ==
  /\ PAGESZ \in Nat \ {0}
  /\ Sizes \subseteq Nat \ {0}      \* __alloc refuses size 0
  /\ MaxBrk \in Nat

VARIABLE mm         \* the memory of each process

Region == {rg \in [start : Nat, end : Nat] : rg.start <= rg.end}
NoRegion == [start |-> 0, end |-> 0]

(* The addresses of a region; the end is exclusive. *)
Bytes(rg) == rg.start..(rg.end - 1)

MmInit ==
  mm = [p \in Procs |-> [vm_end |-> 0, sbrk |-> 0,
                         freerg |-> <<NoRegion>>,
                         symrg |-> [id \in Rgids |-> NoRegion]]]

-----------------------------------------------------------------------------
(* The list of free regions. *)

(* Fault: a region that is one address too small is taken to fit *)
FaultFits(rg, size) == rg.start + size <= rg.end + 1

Fits(rg, size) == rg.start + size <= rg.end

(* The k-th region without its first size addresses. *)
Left(list, k, size) == [list[k] EXCEPT !.start = @ + size]
UsedUp(rg) == rg.start >= rg.end

(* The list after its k-th region gave up its first size addresses. A region
   used up is removed by copying its successor over it; at the end of the
   list it stays, with no addresses. *)
Take(list, k, size) ==
  IF UsedUp(Left(list, k, size)) /\ k < Len(list)
  THEN RemoveAt(list, k)
  ELSE ReplaceAt(list, k, Left(list, k, size))

(* One step of the insertion sort. A region that does not come first goes
   before the first of the later ones that does not start before it. *)
Insert(sorted, rg) ==
  LET place ==
        IF sorted # <<>> /\ rg.start < Head(sorted).start
        THEN 1
        ELSE Min({k \in 2..Len(sorted) : sorted[k].start >= rg.start}
                 \cup {Len(sorted) + 1})
  IN InsertAt(sorted, place, rg)

Join(merged, rg) ==
  Append(Front(merged),
         [Last(merged) EXCEPT !.end = Max({@, rg.end})])

(* Fault: regions that touch are not joined *)
FaultAbsorb(merged, rg) ==
  IF merged # <<>> /\ Last(merged).end > rg.start
  THEN Join(merged, rg)
  ELSE Append(merged, rg)

(* One step of the loop that merges the sorted list. *)
Absorb(merged, rg) ==
  IF merged # <<>> /\ Last(merged).end >= rg.start
  THEN Join(merged, rg)
  ELSE Append(merged, rg)

Sort(list) == FoldLeft(Insert, <<>>, list)

MergeFree(list) == FoldLeft(Absorb, <<>>, Sort(list))

-----------------------------------------------------------------------------
(* The operations. *)

(* get_free_vmrg_area found room: the first region that fits gives it. *)
AllocFit(p, id, size) ==
  \E k \in DOMAIN mm[p].freerg :
    LET rg == mm[p].freerg[k]
    IN /\ Fits(rg, size)
       /\ \A j \in 1..(k - 1) : ~Fits(mm[p].freerg[j], size)
       /\ mm' = [mm EXCEPT
            ![p].freerg = Take(@, k, size),
            ![p].symrg[id] = [start |-> rg.start, end |-> rg.start + size]]

Aligned(size) == ((size + PAGESZ - 1) \div PAGESZ) * PAGESZ

(* No free region fits and the area grows. The system call that grows it is
   made twice; only the first result is tested, so the second may fail. When
   the first fails, __alloc fails and nothing changes. *)
AllocGrow(p, id, size, calls) ==
  /\ \A k \in DOMAIN mm[p].freerg : ~Fits(mm[p].freerg[k], size)
  /\ mm[p].sbrk + calls * size <= MaxBrk
  /\ mm' = [mm EXCEPT
       ![p].sbrk = @ + calls * size,
       ![p].vm_end = @ + calls * Aligned(size),
       ![p].symrg[id] = [start |-> mm[p].sbrk, end |-> mm[p].sbrk + size]]

Free(p, id) ==
  /\ mm[p].symrg[id] # NoRegion
  /\ mm' = [mm EXCEPT
       ![p].freerg = MergeFree(<<mm[p].symrg[id]>> \o @),
       ![p].symrg[id] = NoRegion]

(* __alloc when it succeeds. *)
Alloc(p, id, size) ==
  \/ AllocFit(p, id, size)
  \/ \E calls \in 1..2 : AllocGrow(p, id, size, calls)

-----------------------------------------------------------------------------
(* The area, the free regions and the symbol table of every process have their
   types; in particular no region that __alloc or __free leaves ends before
   it starts. *)
MmTypeOK ==
  mm \in [Procs -> [vm_end : Nat, sbrk : 0..MaxBrk, freerg : Seq(Region),
                    symrg : [Rgids -> Region]]]

FreeBytes(p) == UNION {Bytes(rg) : rg \in ToSet(mm[p].freerg)}

(* The free list is sorted and no two of its regions touch, empty ones
   included, so that merge_free_regions has always joined what can be joined
   and freed space serves any request that it could. *)
FreeListSeparated ==
  \A p \in Procs : \A j, k \in DOMAIN mm[p].freerg :
    j < k => mm[p].freerg[j].end < mm[p].freerg[k].start
=============================================================================
