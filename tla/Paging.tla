------------------------------- MODULE Paging -------------------------------
(***************************************************************************)
(* Paging of the processes' areas onto the frames of RAM and swap that they *)
(* share: mapping of new pages (mm64.c), page table entries, the FIFO of    *)
(* each process's pages, and pg_getpage with its eviction (libmem.c).       *)
(*                                                                          *)
(* __alloc, __free and __write hold mmvm_lock from beginning to end and are *)
(* one step each. __read takes no lock: where it uses the list of free swap *)
(* frames it is two steps. What is copied to swap is left out: no statement *)
(* that can be reached reads it back.                                       *)
(***************************************************************************)
EXTENDS Regions

CONSTANTS
  RamFrames,        \* frames of the RAM device
  SwpFrames         \* frames of the active swap device

ASSUME PagingAssumption ==
  /\ RamFrames \in 0..8192   \* an entry has 13 bits for a frame; the built RAM has 1024
  /\ SwpFrames \in Nat

VARIABLES
  pte,              \* page table of each process
  fifo_pgn,         \* pages of each process, the newest first
  ramFree,          \* free_fp_list of mram
  swpFree,          \* free_fp_list of active_mswp
  store,            \* storage of mram
  miss,             \* the page miss of a __read in progress, or NoMiss
  written           \* history: the addresses that each process has written

frames == <<pte, fifo_pgn, ramFree, swpFree>>
vars == <<mm, frames, store, miss, written>>

Pages == 0..(MaxBrk - 1)    \* a growth by size adds at most size pages
Addresses == 0..(MaxBrk - 1)
RamAddresses == 0..(RamFrames * PAGESZ - 1)
Page(addr) == addr \div PAGESZ

(* A byte is told by where it was written: every write to an address stores
   the same byte and writes to different addresses different ones. Zero is
   what the device begins with. *)
Zero == <<>>
Byte(p, addr) == <<p, addr>>

NoMiss == [pgn |-> MaxBrk]

-----------------------------------------------------------------------------
(* Page table entries. Bits 0 to 12 are the frame of a page in RAM; the
   frame of a page in swap is in bits 5 to 25, and its swap type, always 0,
   in bits 0 to 4. low stands for bits 0 to 25. *)

NoEntry == [present |-> FALSE, swapped |-> FALSE, low |-> 0]
FpnSpan == 8192
SwpUnit == 32

Fpn(entry) == entry.low % FpnSpan
Swp(entry) == entry.low \div SwpUnit

SetFpn(entry, fpn) ==
  [present |-> TRUE, swapped |-> FALSE,
   low |-> (entry.low - Fpn(entry)) + (fpn % FpnSpan)]

SetSwap(entry, swp) ==
  [present |-> TRUE, swapped |-> TRUE, low |-> SwpUnit * swp]

InRam(entry) == entry.present /\ ~entry.swapped

-----------------------------------------------------------------------------
PagingInit ==
  /\ MmInit
  /\ pte = [p \in Procs |-> [pgn \in Pages |-> NoEntry]]
  /\ fifo_pgn = [p \in Procs |-> <<>>]
  /\ ramFree = [k \in 1..RamFrames |-> k - 1]
  /\ swpFree = [k \in 1..SwpFrames |-> k - 1]
  /\ store = [a \in RamAddresses |-> Zero]
  /\ miss = [p \in Procs |-> NoMiss]
  /\ written = [p \in Procs |-> {}]

(* __alloc from the free list, and __free: the pages stay as they are. *)
AllocReuse(p, id, size) ==
  /\ AllocFit(p, id, size)
  /\ UNCHANGED <<frames, store, miss, written>>

FreeRegion(p, id) ==
  /\ Free(p, id)
  /\ UNCHANGED <<frames, store, miss, written>>

(* vmap_page_range: the first count free frames become the pages from first
   on, which enter the FIFO one by one. *)
Mapped(m, first, count) ==
  [ramFree |-> SubSeq(m.ramFree, count + 1, Len(m.ramFree)),
   pte |-> [pgn \in Pages |->
              IF pgn \in first..(first + count - 1)
              THEN SetFpn(m.pte[pgn], m.ramFree[pgn - first + 1])
              ELSE m.pte[pgn]],
   fifo |-> [k \in 1..count |-> first + count - k] \o m.fifo]

(* Fault: frames taken before RAM ran out are not put back *)
FaultMapRam(m, first, count) ==
  IF Len(m.ramFree) < count
  THEN [m EXCEPT !.ramFree = <<>>]
  ELSE Mapped(m, first, count)

(* vm_map_ram for count pages from first on. When RAM runs out, the frames
   already taken are put back one by one, which turns the free list round. *)
MapRam(m, first, count) ==
  IF Len(m.ramFree) < count
  THEN [m EXCEPT !.ramFree = Reverse(@)]
  ELSE Mapped(m, first, count)

(* __alloc that grows the area. inc_vma_limit means to undo the growth when
   vm_map_ram fails, but compares its unsigned result with 0: the area has
   grown whether or not its new pages were mapped. *)
AllocExtend(p, id, size, calls) ==
  /\ AllocGrow(p, id, size, calls)
  /\ LET count == Aligned(size) \div PAGESZ
         before == [ramFree |-> ramFree, pte |-> pte[p], fifo |-> fifo_pgn[p]]
         once == MapRam(before, Page(mm[p].vm_end), count)
         after == IF calls = 1 THEN once
                  ELSE MapRam(once, Page(mm[p].vm_end) + count, count)
     IN /\ ramFree' = after.ramFree
        /\ pte' = [pte EXCEPT ![p] = after.pte]
        /\ fifo_pgn' = [fifo_pgn EXCEPT ![p] = after.fifo]
  /\ UNCHANGED <<swpFree, store, miss, written>>

-----------------------------------------------------------------------------
(* Fault: the victim's entry goes on naming its RAM frame *)
FaultEvict(p, pgn, victim, swp) ==
  pte' = [pte EXCEPT ![p][pgn] = SetFpn(@, Fpn(pte[p][victim]))]

(* The end of pg_getpage on a miss: the victim's entry names its swap frame
   and its RAM frame is the missing page's. *)
Evict(p, pgn, victim, swp) ==
  pte' = [pte EXCEPT ![p][victim] = SetSwap(@, swp),
                     ![p][pgn] = SetFpn(@, Fpn(pte[p][victim]))]

PhysAddr(entry, addr) == (Fpn(entry) * PAGESZ) + (addr % PAGESZ)

(* MEMPHY_write drops what is beyond the device, MEMPHY_read leaves the 0 of
   pg_getval. *)
Stored(entry, p, addr) ==
  [a \in RamAddresses |->
     IF a = PhysAddr(entry, addr) THEN Byte(p, addr) ELSE store[a]]

RamRead(entry, addr) ==
  IF PhysAddr(entry, addr) \in RamAddresses
  THEN store[PhysAddr(entry, addr)]
  ELSE Zero

(* __read and __write accept an address inside the region of the index. *)
Accepts(p, id, addr) ==
  /\ miss[p] = NoMiss
  /\ mm[p].symrg[id] # NoRegion
  /\ addr \in Bytes(mm[p].symrg[id])

WriteHit(p, addr) ==
  /\ pte[p][Page(addr)].present
  /\ store' = Stored(pte[p][Page(addr)], p, addr)
  /\ written' = [written EXCEPT ![p] = @ \cup {addr}]
  /\ UNCHANGED <<mm, frames, miss>>

(* With no page in the FIFO pg_getpage fails and nothing changes. With one
   but no free swap frame it fails when the victim has left the FIFO. *)
SwapFull(p, addr) ==
  /\ ~pte[p][Page(addr)].present
  /\ fifo_pgn[p] # <<>> /\ swpFree = <<>>
  /\ fifo_pgn' = [fifo_pgn EXCEPT ![p] = Front(@)]
  /\ UNCHANGED <<mm, pte, ramFree, swpFree, store, miss, written>>

(* Fault: find_victim_page leaves the victim in the FIFO *)
FaultRequeue(p, pgn) == <<pgn>> \o fifo_pgn[p]

(* The victim leaves the FIFO at its tail, the missing page enters at its head. *)
Requeue(p, pgn) == <<pgn>> \o Front(fifo_pgn[p])

WriteMiss(p, addr) ==
  LET pgn == Page(addr)
  IN /\ ~pte[p][pgn].present
     /\ fifo_pgn[p] # <<>> /\ swpFree # <<>>
     /\ Evict(p, pgn, Last(fifo_pgn[p]), Head(swpFree))
     /\ swpFree' = Tail(swpFree)
     /\ fifo_pgn' = [fifo_pgn EXCEPT ![p] = Requeue(p, pgn)]
     /\ store' = Stored(pte'[p][pgn], p, addr)
     /\ written' = [written EXCEPT ![p] = @ \cup {addr}]
     /\ UNCHANGED <<mm, ramFree, miss>>

(* __read misses: it takes the victim and loads the head of the free swap
   frames and the head's successor. *)
ReadMiss(p, addr) ==
  /\ ~pte[p][Page(addr)].present
  /\ fifo_pgn[p] # <<>> /\ swpFree # <<>>
  /\ fifo_pgn' = [fifo_pgn EXCEPT ![p] = Front(@)]
  /\ miss' = [miss EXCEPT ![p] =
       [pgn |-> Page(addr), victim |-> Last(fifo_pgn[p]),
        swp |-> Head(swpFree), rest |-> Tail(swpFree)]]
  /\ UNCHANGED <<mm, pte, ramFree, swpFree, store, written>>

(* It stores the successor as the new head, which undoes what others did to
   the list since, and evicts the victim. *)
ReadFill(p) ==
  /\ miss[p] # NoMiss
  /\ swpFree' = miss[p].rest
  /\ Evict(p, miss[p].pgn, miss[p].victim, miss[p].swp)
  /\ fifo_pgn' = [fifo_pgn EXCEPT ![p] = <<miss[p].pgn>> \o @]
  /\ miss' = [miss EXCEPT ![p] = NoMiss]
  /\ UNCHANGED <<mm, ramFree, store, written>>

Access(p, id, addr) ==
  /\ Accepts(p, id, addr)
  /\ \/ WriteHit(p, addr) \/ WriteMiss(p, addr)
     \/ SwapFull(p, addr)
     \/ ReadMiss(p, addr)

Next ==
  \E p \in Procs :
    \/ ReadFill(p)
    \/ \E id \in Rgids :
         \/ /\ miss[p] = NoMiss
            /\ \E size \in Sizes :
                 \/ AllocReuse(p, id, size)
                 \/ \E calls \in 1..2 : AllocExtend(p, id, size, calls)
         \/ miss[p] = NoMiss /\ FreeRegion(p, id)
         \/ \E addr \in Addresses : Access(p, id, addr)

Spec == PagingInit /\ [][Next]_vars

-----------------------------------------------------------------------------
(* The pages of all processes that their entries say are in RAM. *)
EntryOf(page) == pte[page[1]][page[2]]
Resident == {page \in Procs \X Pages : InRam(EntryOf(page))}
Swapped == {page \in Procs \X Pages : EntryOf(page).present /\ EntryOf(page).swapped}
Frame(page) == Fpn(EntryOf(page))

(* Page tables, FIFOs, free lists and storage have their types: free lists hold
   numbers of existing frames only. *)
TypeOK ==
  /\ MmTypeOK
  /\ pte \in [Procs -> [Pages -> [present : BOOLEAN, swapped : BOOLEAN, low : Nat]]]
  /\ fifo_pgn \in [Procs -> Seq(Pages)]
  /\ ramFree \in Seq(0..(RamFrames - 1))
  /\ swpFree \in Seq(0..(SwpFrames - 1))
  /\ store \in [RamAddresses -> {Zero} \cup (Procs \X Addresses)]
  /\ written \in [Procs -> SUBSET Addresses]
  /\ \A p \in Procs : miss[p] # NoMiss =>
       /\ miss[p].pgn \in Pages /\ miss[p].victim \in Pages
       /\ miss[p].swp \in 0..(SwpFrames - 1)
       /\ miss[p].rest \in Seq(0..(SwpFrames - 1))

(* No variable lies outside the area whose pages were asked for, after any
   reuse and merging of free regions: a miss never brings a page to RAM that a
   later growth of the area would map once more. *)
RegionsInArea ==
  \A p \in Procs : \A id \in Rgids : mm[p].symrg[id].end <= mm[p].vm_end

(* Each RAM frame is free once or is the frame of one page of one process:
   a frame is not given out twice, by a mapping that fails half way or by an
   eviction, and none gets lost. *)
FramesOwnedOnce ==
  /\ IsInjective(ramFree)
  /\ \A page \in Resident : Frame(page) \notin ToSet(ramFree)
  /\ \A page, other \in Resident : page # other => Frame(page) # Frame(other)
  /\ Len(ramFree) + Cardinality(Resident) = RamFrames

(* The FIFO of a process holds pages of its own area that are in RAM, each
   once, so that find_victim_page never yields a page without a frame; a
   page that __read is about to evict is in none. *)
QueuedPagesResident ==
  \A p \in Procs :
    /\ IsInjective(fifo_pgn[p])
    /\ \A pgn \in ToSet(fifo_pgn[p]) :
         InRam(pte[p][pgn]) /\ pgn * PAGESZ < mm[p].vm_end
    /\ miss[p] # NoMiss =>
         /\ InRam(pte[p][miss[p].victim])
         /\ miss[p].victim \notin ToSet(fifo_pgn[p])
         /\ ~pte[p][miss[p].pgn].present

(* An address holds the byte that was last written to it as long as its page
   is in RAM and no entry of a swapped page, whose low bits pg_getpage reads
   as a frame, is mistaken for its frame. Frames change hands on eviction and
   processes share RAM: neither may mix their data. *)
ResidentDataKept ==
  \A p \in Procs : \A addr \in written[p] :
    LET entry == pte[p][Page(addr)]
    IN /\ InRam(entry)
       /\ \A page \in Swapped : Frame(page) # Fpn(entry)
       => RamRead(entry, addr) = Byte(p, addr)

(* What a program reads is what it last wrote: "Get the page to MEMRAM, swap
   from MEMSWAP if needed" (libmem.c:395). *)
ReadsLastWrite ==
  \A p \in Procs : \A addr \in written[p] :
    RamRead(pte[p][Page(addr)], addr) = Byte(p, addr)

(* A swap frame is taken once: no two pages are swapped to the same frame, and
   none is free: "MEMPHY is iteratively used up until its exhausted"
   (mm-memphy.c:186). *)
SwapFrameTakenOnce ==
  /\ \A page, other \in Swapped :
       page # other => Swp(EntryOf(page)) # Swp(EntryOf(other))
  /\ \A page \in Swapped : Swp(EntryOf(page)) \notin ToSet(swpFree)
=============================================================================
