# Simple OS: specification and proofs

TLA+ models of the operating system simulator under `ossim_caitoa/` (C, pthreads),
model-checked with TLC and, for the parts that matter most, proved with TLAPS.
File names below are relative to `src/ossim_caitoa/ossim_caitoa/src/` of the repository.
The configured build is modelled (`include/os-cfg.h`: `MLQ_SCHED`, `MM_PAGING`,
`MM_FIXED_MEMSZ`, `MM64`).

## The system

The program reads a configuration (time slice, number of CPUs, processes with start time
and priority), starts one thread per simulated CPU, one loader thread and one timer
thread, and runs every process to its end, one instruction per CPU and time slot.

| component | state | operations | shared with | what makes it correct |
|---|---|---|---|---|
| timer (`timer.c`) | `_time`; per device `done`, `fsh`, two mutexes, two condition variables | `next_slot`, `detach_event`, `current_time`, `stop_timer`, the timer's loop | every CPU and the loader are its devices | time slots are a barrier; no wakeup lost; it ends with its devices |
| scheduler (`sched.c`) | a ready queue per priority, `running_list`, `curr_prio`, `curr_slot`, all under `queue_lock` | `get_proc`, `put_proc`, `add_proc`, `finish_proc` | CPUs, loader; `running_list` is read by system calls | a process is in one place; slots in range; work-conserving; no starvation |
| queues (`queue.c`) | an array and a size | `enqueue`, `dequeue`, `purgequeue` | inside the scheduler's lock, except for the reader below | array operations are sequence operations |
| CPU threads (`os.c`) | `proc`, `time_left`, the program counter of the process | `cpu_routine` | scheduler, timer, `done` | whole time slices; one instruction per slot; all processes finish; the CPUs stop |
| loader thread (`os.c`) | `i`, `done` under `done_mutex` | `ld_routine` | scheduler, timer | nothing is abandoned when it says it is done |
| system calls (`libstd.c`, `syscall.c`, `sys_mem.c`) | none | `_syscall`, `__sys_memmap` | `running_list`, the caller's memory, physical memory | the caller is found; the operation acts on the caller |
| region allocator (`libmem.c`) | per process: the area's `sbrk`, free regions, symbol table, cache pools | `__alloc`, `__free`, `__kmalloc`, kernel caches, copies | page tables, through a system call | variables, slots and pools are disjoint and inside the area; freed space can be reused; a copy that fails has copied a prefix |
| page tables (`mm64.c`, `os.c`) | per process a tree of tables, five levels deep, on the common heap | `pte_set_fpn`, `pte_set_swap`, `pte_get_entry`, `vmap_pgd_memset`, `free_pgtable_recursive` | the heap, `pgtbl_lock` | a tree is a map from pages to entries; each table is freed once |
| paging (`mm64.c`, `mm-vm.c`, `libmem.c`) | page table entries, FIFO of pages | `vm_map_ram`, `pg_getpage`, `find_victim_page`, `__swap_cp_page` | RAM and swap frames of all processes | a page's data is where its entry says; a frame has one owner |
| physical memory (`mm-memphy.c`) | storage, free frame list | `MEMPHY_get_freefp`, `MEMPHY_put_freefp`, read, write | all processes, without a lock of its own | frames are never given out twice nor lost |
| interpreter (`cpu.c`) | registers, `pc` | `run` | the above | |
| configuration and process loading (`loader.c`, `os.c`) | | sequential parsing | | |

What is hard here: five kinds of threads meet at four locks; the scheduler's turn moves
on every scan, also an unsuccessful one; `done` of a device is written under two different
locks; `running_list` is read without its lock; the end of the simulation depends on the
order in which the loader adds, waits and sets its flag. Nothing is persisted and no
message is lost: there is no crash recovery to model.

## Modules

| module | models | kind |
|---|---|---|
| `LockStep` | what the timer promises: slots, each device working once in each | abstract specification |
| `Timer` | `timer.c`, one action per section on a mutex | implements `LockStep` |
| `TimerProofs` | theorems about `Timer` | proofs |
| `Mlq` | the scheduler's data and its operations, each atomic under `queue_lock` | operations, no behaviour of its own |
| `MlqSystem` | CPUs and loader that use them in any order | abstract specification of `sched.c` |
| `MlqSystemProofs` | theorems about `MlqSystem` and `MlqBypass` | proofs |
| `MlqBypass` | `MlqSystem` with a history variable | counts dispatches past a waiting priority |
| `Sched` | `sched.c` with the lock and the loop of `get_mlq_proc` | implements `MlqSystem` |
| `QueueProofs` | lemmas on sequences, folds, sums and induction that the other proofs share | proofs |
| `SchedProofs` | theorems about `Sched` | proofs |
| `Os` | `cpu_routine`, `ld_routine` | composes `Mlq` and `LockStep`; implements `MlqSystem` |
| `OsProofs` | theorems about `Os` | proofs |
| `RunningList` | `running_list` as an array; the unlocked traversal of `__sys_memmap`; the release of PCBs | detailed, against the sequence of `Mlq` |
| `RunningListProofs` | theorems about `RunningList` | proofs |
| `Allocator` | what the region allocator promises: every address has one owner | abstract specification |
| `Regions` | `__alloc`, `__free`, the list of free regions, the growth of the area | operations, used by the next and by `Paging` |
| `KmemCache` | the memory instructions of a process: variables, `kmalloc`, pools and slots, copies | implements `Allocator` |
| `PageTable` | the trees of tables, their walk, growth and release | detailed, against a map |
| `PageTableProofs` | theorems about `PageTable` | proofs |
| `Paging` | page table entries, FIFO, eviction, free frames, RAM | extends `Regions`: each of its allocations is a step of `Regions` |
| `MemoryProofs` | theorems about `Allocator`, `KmemCache` and `Paging` | proofs |
| `MC...` | constants for TLC | |

The chain is: `Timer` implements `LockStep`, and `Sched` implements `MlqSystem`; `Os` is
built on `LockStep` and on the operations of `MlqSystem`, so that what it shows of the
CPUs and the loader holds with the real timer and the real loop below them.

Every module that models code also holds `Fault...` operators. Each is a definition of
the module the way a plausible bug would have left it (a missing signal, a missing reset,
an off-by-one). They are not part of any specification: they show, property by property,
that the property would notice.

### How the models correspond to the code

*Timer.* `pthread_cond_wait` releases the mutex, so a section that waits ends in a state
"asleep"; a signal, or a spurious wakeup, leads back to the test. The loop bodies of the
timer's two passes over `dev_list` are one action per device. `attach_event` runs before
`start_timer` (`os.c:434-439`) and is the initial state. `stop_timer` is called after all
devices were joined.

*Sched.* Only the CPU inside `get_mlq_proc` needs more than one step under `queue_lock`;
the other operations are one action, enabled when the lock is free. `entryPrio` and
`entrySlot` remember where a scan began, for the refinement.

*Os.* A CPU's steps are its uses of shared state. `proc` is NULL or a process; what an
instruction does to memory is left out. `free_proc` changes nothing another thread of the
model reads; what it does to a traversal of `running_list` is in `RunningList`. A
`time_slot` of 0, which `read_config` accepts, is one of the constant's values: `time_left`
is then compared with 0 only when it has gone below it.

*RunningList.* Each store of `enqueue` and `purgequeue` and each load of the traversal is
one action; memory is sequentially consistent, which is kinder than the C memory model
(the unlocked read is a data race), so a failure found here is a failure of the code.
A PID stands for its process: PIDs are unique. The traversal loads a slot to test it for
NULL, to read the PID behind it, and once more for the caller (the build does not optimise);
the first two are one load here, as nothing is stored as NULL below `size`. The PCB of a
process in `freed` is free memory: a CPU in `deref` with such a PCB in `slot` reads it. What
it reads is taken to be the old PID, which is what free memory that was not used again
holds.

*Regions.* `mm[p]` is the `mm_struct` of a process, of which every process has its own
(`os.c:244`), with its one area. `__alloc` and `__free` hold `mmvm_lock` throughout and are
one step (within `KmemCache` and `Paging`). The growth of the area is a system call that `__alloc` makes twice, ignoring the
second result (`libmem.c:163-167`): `calls` is how many succeed. When the first fails
`__alloc` returns -1 and nothing has changed, which is no step. Addresses are natural
numbers; the `int` in which `__alloc` keeps the old `sbrk` does not overflow for the sizes
of the programs in `input/`.

*KmemCache.* One instruction is one step: a process runs on one CPU at a time, and no other
process reaches its `mm_struct`. `alloc` and `kmalloc` take the same path. `pools` is
`kcpooltbl`; a pool's region is in the symbol table under the pool's own index, and a slot
is a region of its own under another. `handles` is a history variable: the indexes that
still name the region of a whole pool. The code does not tell them from variables, so
freeing such an index gives back storage from which the pool goes on to hand out slots;
`input/proc/m2s` frees one, though it never allocates from it (its `kmem_cache_alloc 3 1`
asks pool 3, which was not created, and fails). `misused` are the processes that have done
so: for them nothing is claimed. A pool whose region begins at address 0 refuses every
allocation (`libmem.c:650`); its index then names a variable like any other.
A copy is an operator, as it changes bytes and nothing else: a fold over the bytes, each a
`__read` and a `__write`, with the addresses that paging cannot bring in as a parameter.

*PageTable.* Every table is a function from words to tables or entries, on one heap; a
`calloc` takes the lowest free address, so that what was freed is used again at once.
Entries and tables are both numbers, as in the code, which knows them apart by the level
alone. The functions of `mm64.c` hold `pgtbl_lock` from beginning to end: one step each.
`free_proc` runs without it, but on tables that only its own process could reach.

*Paging.* A page table is a function from page numbers to entries, which is what
`PageTable` shows the tree to be. An entry keeps the flags and the bits that
`PAGING_FPN` and `PAGING_SWP` both read. `__alloc`, `__free` and `__write` are one step each.
A read that hits changes nothing and needs no step; a read that misses is two, since
`__read` holds no lock between loading the head of the free swap frames and storing its
successor. Of the data races on that list the model has the one in which both loads come
before the stores; use of the freed list node is left out. A stored byte is identified with
the process and address it was written for, which shows misplaced data, and is blind to an
older byte of the same address. What is copied to swap is left out: the only statement that
reads it (`libmem.c:324`) is behind a condition that cannot hold.

## Runs

| run | specification and bounds | what it checks |
|---|---|---|
| `timer` | `Timer!FairSpec`, 3 devices, 3 slots | `WorkInLockStep`, `NoLostWakeup`, `NoWriteRace`, `ExitedAlone`, `ClockStableInSlot`, `NextSlotReturns`, `TimerTerminates`, `ImplementsLockStep` |
| `mlq` | `MlqBypass!BypassSpec`, 4 processes, 2 CPUs, 3 priorities | `OnePlace`, `RunningListExact`, `BoundedBypass`, `NoStarvation` |
| `sched` | `Sched!Spec`, 3 processes, 2 CPUs, 3 priorities | `SlotsInRange`, `ScanProgress`, `WorkConserving`, `ImplementsMlqSystem` |
| `os` | `Os!FairSpec`, 3 processes, 2 CPUs, loader, slices of 2 | `NothingAbandoned`, `WholeSlice`, `OneInstructionPerSlot`, `EveryProcessFinishes`, `UsesScheduler` |
| `running_list` | `RunningList!Spec`, 4 CPUs, 4 processes, 3 slots | `ArrayIsSequence`, `NeverAbsent`, `FreedOnlyInFlight` |
| `regions` | `KmemCache!KmemSpec`, 3 indexes, 1 pool, sizes 1 to 3, area up to 5 | `OwnersDisjoint`, `FreeListSeparated`, `CopyIsPrefix`, `ImplementsAllocator` |
| `page_table` | `PageTable!Spec`, 2 processes, 3 levels of 2 words | `TablesOwnedOnce`, `BehavesAsMap` |
| `paging` | `Paging!Spec`, 2 processes, 2 RAM and 2 swap frames | `RegionsInArea`, `FramesOwnedOnce`, `QueuedPagesResident`, `ResidentDataKept` |
| `cpus_stop` | as `os` | `CpusStop`, violated |
| `running_list_lookup` | as `running_list`, 4 slots | `RunningProcessFound`, violated |
| `paging_swap` | as `paging` | `ReadsLastWrite`, violated |
| `paging_race` | as `paging` | `SwapFrameTakenOnce`, violated |

`timer`, `sched`, `os`, `running_list`, `regions` and `paging` check their module's type
invariant too; that of `MlqSystem` is proved.

Bounds. A device of the timer is affected by the timer and, through it, by the slowest
other device: three devices give a fast, a slow and a detaching one at the same time. Three
priorities have turns of 3, 2 and 1 dispatches and a wrap-around; two processes of one
priority alternate within a turn. In `os` slices are two slots; one process ends at the
end of its first slice, the others inside their second, and start times make the loader
both wait and not wait: a process can end in the very slot in which another is added.
In `mlq` and `os` the arrays are exactly as long as the processes need (`MAX_QUEUE_SIZE` 2),
so that an `enqueue` that is full one slot early loses one.
With four CPUs and three slots in `running_list` a purge moves up to two processes and the
list is full at times; one CPU traverses at a time (`OneTraversal`: traversals only read). In `regions` three indexes of sizes 1 to 3 in an area of 5
leave up to three free regions around live ones; the pool of 3 with slots of 2 is rounded up
to 4, and with slots of 1 has three; `FewLost` leaves out states in which replacement and
doubled growth have lost more than two addresses. The indexes that name no pool are
symmetric, as no operation compares them. In `page_table` pages 1, 2 and 7 of three levels of
two words share all tables, some or only the root; entries have the values of
table numbers. The heap has no bound of its own: two processes and `main` hold 15 tables at most.
In `paging` two processes share two RAM and two swap frames; the constraint
`AreasBounded` limits both areas to five addresses together, enough for one process to
evict until swap is full and for both to evict at once. A page is one address there: the
lag of `sbrk` behind the page boundary is part of `regions`.

Fairness. Weak fairness of each thread: the host schedules every thread that can run, and
a pthread mutex that is free again and again is obtained in the end (the sections are
single actions, so a thread never waits for a mutex in the middle of one). No fairness is
assumed of spurious wakeups, of signals, or of a choice between the steps of one thread.
In `Timer`, a device detaches at the latest after `MaxSlots` slots: `TimerTerminates` says
what happens when the devices' threads end, and `cpus_stop` shows that the CPUs' need not.

## What was found

1. *An idle CPU does not stop* (`cpus_stop`). `cpu_routine` tests `done` only after it has
   given up a process. A CPU that begins a slot without one calls `get_proc`, and on NULL
   takes `next_slot` and `continue` (`os.c:110-117`). With more CPUs than processes, or
   when the last process is loaded while a CPU idles, that CPU polls for ever and `main`
   does not return from `pthread_join`. The comment at `os.c:139` says "No process to
   run, exit".
2. *A system call may not find its own process* (`running_list_lookup`).
   `__sys_memmap` looks for the caller in `running_list` without `queue_lock`
   (`sys_mem.c:40-45`); while another CPU's `purgequeue` shifts the array, the traversal can
   pass the caller's old slot before, and its new slot after, the shift. The comment at
   `sched.c:128` promises that it is found. `NeverAbsent` shows that the process is in
   the array all the time: it is the traversal that is too weak. The property fails in a
   second way as well: after the comparison of the PID the slot is loaded again
   (`sys_mem.c:42`), and a shift in between makes the call act on another process's memory
   ("access PCB by traversing running_list with PID", `sys_mem.c:33`). The traversal may
   also read the PID of a PCB that was just freed; `FreedOnlyInFlight` gives the limit: only
   of a process freed since the traversal last compared its index with `size`.
3. *A swapped page does not come back* (`paging_swap`). `pte_set_swap` sets `PRESENT`
   (`mm64.c:150`), so `pg_getpage` never takes the page for missing; its low bits are read as
   a frame number: swap frame k reads as RAM frame 32 k modulo 8192, which is another's
   frame or lies past the 1024 frames of the configured RAM. The
   comment at `libmem.c:395` promises the swap in. `ResidentDataKept` gives the exact limit of
   the damage: data whose frame no swapped entry points to stays right.
4. *A swap frame can be taken twice* (`paging_race`). `__read` evicts without `mmvm_lock`
   (`libmem.c:422-442`), unlike `__write`; two processes on two CPUs can take the same
   frame from the swap device. RAM frames are not affected (`FramesOwnedOnce`).

The last two need RAM to run out. `MM_FIXED_MEMSZ` is set (`os-cfg.h:18`), so that RAM and
swap have 4 MB, 1024 frames each, whatever the configuration says (`os.c:306-348`); no
program in `input/` comes near that. When it does happen it goes unnoticed at first, because
`inc_vma_limit` tests an unsigned result for being negative (`mm-vm.c:187`): the allocation
succeeds without pages.

What the same runs show to be right, against first appearances: no process is left behind
when the CPUs read `done` (`NothingAbandoned`), because the loader takes one more slot
after its last `add_proc`; writing `done` of a device under two locks is harmless
(`NoWriteRace`); and polling CPUs, which renew the slots of the priority in turn, do not
starve anyone (`BoundedBypass`). Pools may be replaced and slots freed one by one without
any two owners sharing an address (`OwnersDisjoint`), unless a pool's own region is freed
while the pool is in use; and the trees of page tables, which no count or flag tells from
entries, are released table by table, each once (`TablesOwnedOnce`).

## Proofs

`TimerProofs`, for every number of devices. The inductive invariant `IInv` adds to the type
invariant, for each device, what its flags, its place in `next_slot` and its count of slots
can be, given whether the timer's pass has counted it or released it. From it follow
`WorkInLockStep`, `NoLostWakeup`, `NoWriteRace`, `ExitedAlone`, `ClockStableInSlot`, and that
every step maps to a step of `LockStep` or a stutter (`ImplementsLockStep`): `_time++` is the
barrier's tick, the setting of `done` the arrival.

`SchedProofs`, for every number of priorities, processes and CPUs. `IInv` says that inside
the loop the turn is `i` priorities past where the scan began, that those are empty, and
that the slots are the entry's or a full budget. The lemmas on `%` at its beginning carry
the wrap-around. From it follow `SlotsInRange`, `ScanProgress`, `WorkConserving` and
`ImplementsMlqSystem`.

`QueueProofs` has what the other proofs share. What `Append`, `Tail`, `RemoveFirst` and
concatenation do to the elements of a queue in which each occurs once, and that such a queue
is as long as its set of elements is large. Induction over the natural numbers, from the
fact that a set of numbers that is not empty has a least one (`UpTo`). And what a fold is,
with what follows for sums: `FoldLeft` is a recursive function under a `CHOOSE`, and
`FoldExists` shows, position by position, that there is one. That is what makes the loops
over lists (merging, copying, flattening) accessible to proof for lists of any length.

`MlqSystemProofs`, for every number of priorities, processes and CPUs. `IInv` says that the
queues hold each process once and under its own priority, that `running_list` holds those
with a CPU, each once, that no two CPUs hold the same, and that waiting, held, new and
finished processes partition all of them. Its preservation needs that `Enqueue` finds
room, which follows by counting: a process that is to enter a queue is not in it yet, so
the queue is shorter than the set of processes of that priority. From it follow `OnePlace`
and `RunningListExact`. `BoundedBypass` needs an invariant about the scan (`BypassInv`): a
priority that waits has been passed over at most as often as the others have spent slots
since the turn was last at it, where a priority that lies between it and the turn has spent
none, one that the turn has left behind has spent all it had, and the one in turn those that
are gone. Each dispatch moves one unit of that sum, and when the turn comes round the queue
gives up a process and the count starts again.

`OsProofs`, for every number of CPUs and processes, every load and every time slot. The
module instantiates `MlqSystemProofs` with the mapping under which `Os` implements it and
takes over its invariant and what it says; to it `IInv` adds what holds of each thread's own
variables (`CpuInv`, `SliceInv`, `LoaderInv`, `BusyInv`), and `EnoughCpus`. Each step is shown
to map to a step of `MlqSystem` or a stutter (`UsesScheduler`), then to keep the rest. From
`SliceInv`, that what a process has run and what is left make a slice, follow `WholeSlice` and
that with a slot of 0 no process is ever preempted (`ZeroSlotNeverPreempts`); from `BusyInv`
follows `OneInstructionPerSlot`. `EnoughCpus` is the argument for `NothingAbandoned`: once the
loader has added its last process and taken a slot, a CPU stops only if it finds nothing
ready, at which moment every unfinished process is with another CPU, and that CPU gives it
up only for another or to finish it: those that go on are as many as the processes left.

`RunningListProofs`, for every number of CPUs and processes and every length of the array.
`HeldInv` says which places are under `queue_lock` and that no two CPUs hold the same process,
nor a freed one; `ModelInv` that the sequence holds processes of CPUs that have not given them
up, and that a search has excluded the positions it passed; `ArrayInv` what the array is at
each place: between operations the sequence, and in a shift, from the slot of the process that
leaves up to the loop counter, the sequence moved by one (`Shifted`). From that description
follows `NeverAbsent`: a process beyond the one that leaves is in its old slot or already in
the one before. Every slot below `size` then holds a process of a CPU, so none that is freed
(`LiveSlots`), in the middle of a shift too; this is why a traversal that has just tested `size`
cannot load a freed PCB unless it is freed after the test (`FlightInv`, `FreedOnlyInFlight`).

`MemoryProofs`, first the allocator, for every number of processes, indexes and pools, any
sizes and any bound on the area. The invariant of an area (`AreaOK`) says that its free list
is sorted without two regions that touch, and that free and named regions end below `sbrk`,
and that below `vm_end`. `MergeFree` keeps it because the insertion sort yields a sorted list
with the same regions (`InsertIs`, `SortIs`) and each step of the merge joins the next region
to the last or starts a new one; both are folds, whose result is followed step by step. Its
addresses are those of the list before it, so what is free stays apart from what is named.
`KmemInv` adds the pools (`PoolsOK`) and that no address has two owners, for the processes that
have not freed a pool's own region. Every instruction is shown to be a step of `Allocator`
or a stutter (`AreasImplementAllocator`), and `AddressesHaveOneOwner` then gives the rest:
what `Allocator` hands out as new is above everything it ever handed out (`BelowTop`).
`CopyIsPrefix` is `CopyIs`, by induction over the bytes of the loop: after k of them exactly
those before the first that cannot move have moved, none changing the source of a later one.

Then `MemoryProofs` on paging, for every number of processes, sizes, pages and frames. What
makes `FramesOwnedOnce` and `QueuedPagesResident` inductive is `AreaInv`, that an area is a whole
number of pages and no page past its end has an entry or is about to get one:
`vmap_page_range` then never writes over an entry that names a frame; and, in `QueueInv`, that the
victim of a `__read` between its two steps keeps its frame and the missing page gets none,
since every other operation of that process waits for it and other processes have other
tables. A mapping that fails turns the free list round and one that succeeds moves a prefix of
it to the new pages (`MapRamKeeps`); an eviction moves one frame (`EvictKeepsOwnership`). The swap
list, which two reads can corrupt, plays no part in them; that it holds no frame that the device lacks,
even then, is part of `TypeOK`. That regions lie inside the area is the allocator's invariant, so
nothing is assumed of it. `ResidentDataKept` needs `DataInv`, which says the same of the place
that an entry names, and that entries only turn (`EntriesTurn`): a page without one gets a
frame, the victim goes to swap, and nothing comes back.

`PageTableProofs`, for every number of processes, levels and words of a table. A heap of trees
that reuses addresses has no order to induct over; the invariant (`TablesInv`) describes
it by the walks of all pages instead. A table that is on the walks of two pages is on
both at the same level, and the pages are of one process and have the same number from that
level up (what `Index` takes from a page number is proved from division by the weights of
the levels). The directories of the kernel and of `main` are on no walk, and every table is
on one or is one of these. Setting an entry allocates the tables that are missing, all
different and new, and changes the walk of no page beyond the common part, hence
`BehavesAsMap`. The recursion that frees a tree is followed from the entries' tables up
(`FreedIs`): each table's list has the lists of the tables below it, which are apart, and then
itself. The lists of all trees are apart as the walks are, hence `TablesOwnedOnce`.

The proofs assume what the modules assume of their constants (`TimerAssumption`,
`MlqAssumption`, `SchedAssumption`, `OsAssumption`, `QueuesLongEnough`,
`RunningListAssumption`, `RegionsAssumption`, `KmemAssumption`, `PageTableAssumption`,
`PagingAssumption`) and nothing else. `PagingAssumption` has RAM of at most 8192 frames, the 13 bits of
an entry: with the fixed sizes of `MM_FIXED_MEMSZ` it has 1024.
`QueuesLongEnough` is the one assumption the code does not test: at most `MAX_QUEUE_SIZE` (50)
processes of one priority, and as many CPUs; in `input/` there are 8 processes at most.

Every safety property that a passing run checks is a theorem. Only model-checked: the liveness
properties (`NextSlotReturns`, `TimerTerminates`, `NoStarvation`, `EveryProcessFinishes`), which
need fairness and are out of the prover's reach.

## Not modelled

Printing and dumps, `print_pgtbl` among them; parsing of the configuration and of processes;
`queue_empty`, `finish_scheduler`, `pte_set_entry`, `free_pcb_memph` (no callers); the code
excluded by the configuration (`mm.c`, `mem.c`, `paging.c`, the branches without `MLQ_SCHED`
or `MM64`). A configuration with a priority of `MAX_PRIO` or more is excluded by
`MlqAssumption`: the program does not check it, and no configuration in `input/` has one.

Of system calls: one that a program makes directly with number 17, except the fill of its
page table (`SYSMEM_MAP_OP`, `PageTable!Fill`); what a call that found the wrong process does to
that process's memory, which would compose `RunningList` with `Paging`.

Of memory: registers (nothing in the paging build uses the addresses in them); the
sequential access mode of a device; a swap copy that fails, whose result is dropped and whose
data is never read; addresses of 57 bits and more, which `get_pd_from_address` rejects and
its callers do not notice. Frames, areas, FIFO nodes, free regions and pools of a process
that ended are never released: there is no code for it.

## Plan

1. Done: timer, scheduler, CPUs and loader with their proofs; `running_list` and the lifetime
   of PCBs, with their proofs; regions, pools and copies; page tables; paging and
   frames; all with their proofs.
2. `RunningList` composed with `Paging`: a system call that acts on the wrong process's memory.
