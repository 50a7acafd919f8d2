------------------------------ MODULE PageTable ------------------------------
(***************************************************************************)
(* The page tables of the processes (mm64.c): trees of tables on one heap,  *)
(* walked and extended under pgtbl_lock, one step each, and released when   *)
(* the process exits (os.c). Every table has also the kernel directory of   *)
(* its process, which stays empty, and main has one that it frees last.     *)
(***************************************************************************)
EXTENDS Integers, SequencesExt

CONSTANTS
  Procs,            \* processes
  FANOUT,           \* words in a table, 512 in the code
  LEVELS,           \* levels of a page table, 5 in the code
  SetPages,         \* pages that programs touch
  Entries,          \* entries that pte_set_fpn and pte_set_swap leave
  Pattern           \* the entry that vmap_pgd_memset fills in

(* The pages that a table of the level covers. *)
Weight[level \in 0..LEVELS] == IF level = 0 THEN 1 ELSE FANOUT * Weight[level - 1]

Pages == 0..(Weight[LEVELS] - 1)

ASSUME PageTableAssumption ==
  /\ FANOUT \in Nat \ {0, 1} /\ LEVELS \in Nat \ {0}
  /\ IsFiniteSet(Procs)
  /\ SetPages \subseteq Pages
  /\ Entries \subseteq Nat \ {0}    \* both set the PRESENT bit
  /\ Pattern \in Nat \ {0}

VARIABLES
  tables,           \* the words of each table on the heap
  pgd,              \* mm->pgd of each process, 0 if there is none
  krnl_pgd,         \* krnl->krnl_pgd of each process
  os_pgd,           \* os.krnl_pgd
  exited,           \* processes that have finished
  entry             \* history: the entry last set for each page

vars == <<tables, pgd, krnl_pgd, os_pgd, exited, entry>>

Words == 0..(FANOUT - 1)
Zeroed == [w \in Words |-> 0]

(* The table that the k-th calloc returns. No operation compares addresses, so
   the lowest free ones stand for any; what was freed is used again first. *)
Calloc(heap, k) ==
  CHOOSE t \in 1..(Cardinality(DOMAIN heap) + k) \ DOMAIN heap :
    Cardinality(1..t \ DOMAIN heap) = k

(* Fault: the bits of a level overlap those of the next *)
FaultIndex(pgn, level) == (pgn \div level) % FANOUT

(* get_pd_from_pagenum: the bits of the page number that index a table of the
   level, 1 being the table of entries. *)
Index(pgn, level) == (pgn \div Weight[level - 1]) % FANOUT

(* The tables from the root to the entry's, 0 from where one is missing. *)
Walk(heap, root, pgn) ==
  LET table[level \in 1..LEVELS] ==
        IF level = LEVELS THEN root
        ELSE IF table[level + 1] = 0 THEN 0
        ELSE heap[table[level + 1]][Index(pgn, level + 1)]
  IN table

(* pte_get_entry *)
Lookup(root, pgn) ==
  LET table == Walk(tables, root, pgn)
  IN IF table[1] = 0 THEN 0 ELSE tables[table[1]][Index(pgn, 1)]

(* pte_set_fpn, pte_set_swap and a turn of vmap_pgd_memset: the tables that
   are missing are made and linked, then the entry is set. *)
WithEntry(heap, root, pgn, value) ==
  LET found == Walk(heap, root, pgn)
      table == [level \in 1..LEVELS |->
                  IF found[level] # 0 THEN found[level] ELSE Calloc(heap, level)]
      words(level) == IF found[level] # 0 THEN heap[found[level]] ELSE Zeroed
      linked(level) ==
        [words(level) EXCEPT ![Index(pgn, level)] =
           IF level = 1 THEN value ELSE table[level - 1]]
  IN [t \in DOMAIN heap \cup {table[level] : level \in 1..LEVELS} |->
        IF \E level \in 1..LEVELS : t = table[level]
        THEN linked(CHOOSE level \in 1..LEVELS : t = table[level])
        ELSE heap[t]]

(* Fault: the tables of entries are taken for entries *)
FaultFreed(root) ==
  LET below[level \in 1..LEVELS] == [t \in DOMAIN tables |->
        IF level <= 2 THEN <<t>>
        ELSE Append(
          FlattenSeq([k \in 1..FANOUT |->
            IF tables[t][k - 1] = 0 THEN <<>> ELSE below[level - 1][tables[t][k - 1]]]), t)]
  IN below[LEVELS][root]

(* What free_pgtable_recursive frees, in its order: the tables that the words
   of a table point to, then the table. *)
Freed(root) ==
  LET below[level \in 1..LEVELS] == [t \in DOMAIN tables |->
        IF level = 1 THEN <<t>>
        ELSE Append(
          FlattenSeq([k \in 1..FANOUT |->
            IF tables[t][k - 1] = 0 THEN <<>> ELSE below[level - 1][tables[t][k - 1]]]), t)]
  IN below[LEVELS][root]

-----------------------------------------------------------------------------
Unmapped == [pgn \in Pages |-> 0]

PageTableInit ==
  /\ tables = [t \in {1} |-> Zeroed] /\ os_pgd = 1
  /\ pgd = [p \in Procs |-> 0]
  /\ krnl_pgd = [p \in Procs |-> 0]
  /\ exited = {}
  /\ entry = [p \in Procs |-> Unmapped]

(* ld_routine: a kernel directory of its own, then init_mm's directory. *)
Load(p) ==
  /\ pgd[p] = 0 /\ p \notin exited
  /\ krnl_pgd' = [krnl_pgd EXCEPT ![p] = Calloc(tables, 1)]
  /\ pgd' = [pgd EXCEPT ![p] = Calloc(tables, 2)]
  /\ tables' = [t \in DOMAIN tables \cup {krnl_pgd'[p], pgd'[p]} |->
                  IF t \in DOMAIN tables THEN tables[t] ELSE Zeroed]
  /\ UNCHANGED <<os_pgd, exited, entry>>

Set(p, pgn, value) ==
  /\ pgd[p] # 0
  /\ tables' = WithEntry(tables, pgd[p], pgn, value)
  /\ entry' = [entry EXCEPT ![p][pgn] = value]
  /\ UNCHANGED <<pgd, krnl_pgd, os_pgd, exited>>

(* The memmap system call for SYSMEM_MAP_OP: vmap_pgd_memset. *)
Fill(p, first, count) ==
  /\ pgd[p] # 0
  /\ tables' = FoldLeft(LAMBDA heap, k : WithEntry(heap, pgd[p], first + k - 1, Pattern),
                        tables, [k \in 1..count |-> k])
  /\ entry' = [entry EXCEPT ![p] = [pgn \in Pages |->
       IF pgn \in first..(first + count - 1) THEN Pattern ELSE @[pgn]]]
  /\ UNCHANGED <<pgd, krnl_pgd, os_pgd, exited>>

(* free_krnl_struct: the page table, then the kernel directory alone. *)
ExitFrees(p) == Append(Freed(pgd[p]), krnl_pgd[p])

Exit(p) ==
  /\ pgd[p] # 0
  /\ tables' = [t \in DOMAIN tables \ ToSet(ExitFrees(p)) |-> tables[t]]
  /\ pgd' = [pgd EXCEPT ![p] = 0]
  /\ krnl_pgd' = [krnl_pgd EXCEPT ![p] = 0]
  /\ exited' = exited \cup {p}
  /\ entry' = [entry EXCEPT ![p] = Unmapped]
  /\ UNCHANGED os_pgd

(* main, after the CPUs have joined. *)
Shutdown ==
  /\ exited = Procs /\ os_pgd # 0
  /\ tables' = [t \in DOMAIN tables \ ToSet(Freed(os_pgd)) |-> tables[t]]
  /\ os_pgd' = 0
  /\ UNCHANGED <<pgd, krnl_pgd, exited, entry>>

Next ==
  \/ \E p \in Procs :
       \/ Load(p) \/ Exit(p)
       \/ \E pgn \in SetPages, value \in Entries : Set(p, pgn, value)
       \/ \E first \in SetPages : first + 1 \in Pages /\ Fill(p, first, 2)
  \/ Shutdown

Spec == PageTableInit /\ [][Next]_vars

-----------------------------------------------------------------------------
(* What the exits of the loaded processes and main are still going to free is
   every table on the heap, and each one once: a table that was linked twice
   would be freed twice, one that was not linked would be lost, and when main
   has ended none is left. *)
TablesOwnedOnce ==
  LET loaded == SetToSeq({p \in Procs : pgd[p] # 0})
      freed == FlattenSeq([k \in DOMAIN loaded |-> ExitFrees(loaded[k])])
               \o (IF os_pgd = 0 THEN <<>> ELSE Freed(os_pgd))
  IN /\ IsInjective(freed)
     /\ ToSet(freed) = DOMAIN tables

(* The trees behave as a map from pages to entries: what pte_get_entry finds is
   what was last set for the page. Setting a page changes no other's entry,
   of no process, however many tables it makes and whatever memory it makes
   them in. *)
BehavesAsMap ==
  \A p \in Procs : \A pgn \in Pages :
    entry[p][pgn] = IF pgd[p] = 0 THEN 0 ELSE Lookup(pgd[p], pgn)
=============================================================================
