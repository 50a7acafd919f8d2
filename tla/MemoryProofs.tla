---------------------------- MODULE MemoryProofs -----------------------------
(***************************************************************************)
(* The memory of the processes for any sizes, bounds and numbers of pages   *)
(* and frames. First the region allocator and the pools of libmem.c: what   *)
(* merging, splitting and growing do to a free list, that every operation   *)
(* is one of the abstract allocator, that no address has two owners, and    *)
(* what a copy leaves in memory. Then paging on these areas: no frame is    *)
(* lost or given out twice, by mappings that run out of memory, evictions   *)
(* or reads that interleave, the FIFO names pages that have a frame, and    *)
(* what was written to RAM is there.                                        *)
(***************************************************************************)
EXTENDS KmemCache, Paging, QueueProofs

LEMMA RegionIs ==
    /\ \A rg \in Region : /\ rg.start \in Nat /\ rg.end \in Nat /\ rg.start <= rg.end
                          /\ rg = [start |-> rg.start, end |-> rg.end]
    /\ \A a, b \in Nat : a <= b => [start |-> a, end |-> b] \in Region
  BY DEF Region

(* One step of the merge: the last region absorbs the next one or stays *)
LEMMA JoinIs ==
    ASSUME NEW m \in Seq(Region), m # <<>>, NEW rg \in Region, m[Len(m)].end >= rg.start
    PROVE  /\ Join(m, rg) \in Seq(Region) /\ Len(Join(m, rg)) = Len(m)
           /\ \A j \in 1..(Len(m) - 1) : Join(m, rg)[j] = m[j]
           /\ Join(m, rg)[Len(m)].start = m[Len(m)].start
           /\ Join(m, rg)[Len(m)].end = IF m[Len(m)].end >= rg.end THEN m[Len(m)].end ELSE rg.end
<1> DEFINE n == Len(m)
           last == m[n]
           top == IF last.end >= rg.end THEN last.end ELSE rg.end
           joined == [start |-> last.start, end |-> top]
           front == SubSeq(m, 1, n - 1)
<1>1. n \in Nat \ {0} /\ \A j \in 1..n : m[j] \in Region
  BY LenProperties, EmptySeq, ElementOfSeq
<1>2. last \in Region
  BY <1>1
<1>3. joined \in Region /\ joined.start = last.start /\ joined.end = top
  <2>1. last.start \in Nat /\ top \in Nat /\ last.start <= top
    <3> HIDE DEF last
    <3> QED
      BY <1>2, RegionIs
  <2> HIDE DEF top, last
  <2> QED
    BY <2>1, RegionIs
<1>4. Join(m, rg) = Append(front, joined)
  <2>1. [last EXCEPT !.end = Max({@, rg.end})] = [start |-> last.start, end |-> Max({last.end, rg.end})]
    BY <1>2 DEF Region
  <2>2. Max({last.end, rg.end}) = top
    <3> HIDE DEF last
    <3> QED
      BY <1>2, RegionIs, MaxOfTwo
  <2> QED
    BY <2>1, <2>2, Zenon DEF Join, Front, Last
<1>5. /\ front \in Seq(Region) /\ Len(front) = n - 1
      /\ \A j \in 1..(n - 1) : front[j] = m[j]
  <2>1. \A j \in 1..(n - 1) : m[j] \in Region
    BY <1>1
  <2>2. /\ front \in Seq(Region)
        /\ Len(front) = IF 1 <= n - 1 THEN (n - 1) - 1 + 1 ELSE 0
        /\ \A j \in 1..((n - 1) - 1 + 1) : front[j] = m[1 + j - 1]
    BY <1>1, <2>1, SubSeqProperties
  <2> HIDE DEF front, n
  <2>3. Len(front) = n - 1
    BY <1>1, <2>2
  <2>4. ASSUME NEW j \in 1..(n - 1) PROVE front[j] = m[j]
    <3>1. j \in 1..((n - 1) - 1 + 1) /\ 1 + j - 1 = j
      BY <1>1
    <3> QED
      BY <2>2, <3>1
  <2> QED
    BY <2>2, <2>3, <2>4
<1> HIDE DEF joined, front, top, last
<1> DEFINE t == Append(front, joined)
<1>6. /\ t \in Seq(Region) /\ Len(t) = (n - 1) + 1
      /\ \A j \in 1..(n - 1) : t[j] = front[j]
      /\ t[(n - 1) + 1] = joined
  BY <1>3, <1>5, AppendProperties
<1>7. (n - 1) + 1 = n
  BY <1>1
<1> HIDE DEF t
<1>8. /\ t \in Seq(Region) /\ Len(t) = n /\ t[n] = joined
      /\ \A j \in 1..(n - 1) : t[j] = m[j]
  BY <1>5, <1>6, <1>7
<1>9. Join(m, rg) = t
  BY <1>4 DEF t
<1> QED
  BY <1>3, <1>8, <1>9 DEF last, top

LEMMA AbsorbType ==
    ASSUME NEW m \in Seq(Region), NEW rg \in Region PROVE Absorb(m, rg) \in Seq(Region)
<1>1. CASE m # <<>> /\ Last(m).end >= rg.start
  BY <1>1, JoinIs DEF Absorb, Last
<1>2. CASE ~(m # <<>> /\ Last(m).end >= rg.start)
  BY <1>2, AppendProperties DEF Absorb
<1> QED
  BY <1>1, <1>2

(* merge_free_regions over a sorted list: w[k] is what the first k regions
   have been merged into *)
LEMMA AbsorbFold ==
    ASSUME NEW list \in Seq(Region)
    PROVE  \E w : /\ w[0] = <<>>
                  /\ \A k \in 1..Len(list) : w[k] = Absorb(w[k - 1], list[k])
                  /\ FoldLeft(Absorb, <<>>, list) = w[Len(list)]
<1> DEFINE T == Seq(Region)
           f == [x \in T \X Region |-> Absorb(x[1], x[2])]
           D == DOMAIN list
           n == Len(list)
           Is(g) == g = [S \in SUBSET D |-> IF S = {} THEN <<>>
                                            ELSE Absorb(g[S \ {Max(S)}], list[Max(S)])]
           iter == CHOOSE g : Is(g)
<1>1. FoldLeft(Absorb, <<>>, list) = iter[D]
  BY Zenon DEF FoldLeft, MapThenFoldSet
<1>2. n \in Nat /\ D = 1..n /\ \A k \in 1..n : list[k] \in Region
  BY LenProperties, ElementOfSeq
<1>3. f \in [T \X Region -> T]
  <2>1. ASSUME NEW m \in T, NEW rg \in Region PROVE Absorb(m, rg) \in T
    BY <2>1, AbsorbType
  <2> QED
    BY <2>1
<1>4. PICK g \in [SUBSET (1..n) -> T] : FoldOn(g, n, f, <<>>, list)
  <2>1. <<>> \in T
    BY EmptySeq
  <2> HIDE DEF T, f
  <2> QED
    BY <1>3, <2>1, FoldExists DEF HasFold
<1>5. Is(g)
  <2>1. ASSUME NEW S \in SUBSET (1..n), S # {}
        PROVE  g[S] = Absorb(g[S \ {Max(S)}], list[Max(S)])
    <3>1. Max(S) \in 1..n
      BY <1>2, <2>1, MaxIsIn
    <3>2. S \ {Max(S)} \in SUBSET (1..n) /\ g[S] = f[<<g[S \ {Max(S)}], list[Max(S)]>>]
      BY <1>4, <2>1 DEF FoldOn
    <3> QED
      BY <1>2, <3>1, <3>2
  <2>2. \A S \in SUBSET (1..n) :
           g[S] = IF S = {} THEN <<>> ELSE Absorb(g[S \ {Max(S)}], list[Max(S)])
    BY <1>4, <2>1 DEF FoldOn
  <2> QED
    BY <1>2, <1>4, <2>2
<1>6. Is(iter)
  BY <1>5, Zenon
<1> DEFINE w == [k \in 0..n |-> iter[1..k]]
<1>7. w[0] = <<>>
  <2>1. 1..0 = {} /\ {} \in SUBSET D /\ 0 \in 0..n
    BY <1>2
  <2> HIDE DEF iter
  <2> QED
    BY <1>6, <2>1
<1>8. ASSUME NEW k \in 1..n PROVE w[k] = Absorb(w[k - 1], list[k])
  <2>1. /\ k \in 0..n /\ k - 1 \in 0..n /\ 1..k \in SUBSET D
        /\ Max(1..k) = k /\ (1..k) \ {k} = 1..(k - 1) /\ 1..k # {}
    BY <1>2, Initials, SMTT(30)
  <2>2. iter[1..k] = Absorb(iter[(1..k) \ {Max(1..k)}], list[Max(1..k)])
    <3> HIDE DEF iter
    <3> QED
      BY <1>6, <2>1
  <2> HIDE DEF iter
  <2> QED
    BY <2>1, <2>2
<1>9. w[n] = iter[D]
  BY <1>2
<1> HIDE DEF w
<1> QED
  BY <1>1, <1>7, <1>8, <1>9
-----------------------------------------------------------------------------
Separated(list) ==
  \A j, k \in 1..Len(list) : j < k => list[j].end < list[k].start

Ordered(list) ==
  \A j, k \in 1..Len(list) : j < k => list[j].start <= list[k].start

Within(a, rg) == rg.start <= a /\ a < rg.end

(* The first k regions of s are merged into t *)
MergedTo(t, s, k) ==
  /\ t \in Seq(Region) /\ Separated(t)
  /\ \A j \in 1..Len(t) : \E i \in 1..k : t[j].start = s[i].start
  /\ \A j \in 1..Len(t) : \E i \in 1..k : t[j].end = s[i].end
  /\ \A a \in Int : (\E j \in 1..Len(t) : Within(a, t[j])) <=> (\E i \in 1..k : Within(a, s[i]))

(* A region that starts above the last one follows it in the merged list *)
LEMMA AppendStep ==
    ASSUME NEW s \in Seq(Region), NEW k \in Nat, k + 1 <= Len(s), NEW t, MergedTo(t, s, k),
           t # <<>> => t[Len(t)].end < s[k + 1].start
    PROVE  MergedTo(Append(t, s[k + 1]), s, k + 1)
<1> DEFINE rg == s[k + 1]
           u == Append(t, rg)
           n == Len(t)
<1>1. /\ rg \in Region /\ rg.start \in Nat /\ rg.end \in Nat
      /\ t \in Seq(Region) /\ n \in Nat /\ Separated(t)
      /\ \A j \in 1..n : t[j] \in Region
  <2>1. rg \in Region
    BY LenProperties, ElementOfSeq
  <2>2. t \in Seq(Region) /\ Separated(t)
    BY DEF MergedTo
  <2> HIDE DEF rg
  <2> QED
    BY <2>1, <2>2, LenProperties, ElementOfSeq, RegionIs
<1>2. /\ u \in Seq(Region) /\ Len(u) = n + 1 /\ u[n + 1] = rg
      /\ \A j \in 1..n : u[j] = t[j]
  <2> HIDE DEF rg
  <2> QED
    BY <1>1, AppendProperties
<1>r. rg = s[k + 1]
  OBVIOUS
<1> HIDE DEF u, rg, n
<1>3. ASSUME NEW j \in 1..n PROVE t[j].end < rg.start
  <2>1. n # 0 /\ t # <<>>
    BY <1>1, <1>3, EmptySeq DEF n
  <2>2. t[n].end < rg.start
    BY <1>r, <2>1 DEF n
  <2>3. CASE j = n
    BY <2>2, <2>3
  <2>4. CASE j < n
    <3>1. n \in 1..n /\ t[j].end < t[n].start
      BY <1>1, <2>4 DEF Separated, n
    <3>2. t[j] \in Region /\ t[n] \in Region
      BY <1>1, <3>1
    <3>3. t[j].end \in Nat /\ t[n].start \in Nat /\ t[n].end \in Nat /\ t[n].start <= t[n].end
      BY ONLY <3>2, RegionIs
    <3>4. rg.start \in Nat
      BY ONLY <1>1, RegionIs
    <3> QED
      BY ONLY <2>2, <3>1, <3>3, <3>4
  <2> QED
    BY <1>1, <2>3, <2>4
<1>4. Separated(u)
  <2> SUFFICES ASSUME NEW i \in 1..(n + 1), NEW j \in 1..(n + 1), i < j
               PROVE  u[i].end < u[j].start
    BY <1>2 DEF Separated
  <2>1. i \in 1..n
    BY <1>1
  <2>2. CASE j = n + 1
    BY <1>2, <1>3, <2>1, <2>2
  <2>3. CASE j \in 1..n
    BY <1>1, <1>2, <2>1, <2>3 DEF Separated, n
  <2> QED
    BY <1>1, <2>2, <2>3
<1>5. /\ \A j \in 1..n : \E i \in 1..k : t[j].start = s[i].start
      /\ \A j \in 1..n : \E i \in 1..k : t[j].end = s[i].end
      /\ \A a \in Int : (\E j \in 1..n : Within(a, t[j])) <=> (\E i \in 1..k : Within(a, s[i]))
  BY DEF MergedTo, n
<1>6. /\ \A i \in 1..k : i \in 1..(k + 1)
      /\ k + 1 \in 1..(k + 1) /\ \A i \in 1..(k + 1) : i = k + 1 \/ i \in 1..k
      /\ \A j \in 1..n : j \in 1..(n + 1)
      /\ n + 1 \in 1..(n + 1) /\ \A j \in 1..(n + 1) : j = n + 1 \/ j \in 1..n
  BY <1>1
<1>7. ASSUME NEW j \in 1..(n + 1)
      PROVE  /\ \E i \in 1..(k + 1) : u[j].start = s[i].start
             /\ \E i \in 1..(k + 1) : u[j].end = s[i].end
  <2>1. CASE j = n + 1
    BY <1>2, <1>6, <1>r, <2>1
  <2>2. CASE j \in 1..n
    BY <1>2, <1>5, <1>6, <2>2
  <2> QED
    BY <1>6, <2>1, <2>2
<1>8. ASSUME NEW a \in Int
      PROVE  (\E j \in 1..(n + 1) : Within(a, u[j])) <=> (\E i \in 1..(k + 1) : Within(a, s[i]))
  <2>1. (\E j \in 1..(n + 1) : Within(a, u[j])) <=> Within(a, rg) \/ \E j \in 1..n : Within(a, t[j])
    BY <1>2, <1>6
  <2>2. (\E i \in 1..(k + 1) : Within(a, s[i])) <=> Within(a, rg) \/ \E i \in 1..k : Within(a, s[i])
    BY <1>6, <1>r
  <2> QED
    BY <1>5, <2>1, <2>2
<1>9. MergedTo(u, s, k + 1)
  BY <1>2, <1>4, <1>7, <1>8 DEF MergedTo
<1> QED
  BY <1>9 DEF u, rg

(* A region that starts at the end of the last one or before it is joined to it *)
LEMMA JoinStep ==
    ASSUME NEW s \in Seq(Region), Ordered(s), NEW k \in Nat, k + 1 <= Len(s),
           NEW t, MergedTo(t, s, k), t # <<>>, t[Len(t)].end >= s[k + 1].start
    PROVE  MergedTo(Join(t, s[k + 1]), s, k + 1)
<1> DEFINE rg == s[k + 1]
           u == Join(t, rg)
           n == Len(t)
           top == IF t[n].end >= rg.end THEN t[n].end ELSE rg.end
<1>1. /\ rg \in Region /\ t \in Seq(Region) /\ Separated(t)
      /\ n \in Nat \ {0} /\ \A j \in 1..n : t[j] \in Region
  <2>1. rg \in Region
    BY LenProperties, ElementOfSeq
  <2>2. t \in Seq(Region) /\ Separated(t)
    BY DEF MergedTo
  <2> QED
    BY <2>1, <2>2, LenProperties, ElementOfSeq, EmptySeq
<1>r. rg = s[k + 1] /\ t[n].end >= rg.start
  OBVIOUS
<1>2. /\ u \in Seq(Region) /\ Len(u) = n
      /\ \A j \in 1..(n - 1) : u[j] = t[j]
      /\ u[n].start = t[n].start /\ u[n].end = top
  <2> HIDE DEF rg
  <2> QED
    BY <1>1, <1>r, JoinIs
<1>5. /\ \A j \in 1..n : \E i \in 1..k : t[j].start = s[i].start
      /\ \A j \in 1..n : \E i \in 1..k : t[j].end = s[i].end
      /\ \A a \in Int : (\E j \in 1..n : Within(a, t[j])) <=> (\E i \in 1..k : Within(a, s[i]))
  BY DEF MergedTo
<1>t. top = t[n].end \/ top = rg.end
  OBVIOUS
<1>n. n \in 1..n /\ t[n] \in Region
  BY <1>1
<1>6. /\ rg.start \in Nat /\ rg.end \in Nat /\ rg.start <= rg.end
      /\ t[n].start \in Nat /\ t[n].end \in Nat /\ t[n].start <= t[n].end
  <2> HIDE DEF rg, n
  <2> QED
    BY <1>1, <1>n, RegionIs
<1>7. /\ \A i \in 1..k : i \in 1..(k + 1)
      /\ k + 1 \in 1..(k + 1) /\ \A i \in 1..(k + 1) : i = k + 1 \/ i \in 1..k
      /\ \A j \in 1..n : j = n \/ j \in 1..(n - 1)
      /\ \A j \in 1..(n - 1) : j \in 1..n /\ j < n
  BY <1>1
<1>8. t[n].start <= rg.start
  <2>1. PICK i \in 1..k : t[n].start = s[i].start
    BY <1>5, <1>n
  <2>2. s[i].start <= s[k + 1].start
    <3>1. i \in 1..Len(s) /\ k + 1 \in 1..Len(s) /\ i < k + 1
      BY LenProperties
    <3> QED
      BY <3>1 DEF Ordered
  <2> QED
    BY <2>1, <2>2
<1>9. \A a \in Int : Within(a, u[n]) <=> Within(a, t[n]) \/ Within(a, rg)
  <2> HIDE DEF rg, u, n
  <2> QED
    BY <1>2, <1>6, <1>8, <1>r, SMTT(30) DEF Within, top
<1> HIDE DEF u, rg, n, top
<1>4. Separated(u)
  <2> SUFFICES ASSUME NEW i \in 1..n, NEW j \in 1..n, i < j
               PROVE  u[i].end < u[j].start
    BY <1>2 DEF Separated
  <2>1. i \in 1..(n - 1) /\ u[i] = t[i]
    BY <1>1, <1>2
  <2>2. u[j].start = t[j].start
    BY <1>2, <1>7
  <2>3. t[i].end < t[j].start
    BY <1>1 DEF Separated, n
  <2> QED
    BY <2>1, <2>2, <2>3
<1>10. ASSUME NEW j \in 1..n
       PROVE  /\ \E i \in 1..(k + 1) : u[j].start = s[i].start
              /\ \E i \in 1..(k + 1) : u[j].end = s[i].end
  <2>1. CASE j = n
    <3>1. \E i \in 1..(k + 1) : u[j].start = s[i].start
      BY <1>2, <1>5, <1>7, <1>n, <2>1
    <3>2. \E i \in 1..(k + 1) : u[j].end = s[i].end
      BY <1>2, <1>5, <1>7, <1>n, <1>r, <1>t, <2>1
    <3> QED
      BY <3>1, <3>2
  <2>2. CASE j \in 1..(n - 1)
    BY <1>2, <1>5, <1>7, <2>2, ZenonT(30)
  <2> QED
    BY <1>7, <2>1, <2>2
<1>11. ASSUME NEW a \in Int
       PROVE  (\E j \in 1..n : Within(a, u[j])) <=> (\E i \in 1..(k + 1) : Within(a, s[i]))
  <2>1. (\E j \in 1..n : Within(a, u[j])) <=> Within(a, rg) \/ \E j \in 1..n : Within(a, t[j])
    BY <1>2, <1>7, <1>9, <1>n
  <2>2. (\E i \in 1..(k + 1) : Within(a, s[i])) <=> Within(a, rg) \/ \E i \in 1..k : Within(a, s[i])
    BY <1>7, <1>r
  <2> QED
    BY <1>5, <2>1, <2>2
<1>12. MergedTo(u, s, k + 1)
  BY <1>2, <1>4, <1>10, <1>11 DEF MergedTo
<1> QED
  BY <1>12 DEF u, rg

(* The merge of a sorted list *)
LEMMA MergeIs ==
    ASSUME NEW s \in Seq(Region), Ordered(s)
    PROVE  MergedTo(FoldLeft(Absorb, <<>>, s), s, Len(s))
<1>1. PICK w : /\ w[0] = <<>>
               /\ \A k \in 1..Len(s) : w[k] = Absorb(w[k - 1], s[k])
               /\ FoldLeft(Absorb, <<>>, s) = w[Len(s)]
  BY AbsorbFold
<1> DEFINE n == Len(s)
           G == {k \in 0..n : MergedTo(w[k], s, k)}
<1>2. n \in Nat
  BY LenProperties
<1>3. 0 \in G
  <2> DEFINE t == <<>>
  <2>1. t \in Seq(Region) /\ Len(t) = 0 /\ 1..0 = {}
    BY EmptySeq
  <2> HIDE DEF t
  <2>2. MergedTo(t, s, 0)
    BY <2>1 DEF MergedTo, Separated
  <2> QED
    BY <1>1, <1>2, <2>2 DEF t
<1>4. ASSUME NEW k \in 1..n, k - 1 \in G PROVE k \in G
  <2> DEFINE t == w[k - 1]
             j == k - 1
  <2>1. /\ j \in Nat /\ j + 1 = k /\ j + 1 <= Len(s) /\ MergedTo(t, s, j)
        /\ w[k] = Absorb(t, s[j + 1])
    BY <1>1, <1>2, <1>4
  <2> HIDE DEF t, j
  <2>2. CASE t # <<>> /\ Last(t).end >= s[j + 1].start
    <3>1. w[k] = Join(t, s[j + 1])
      BY <2>1, <2>2 DEF Absorb
    <3> QED
      BY <1>2, <2>1, <2>2, <3>1, JoinStep DEF Last
  <2>3. CASE ~(t # <<>> /\ Last(t).end >= s[j + 1].start)
    <3>1. w[k] = Append(t, s[j + 1])
      BY <2>1, <2>3 DEF Absorb
    <3>2. t # <<>> => t[Len(t)].end < s[j + 1].start
      <4> SUFFICES ASSUME t # <<>> PROVE t[Len(t)].end < s[j + 1].start
        OBVIOUS
      <4>1. t[Len(t)] \in Region /\ s[j + 1] \in Region
        BY <2>1, LenProperties, ElementOfSeq, EmptySeq DEF MergedTo
      <4>2. t[Len(t)].end \in Nat /\ s[j + 1].start \in Nat
        BY <4>1, RegionIs
      <4> QED
        BY <2>3, <4>2 DEF Last
    <3>3. MergedTo(w[k], s, k)
      BY <2>1, <3>1, <3>2, AppendStep
    <3> QED
      BY <1>2, <3>3
  <2> QED
    BY <2>2, <2>3
<1>5. n \in G
  <2> HIDE DEF G, n
  <2>1. 0..n \subseteq G
    BY <1>2, <1>3, <1>4, UpTo
  <2> QED
    BY <1>2, <2>1
<1> QED
  BY <1>1, <1>5
-----------------------------------------------------------------------------
(* t is s with e at place k and everything behind it one place on *)
Inserted(S, t, s, k, e) ==
    /\ t \in Seq(S) /\ Len(t) = Len(s) + 1
    /\ \A j \in 1..(k - 1) : t[j] = s[j]
    /\ t[k] = e
    /\ \A j \in (k + 1)..(Len(s) + 1) : t[j] = s[j - 1]

(* A region put at place k moves those behind it one place on *)
LEMMA InsertAtIs ==
    ASSUME NEW S, NEW s \in Seq(S), NEW e \in S, NEW k \in 1..(Len(s) + 1)
    PROVE  Inserted(S, InsertAt(s, k, e), s, k, e)
<1> DEFINE n == Len(s)
           l == SubSeq(s, 1, k - 1)
           m == <<e>>
           r == SubSeq(s, k, n)
           t == (l \o m) \o r
<1>1. /\ n \in Nat /\ k \in Nat \ {0} /\ k - 1 \in Nat /\ k <= n + 1
      /\ \A j \in 1..n : s[j] \in S
  BY LenProperties, ElementOfSeq
<1>2. InsertAt(s, k, e) = t
  BY Zenon DEF InsertAt
<1>3. l \in Seq(S) /\ Len(l) = k - 1 /\ \A j \in 1..(k - 1) : l[j] = s[j]
  <2>1. \A j \in 1..(k - 1) : s[j] \in S
    BY <1>1
  <2>2. /\ l \in Seq(S)
        /\ Len(l) = IF 1 <= k - 1 THEN (k - 1) - 1 + 1 ELSE 0
        /\ \A j \in 1..((k - 1) - 1 + 1) : l[j] = s[1 + j - 1]
    BY <1>1, <2>1, SubSeqProperties
  <2> HIDE DEF l
  <2>3. Len(l) = k - 1
    BY <1>1, <2>2
  <2>4. ASSUME NEW j \in 1..(k - 1) PROVE l[j] = s[j]
    <3>1. j \in 1..((k - 1) - 1 + 1) /\ 1 + j - 1 = j
      BY <1>1
    <3> QED
      BY <2>2, <3>1
  <2> QED
    BY <2>2, <2>3, <2>4
<1>4. r \in Seq(S) /\ Len(r) = n + 1 - k /\ \A j \in 1..(n + 1 - k) : r[j] = s[k + j - 1]
  <2>1. \A j \in k..n : s[j] \in S
    BY <1>1
  <2>2. /\ r \in Seq(S)
        /\ Len(r) = IF k <= n THEN n - k + 1 ELSE 0
        /\ \A j \in 1..(n - k + 1) : r[j] = s[k + j - 1]
    BY <1>1, <2>1, SubSeqProperties
  <2> HIDE DEF r, n
  <2>3. Len(r) = n + 1 - k
    BY <1>1, <2>2
  <2>4. n - k + 1 = n + 1 - k
    BY <1>1
  <2> QED
    BY <2>2, <2>3, <2>4
<1>5. m \in Seq(S) /\ Len(m) = 1 /\ m[1] = e
  OBVIOUS
<1> HIDE DEF l, m, r, n
<1>6. /\ l \o m \in Seq(S) /\ Len(l \o m) = Len(l) + Len(m)
      /\ \A j \in 1..(Len(l) + Len(m)) : (l \o m)[j] = IF j <= Len(l) THEN l[j] ELSE m[j - Len(l)]
  BY <1>3, <1>5, ConcatProperties
<1> DEFINE h == l \o m
<1>7. /\ h \in Seq(S) /\ Len(h) = k /\ h[k] = e
      /\ \A j \in 1..(k - 1) : h[j] = s[j]
  <2>1. Len(l) + Len(m) = k /\ k - Len(l) = 1 /\ k \in 1..k /\ ~(k <= Len(l))
    BY <1>1, <1>3, <1>5
  <2>2. h[k] = e
    BY <1>5, <1>6, <2>1
  <2>3. ASSUME NEW j \in 1..(k - 1) PROVE h[j] = s[j]
    BY <1>1, <1>3, <1>6, <2>1
  <2> QED
    BY <1>6, <2>1, <2>2, <2>3
<1> HIDE DEF h
<1>8. /\ t \in Seq(S) /\ Len(t) = Len(h) + Len(r)
      /\ \A j \in 1..(Len(h) + Len(r)) : t[j] = IF j <= Len(h) THEN h[j] ELSE r[j - Len(h)]
  <2>1. /\ h \o r \in Seq(S) /\ Len(h \o r) = Len(h) + Len(r)
        /\ \A j \in 1..(Len(h) + Len(r)) : (h \o r)[j] = IF j <= Len(h) THEN h[j] ELSE r[j - Len(h)]
    BY <1>4, <1>7, ConcatProperties
  <2> QED
    BY <2>1 DEF h
<1> HIDE DEF t
<1>9. Len(t) = n + 1 /\ Len(h) + Len(r) = n + 1
  BY <1>1, <1>4, <1>7, <1>8
<1>10. ASSUME NEW j \in 1..(k - 1) PROVE t[j] = s[j]
  <2>1. j \in 1..(n + 1) /\ j <= k
    BY <1>1
  <2> QED
    BY <1>7, <1>8, <1>9, <2>1
<1>11. t[k] = e
  <2>1. k \in 1..(n + 1) /\ k <= k
    BY <1>1
  <2> QED
    BY <1>7, <1>8, <1>9, <2>1
<1>12. ASSUME NEW j \in (k + 1)..(n + 1) PROVE t[j] = s[j - 1]
  <2>1. /\ j \in 1..(n + 1) /\ ~(j <= k) /\ j - k \in 1..(n + 1 - k)
        /\ k + (j - k) - 1 = j - 1
    BY <1>1
  <2>2. t[j] = r[j - k]
    BY <1>7, <1>8, <1>9, <2>1
  <2> QED
    BY <1>4, <2>1, <2>2
<1> QED
  BY <1>2, <1>8, <1>9, <1>10, <1>11, <1>12 DEF n, Inserted

(* A region inserted into a sorted list leaves it sorted *)
LEMMA InsertIs ==
    ASSUME NEW s \in Seq(Region), NEW rg \in Region
    PROVE  /\ Insert(s, rg) \in Seq(Region)
           /\ Ordered(s) => /\ Ordered(Insert(s, rg))
                            /\ ToSet(Insert(s, rg)) = ToSet(s) \cup {rg}
<1> DEFINE n == Len(s)
           P == {k \in 2..n : s[k].start >= rg.start} \cup {n + 1}
           first == s # <<>> /\ rg.start < Head(s).start
           place == IF first THEN 1 ELSE Min(P)
           t == InsertAt(s, place, rg)
<1>1. n \in Nat /\ \A k \in 1..n : s[k] \in Region /\ s[k].start \in Nat
  BY LenProperties, ElementOfSeq, RegionIs
<1>2. rg.start \in Nat
  BY RegionIs
<1>3. Insert(s, rg) = t
  BY Zenon DEF Insert
<1>4. Min(P) \in P /\ \A k \in P : Min(P) <= k
  <2>1. P \subseteq Nat /\ P # {}
    BY <1>1
  <2> HIDE DEF P
  <2> QED
    BY <2>1, MinIsIn
<1> DEFINE k == place
<1>5. k \in 1..(n + 1)
  BY <1>1, <1>4
<1>6. ASSUME NEW j \in 1..n, j < k PROVE s[j].start <= rg.start
  <2>1. ~first /\ k = Min(P)
    BY <1>6
  <2>2. CASE j = 1
    <3>1. s # <<>> /\ Head(s) = s[1]
      BY <1>1, EmptySeq
    <3>2. ~(rg.start < s[1].start)
      BY <2>1, <3>1
    <3> QED
      BY <1>1, <1>2, <2>2, <3>2
  <2>3. CASE j # 1
    <3>1. j \notin P /\ j \in 2..n
      BY <1>1, <1>4, <1>6, <2>1, <2>3
    <3>2. ~(s[j].start >= rg.start)
      BY <3>1
    <3> QED
      BY <1>1, <1>2, <3>2
  <2> QED
    BY <2>2, <2>3
<1>7. ASSUME Ordered(s), NEW j \in 1..n, k <= j PROVE rg.start <= s[j].start
  <2>1. CASE first
    <3>1. rg.start < s[1].start /\ 1 \in 1..n
      BY <1>1, <2>1, EmptySeq
    <3>2. s[1].start <= s[j].start
      BY <1>1, <1>7, <3>1 DEF Ordered
    <3> QED
      BY <1>1, <1>2, <3>1, <3>2
  <2>2. CASE ~first
    <3>1. k = Min(P) /\ k # n + 1
      BY <1>1, <1>7, <2>2
    <3>2. k \in 2..n /\ s[k].start >= rg.start
      BY <1>4, <3>1
    <3> HIDE DEF k
    <3>3. s[k].start <= s[j].start
      <4>1. k \in 1..n
        BY <1>1, <3>2
      <4> QED
        BY <1>1, <1>7, <4>1 DEF Ordered
    <3>4. s[k].start \in Nat
      BY <1>1, <3>2
    <3> QED
      BY <1>1, <1>2, <3>2, <3>3, <3>4
  <2> QED
    BY <2>1, <2>2
<1>p. t = InsertAt(s, k, rg)
  OBVIOUS
<1> HIDE DEF place, t, k, P, first
<1>8. /\ t \in Seq(Region) /\ Len(t) = n + 1
      /\ \A j \in 1..(k - 1) : t[j] = s[j]
      /\ t[k] = rg
      /\ \A j \in (k + 1)..(n + 1) : t[j] = s[j - 1]
  <2>1. k \in 1..(Len(s) + 1)
    BY <1>5
  <2> HIDE DEF n
  <2>2. Inserted(Region, InsertAt(s, k, rg), s, k, rg)
    BY <2>1, InsertAtIs
  <2> QED
    BY <1>p, <2>2, Zenon DEF n, Inserted
<1> HIDE DEF n
<1>9. \A j \in 1..(n + 1) :
         \/ j = k
         \/ j \in 1..(k - 1) /\ j \in 1..n /\ j < k
         \/ j \in (k + 1)..(n + 1) /\ j - 1 \in 1..n /\ k <= j - 1
  <2>1. n \in Nat
    BY <1>1
  <2> QED
    BY <1>5, <2>1
<1>10. \A j \in 1..n :
          \/ j \in 1..(k - 1) /\ j \in 1..(n + 1)
          \/ j + 1 \in (k + 1)..(n + 1) /\ j + 1 \in 1..(n + 1) /\ (j + 1) - 1 = j
  BY <1>1, <1>5
<1>11. ASSUME Ordered(s) PROVE Ordered(t)
  <2> SUFFICES ASSUME NEW i \in 1..(n + 1), NEW j \in 1..(n + 1), i < j
               PROVE  t[i].start <= t[j].start
    BY <1>8 DEF Ordered
  <2>0. \A a, b \in 1..n : a < b => s[a].start <= s[b].start
    BY <1>11 DEF Ordered, n
  <2>1. CASE i = k
    <3>1. j \in (k + 1)..(n + 1) /\ j - 1 \in 1..n /\ k <= j - 1
      BY <1>1, <1>5, <2>1
    <3> QED
      BY <1>7, <1>8, <1>11, <2>1, <3>1
  <2>2. CASE j = k
    <3>1. i \in 1..(k - 1) /\ i \in 1..n /\ i < k
      BY <1>1, <1>5, <2>2
    <3> QED
      BY <1>6, <1>8, <2>2, <3>1
  <2>3. CASE i < k /\ k < j
    <3>1. i \in 1..(k - 1) /\ i \in 1..n /\ j \in (k + 1)..(n + 1) /\ j - 1 \in 1..n /\ k <= j - 1
      BY <1>1, <1>5, <2>3
    <3>2. s[i].start <= rg.start /\ rg.start <= s[j - 1].start
      BY <1>6, <1>7, <1>11, <2>3, <3>1
    <3>3. t[i] = s[i] /\ t[j] = s[j - 1]
      BY <1>8, <3>1
    <3>4. s[i].start \in Nat /\ s[j - 1].start \in Nat
      BY <1>1, <3>1
    <3> QED
      BY <1>2, <3>2, <3>3, <3>4
  <2>4. CASE j < k
    <3>1. i \in 1..(k - 1) /\ j \in 1..(k - 1) /\ i \in 1..n /\ j \in 1..n
      BY <1>1, <1>5, <2>4
    <3> QED
      BY <1>8, <2>0, <3>1
  <2>5. CASE k < i
    <3>1. /\ i \in (k + 1)..(n + 1) /\ j \in (k + 1)..(n + 1)
          /\ i - 1 \in 1..n /\ j - 1 \in 1..n /\ i - 1 < j - 1
      BY <1>1, <1>5, <2>5
    <3> QED
      BY <1>8, <2>0, <3>1
  <2> QED
    BY <1>5, <2>1, <2>2, <2>3, <2>4, <2>5
<1>12. ToSet(t) = ToSet(s) \cup {rg}
  <2>1. ToSet(t) = {t[j] : j \in 1..(n + 1)} /\ ToSet(s) = {s[j] : j \in 1..n}
    BY <1>8, LenProperties DEF ToSet, n
  <2>2. ASSUME NEW j \in 1..(n + 1) PROVE t[j] \in ToSet(s) \cup {rg}
    BY <1>8, <1>9, <2>1
  <2>3. ASSUME NEW j \in 1..n PROVE s[j] \in ToSet(t)
    <3>1. CASE j \in 1..(k - 1) /\ j \in 1..(n + 1)
      BY <1>8, <2>1, <3>1
    <3>2. CASE j + 1 \in (k + 1)..(n + 1) /\ j + 1 \in 1..(n + 1) /\ (j + 1) - 1 = j
      <4>1. t[j + 1] = s[j]
        BY <1>8, <3>2
      <4> QED
        BY <2>1, <3>2, <4>1
    <3> QED
      BY <1>10, <3>1, <3>2
  <2>4. rg \in ToSet(t)
    BY <1>5, <1>8, <2>1
  <2> QED
    BY <2>1, <2>2, <2>3, <2>4
<1> QED
  BY <1>3, <1>8, <1>11, <1>12

(* The insertion sort: w[k] holds the first k regions, sorted *)
LEMMA InsertFold ==
    ASSUME NEW list \in Seq(Region)
    PROVE  \E w : /\ w[0] = <<>>
                  /\ \A k \in 1..Len(list) : w[k] = Insert(w[k - 1], list[k])
                  /\ Sort(list) = w[Len(list)]
<1> DEFINE T == Seq(Region)
           f == [x \in T \X Region |-> Insert(x[1], x[2])]
           D == DOMAIN list
           n == Len(list)
           Is(g) == g = [S \in SUBSET D |-> IF S = {} THEN <<>>
                                            ELSE Insert(g[S \ {Max(S)}], list[Max(S)])]
           iter == CHOOSE g : Is(g)
<1>1. Sort(list) = iter[D]
  BY Zenon DEF Sort, FoldLeft, MapThenFoldSet
<1>2. n \in Nat /\ D = 1..n /\ \A k \in 1..n : list[k] \in Region
  BY LenProperties, ElementOfSeq
<1>3. f \in [T \X Region -> T]
  <2>1. ASSUME NEW m \in T, NEW rg \in Region PROVE Insert(m, rg) \in T
    BY <2>1, InsertIs
  <2> QED
    BY <2>1
<1>4. PICK g \in [SUBSET (1..n) -> T] : FoldOn(g, n, f, <<>>, list)
  <2>1. <<>> \in T
    BY EmptySeq
  <2> HIDE DEF T, f
  <2> QED
    BY <1>3, <2>1, FoldExists DEF HasFold
<1>5. Is(g)
  <2>1. ASSUME NEW S \in SUBSET (1..n), S # {}
        PROVE  g[S] = Insert(g[S \ {Max(S)}], list[Max(S)])
    <3>1. Max(S) \in 1..n
      BY <1>2, <2>1, MaxIsIn
    <3>2. S \ {Max(S)} \in SUBSET (1..n) /\ g[S] = f[<<g[S \ {Max(S)}], list[Max(S)]>>]
      BY <1>4, <2>1 DEF FoldOn
    <3> QED
      BY <1>2, <3>1, <3>2
  <2>2. \A S \in SUBSET (1..n) :
           g[S] = IF S = {} THEN <<>> ELSE Insert(g[S \ {Max(S)}], list[Max(S)])
    BY <1>4, <2>1 DEF FoldOn
  <2> QED
    BY <1>2, <1>4, <2>2
<1>6. Is(iter)
  BY <1>5, Zenon
<1> DEFINE w == [k \in 0..n |-> iter[1..k]]
<1>7. w[0] = <<>>
  <2>1. 1..0 = {} /\ {} \in SUBSET D /\ 0 \in 0..n
    BY <1>2
  <2> HIDE DEF iter
  <2> QED
    BY <1>6, <2>1
<1>8. ASSUME NEW k \in 1..n PROVE w[k] = Insert(w[k - 1], list[k])
  <2>1. /\ k \in 0..n /\ k - 1 \in 0..n /\ 1..k \in SUBSET D
        /\ Max(1..k) = k /\ (1..k) \ {k} = 1..(k - 1) /\ 1..k # {}
    BY <1>2, Initials, SMTT(30)
  <2>2. iter[1..k] = Insert(iter[(1..k) \ {Max(1..k)}], list[Max(1..k)])
    <3> HIDE DEF iter
    <3> QED
      BY <1>6, <2>1
  <2> HIDE DEF iter
  <2> QED
    BY <2>1, <2>2
<1>9. w[n] = iter[D]
  BY <1>2
<1> HIDE DEF w
<1> QED
  BY <1>1, <1>7, <1>8, <1>9

(* merge_free_regions: the insertion sort keeps the regions and sorts them *)
LEMMA SortIs ==
    ASSUME NEW list \in Seq(Region)
    PROVE  Sort(list) \in Seq(Region) /\ Ordered(Sort(list)) /\ ToSet(Sort(list)) = ToSet(list)
<1>1. PICK w : /\ w[0] = <<>>
               /\ \A k \in 1..Len(list) : w[k] = Insert(w[k - 1], list[k])
               /\ Sort(list) = w[Len(list)]
  BY InsertFold
<1> DEFINE n == Len(list)
           IsSort(s, k) == /\ s \in Seq(Region) /\ Ordered(s)
                           /\ ToSet(s) = {list[i] : i \in 1..k}
           G == {k \in 0..n : IsSort(w[k], k)}
<1>2. n \in Nat /\ \A k \in 1..n : list[k] \in Region
  BY LenProperties, ElementOfSeq
<1>3. 0 \in G
  <2> DEFINE t == <<>>
  <2>1. t \in Seq(Region) /\ Len(t) = 0 /\ 1..0 = {} /\ ToSet(t) = {}
    BY EmptySeq DEF ToSet
  <2> HIDE DEF t
  <2>2. IsSort(t, 0)
    BY <2>1 DEF Ordered
  <2>3. w[0] = t
    BY <1>1 DEF t
  <2>4. IsSort(w[0], 0)
    BY <2>2, <2>3
  <2> QED
    BY <1>2, <2>4
<1>4. ASSUME NEW k \in 1..n, k - 1 \in G PROVE k \in G
  <2>1. /\ w[k - 1] \in Seq(Region) /\ Ordered(w[k - 1]) /\ ToSet(w[k - 1]) = {list[i] : i \in 1..(k - 1)}
        /\ w[k] = Insert(w[k - 1], list[k]) /\ list[k] \in Region
    BY <1>1, <1>2, <1>4
  <2>2. w[k] \in Seq(Region) /\ Ordered(w[k]) /\ ToSet(w[k]) = ToSet(w[k - 1]) \cup {list[k]}
    BY <2>1, InsertIs
  <2>3. \A i \in 1..k : i \in 1..(k - 1) \/ i = k
    BY <1>2
  <2>4. \A i \in 1..(k - 1) : i \in 1..k
    BY <1>2
  <2>5. {list[i] : i \in 1..(k - 1)} \cup {list[k]} = {list[i] : i \in 1..k}
    BY <2>3, <2>4
  <2> QED
    BY <1>2, <2>1, <2>2, <2>5
<1>5. n \in G
  <2> HIDE DEF G, n
  <2>1. 0..n \subseteq G
    BY <1>2, <1>3, <1>4, UpTo
  <2> QED
    BY <1>2, <2>1
<1>6. ToSet(list) = {list[i] : i \in 1..n}
  BY LenProperties DEF ToSet
<1> QED
  BY <1>1, <1>5, <1>6

(* The addresses of a list of regions *)
Covered(list) == UNION {Bytes(rg) : rg \in ToSet(list)}

(* merge_free_regions loses no address and adds none, and leaves regions that
   do not touch *)
LEMMA MergeFreeIs ==
    ASSUME NEW list \in Seq(Region), NEW top \in Nat, \A rg \in ToSet(list) : rg.end <= top
    PROVE  /\ MergeFree(list) \in Seq(Region) /\ Separated(MergeFree(list))
           /\ Covered(MergeFree(list)) = Covered(list)
           /\ \A rg \in ToSet(MergeFree(list)) : rg.end <= top
<1> DEFINE s == Sort(list)
           t == FoldLeft(Absorb, <<>>, s)
           n == Len(s)
<1>1. s \in Seq(Region) /\ Ordered(s) /\ ToSet(s) = ToSet(list)
  BY SortIs
<1>2. t = MergeFree(list)
  BY Zenon DEF MergeFree
<1>3. MergedTo(t, s, n)
  <2> HIDE DEF s
  <2> QED
    BY <1>1, MergeIs
<1> HIDE DEF s, t
<1>4. /\ t \in Seq(Region) /\ Separated(t)
      /\ \A j \in 1..Len(t) : \E i \in 1..n : t[j].end = s[i].end
      /\ \A a \in Int : (\E j \in 1..Len(t) : Within(a, t[j])) <=> (\E i \in 1..n : Within(a, s[i]))
  BY <1>3 DEF MergedTo
<1>5. /\ ToSet(s) = {s[i] : i \in 1..n} /\ ToSet(t) = {t[j] : j \in 1..Len(t)}
      /\ \A i \in 1..n : s[i] \in Region
      /\ \A j \in 1..Len(t) : t[j] \in Region
  BY <1>1, <1>4, LenProperties, ElementOfSeq DEF ToSet
<1>6. \A rg \in ToSet(t) : rg.end <= top
  BY <1>1, <1>4, <1>5
<1>7. \A rg \in Region : \A a : a \in Bytes(rg) <=> a \in Int /\ Within(a, rg)
  BY DEF Region, Bytes, Within
<1>8. ASSUME NEW a PROVE a \in Covered(t) <=> a \in Covered(s)
  <2>1. a \in Covered(t) <=> a \in Int /\ \E j \in 1..Len(t) : Within(a, t[j])
    BY <1>5, <1>7 DEF Covered
  <2>2. a \in Covered(s) <=> a \in Int /\ \E i \in 1..n : Within(a, s[i])
    BY <1>5, <1>7 DEF Covered
  <2> QED
    BY <1>4, <2>1, <2>2
<1>9. Covered(t) = Covered(list)
  BY <1>1, <1>8 DEF Covered
<1> QED
  BY <1>2, <1>4, <1>6, <1>9
-----------------------------------------------------------------------------
(* The k-th region leaves the list *)
LEMMA RemoveAtIs ==
    ASSUME NEW S, NEW s \in Seq(S), NEW k \in 1..Len(s)
    PROVE  /\ RemoveAt(s, k) \in Seq(S) /\ Len(RemoveAt(s, k)) = Len(s) - 1
           /\ \A j \in 1..(Len(s) - 1) : RemoveAt(s, k)[j] = IF j < k THEN s[j] ELSE s[j + 1]
<1> DEFINE n == Len(s)
           l == SubSeq(s, 1, k - 1)
           r == SubSeq(s, k + 1, n)
           t == l \o r
<1>1. n \in Nat /\ k \in Nat \ {0} /\ k <= n /\ \A j \in 1..n : s[j] \in S
  BY LenProperties, ElementOfSeq
<1>2. RemoveAt(s, k) = t
  BY Zenon DEF RemoveAt
<1>3. l \in Seq(S) /\ Len(l) = k - 1 /\ \A j \in 1..(k - 1) : l[j] = s[j]
  <2>1. \A j \in 1..(k - 1) : s[j] \in S
    BY <1>1
  <2>2. /\ l \in Seq(S)
        /\ Len(l) = IF 1 <= k - 1 THEN (k - 1) - 1 + 1 ELSE 0
        /\ \A j \in 1..((k - 1) - 1 + 1) : l[j] = s[1 + j - 1]
    BY <1>1, <2>1, SubSeqProperties
  <2> HIDE DEF l
  <2>3. Len(l) = k - 1
    BY <1>1, <2>2
  <2>4. ASSUME NEW j \in 1..(k - 1) PROVE l[j] = s[j]
    <3>1. j \in 1..((k - 1) - 1 + 1) /\ 1 + j - 1 = j
      BY <1>1
    <3> QED
      BY <2>2, <3>1
  <2> QED
    BY <2>2, <2>3, <2>4
<1>4. r \in Seq(S) /\ Len(r) = n - k /\ \A j \in 1..(n - k) : r[j] = s[k + j]
  <2>1. \A j \in (k + 1)..n : s[j] \in S
    BY <1>1
  <2>2. /\ r \in Seq(S)
        /\ Len(r) = IF k + 1 <= n THEN n - (k + 1) + 1 ELSE 0
        /\ \A j \in 1..(n - (k + 1) + 1) : r[j] = s[k + 1 + j - 1]
    BY <1>1, <2>1, SubSeqProperties
  <2> HIDE DEF r, n
  <2>3. Len(r) = n - k
    BY <1>1, <2>2
  <2>4. ASSUME NEW j \in 1..(n - k) PROVE r[j] = s[k + j]
    <3>1. j \in 1..(n - (k + 1) + 1) /\ k + 1 + j - 1 = k + j
      BY <1>1
    <3> QED
      BY <2>2, <3>1
  <2> QED
    BY <2>2, <2>3, <2>4
<1> HIDE DEF l, r, n
<1>5. /\ t \in Seq(S) /\ Len(t) = Len(l) + Len(r)
      /\ \A j \in 1..(Len(l) + Len(r)) : t[j] = IF j <= Len(l) THEN l[j] ELSE r[j - Len(l)]
  BY <1>3, <1>4, ConcatProperties
<1> HIDE DEF t
<1>6. Len(t) = n - 1 /\ Len(l) + Len(r) = n - 1
  BY <1>1, <1>3, <1>4, <1>5
<1>7. ASSUME NEW j \in 1..(n - 1) PROVE t[j] = IF j < k THEN s[j] ELSE s[j + 1]
  <2>1. CASE j < k
    <3>1. j <= Len(l) /\ j \in 1..(k - 1) /\ j \in 1..(Len(l) + Len(r))
      BY <1>1, <1>3, <1>6, <2>1
    <3> QED
      BY <1>3, <1>5, <2>1, <3>1
  <2>2. CASE ~(j < k)
    <3>1. /\ ~(j <= Len(l)) /\ j - Len(l) \in 1..(n - k) /\ k + (j - Len(l)) = j + 1
          /\ j \in 1..(Len(l) + Len(r))
      BY <1>1, <1>3, <1>6, <2>2
    <3>2. t[j] = r[j - Len(l)]
      BY <1>5, <3>1
    <3> QED
      BY <1>4, <2>2, <3>1, <3>2
  <2> QED
    BY <2>1, <2>2
<1> QED
  BY <1>2, <1>5, <1>6, <1>7 DEF n

(* enlist_vm_freerg_list: a new region in front *)
LEMMA ConsIs ==
    ASSUME NEW S, NEW e \in S, NEW s \in Seq(S)
    PROVE  <<e>> \o s \in Seq(S) /\ ToSet(<<e>> \o s) = {e} \cup ToSet(s)
<1> DEFINE m == <<e>>
           t == m \o s
           n == Len(s)
<1>1. m \in Seq(S) /\ Len(m) = 1 /\ m[1] = e
  OBVIOUS
<1> HIDE DEF m
<1>2. n \in Nat /\ ToSet(s) = {s[j] : j \in 1..n}
  BY LenProperties DEF ToSet
<1>3. /\ t \in Seq(S) /\ Len(t) = 1 + n
      /\ \A j \in 1..(1 + n) : t[j] = IF j <= 1 THEN m[j] ELSE s[j - 1]
  <2>1. /\ t \in Seq(S) /\ Len(t) = Len(m) + Len(s)
        /\ \A j \in 1..(Len(m) + Len(s)) : t[j] = IF j <= Len(m) THEN m[j] ELSE s[j - Len(m)]
    BY <1>1, ConcatProperties
  <2> HIDE DEF t
  <2> QED
    BY <1>1, <2>1
<1> HIDE DEF t, n
<1>4. ToSet(t) = {t[j] : j \in 1..(1 + n)}
  BY <1>3, LenProperties DEF ToSet
<1>5. /\ 1 \in 1..(1 + n) /\ t[1] = e
      /\ \A j \in 1..n : 1 + j \in 1..(1 + n) /\ t[1 + j] = s[j]
      /\ \A j \in 1..(1 + n) : j = 1 \/ (j - 1 \in 1..n /\ t[j] = s[j - 1])
  <2>1. 1 \in 1..(1 + n) /\ t[1] = e
    BY <1>1, <1>2, <1>3
  <2>2. ASSUME NEW j \in 1..n PROVE 1 + j \in 1..(1 + n) /\ t[1 + j] = s[j]
    <3>1. 1 + j \in 1..(1 + n) /\ ~(1 + j <= 1) /\ (1 + j) - 1 = j
      BY <1>2
    <3> QED
      BY <1>3, <3>1
  <2>3. ASSUME NEW j \in 1..(1 + n), j # 1 PROVE j - 1 \in 1..n /\ t[j] = s[j - 1]
    <3>1. j - 1 \in 1..n /\ ~(j <= 1)
      BY <1>2, <2>3
    <3> QED
      BY <1>3, <3>1
  <2> QED
    BY <2>1, <2>2, <2>3
<1>6. ToSet(t) = {e} \cup ToSet(s)
  BY <1>2, <1>4, <1>5
<1> QED
  BY <1>3, <1>6 DEF t, m

(* The addresses of a free list are those of its regions *)
LEMMA CoveredIs ==
    ASSUME NEW list \in Seq(Region), NEW a
    PROVE  a \in Covered(list) <=> a \in Int /\ \E j \in 1..Len(list) : Within(a, list[j])
<1>1. ToSet(list) = {list[j] : j \in 1..Len(list)} /\ \A j \in 1..Len(list) : list[j] \in Region
  BY LenProperties, ElementOfSeq DEF ToSet
<1>2. \A rg \in Region : a \in Bytes(rg) <=> a \in Int /\ Within(a, rg)
  BY DEF Region, Bytes, Within
<1> QED
  BY <1>1, <1>2 DEF Covered

(* An address is in one region of a merged list *)
LEMMA OneRegion ==
    ASSUME NEW list \in Seq(Region), Separated(list), NEW a \in Int,
           NEW j \in 1..Len(list), NEW k \in 1..Len(list), j # k, Within(a, list[j])
    PROVE  ~Within(a, list[k])
<1>1. list[j] \in Region /\ list[k] \in Region
  BY LenProperties, ElementOfSeq
<1>2. /\ list[j].start \in Nat /\ list[j].end \in Nat
      /\ list[k].start \in Nat /\ list[k].end \in Nat
  BY <1>1, RegionIs
<1>3. Len(list) \in Nat
  BY LenProperties
<1>4. list[j].end < list[k].start \/ list[k].end < list[j].start
  BY <1>3 DEF Separated
<1> QED
  BY <1>2, <1>4 DEF Within

(* get_free_vmrg_area: the first addresses of the k-th region leave the list *)
LEMMA TakeIs ==
    ASSUME NEW list \in Seq(Region), Separated(list),
           NEW top \in Nat, \A rg \in ToSet(list) : rg.end <= top,
           NEW k \in 1..Len(list), NEW size \in Nat \ {0}, Fits(list[k], size),
           NEW given, given = [start |-> list[k].start, end |-> list[k].start + size]
    PROVE  /\ Take(list, k, size) \in Seq(Region) /\ Separated(Take(list, k, size))
           /\ given \in Region /\ given.end <= top
           /\ Bytes(given) \subseteq Covered(list)
           /\ Covered(Take(list, k, size)) = Covered(list) \ Bytes(given)
           /\ \A rg \in ToSet(Take(list, k, size)) : rg.end <= top
<1> DEFINE n == Len(list)
           left == Left(list, k, size)
           t == Take(list, k, size)
           m == Len(t)
<1>1. /\ n \in Nat /\ k \in 1..n /\ \A j \in 1..n : list[j] \in Region /\ list[j].end <= top
      /\ \A j \in 1..n : list[j].start \in Nat /\ list[j].end \in Nat /\ list[j].start <= list[j].end
  BY LenProperties, ElementOfSeq, RegionIs DEF ToSet
<1>2. /\ list[k].start \in Nat /\ list[k].end \in Nat /\ list[k].start + size <= list[k].end
      /\ list[k].end <= top
  BY <1>1 DEF Fits
<1>3. given \in Region /\ given.start = list[k].start /\ given.end = list[k].start + size
  BY <1>2 DEF Region
<1>4. left \in Region /\ left.start = list[k].start + size /\ left.end = list[k].end
  <2>1. left = [start |-> list[k].start + size, end |-> list[k].end]
    BY <1>1 DEF Left, Region
  <2> HIDE DEF left
  <2> QED
    BY <1>2, <2>1 DEF Region
<1> HIDE DEF left
<1>5. \A a \in Int :
        /\ Within(a, list[k]) <=> Within(a, given) \/ Within(a, left)
        /\ ~(Within(a, given) /\ Within(a, left))
  BY <1>2, <1>3, <1>4 DEF Within
<1>6. /\ t \in Seq(Region)
      /\ \A j \in 1..m : t[j].end <= top
      /\ Separated(t)
      /\ \A a \in Int : (\E j \in 1..m : Within(a, t[j])) <=>
                        Within(a, left) \/ \E j \in 1..n : j # k /\ Within(a, list[j])
  <2>1. CASE UsedUp(left) /\ k < n
    <3>1. t = RemoveAt(list, k)
      BY <2>1 DEF Take, left
    <3>2. /\ t \in Seq(Region) /\ m = n - 1
          /\ \A j \in 1..(n - 1) : t[j] = IF j < k THEN list[j] ELSE list[j + 1]
      <4> HIDE DEF t
      <4> QED
        BY <3>1, RemoveAtIs
    <3> HIDE DEF t, m, n
    <3>3. \A a \in Int : ~Within(a, left)
      BY <1>2, <1>4, <2>1 DEF UsedUp, Within
    <3>4. ASSUME NEW j \in 1..(n - 1)
          PROVE  \E i \in 1..n : i # k /\ t[j] = list[i]
      <4>1. CASE j < k
        <5>1. j \in 1..n /\ j # k /\ t[j] = list[j]
          BY <1>1, <3>2, <4>1
        <5> QED
          BY <5>1
      <4>2. CASE ~(j < k)
        <5>1. j + 1 \in 1..n /\ j + 1 # k /\ t[j] = list[j + 1]
          BY <1>1, <3>2, <4>2
        <5> QED
          BY <5>1
      <4> QED
        BY <4>1, <4>2
    <3>5. ASSUME NEW i \in 1..n, i # k
          PROVE  \E j \in 1..(n - 1) : t[j] = list[i]
      <4>1. CASE i < k
        <5>1. i \in 1..(n - 1) /\ t[i] = list[i]
          BY <1>1, <3>2, <4>1
        <5> QED
          BY <5>1
      <4>2. CASE ~(i < k)
        <5>1. i - 1 \in 1..(n - 1) /\ ~(i - 1 < k) /\ (i - 1) + 1 = i
          BY <1>1, <3>5, <4>2
        <5>2. t[i - 1] = list[i]
          BY <3>2, <5>1
        <5> QED
          BY <5>1, <5>2
      <4> QED
        BY <4>1, <4>2
    <3>6. Separated(t)
      <4> SUFFICES ASSUME NEW i \in 1..(n - 1), NEW j \in 1..(n - 1), i < j
                   PROVE  t[i].end < t[j].start
        BY <3>2 DEF Separated, m
      <4>0. \A a, b \in 1..n : a < b => list[a].end < list[b].start
        BY DEF Separated, n
      <4>1. CASE j < k
        <5>1. i \in 1..n /\ j \in 1..n /\ i < k
          BY <1>1, <4>1
        <5> QED
          BY <3>2, <4>0, <4>1, <5>1
      <4>2. CASE i < k /\ ~(j < k)
        <5>1. i \in 1..n /\ j + 1 \in 1..n /\ i < j + 1
          BY <1>1, <4>2
        <5> QED
          BY <3>2, <4>0, <4>2, <5>1
      <4>3. CASE ~(i < k)
        <5>1. i + 1 \in 1..n /\ j + 1 \in 1..n /\ i + 1 < j + 1 /\ ~(j < k)
          BY <1>1, <4>3
        <5> QED
          BY <3>2, <4>0, <4>3, <5>1
      <4> QED
        BY <4>1, <4>2, <4>3
    <3>7. \A j \in 1..(n - 1) : t[j].end <= top
      BY <1>1, <3>4
    <3>8. ASSUME NEW a \in Int
          PROVE  (\E j \in 1..(n - 1) : Within(a, t[j])) <=>
                 Within(a, left) \/ \E j \in 1..n : j # k /\ Within(a, list[j])
      <4>1. ASSUME NEW j \in 1..(n - 1), Within(a, t[j])
            PROVE  \E i \in 1..n : i # k /\ Within(a, list[i])
        BY <3>4, <4>1
      <4>2. ASSUME NEW i \in 1..n, i # k, Within(a, list[i])
            PROVE  \E j \in 1..(n - 1) : Within(a, t[j])
        BY <3>5, <4>2
      <4> QED
        BY <3>3, <4>1, <4>2
    <3> QED
      BY <3>2, <3>6, <3>7, <3>8
  <2>2. CASE ~(UsedUp(left) /\ k < n)
    <3>1. t = [list EXCEPT ![k] = left]
      BY <2>2 DEF Take, ReplaceAt, left
    <3>2. /\ t \in Seq(Region) /\ m = n /\ t[k] = left
          /\ \A j \in 1..n : j # k => t[j] = list[j]
      <4> HIDE DEF t
      <4>1. DOMAIN list = 1..n
        BY LenProperties
      <4>2. t \in Seq(Region) /\ Len(t) = Len(list)
        BY <1>4, <3>1, ExceptSeq
      <4> QED
        BY <1>1, <3>1, <4>1, <4>2
    <3> HIDE DEF t, m, n
    <3>3. \A j \in 1..n : t[j].end = list[j].end /\ list[j].start <= t[j].start
      <4> SUFFICES ASSUME NEW j \in 1..n
                   PROVE  t[j].end = list[j].end /\ list[j].start <= t[j].start
        OBVIOUS
      <4>1. CASE j = k
        <5>1. list[k].start <= list[k].start + size
          BY ONLY <1>2, size \in Nat \ {0}
        <5> QED
          BY ONLY <1>4, <3>2, <4>1, <5>1
      <4>2. CASE j # k
        BY ONLY <1>1, <3>2, <4>2
      <4> QED
        BY <4>1, <4>2
    <3>4. \A j \in 1..n : t[j].start \in Nat
      <4>1. \A j \in 1..n : j = k \/ j # k
        OBVIOUS
      <4>2. left.start \in Nat
        BY <1>2, <1>4
      <4> QED
        BY ONLY <1>1, <3>2, <4>1, <4>2
    <3>5. Separated(t)
      <4> SUFFICES ASSUME NEW i \in 1..n, NEW j \in 1..n, i < j
                   PROVE  t[i].end < t[j].start
        BY <3>2 DEF Separated, m
      <4>1. list[i].end < list[j].start
        BY DEF Separated, n
      <4>2. list[i].end \in Nat /\ list[j].start \in Nat /\ t[j].start \in Nat
        BY <1>1, <3>4
      <4> QED
        BY <3>3, <4>1, <4>2
    <3>6. \A j \in 1..n : t[j].end <= top
      BY <1>1, <3>3
    <3>7. \A a \in Int : (\E j \in 1..n : Within(a, t[j])) <=>
                         Within(a, left) \/ \E j \in 1..n : j # k /\ Within(a, list[j])
      BY <1>1, <3>2
    <3> QED
      BY <3>2, <3>5, <3>6, <3>7
  <2> QED
    BY <2>1, <2>2
<1> HIDE DEF t, m
<1>7. \A rg \in ToSet(t) : rg.end <= top
  BY <1>6, LenProperties DEF ToSet, m
<1>8. ASSUME NEW a PROVE a \in Bytes(given) <=> a \in Int /\ Within(a, given)
  BY <1>3, SMTT(10) DEF Bytes, Within, Region
<1>9. ASSUME NEW a \in Bytes(given) PROVE a \in Covered(list)
  <2>1. a \in Int /\ Within(a, list[k])
    BY <1>5, <1>8
  <2> QED
    BY <1>1, <2>1, CoveredIs
<1>10. ASSUME NEW a PROVE a \in Covered(t) <=> a \in Covered(list) /\ a \notin Bytes(given)
  <2>1. CASE a \notin Int
    BY <1>6, <2>1, CoveredIs
  <2>2. CASE a \in Int
    <3>1. a \in Covered(t) <=> Within(a, left) \/ \E j \in 1..n : j # k /\ Within(a, list[j])
      BY <1>6, <2>2, CoveredIs DEF m
    <3>2. a \in Covered(list) <=> Within(a, list[k]) \/ \E j \in 1..n : j # k /\ Within(a, list[j])
      BY <1>1, <2>2, CoveredIs
    <3>3. ASSUME NEW j \in 1..n, j # k, Within(a, list[j]) PROVE ~Within(a, list[k])
      BY <1>1, <2>2, <3>3, OneRegion
    <3>4. a \in Bytes(given) <=> Within(a, given)
      BY <1>8, <2>2
    <3> QED
      BY <1>5, <2>2, <3>1, <3>2, <3>3, <3>4
  <2> QED
    BY <2>1, <2>2
<1> QED
  BY <1>1, <1>2, <1>3, <1>6, <1>7, <1>9, <1>10 DEF t
-----------------------------------------------------------------------------
(* The area of a process: free regions are apart, and no region, free or in
   the symbol table, ends past what inc_vma_limit has reserved *)
Areas == [vm_end : Nat, sbrk : 0..MaxBrk, freerg : Seq(Region), symrg : [Rgids -> Region]]

AreaOK(r) ==
  /\ r \in Areas
  /\ Separated(r.freerg)
  /\ \A rg \in ToSet(r.freerg) : rg.end <= r.sbrk
  /\ \A id \in Rgids : r.symrg[id].end <= r.sbrk
  /\ r.sbrk <= r.vm_end

MmInv == mm \in [Procs -> Areas] /\ \A p \in Procs : AreaOK(mm[p])

LEMMA MmTypeIs == MmTypeOK <=> mm \in [Procs -> Areas]
  BY DEF MmTypeOK, Areas

(* init_mm: an area without free regions and variables *)
LEMMA MmInvInit == MmInit => MmInv
<1> SUFFICES ASSUME MmInit PROVE MmInv
  OBVIOUS
<1> DEFINE list == <<NoRegion>>
           table == [id \in Rgids |-> NoRegion]
           r == [vm_end |-> 0, sbrk |-> 0, freerg |-> list, symrg |-> table]
<1>1. mm = [p \in Procs |-> r]
  BY DEF MmInit
<1>2. NoRegion \in Region /\ NoRegion.end = 0 /\ 0 \in 0..MaxBrk
  BY RegionsAssumption DEF NoRegion, Region
<1>3. /\ list \in Seq(Region) /\ Separated(list)
      /\ \A rg \in ToSet(list) : rg.end <= 0
  BY <1>2 DEF Separated, ToSet
<1>4. table \in [Rgids -> Region] /\ \A id \in Rgids : table[id].end <= 0
  BY <1>2
<1> HIDE DEF list, table
<1>5. r \in Areas /\ r.freerg = list /\ r.symrg = table /\ r.sbrk = 0 /\ r.vm_end = 0
  BY <1>2, <1>3, <1>4 DEF Areas
<1> HIDE DEF r
<1>6. AreaOK(r)
  BY <1>3, <1>4, <1>5 DEF AreaOK
<1> QED
  BY <1>1, <1>5, <1>6 DEF MmInv

(* What one operation may do to the area of p: a new free list, and rg under
   the index id *)
LEMMA AreaStep ==
    ASSUME MmInv, NEW p \in Procs, NEW id \in Rgids,
           NEW r, mm' = [mm EXCEPT ![p] = r], AreaOK(r)
    PROVE  /\ MmInv' /\ mm'[p] = r
           /\ \A q \in Procs \ {p} : mm'[q] = mm[q]
<1>1. r \in Areas
  BY DEF AreaOK
<1>2. /\ mm' \in [Procs -> Areas] /\ mm'[p] = r
      /\ \A q \in Procs \ {p} : mm'[q] = mm[q]
  BY <1>1 DEF MmInv
<1>3. ASSUME NEW q \in Procs PROVE AreaOK(mm'[q])
  BY <1>2 DEF MmInv
<1> QED
  BY <1>2, <1>3 DEF MmInv

LEMMA ListEdit ==
    ASSUME NEW area \in Areas, NEW list, NEW table
    PROVE  [[area EXCEPT !.freerg = list] EXCEPT !.symrg = table]
             = [vm_end |-> area.vm_end, sbrk |-> area.sbrk,
                freerg |-> list, symrg |-> table]
<1>1. PICK a, b, c, d : area = [vm_end |-> a, sbrk |-> b, freerg |-> c, symrg |-> d]
  BY DEF Areas
<1>2. area.vm_end = a /\ area.sbrk = b
  BY <1>1
<1> DEFINE one == [area EXCEPT !.freerg = list]
<1>3. one = [vm_end |-> a, sbrk |-> b, freerg |-> list, symrg |-> d]
  BY ONLY <1>1
<1> HIDE DEF one
<1>4. [one EXCEPT !.symrg = table]
        = [vm_end |-> a, sbrk |-> b, freerg |-> list, symrg |-> table]
  BY ONLY <1>3
<1> QED
  BY <1>2, <1>4, Zenon DEF one

LEMMA BreakEdit ==
    ASSUME NEW area \in Areas, NEW brk, NEW limit, NEW table
    PROVE  [[[area EXCEPT !.sbrk = brk] EXCEPT !.vm_end = limit] EXCEPT !.symrg = table]
             = [vm_end |-> limit, sbrk |-> brk,
                freerg |-> area.freerg, symrg |-> table]
<1>1. PICK a, b, c, d : area = [vm_end |-> a, sbrk |-> b, freerg |-> c, symrg |-> d]
  BY DEF Areas
<1>2. area.freerg = c
  BY <1>1
<1> DEFINE one == [area EXCEPT !.sbrk = brk]
           two == [one EXCEPT !.vm_end = limit]
<1>3. one = [vm_end |-> a, sbrk |-> brk, freerg |-> c, symrg |-> d]
  BY ONLY <1>1
<1> HIDE DEF one
<1>4. two = [vm_end |-> limit, sbrk |-> brk, freerg |-> c, symrg |-> d]
  BY ONLY <1>3
<1> HIDE DEF two
<1>5. [two EXCEPT !.symrg = table]
        = [vm_end |-> limit, sbrk |-> brk, freerg |-> c, symrg |-> table]
  BY ONLY <1>4
<1> QED
  BY <1>2, <1>5, Zenon DEF one, two

LEMMA ListAndTable ==
    ASSUME MmInv, NEW p \in Procs, NEW id \in Rgids, NEW list, NEW rg,
           mm' = [mm EXCEPT ![p].freerg = list, ![p].symrg[id] = rg],
           list \in Seq(Region), Separated(list), rg \in Region, rg.end <= mm[p].sbrk,
           \A other \in ToSet(list) : other.end <= mm[p].sbrk
    PROVE  /\ MmInv'
           /\ mm'[p].vm_end = mm[p].vm_end /\ mm'[p].sbrk = mm[p].sbrk
           /\ mm'[p].freerg = list
           /\ mm'[p].symrg = [mm[p].symrg EXCEPT ![id] = rg]
           /\ \A q \in Procs \ {p} : mm'[q] = mm[q]
<1>1. AreaOK(mm[p]) /\ mm[p] \in Areas
  BY DEF MmInv
<1> DEFINE table == [mm[p].symrg EXCEPT ![id] = rg]
           r == [vm_end |-> mm[p].vm_end, sbrk |-> mm[p].sbrk, freerg |-> list, symrg |-> table]
<1>2. mm' = [mm EXCEPT ![p] = r]
  <2>1. [[mm[p] EXCEPT !.freerg = list] EXCEPT !.symrg = table] = r
    <3> HIDE DEF table
    <3> QED
      BY <1>1, ListEdit, Zenon
  <2>2. mm' = [mm EXCEPT ![p] = [[mm[p] EXCEPT !.freerg = list] EXCEPT !.symrg = table]]
    <3>1. mm \in [Procs -> Areas]
      BY DEF MmInv
    <3> QED
      BY <1>1, <3>1 DEF Areas
  <2> QED
    BY <2>1, <2>2, Zenon
<1>3. table \in [Rgids -> Region] /\ \A other \in Rgids : table[other].end <= mm[p].sbrk
  BY <1>1 DEF Areas, AreaOK
<1> HIDE DEF table
<1>4. /\ r \in Areas /\ r.freerg = list /\ r.symrg = table
      /\ r.sbrk = mm[p].sbrk /\ r.vm_end = mm[p].vm_end
  BY <1>1, <1>3 DEF Areas
<1> HIDE DEF r
<1>5. AreaOK(r)
  BY <1>1, <1>3, <1>4 DEF AreaOK
<1> QED
  BY <1>2, <1>4, <1>5, AreaStep, ZenonT(30) DEF table

(* __alloc from the free list *)
LEMMA AllocFitIs ==
    ASSUME MmInv, NEW p \in Procs, NEW id \in Rgids, NEW size \in Nat \ {0},
           AllocFit(p, id, size)
    PROVE  /\ MmInv'
           /\ mm'[p].vm_end = mm[p].vm_end /\ mm'[p].sbrk = mm[p].sbrk
           /\ \A q \in Procs \ {p} : mm'[q] = mm[q]
           /\ \E rg \in Region :
                /\ rg.end = rg.start + size
                /\ mm'[p].symrg = [mm[p].symrg EXCEPT ![id] = rg]
                /\ Bytes(rg) \subseteq FreeBytes(p)
                /\ FreeBytes(p)' = FreeBytes(p) \ Bytes(rg)
<1>1. AreaOK(mm[p]) /\ mm[p] \in Areas
  BY DEF MmInv
<1> DEFINE list == mm[p].freerg
           top == mm[p].sbrk
<1>2. /\ list \in Seq(Region) /\ Separated(list) /\ top \in Nat
      /\ \A rg \in ToSet(list) : rg.end <= top
  BY <1>1, RegionsAssumption DEF AreaOK, Areas
<1>3. DOMAIN list = 1..Len(list)
  BY <1>2, LenProperties
<1>4. PICK k \in 1..Len(list) :
        /\ Fits(list[k], size)
        /\ mm' = [mm EXCEPT
             ![p].freerg = Take(@, k, size),
             ![p].symrg[id] = [start |-> list[k].start, end |-> list[k].start + size]]
  BY <1>3, Zenon DEF AllocFit
<1> DEFINE given == [start |-> list[k].start, end |-> list[k].start + size]
           left == Take(list, k, size)
<1>5. given.end = given.start + size /\ given = [start |-> list[k].start, end |-> list[k].start + size]
  OBVIOUS
<1>6. mm' = [mm EXCEPT ![p].freerg = left, ![p].symrg[id] = given]
  BY <1>4
<1>7. FreeBytes(p) = Covered(list) /\ FreeBytes(p)' = Covered(mm'[p].freerg)
  BY DEF FreeBytes, Covered
<1> HIDE DEF given, left
<1>8. /\ left \in Seq(Region) /\ Separated(left)
      /\ given \in Region /\ given.end <= top
      /\ Bytes(given) \subseteq Covered(list)
      /\ Covered(left) = Covered(list) \ Bytes(given)
      /\ \A rg \in ToSet(left) : rg.end <= top
  <2> HIDE DEF list, top
  <2> QED
    BY <1>2, <1>4, <1>5, TakeIs DEF left
<1>9. /\ MmInv'
      /\ mm'[p].vm_end = mm[p].vm_end /\ mm'[p].sbrk = mm[p].sbrk
      /\ mm'[p].freerg = left
      /\ mm'[p].symrg = [mm[p].symrg EXCEPT ![id] = given]
      /\ \A q \in Procs \ {p} : mm'[q] = mm[q]
  BY <1>6, <1>8, ListAndTable
<1> QED
  BY <1>5, <1>7, <1>8, <1>9

(* __free *)
LEMMA FreeIs ==
    ASSUME MmInv, NEW p \in Procs, NEW id \in Rgids, Free(p, id)
    PROVE  /\ MmInv'
           /\ mm'[p].vm_end = mm[p].vm_end /\ mm'[p].sbrk = mm[p].sbrk
           /\ \A q \in Procs \ {p} : mm'[q] = mm[q]
           /\ mm[p].symrg[id] # NoRegion
           /\ mm'[p].symrg = [mm[p].symrg EXCEPT ![id] = NoRegion]
           /\ FreeBytes(p)' = FreeBytes(p) \cup Bytes(mm[p].symrg[id])
<1>1. AreaOK(mm[p]) /\ mm[p] \in Areas
  BY DEF MmInv
<1> DEFINE list == mm[p].freerg
           top == mm[p].sbrk
           rg == mm[p].symrg[id]
           longer == <<rg>> \o list
           merged == MergeFree(longer)
<1>2. /\ list \in Seq(Region) /\ rg \in Region /\ rg.end <= top /\ top \in Nat
      /\ \A other \in ToSet(list) : other.end <= top
  BY <1>1, RegionsAssumption DEF AreaOK, Areas
<1>3. mm' = [mm EXCEPT ![p].freerg = merged, ![p].symrg[id] = NoRegion] /\ rg # NoRegion
  BY DEF Free
<1>4. FreeBytes(p) = Covered(list) /\ FreeBytes(p)' = Covered(mm'[p].freerg)
  BY DEF FreeBytes, Covered
<1>5. longer \in Seq(Region) /\ ToSet(longer) = {rg} \cup ToSet(list)
  <2> HIDE DEF rg, list
  <2> QED
    BY <1>2, ConsIs
<1> HIDE DEF longer
<1>6. Covered(longer) = Covered(list) \cup Bytes(rg)
  <2> HIDE DEF rg, list
  <2> QED
    BY <1>5 DEF Covered
<1>7. \A other \in ToSet(longer) : other.end <= top
  BY <1>2, <1>5
<1>8. /\ merged \in Seq(Region) /\ Separated(merged)
      /\ Covered(merged) = Covered(longer)
      /\ \A other \in ToSet(merged) : other.end <= top
  <2> HIDE DEF top
  <2> QED
    BY <1>2, <1>5, <1>7, MergeFreeIs
<1> HIDE DEF merged
<1>9. NoRegion \in Region /\ NoRegion.end <= top
  <2> HIDE DEF top
  <2> QED
    BY <1>2 DEF NoRegion, Region
<1>10. /\ MmInv'
       /\ mm'[p].vm_end = mm[p].vm_end /\ mm'[p].sbrk = mm[p].sbrk
       /\ mm'[p].freerg = merged
       /\ mm'[p].symrg = [mm[p].symrg EXCEPT ![id] = NoRegion]
       /\ \A q \in Procs \ {p} : mm'[q] = mm[q]
  BY <1>3, <1>8, <1>9, ListAndTable
<1> QED
  BY <1>3, <1>4, <1>6, <1>8, <1>10

(* PAGING_PAGE_ALIGNSZ rounds up *)
LEMMA AlignedAtLeast ==
    ASSUME NEW size \in Nat PROVE Aligned(size) \in Nat /\ size <= Aligned(size)
<1> DEFINE k == (size + PAGESZ - 1) \div PAGESZ
<1>1. PAGESZ \in Nat \ {0}
  BY RegionsAssumption
<1>2. k \in Nat /\ size <= k * PAGESZ
  BY <1>1
<1> HIDE DEF k
<1>3. k * PAGESZ \in Nat
  BY <1>1, <1>2
<1> QED
  BY <1>2, <1>3 DEF Aligned, k

(* __alloc when the area grows *)
LEMMA AllocGrowIs ==
    ASSUME MmInv, NEW p \in Procs, NEW id \in Rgids, NEW size \in Nat \ {0}, NEW calls \in 1..2,
           AllocGrow(p, id, size, calls)
    PROVE  /\ MmInv'
           /\ mm'[p].sbrk = mm[p].sbrk + calls * size
           /\ \A q \in Procs \ {p} : mm'[q] = mm[q]
           /\ \E rg \in Region :
                /\ rg.start = mm[p].sbrk /\ rg.end = rg.start + size
                /\ mm'[p].symrg = [mm[p].symrg EXCEPT ![id] = rg]
                /\ FreeBytes(p)' = FreeBytes(p)
<1>1. AreaOK(mm[p]) /\ mm[p] \in Areas
  BY DEF MmInv
<1>2. /\ mm[p].sbrk + calls * size <= MaxBrk
      /\ mm' = [mm EXCEPT
           ![p].sbrk = mm[p].sbrk + calls * size,
           ![p].vm_end = mm[p].vm_end + calls * Aligned(size),
           ![p].symrg[id] = [start |-> mm[p].sbrk, end |-> mm[p].sbrk + size]]
  BY <1>1 DEF AllocGrow, MmInv, Areas
<1> DEFINE rg == [start |-> mm[p].sbrk, end |-> mm[p].sbrk + size]
           table == [mm[p].symrg EXCEPT ![id] = rg]
           brk == mm[p].sbrk + calls * size
           limit == mm[p].vm_end + calls * Aligned(size)
           r == [vm_end |-> limit, sbrk |-> brk, freerg |-> mm[p].freerg, symrg |-> table]
<1>3. mm' = [mm EXCEPT ![p] = r]
  <2>1. [[[mm[p] EXCEPT !.sbrk = brk] EXCEPT !.vm_end = limit] EXCEPT !.symrg = table] = r
    <3> DEFINE area == mm[p]
    <3> HIDE DEF area, brk, limit, table
    <3>1. area \in Areas
      BY <1>1 DEF area
    <3>2. [[[area EXCEPT !.sbrk = brk] EXCEPT !.vm_end = limit] EXCEPT !.symrg = table]
             = [vm_end |-> limit, sbrk |-> brk, freerg |-> area.freerg, symrg |-> table]
      BY ONLY <3>1, BreakEdit, Zenon
    <3> QED
      BY <3>2, Zenon DEF area
  <2>2. mm' = [mm EXCEPT ![p] = [[[mm[p] EXCEPT !.sbrk = brk] EXCEPT !.vm_end = limit] EXCEPT !.symrg = table]]
    <3>1. mm \in [Procs -> Areas]
      BY DEF MmInv
    <3> QED
      BY <1>1, <1>2, <3>1 DEF Areas
  <2> QED
    BY <2>1, <2>2, Zenon
<1>4. /\ mm[p].sbrk \in Nat /\ mm[p].vm_end \in Nat /\ mm[p].sbrk <= mm[p].vm_end
      /\ mm[p].freerg \in Seq(Region) /\ Separated(mm[p].freerg)
      /\ \A other \in ToSet(mm[p].freerg) : other.end \in Nat /\ other.end <= mm[p].sbrk
      /\ mm[p].symrg \in [Rgids -> Region]
      /\ \A other \in Rgids : mm[p].symrg[other].end \in Nat /\ mm[p].symrg[other].end <= mm[p].sbrk
  <2>1. /\ mm[p].sbrk \in Nat /\ mm[p].vm_end \in Nat /\ mm[p].sbrk <= mm[p].vm_end
        /\ mm[p].freerg \in Seq(Region) /\ Separated(mm[p].freerg)
        /\ \A other \in ToSet(mm[p].freerg) : other.end <= mm[p].sbrk
        /\ mm[p].symrg \in [Rgids -> Region]
        /\ \A other \in Rgids : mm[p].symrg[other].end <= mm[p].sbrk
    BY <1>1, RegionsAssumption DEF AreaOK, Areas
  <2>2. ASSUME NEW other \in ToSet(mm[p].freerg) PROVE other.end \in Nat
    <3>1. other \in Region
      BY <2>1, LenProperties, ElementOfSeq DEF ToSet
    <3> QED
      BY <3>1, RegionIs
  <2>3. ASSUME NEW other \in Rgids PROVE mm[p].symrg[other].end \in Nat
    <3>1. mm[p].symrg[other] \in Region
      BY <2>1
    <3> QED
      BY <3>1, RegionIs
  <2> QED
    BY <2>1, <2>2, <2>3
<1>5. /\ brk \in 0..MaxBrk /\ limit \in Nat /\ brk <= limit
      /\ mm[p].sbrk <= brk /\ mm[p].sbrk + size <= brk /\ mm[p].sbrk + size \in Nat
  <2>1. Aligned(size) \in Nat /\ size <= Aligned(size)
    BY AlignedAtLeast
  <2>2. \A a, b, x, y \in Nat : a <= b /\ x <= y =>
           /\ a + 1 * x <= b + 1 * y /\ a + 2 * x <= b + 2 * y
           /\ b + 1 * y \in Nat /\ b + 2 * y \in Nat
           /\ a + 1 * x \in Nat /\ a + 2 * x \in Nat
           /\ a <= a + 1 * x /\ a <= a + 2 * x
           /\ a + x <= a + 1 * x /\ a + x <= a + 2 * x /\ a + x \in Nat
    OBVIOUS
  <2>3. size \in Nat /\ MaxBrk \in Nat /\ calls \in {1, 2}
    BY RegionsAssumption
  <2> HIDE DEF brk, limit
  <2>4. /\ brk \in Nat /\ limit \in Nat /\ brk <= limit
        /\ mm[p].sbrk <= brk /\ mm[p].sbrk + size <= brk /\ mm[p].sbrk + size \in Nat
    <3>1. CASE calls = 1
      BY <1>4, <2>1, <2>2, <2>3, <3>1 DEF brk, limit
    <3>2. CASE calls = 2
      BY <1>4, <2>1, <2>2, <2>3, <3>2 DEF brk, limit
    <3> QED
      BY <2>3, <3>1, <3>2
  <2>5. brk <= MaxBrk
    BY <1>2 DEF brk
  <2> QED
    BY <2>3, <2>4, <2>5
<1> HIDE DEF brk, limit
<1>6. rg \in Region /\ rg.start = mm[p].sbrk /\ rg.end = rg.start + size /\ rg.end <= brk
  BY <1>4, <1>5 DEF Region
<1> HIDE DEF rg
<1>7. table \in [Rgids -> Region] /\ \A other \in Rgids : table[other].end <= brk
  <2>1. \A other \in Rgids : mm[p].symrg[other].end <= brk
    BY <1>4, <1>5
  <2> QED
    BY <1>4, <1>6, <2>1
<1>8. \A other \in ToSet(mm[p].freerg) : other.end <= brk
  BY <1>4, <1>5
<1> HIDE DEF table
<1>9. /\ r \in Areas /\ r.freerg = mm[p].freerg /\ r.symrg = table
      /\ r.sbrk = brk /\ r.vm_end = limit
  BY <1>4, <1>5, <1>7 DEF Areas
<1> HIDE DEF r
<1>10. AreaOK(r)
  BY <1>4, <1>5, <1>7, <1>8, <1>9 DEF AreaOK
<1>11. MmInv' /\ mm'[p] = r /\ \A q \in Procs \ {p} : mm'[q] = mm[q]
  BY <1>3, <1>10, AreaStep
<1>12. FreeBytes(p)' = FreeBytes(p)
  BY <1>9, <1>11 DEF FreeBytes
<1> QED
  BY <1>6, <1>9, <1>11, <1>12 DEF table, brk

LEMMA MmInvIs ==
    ASSUME MmInv
    PROVE  MmTypeOK /\ FreeListSeparated
           /\ \A p \in Procs : \A id \in Rgids : mm[p].symrg[id].end <= mm[p].vm_end
<1>1. MmTypeOK
  BY MmTypeIs DEF MmInv
<1>2. FreeListSeparated
  BY LenProperties DEF MmInv, AreaOK, Areas, Separated, FreeListSeparated
<1>3. ASSUME NEW p \in Procs, NEW id \in Rgids PROVE mm[p].symrg[id].end <= mm[p].vm_end
  <2>1. /\ mm[p].symrg[id] \in Region /\ mm[p].symrg[id].end <= mm[p].sbrk
        /\ mm[p].sbrk <= mm[p].vm_end /\ mm[p].sbrk \in Nat /\ mm[p].vm_end \in Nat
    BY RegionsAssumption DEF MmInv, AreaOK, Areas
  <2>2. mm[p].symrg[id].end \in Nat
    BY <2>1, RegionIs
  <2> QED
    BY <2>1, <2>2
<1> QED
  BY <1>1, <1>2, <1>3

-----------------------------------------------------------------------------
Pools == [size : Nat, align : Nat, storage : Nat]

(* What a step of p keeps of the process q: nothing that q has changes *)
SameFor(q) ==
  mm'[q] = mm[q] /\ pools'[q] = pools[q] /\ handles'[q] = handles[q]

(* The pools end inside the area, also those of a process that has freed the
   region of one *)
PoolsOK(p) ==
  \A id \in PoolIds : pools[p][id].storage + pools[p][id].size <= mm[p].sbrk

KmemInv ==
  /\ MmInv
  /\ pools \in [Procs -> [PoolIds -> Pools]]
  /\ handles \in [Procs -> SUBSET PoolIds]
  /\ misused \subseteq Procs
  /\ \A p \in Procs : PoolsOK(p)
  /\ \A p \in Procs \ misused : A(p)!OneOwner

(* The variables and the pools of a process are the owners *)
LEMMA OwnersAre ==
  /\ \A id \in Rgids : <<"variable", id>> \in Owners
  /\ \A id \in PoolIds : <<"pool", id>> \in Owners
  /\ \A o \in Owners : \/ \E id \in Rgids : o = <<"variable", id>>
                       \/ \E id \in PoolIds : o = <<"pool", id>>
  /\ \A i, j : <<"variable", i>> # <<"pool", j>>
  /\ \A i, j : <<"variable", i>> = <<"variable", j>> => i = j
  /\ \A i, j : <<"pool", i>> = <<"pool", j>> => i = j
  BY DEF Owners

(* A variable holds its region in the symbol table, a pool its slots from start on *)
LEMMA HoldsIs ==
    ASSUME NEW p
    PROVE  /\ \A id : Holds(p, <<"variable", id>>)
                      = IF id \in handles[p] THEN {} ELSE Bytes(mm[p].symrg[id])
           /\ \A id : Holds(p, <<"pool", id>>) = Unspent(pools[p][id])
  BY DEF Holds

LEMMA HoldsThen ==
    ASSUME NEW p
    PROVE  /\ \A id : Holds(p, <<"variable", id>>)'
                      = IF id \in handles'[p] THEN {} ELSE Bytes(mm'[p].symrg[id])
           /\ \A id : Holds(p, <<"pool", id>>)' = Unspent(pools'[p][id])
  BY DEF Holds, Bytes, Unspent

(* The addresses that a process uses are below its sbrk *)
LEMMA BelowBreak ==
    ASSUME KmemInv, NEW p \in Procs
    PROVE  /\ mm[p].sbrk \in Nat
           /\ \A o \in Owners : Holds(p, o) \subseteq 0..(mm[p].sbrk - 1)
           /\ FreeBytes(p) \subseteq 0..(mm[p].sbrk - 1)
<1>1. AreaOK(mm[p]) /\ PoolsOK(p) /\ pools[p] \in [PoolIds -> Pools] /\ mm[p].sbrk \in Nat
  BY RegionsAssumption DEF KmemInv, MmInv, Areas
<1>2. ASSUME NEW rg \in Region, rg.end <= mm[p].sbrk
      PROVE  Bytes(rg) \subseteq 0..(mm[p].sbrk - 1)
  BY <1>1, <1>2, RegionIs DEF Bytes
<1>3. ASSUME NEW id \in Rgids
      PROVE  Holds(p, <<"variable", id>>) \subseteq 0..(mm[p].sbrk - 1)
  <2>1. mm[p].symrg[id] \in Region /\ mm[p].symrg[id].end <= mm[p].sbrk
    BY <1>1 DEF AreaOK, Areas
  <2> QED
    BY <1>2, <2>1, HoldsIs
<1>4. ASSUME NEW id \in PoolIds
      PROVE  Holds(p, <<"pool", id>>) \subseteq 0..(mm[p].sbrk - 1)
  <2>1. /\ pools[p][id].storage \in Nat /\ pools[p][id].size \in Nat
        /\ pools[p][id].storage + pools[p][id].size <= mm[p].sbrk
    BY <1>1 DEF PoolsOK, Pools
  <2>2. Unspent(pools[p][id]) \subseteq 0..(mm[p].sbrk - 1)
    BY <1>1, <2>1 DEF Unspent
  <2> QED
    BY <2>2, HoldsIs
<1>5. FreeBytes(p) \subseteq 0..(mm[p].sbrk - 1)
  <2>1. \A rg \in ToSet(mm[p].freerg) : rg \in Region /\ rg.end <= mm[p].sbrk
    BY <1>1, LenProperties, ElementOfSeq DEF AreaOK, Areas, ToSet
  <2> QED
    BY <1>2, <2>1 DEF FreeBytes
<1> QED
  BY <1>1, <1>3, <1>4, <1>5, OwnersAre

(* A step of p that gives addresses to one owner o, or that takes its addresses
   back, and that gives nothing to others *)
LEMMA OwnerStep ==
    ASSUME NEW p \in Procs, A(p)!OneOwner, NEW o \in Owners,
           \A other \in Owners \ {o} : Holds(p, other)' \subseteq Holds(p, other) \ Holds(p, o)',
           Holds(p, o)' \cap FreeBytes(p)' = {},
           FreeBytes(p)' \subseteq FreeBytes(p) \cup Holds(p, o)
    PROVE  A(p)!OneOwner'
<1>1. /\ \A x \in Owners : Holds(p, x) \cap FreeBytes(p) = {}
      /\ \A x, y \in Owners : x # y => Holds(p, x) \cap Holds(p, y) = {}
  BY DEF A!OneOwner
<1>2. ASSUME NEW x \in Owners PROVE Holds(p, x)' \cap FreeBytes(p)' = {}
  BY <1>1
<1>3. ASSUME NEW x \in Owners, NEW y \in Owners, x # y
      PROVE  Holds(p, x)' \cap Holds(p, y)' = {}
  BY <1>1, <1>3
<1> QED
  BY <1>2, <1>3 DEF A!OneOwner

(* Other processes *)
LEMMA OthersKeep ==
    ASSUME KmemInv, NEW q \in Procs, SameFor(q)
    PROVE  /\ PoolsOK(q)' /\ (A(q)!OneOwner => A(q)!OneOwner')
           /\ UNCHANGED A(q)!vars
<1>1. PoolsOK(q)'
  BY DEF KmemInv, PoolsOK, SameFor
<1>2. FreeBytes(q)' = FreeBytes(q) /\ mm'[q].sbrk = mm[q].sbrk
  BY DEF SameFor, FreeBytes
<1>3. \A o : Holds(q, o)' = Holds(q, o)
  BY DEF SameFor, Holds, Unspent, Bytes
<1>4. A(q)!OneOwner => A(q)!OneOwner'
  BY <1>2, <1>3 DEF A!OneOwner
<1>5. UNCHANGED A(q)!vars
  BY <1>2, <1>3 DEF A!vars
<1> QED
  BY <1>1, <1>4, <1>5
-----------------------------------------------------------------------------
(* The steps of the abstract allocator *)

(* o gets addresses, r gives up what it had, the others keep theirs *)
LEMMA HandIs ==
    ASSUME NEW p \in Procs, NEW o \in Owners, NEW r \in Owners,
           Holds(p, o)' # {}, r # o => Holds(p, r)' = {},
           \A x \in Owners \ {o, r} : Holds(p, x)' = Holds(p, x)
    PROVE  A(p)!Hand(o, r)
<1> DEFINE h == [x \in Owners |-> Holds(p, x)]
           k == [x \in Owners |-> Holds(p, x)']
<1>1. k[o] # {} /\ k = [h EXCEPT ![r] = {}, ![o] = k[o]]
  OBVIOUS
<1> QED
  BY <1>1 DEF A!Hand

(* The free list gives the addresses: the step Reuse of the abstract allocator *)
LEMMA ReuseIs ==
    ASSUME NEW p \in Procs, NEW o \in Owners, NEW r \in Owners,
           Holds(p, o)' # {}, r # o => Holds(p, r)' = {},
           \A x \in Owners \ {o, r} : Holds(p, x)' = Holds(p, x),
           Holds(p, o)' \subseteq FreeBytes(p), FreeBytes(p)' = FreeBytes(p) \ Holds(p, o)',
           mm'[p].sbrk = mm[p].sbrk
    PROVE  A(p)!Next
<1>1. A(p)!Hand(o, r)
  BY HandIs
<1>2. A(p)!Reuse(o, r)
  BY <1>1 DEF A!Reuse
<1> QED
  BY <1>2 DEF A!Next

(* The area grows and gives the addresses above the old break: the step Extend *)
LEMMA ExtendIs ==
    ASSUME NEW p \in Procs, NEW o \in Owners, NEW r \in Owners,
           Holds(p, o)' # {}, r # o => Holds(p, r)' = {},
           \A x \in Owners \ {o, r} : Holds(p, x)' = Holds(p, x),
           Holds(p, o)' \subseteq mm[p].sbrk..(mm'[p].sbrk - 1), FreeBytes(p)' = FreeBytes(p),
           mm'[p].sbrk \in Nat
    PROVE  A(p)!Next
<1>1. A(p)!Hand(o, r)
  BY HandIs
<1>2. A(p)!Extend(o, r)
  BY <1>1 DEF A!Extend
<1> QED
  BY <1>2 DEF A!Next

(* A pool gives the addresses of a slot: the step Carve *)
LEMMA CarveIs ==
    ASSUME NEW p \in Procs, NEW o \in Owners, NEW pool \in Owners, pool # o,
           Holds(p, o)' # {}, Holds(p, o)' \subseteq Holds(p, pool),
           Holds(p, pool)' = Holds(p, pool) \ Holds(p, o)',
           \A x \in Owners \ {o, pool} : Holds(p, x)' = Holds(p, x),
           FreeBytes(p)' = FreeBytes(p), mm'[p].sbrk = mm[p].sbrk
    PROVE  A(p)!Next
<1> DEFINE h == [x \in Owners |-> Holds(p, x)]
           k == [x \in Owners |-> Holds(p, x)']
<1>1. k = [h EXCEPT ![pool] = @ \ k[o], ![o] = k[o]]
  OBVIOUS
<1>2. A(p)!Carve(o, pool)
  BY <1>1 DEF A!Carve
<1> QED
  BY <1>2 DEF A!Next

(* The addresses of an owner go back to the free list: the step Free *)
LEMMA FreedIs ==
    ASSUME NEW p \in Procs, NEW o \in Owners, Holds(p, o)' = {},
           \A x \in Owners \ {o} : Holds(p, x)' = Holds(p, x),
           FreeBytes(p)' = FreeBytes(p) \cup Holds(p, o), mm'[p].sbrk = mm[p].sbrk
    PROVE  [A(p)!Next]_(A(p)!vars)
<1> DEFINE h == [x \in Owners |-> Holds(p, x)]
           k == [x \in Owners |-> Holds(p, x)']
<1>1. CASE Holds(p, o) # {}
  <2>1. k = [h EXCEPT ![o] = {}]
    OBVIOUS
  <2>2. A(p)!Free(o)
    BY <1>1, <2>1 DEF A!Free
  <2> QED
    BY <2>2 DEF A!Next
<1>2. CASE Holds(p, o) = {}
  <2>1. \A x \in Owners : Holds(p, x)' = Holds(p, x)
    BY <1>2
  <2>2. FreeBytes(p)' = FreeBytes(p)
    BY <1>2
  <2> QED
    BY <2>1, <2>2 DEF A!vars
<1> QED
  BY <1>1, <1>2

(* The region rg that an allocation puts under the index id *)
Gives(p, id, size, rg) ==
  /\ rg.end = rg.start + size /\ rg.end <= mm'[p].sbrk
  /\ mm'[p].symrg = [mm[p].symrg EXCEPT ![id] = rg]
  /\ mm'[p].symrg[id] = rg
  /\ \/ /\ Bytes(rg) \subseteq FreeBytes(p) /\ mm'[p].sbrk = mm[p].sbrk
        /\ FreeBytes(p)' = FreeBytes(p) \ Bytes(rg)
     \/ /\ Bytes(rg) \subseteq mm[p].sbrk..(mm'[p].sbrk - 1)
        /\ FreeBytes(p)' = FreeBytes(p)

(* __alloc: the region comes from the free list or from past the sbrk *)
LEMMA AllocIs ==
    ASSUME MmInv, NEW p \in Procs, NEW id \in Rgids, NEW size \in Nat \ {0}, Alloc(p, id, size)
    PROVE  /\ MmInv' /\ mm[p].sbrk \in Nat /\ mm'[p].sbrk \in Nat /\ mm[p].sbrk <= mm'[p].sbrk
           /\ \A q \in Procs \ {p} : mm'[q] = mm[q]
           /\ \E rg \in Region : Gives(p, id, size, rg)
<1>1. AreaOK(mm[p]) /\ mm[p].sbrk \in Nat /\ mm[p].symrg \in [Rgids -> Region]
  BY RegionsAssumption DEF MmInv, Areas
<1>2. ASSUME MmInv' PROVE /\ mm'[p].sbrk \in Nat
                          /\ mm'[p].symrg[id].end <= mm'[p].sbrk
  BY <1>2, RegionsAssumption DEF MmInv, Areas, AreaOK
<1>3. CASE AllocFit(p, id, size)
  <2>1. /\ MmInv' /\ mm'[p].sbrk = mm[p].sbrk
        /\ \A q \in Procs \ {p} : mm'[q] = mm[q]
    BY <1>3, AllocFitIs
  <2>2. PICK rg \in Region :
          /\ rg.end = rg.start + size
          /\ mm'[p].symrg = [mm[p].symrg EXCEPT ![id] = rg]
          /\ Bytes(rg) \subseteq FreeBytes(p)
          /\ FreeBytes(p)' = FreeBytes(p) \ Bytes(rg)
    BY <1>3, AllocFitIs, ZenonT(30)
  <2>3. mm'[p].symrg[id] = rg
    BY <1>1, <2>2
  <2>4. rg.end <= mm'[p].sbrk
    BY <1>2, <2>1, <2>3
  <2>5. Gives(p, id, size, rg)
    BY <2>1, <2>2, <2>3, <2>4 DEF Gives
  <2> QED
    BY <1>1, <2>1, <2>5
<1>4. CASE \E calls \in 1..2 : AllocGrow(p, id, size, calls)
  <2>1. PICK calls \in 1..2 : AllocGrow(p, id, size, calls)
    BY <1>4
  <2>2. /\ MmInv' /\ mm'[p].sbrk = mm[p].sbrk + calls * size
        /\ \A q \in Procs \ {p} : mm'[q] = mm[q]
    BY <2>1, AllocGrowIs
  <2>3. PICK rg \in Region :
          /\ rg.start = mm[p].sbrk /\ rg.end = rg.start + size
          /\ mm'[p].symrg = [mm[p].symrg EXCEPT ![id] = rg]
          /\ FreeBytes(p)' = FreeBytes(p)
    BY <2>1, AllocGrowIs
  <2>4. mm'[p].symrg[id] = rg
    BY <1>1, <2>3
  <2>5. rg.end <= mm'[p].sbrk /\ mm'[p].sbrk \in Nat
    BY <1>2, <2>2, <2>4
  <2>6. mm[p].sbrk <= mm'[p].sbrk
    <3>1. mm[p].sbrk <= rg.end
      BY <1>1, <2>3
    <3>2. rg.end \in Nat
      BY RegionIs
    <3> QED
      BY <1>1, <2>5, <3>1, <3>2
  <2>7. Bytes(rg) \subseteq mm[p].sbrk..(mm'[p].sbrk - 1)
    BY <1>1, <2>3, <2>5, RegionIs DEF Bytes
  <2> QED
    BY <1>1, <2>2, <2>3, <2>4, <2>5, <2>6, <2>7 DEF Gives
<1> QED
  BY <1>3, <1>4 DEF Alloc

-----------------------------------------------------------------------------
(* The operations *)

AreasImplement == \A q \in Procs \ misused' : [A(q)!Next]_(A(q)!vars)

(* A step of one process leaves the areas, pools and handles of the others, and
   is a step of its own abstract allocator *)
LEMMA OneProcessSteps ==
    ASSUME KmemInv, NEW p \in Procs, MmInv',
           pools' \in [Procs -> [PoolIds -> Pools]], handles' \in [Procs -> SUBSET PoolIds],
           misused \subseteq misused', misused' \subseteq Procs,
           \A q \in Procs \ {p} : SameFor(q),
           PoolsOK(p)',
           p \notin misused' => A(p)!OneOwner' /\ [A(p)!Next]_(A(p)!vars)
    PROVE  KmemInv' /\ AreasImplement
<1>1. ASSUME NEW q \in Procs PROVE PoolsOK(q)'
  <2>1. CASE q = p
    BY <2>1
  <2>2. CASE q # p
    BY <2>2, OthersKeep
  <2> QED
    BY <2>1, <2>2
<1>2. ASSUME NEW q \in Procs \ misused' PROVE A(q)!OneOwner' /\ [A(q)!Next]_(A(q)!vars)
  <2>1. CASE q = p
    BY <1>2, <2>1
  <2>2. CASE q # p
    <3>1. A(q)!OneOwner
      BY <1>2 DEF KmemInv
    <3>2. A(q)!OneOwner' /\ UNCHANGED A(q)!vars
      BY <2>2, <3>1, OthersKeep
    <3> QED
      BY <3>2
  <2> QED
    BY <2>1, <2>2
<1> QED
  BY <1>1, <1>2 DEF KmemInv, AreasImplement

LEMMA SamePools ==
    ASSUME NEW p \in Procs, pools' = pools
    PROVE  \A i \in PoolIds : Holds(p, <<"pool", i>>)' = Holds(p, <<"pool", i>>)
  BY DEF Holds, Unspent

(* The variables whose index is not that of the step *)
OnlyIndex(p, id) ==
  /\ mm[p].symrg \in [Rgids -> Region]
  /\ \E rg : mm'[p].symrg = [mm[p].symrg EXCEPT ![id] = rg]
  /\ \/ handles'[p] = handles[p] \ {id}
     \/ handles'[p] = handles[p] \cup {id}

LEMMA OtherVariables ==
    ASSUME NEW p \in Procs, NEW id, OnlyIndex(p, id), NEW i \in Rgids, i # id
    PROVE  Holds(p, <<"variable", i>>)' = Holds(p, <<"variable", i>>)
<1>0. \/ handles'[p] = handles[p] \ {id}
      \/ handles'[p] = handles[p] \cup {id}
  BY DEF OnlyIndex
<1>1. mm'[p].symrg[i] = mm[p].symrg[i]
  BY DEF OnlyIndex
<1>2. CASE i \in handles[p]
  <2>1. i \in handles'[p]
    BY <1>0, <1>2
  <2> QED
    BY <1>1, <1>2, <2>1, HoldsIs, HoldsThen
<1>3. CASE i \notin handles[p]
  <2>1. i \notin handles'[p]
    BY <1>0, <1>3
  <2> QED
    BY <1>1, <1>3, <2>1, HoldsIs, HoldsThen
<1> QED
  BY <1>2, <1>3

(* The new region is one owner's: the steps Reuse and Extend of the abstract
   allocator, and no address gets a second owner *)
LEMMA GivesStep ==
    ASSUME KmemInv, NEW p \in Procs, NEW id, NEW size \in Nat \ {0}, NEW rg \in Region,
           Gives(p, id, size, rg), mm'[p].sbrk \in Nat,
           NEW o \in Owners, NEW r \in Owners,
           Holds(p, o)' = Bytes(rg), r # o => Holds(p, r)' = {},
           \A x \in Owners \ {o, r} : Holds(p, x)' = Holds(p, x)
    PROVE  /\ A(p)!Next
           /\ p \notin misused => A(p)!OneOwner'
<1>1. /\ rg.end = rg.start + size
      /\ \/ /\ Bytes(rg) \subseteq FreeBytes(p) /\ mm'[p].sbrk = mm[p].sbrk
            /\ FreeBytes(p)' = FreeBytes(p) \ Bytes(rg)
         \/ /\ Bytes(rg) \subseteq mm[p].sbrk..(mm'[p].sbrk - 1)
            /\ FreeBytes(p)' = FreeBytes(p)
  BY DEF Gives
<1>2. Bytes(rg) # {}
  <2>1. rg.start \in rg.start..(rg.end - 1)
    BY <1>1, RegionIs
  <2> QED
    BY <2>1 DEF Bytes
<1>3. A(p)!Next
  <2>1. CASE /\ Bytes(rg) \subseteq FreeBytes(p) /\ mm'[p].sbrk = mm[p].sbrk
             /\ FreeBytes(p)' = FreeBytes(p) \ Bytes(rg)
    BY <1>2, <2>1, ReuseIs
  <2>2. CASE /\ Bytes(rg) \subseteq mm[p].sbrk..(mm'[p].sbrk - 1)
             /\ FreeBytes(p)' = FreeBytes(p)
    BY <1>2, <2>2, ExtendIs
  <2> QED
    BY <1>1, <2>1, <2>2
<1>4. ASSUME p \notin misused PROVE A(p)!OneOwner'
  <2>1. /\ A(p)!OneOwner
        /\ \A x \in Owners : Holds(p, x) \cap FreeBytes(p) = {}
    BY <1>4 DEF KmemInv, A!OneOwner
  <2>2. /\ \A x \in Owners : Holds(p, x) \cap Bytes(rg) = {}
        /\ Bytes(rg) \cap FreeBytes(p)' = {} /\ FreeBytes(p)' \subseteq FreeBytes(p)
    <3>1. CASE Bytes(rg) \subseteq FreeBytes(p) /\ FreeBytes(p)' = FreeBytes(p) \ Bytes(rg)
      BY <2>1, <3>1
    <3>2. CASE /\ Bytes(rg) \subseteq mm[p].sbrk..(mm'[p].sbrk - 1)
               /\ FreeBytes(p)' = FreeBytes(p)
      <4>1. mm[p].sbrk \in Nat
        BY BelowBreak
      <4>2. 0..(mm[p].sbrk - 1) \cap mm[p].sbrk..(mm'[p].sbrk - 1) = {}
        BY <4>1
      <4> QED
        BY <3>2, <4>2, BelowBreak
    <3> QED
      BY <1>1, <3>1, <3>2
  <2>3. \A x \in Owners \ {o} : Holds(p, x)' \subseteq Holds(p, x) \ Holds(p, o)'
    BY <2>2
  <2> QED
    BY <2>1, <2>2, <2>3, OwnerStep
<1> QED
  BY <1>3, <1>4

(* alloc and kmalloc *)
LEMMA AllocVariableStep ==
    ASSUME KmemInv, NEW p \in Procs, NEW id \in Rgids, NEW size \in Nat \ {0},
           AllocVariable(p, id, size)
    PROVE  KmemInv' /\ AreasImplement
<1> DEFINE o == <<"variable", id>>
<1>1. /\ Alloc(p, id, size) /\ UNCHANGED <<pools, misused>>
      /\ handles' = [handles EXCEPT ![p] = @ \ {id}]
      /\ MmInv /\ handles \in [Procs -> SUBSET PoolIds] /\ pools \in [Procs -> [PoolIds -> Pools]]
      /\ misused \subseteq Procs /\ PoolsOK(p)
  BY DEF AllocVariable, KmemInv
<1>2. /\ handles' \in [Procs -> SUBSET PoolIds] /\ handles'[p] = handles[p] \ {id}
      /\ \A q \in Procs \ {p} : handles'[q] = handles[q]
  BY <1>1
<1>3. /\ MmInv' /\ mm[p].sbrk \in Nat /\ mm'[p].sbrk \in Nat /\ mm[p].sbrk <= mm'[p].sbrk
      /\ \A q \in Procs \ {p} : mm'[q] = mm[q]
  BY <1>1, AllocIs
<1>4. PICK rg \in Region : Gives(p, id, size, rg)
  BY <1>1, AllocIs
<1>5. /\ mm[p].symrg \in [Rgids -> Region] /\ mm'[p].symrg[id] = rg
      /\ mm'[p].symrg = [mm[p].symrg EXCEPT ![id] = rg]
  BY <1>1, <1>4 DEF Gives, MmInv, Areas
<1>6. /\ o \in Owners /\ Holds(p, o)' = Bytes(rg)
      /\ \A x \in Owners \ {o} : Holds(p, x)' = Holds(p, x)
  <2>1. o \in Owners /\ Holds(p, o)' = Bytes(rg)
    BY <1>2, <1>5, OwnersAre, HoldsThen
  <2>2. ASSUME NEW i \in Rgids, i # id
        PROVE  Holds(p, <<"variable", i>>)' = Holds(p, <<"variable", i>>)
    <3>1. OnlyIndex(p, id)
      BY <1>2, <1>5 DEF OnlyIndex
    <3> QED
      BY <2>2, <3>1, OtherVariables, Zenon
  <2>3. \A i \in PoolIds : Holds(p, <<"pool", i>>)' = Holds(p, <<"pool", i>>)
    BY <1>1, SamePools
  <2>4. ASSUME NEW x \in Owners \ {o} PROVE Holds(p, x)' = Holds(p, x)
    <3>1. CASE \E i \in Rgids : x = <<"variable", i>>
      BY <2>2, <3>1
    <3>2. CASE \E i \in PoolIds : x = <<"pool", i>>
      BY <2>3, <3>2
    <3> QED
      BY <3>1, <3>2, OwnersAre
  <2> QED
    BY <2>1, <2>4
<1> HIDE DEF o
<1>7. PoolsOK(p)'
  BY <1>1, <1>3 DEF PoolsOK, Pools
<1>8. /\ A(p)!Next
      /\ p \notin misused => A(p)!OneOwner'
  BY <1>3, <1>4, <1>6, GivesStep
<1> QED
  BY <1>1, <1>2, <1>3, <1>7, <1>8, OneProcessSteps DEF SameFor

(* __free, by liballoc, kfree or kmem_cache_free: the region is free again *)
LEMMA FreeVariableStep ==
    ASSUME KmemInv, NEW p \in Procs, NEW id \in Rgids, FreeVariable(p, id)
    PROVE  KmemInv' /\ AreasImplement
<1> DEFINE o == <<"variable", id>>
<1>1. /\ Free(p, id) /\ pools' = pools
      /\ misused' = IF id \in handles[p] THEN misused \cup {p} ELSE misused
      /\ handles' = [handles EXCEPT ![p] = @ \ {id}]
      /\ MmInv /\ handles \in [Procs -> SUBSET PoolIds] /\ pools \in [Procs -> [PoolIds -> Pools]]
      /\ misused \subseteq Procs /\ PoolsOK(p)
  BY DEF FreeVariable, KmemInv
<1>2. /\ handles' \in [Procs -> SUBSET PoolIds] /\ handles'[p] = handles[p] \ {id}
      /\ \A q \in Procs \ {p} : handles'[q] = handles[q]
  BY <1>1
<1>3. /\ MmInv' /\ mm'[p].sbrk = mm[p].sbrk
      /\ \A q \in Procs \ {p} : mm'[q] = mm[q]
      /\ mm'[p].symrg = [mm[p].symrg EXCEPT ![id] = NoRegion]
      /\ FreeBytes(p)' = FreeBytes(p) \cup Bytes(mm[p].symrg[id])
  BY <1>1, FreeIs
<1>4. mm[p].symrg \in [Rgids -> Region] /\ Bytes(NoRegion) = {}
  BY <1>1 DEF MmInv, Areas, Bytes, NoRegion
<1>5. PoolsOK(p)'
  BY <1>1, <1>3 DEF PoolsOK
<1>6. ASSUME p \notin misused'
      PROVE  A(p)!OneOwner' /\ [A(p)!Next]_(A(p)!vars)
  <2>1. p \notin misused /\ id \notin handles[p]
    BY <1>1, <1>6
  <2>2. /\ o \in Owners /\ Holds(p, o)' = {} /\ Holds(p, o) = Bytes(mm[p].symrg[id])
        /\ \A x \in Owners \ {o} : Holds(p, x)' = Holds(p, x)
    <3>1. mm'[p].symrg[id] = NoRegion
      BY <1>3, <1>4
    <3>2. o \in Owners /\ Holds(p, o)' = {} /\ Holds(p, o) = Bytes(mm[p].symrg[id])
      BY <1>4, <2>1, <3>1, OwnersAre, HoldsIs, HoldsThen
    <3>3. ASSUME NEW i \in Rgids, i # id
          PROVE  Holds(p, <<"variable", i>>)' = Holds(p, <<"variable", i>>)
      <4>1. OnlyIndex(p, id)
        BY <1>2, <1>3, <1>4 DEF OnlyIndex
      <4> QED
        BY <3>3, <4>1, OtherVariables, Zenon
    <3>4. \A i \in PoolIds : Holds(p, <<"pool", i>>)' = Holds(p, <<"pool", i>>)
      BY <1>1, SamePools
    <3>5. ASSUME NEW x \in Owners \ {o} PROVE Holds(p, x)' = Holds(p, x)
      <4>1. CASE \E i \in Rgids : x = <<"variable", i>>
        BY <3>3, <4>1
      <4>2. CASE \E i \in PoolIds : x = <<"pool", i>>
        BY <3>4, <4>2
      <4> QED
        BY <4>1, <4>2, OwnersAre
    <3> QED
      BY <3>2, <3>5
  <2> HIDE DEF o
  <2>3. [A(p)!Next]_(A(p)!vars)
    BY <1>3, <2>2, FreedIs
  <2>4. A(p)!OneOwner
    BY <2>1 DEF KmemInv
  <2>5. A(p)!OneOwner'
    BY <1>3, <2>2, <2>4, OwnerStep
  <2> QED
    BY <2>3, <2>5
<1> QED
  BY <1>1, <1>2, <1>3, <1>5, <1>6, OneProcessSteps DEF SameFor

(* kmem_cache_alloc changes the symbol table only *)
LEMMA TableIs ==
    ASSUME MmInv, NEW p \in Procs, NEW id \in Rgids, NEW rg \in Region, rg.end <= mm[p].sbrk,
           mm' = [mm EXCEPT ![p].symrg[id] = rg]
    PROVE  /\ MmInv' /\ mm'[p].sbrk = mm[p].sbrk
           /\ mm'[p].symrg = [mm[p].symrg EXCEPT ![id] = rg]
           /\ FreeBytes(p)' = FreeBytes(p)
           /\ \A q \in Procs \ {p} : mm'[q] = mm[q]
<1>1. AreaOK(mm[p]) /\ mm[p] \in Areas /\ mm \in [Procs -> Areas]
  BY DEF MmInv
<1> DEFINE table == [mm[p].symrg EXCEPT ![id] = rg]
           r == [mm[p] EXCEPT !.symrg = table]
<1>2. mm' = [mm EXCEPT ![p] = r]
  BY <1>1 DEF Areas
<1>3. table \in [Rgids -> Region] /\ \A other \in Rgids : table[other].end <= mm[p].sbrk
  BY <1>1 DEF Areas, AreaOK
<1> HIDE DEF table
<1>4. PICK a, b, c, d : mm[p] = [vm_end |-> a, sbrk |-> b, freerg |-> c, symrg |-> d]
  BY <1>1 DEF Areas
<1>5. r = [vm_end |-> a, sbrk |-> b, freerg |-> c, symrg |-> table]
  BY ONLY <1>4
<1> HIDE DEF r
<1>6. /\ r.vm_end = mm[p].vm_end /\ r.sbrk = mm[p].sbrk
      /\ r.freerg = mm[p].freerg /\ r.symrg = table
  BY <1>4, <1>5
<1>7. r \in Areas
  BY <1>1, <1>3, <1>4, <1>5 DEF Areas
<1>8. AreaOK(r)
  BY <1>1, <1>3, <1>6, <1>7 DEF AreaOK
<1>9. MmInv' /\ mm'[p] = r /\ \A q \in Procs \ {p} : mm'[q] = mm[q]
  BY <1>2, <1>8, AreaStep
<1>10. FreeBytes(p)' = FreeBytes(p)
  BY <1>6, <1>9 DEF FreeBytes
<1> QED
  BY <1>6, <1>9, <1>10 DEF table

(* kmem_cache_alloc: a slot of the pool that no variable has goes to a variable *)
LEMMA CacheAllocStep ==
    ASSUME KmemInv, NEW p \in Procs, NEW pool \in PoolIds, NEW id \in Rgids,
           CacheAlloc(p, pool, id)
    PROVE  KmemInv' /\ AreasImplement
<1> DEFINE o == <<"variable", id>>
           source == <<"pool", pool>>
           from == pools[p][pool]
           rg == [start |-> from.storage, end |-> from.storage + from.align]
           left == Spend(from)
<1>1. /\ HasSlot(from) /\ misused' = misused
      /\ pools' = [pools EXCEPT ![p][pool] = left]
      /\ mm' = [mm EXCEPT ![p].symrg[id] = rg]
      /\ handles' = [handles EXCEPT ![p] = @ \ {id}]
      /\ MmInv /\ handles \in [Procs -> SUBSET PoolIds] /\ pools \in [Procs -> [PoolIds -> Pools]]
      /\ misused \subseteq Procs /\ PoolsOK(p)
  BY DEF CacheAlloc, KmemInv
<1>2. /\ handles' \in [Procs -> SUBSET PoolIds] /\ handles'[p] = handles[p] \ {id}
      /\ \A q \in Procs \ {p} : handles'[q] = handles[q]
  BY <1>1
<1>3. /\ from \in Pools /\ from.storage \in Nat /\ from.size \in Nat /\ from.align \in Nat
      /\ from.align > 0 /\ from.size >= from.align /\ from.storage # 0
      /\ from.storage + from.size <= mm[p].sbrk /\ mm[p].sbrk \in Nat
  BY <1>1, RegionsAssumption DEF Pools, HasSlot, PoolsOK, MmInv, Areas
<1>4. /\ left \in Pools /\ left.storage = from.storage + from.align
      /\ left.size = from.size - from.align
  <2>1. from.storage + from.align \in Nat /\ from.size - from.align \in Nat
    BY <1>3
  <2>2. PICK a, b, c : from = [size |-> a, align |-> b, storage |-> c]
    BY <1>3 DEF Pools
  <2>3. from.size = a /\ from.align = b /\ from.storage = c
    BY <2>2
  <2>4. left = [size |-> a - b, align |-> b, storage |-> c + b]
    <3> HIDE DEF from
    <3>1. left = [from EXCEPT !.storage = c + b, !.size = a - b]
      BY <2>3 DEF Spend
    <3> DEFINE one == [from EXCEPT !.storage = c + b]
    <3>2. one = [size |-> a, align |-> b, storage |-> c + b]
      BY ONLY <2>2
    <3>3. left = [one EXCEPT !.size = a - b]
      BY <3>1
    <3> HIDE DEF one, left
    <3> QED
      BY ONLY <3>2, <3>3
  <2> HIDE DEF left, from
  <2> QED
    BY <1>3, <2>1, <2>3, <2>4 DEF Pools
<1>5. /\ rg \in Region /\ rg.end <= mm[p].sbrk
      /\ rg.start = from.storage /\ rg.end = from.storage + from.align
  <2> HIDE DEF from
  <2> QED
    BY <1>3 DEF Region
<1> HIDE DEF left, from, rg
<1>6. /\ MmInv' /\ mm'[p].sbrk = mm[p].sbrk
      /\ mm'[p].symrg = [mm[p].symrg EXCEPT ![id] = rg]
      /\ FreeBytes(p)' = FreeBytes(p)
      /\ \A q \in Procs \ {p} : mm'[q] = mm[q]
  BY <1>1, <1>5, TableIs
<1>7. /\ pools' \in [Procs -> [PoolIds -> Pools]] /\ pools'[p][pool] = left
      /\ \A i \in PoolIds \ {pool} : pools'[p][i] = pools[p][i]
      /\ \A q \in Procs \ {p} : pools'[q] = pools[q]
  BY <1>1, <1>4
<1>8. PoolsOK(p)'
  <2>1. ASSUME NEW i \in PoolIds
        PROVE  pools'[p][i].storage + pools'[p][i].size <= mm'[p].sbrk
    <3>1. CASE i = pool
      BY <1>3, <1>4, <1>6, <1>7, <3>1
    <3>2. CASE i # pool
      BY <1>1, <1>6, <1>7, <3>2 DEF PoolsOK
    <3> QED
      BY <3>1, <3>2
  <2> QED
    BY <2>1 DEF PoolsOK
<1>9. /\ o \in Owners /\ source \in Owners /\ o # source
      /\ Holds(p, o)' = Bytes(rg) /\ Holds(p, source) = Unspent(from)
      /\ Holds(p, source)' = Unspent(left)
      /\ \A x \in Owners \ {o, source} : Holds(p, x)' = Holds(p, x)
  <2>1. mm[p].symrg \in [Rgids -> Region]
    BY <1>1 DEF MmInv, Areas
  <2>2. mm'[p].symrg[id] = rg /\ id \notin handles'[p]
    BY <1>2, <1>6, <2>1
  <2>3. o \in Owners /\ source \in Owners /\ o # source
    BY OwnersAre
  <2>4. Holds(p, o)' = Bytes(rg)
    BY <2>2, HoldsThen
  <2>5. Holds(p, source) = Unspent(from) /\ Holds(p, source)' = Unspent(left)
    BY <1>7, HoldsIs, HoldsThen DEF from
  <2>6. ASSUME NEW i \in Rgids, i # id
        PROVE  Holds(p, <<"variable", i>>)' = Holds(p, <<"variable", i>>)
    <3>1. OnlyIndex(p, id)
      BY <1>2, <1>6, <2>1 DEF OnlyIndex
    <3> QED
      BY <2>6, <3>1, OtherVariables, Zenon
  <2>7. ASSUME NEW i \in PoolIds, i # pool
        PROVE  Holds(p, <<"pool", i>>)' = Holds(p, <<"pool", i>>)
    <3>1. pools'[p][i] = pools[p][i]
      BY <1>7, <2>7
    <3> QED
      BY <3>1, HoldsIs, HoldsThen
  <2>8. ASSUME NEW x \in Owners \ {o, source} PROVE Holds(p, x)' = Holds(p, x)
    <3>1. CASE \E i \in Rgids : x = <<"variable", i>>
      BY <2>6, <3>1
    <3>2. CASE \E i \in PoolIds : x = <<"pool", i>>
      BY <2>7, <3>2
    <3> QED
      BY <3>1, <3>2, OwnersAre
  <2> QED
    BY <2>3, <2>4, <2>5, <2>8
<1>10. /\ Bytes(rg) # {} /\ Bytes(rg) \subseteq Unspent(from)
       /\ Unspent(left) = Unspent(from) \ Bytes(rg)
  <2> DEFINE a == from.storage
             b == from.align
             c == from.size
  <2>1. a \in Nat /\ b \in Nat /\ c \in Nat /\ b > 0 /\ c >= b /\ a # 0
    BY <1>3
  <2>2. Bytes(rg) = a..(a + b - 1) /\ Unspent(from) = a..(a + c - 1)
    BY <1>3, <1>5 DEF Bytes, Unspent
  <2>3. Unspent(left) = (a + b)..((a + b) + (c - b) - 1)
    <3>1. left.storage # 0
      BY <1>3, <1>4
    <3> QED
      BY <1>4, <3>1 DEF Unspent
  <2> HIDE DEF a, b, c
  <2>4. a \in a..(a + b - 1)
    BY <2>1
  <2>5. a..(a + b - 1) \subseteq a..(a + c - 1)
    BY <2>1
  <2>6. (a + b)..((a + b) + (c - b) - 1) = (a..(a + c - 1)) \ (a..(a + b - 1))
    BY <2>1
  <2> QED
    BY <2>2, <2>3, <2>4, <2>5, <2>6
<1> HIDE DEF o, source
<1>11. A(p)!Next
  BY <1>6, <1>9, <1>10, CarveIs
<1>12. ASSUME p \notin misused PROVE A(p)!OneOwner'
  <2>1. A(p)!OneOwner
    BY <1>12 DEF KmemInv
  <2>2. /\ \A x \in Owners : Holds(p, x) \cap FreeBytes(p) = {}
        /\ \A x \in Owners \ {source} : Holds(p, x) \cap Holds(p, source) = {}
    BY <1>9, <2>1 DEF A!OneOwner
  <2>3. \A x \in Owners \ {o} : Holds(p, x)' \subseteq Holds(p, x) \ Holds(p, o)'
    BY <1>9, <1>10, <2>2
  <2>4. Holds(p, o)' \cap FreeBytes(p)' = {}
    BY <1>6, <1>9, <1>10, <2>2
  <2> QED
    BY <1>6, <1>9, <2>1, <2>3, <2>4, OwnerStep
<1> QED
  BY <1>1, <1>2, <1>6, <1>7, <1>8, <1>11, <1>12, OneProcessSteps DEF SameFor

(* The size of a pool in whole slots *)
LEMMA WholeSlotsIs ==
    ASSUME NEW size \in PoolSizes, NEW align \in Aligns
    PROVE  /\ SlotSize(align) \in Nat
           /\ WholeSlots(size, SlotSize(align)) \in Nat \ {0}
<1> DEFINE slot == SlotSize(align)
<1>1. size \in Nat \ {0} /\ slot \in Nat \ {0}
  BY KmemAssumption DEF SlotSize
<1> HIDE DEF slot
<1>2. size % slot \in Nat /\ size % slot < slot
  BY <1>1, Z3
<1>3. WholeSlots(size, slot) \in Nat \ {0}
  BY <1>1, <1>2 DEF WholeSlots
<1> QED
  BY <1>1, <1>3 DEF slot

(* kmem_cache_pool_create. The new region is the pool's, or, at the address 0,
   the variable's *)
LEMMA PoolCreateStep ==
    ASSUME KmemInv, NEW p \in Procs, NEW id \in PoolIds,
           NEW size \in PoolSizes, NEW align \in Aligns, PoolCreate(p, id, size, align)
    PROVE  KmemInv' /\ AreasImplement
<1> DEFINE whole == WholeSlots(size, SlotSize(align))
           slot == SlotSize(align)
           start == mm'[p].symrg[id].start
           made == [size |-> whole, align |-> slot, storage |-> start]
           variable == <<"variable", id>>
           pool == <<"pool", id>>
<1>1. slot \in Nat /\ whole \in Nat \ {0} /\ id \in Rgids
  BY WholeSlotsIs, KmemAssumption
<1>2. /\ Alloc(p, id, whole) /\ misused' = misused
      /\ pools' = [pools EXCEPT ![p][id] = made]
      /\ handles' = [handles EXCEPT ![p] = IF start = 0 THEN @ \ {id} ELSE @ \cup {id}]
  BY DEF PoolCreate, PoolAt
<1>3. /\ MmInv /\ handles \in [Procs -> SUBSET PoolIds] /\ pools \in [Procs -> [PoolIds -> Pools]]
      /\ misused \subseteq Procs /\ PoolsOK(p)
  BY DEF KmemInv
<1> HIDE DEF whole, slot
<1>4. /\ MmInv' /\ mm[p].sbrk \in Nat /\ mm'[p].sbrk \in Nat /\ mm[p].sbrk <= mm'[p].sbrk
      /\ \A q \in Procs \ {p} : mm'[q] = mm[q]
  BY <1>1, <1>2, <1>3, AllocIs
<1>5. PICK rg \in Region : Gives(p, id, whole, rg)
  BY <1>1, <1>2, <1>3, AllocIs
<1>6. /\ rg.start \in Nat /\ start = rg.start
      /\ rg.end = rg.start + whole /\ rg.end <= mm'[p].sbrk
      /\ mm[p].symrg \in [Rgids -> Region] /\ mm'[p].symrg[id] = rg
      /\ mm'[p].symrg = [mm[p].symrg EXCEPT ![id] = rg]
  BY <1>3, <1>5, RegionIs DEF Gives, MmInv, Areas
<1> HIDE DEF start
<1>7. /\ made \in Pools /\ made.storage = rg.start /\ made.size = whole
  BY <1>1, <1>6 DEF Pools
<1> HIDE DEF made
<1>8. /\ handles' \in [Procs -> SUBSET PoolIds]
      /\ handles'[p] = IF rg.start = 0 THEN handles[p] \ {id} ELSE handles[p] \cup {id}
      /\ \A q \in Procs \ {p} : handles'[q] = handles[q]
  BY <1>2, <1>3, <1>6
<1>9. /\ pools' \in [Procs -> [PoolIds -> Pools]] /\ pools'[p][id] = made
      /\ \A i \in PoolIds \ {id} : pools'[p][i] = pools[p][i]
      /\ \A q \in Procs \ {p} : pools'[q] = pools[q]
  BY <1>2, <1>3, <1>7
<1>10. PoolsOK(p)'
  <2>1. ASSUME NEW i \in PoolIds
        PROVE  pools'[p][i].storage + pools'[p][i].size <= mm'[p].sbrk
    <3>1. CASE i = id
      BY <1>6, <1>7, <1>9, <3>1
    <3>2. CASE i # id
      <4>1. /\ pools[p][i].storage \in Nat /\ pools[p][i].size \in Nat
            /\ pools[p][i].storage + pools[p][i].size <= mm[p].sbrk
        BY <1>3 DEF PoolsOK, Pools
      <4> QED
        BY <1>4, <1>9, <3>2, <4>1
    <3> QED
      BY <3>1, <3>2
  <2> QED
    BY <2>1 DEF PoolsOK
<1>11. /\ variable \in Owners /\ pool \in Owners /\ pool # variable
       /\ \A x \in Owners \ {variable, pool} : Holds(p, x)' = Holds(p, x)
  <2>1. ASSUME NEW i \in Rgids, i # id
        PROVE  Holds(p, <<"variable", i>>)' = Holds(p, <<"variable", i>>)
    <3>1. OnlyIndex(p, id)
      BY <1>6, <1>8 DEF OnlyIndex
    <3> QED
      BY <2>1, <3>1, OtherVariables, Zenon
  <2>2. ASSUME NEW i \in PoolIds, i # id
        PROVE  Holds(p, <<"pool", i>>)' = Holds(p, <<"pool", i>>)
    <3>1. pools'[p][i] = pools[p][i]
      BY <1>9, <2>2
    <3> QED
      BY <3>1, HoldsIs, HoldsThen
  <2>3. ASSUME NEW x \in Owners \ {variable, pool} PROVE Holds(p, x)' = Holds(p, x)
    <3>1. CASE \E i \in Rgids : x = <<"variable", i>>
      BY <2>1, <3>1
    <3>2. CASE \E i \in PoolIds : x = <<"pool", i>>
      BY <2>2, <3>2
    <3> QED
      BY <3>1, <3>2, OwnersAre
  <2> QED
    BY <1>1, <2>3, OwnersAre
<1>12. A(p)!Next /\ (p \notin misused => A(p)!OneOwner')
  <2>1. CASE rg.start = 0
    <3>1. Holds(p, variable)' = Bytes(rg)
      BY <1>6, <1>8, <2>1, HoldsThen
    <3>2. Holds(p, pool)' = {}
      BY <1>7, <1>9, <2>1, HoldsThen DEF Unspent
    <3> HIDE DEF variable, pool
    <3> QED
      BY <1>1, <1>4, <1>5, <1>11, <3>1, <3>2, GivesStep
  <2>2. CASE rg.start # 0
    <3>1. Holds(p, variable)' = {}
      BY <1>8, <2>2, HoldsThen
    <3>2. Holds(p, pool)' = Unspent(made)
      BY <1>9, HoldsThen
    <3>3. Unspent(made) = rg.start..(rg.start + whole - 1)
      BY <1>7, <2>2 DEF Unspent
    <3>4. rg.start + whole - 1 = rg.end - 1
      BY <1>1, <1>6
    <3>5. Unspent(made) = Bytes(rg)
      BY <3>3, <3>4 DEF Bytes
    <3> HIDE DEF variable, pool
    <3>6. \A x \in Owners \ {pool, variable} : Holds(p, x)' = Holds(p, x)
      BY <1>11
    <3> QED
      BY <1>1, <1>4, <1>5, <1>11, <3>1, <3>2, <3>5, <3>6, GivesStep
  <2> QED
    BY <2>1, <2>2
<1> QED
  BY <1>2, <1>3, <1>4, <1>8, <1>9, <1>10, <1>12, OneProcessSteps DEF SameFor

(* Nobody owns an address at first *)
LEMMA KmemInvInit == KmemInit => KmemInv /\ \A p \in Procs : A(p)!Init
<1> SUFFICES ASSUME KmemInit PROVE KmemInv /\ \A p \in Procs : A(p)!Init
  OBVIOUS
<1>1. /\ MmInv /\ misused \subseteq Procs
      /\ pools = [p \in Procs |-> [id \in PoolIds |-> NoPool]]
      /\ handles = [p \in Procs |-> {}]
  BY MmInvInit DEF KmemInit
<1>2. /\ pools \in [Procs -> [PoolIds -> Pools]]
      /\ handles \in [Procs -> SUBSET PoolIds]
  BY <1>1 DEF NoPool, Pools
<1>3. ASSUME NEW p \in Procs PROVE PoolsOK(p) /\ A(p)!OneOwner /\ A(p)!Init
  <2> DEFINE list == <<NoRegion>>
             table == [id \in Rgids |-> NoRegion]
             r == [vm_end |-> 0, sbrk |-> 0, freerg |-> list, symrg |-> table]
  <2>1. mm[p] = r
    BY DEF KmemInit, MmInit
  <2>2. ToSet(list) = {NoRegion} /\ \A id \in Rgids : table[id] = NoRegion
    BY DEF ToSet
  <2> HIDE DEF list, table
  <2>3. mm[p].sbrk = 0 /\ mm[p].freerg = list /\ mm[p].symrg = table
    BY <2>1
  <2>4. Bytes(NoRegion) = {}
    BY DEF Bytes, NoRegion
  <2>5. FreeBytes(p) = {}
    BY <2>2, <2>3, <2>4 DEF FreeBytes
  <2>6. \A id \in PoolIds : pools[p][id].storage = 0 /\ pools[p][id].size = 0
    BY <1>1 DEF NoPool
  <2>7. ASSUME NEW o \in Owners PROVE Holds(p, o) = {}
    <3>1. CASE \E id \in Rgids : o = <<"variable", id>>
      BY <2>2, <2>3, <2>4, <3>1, HoldsIs
    <3>2. CASE \E id \in PoolIds : o = <<"pool", id>>
      BY <2>6, <3>2, HoldsIs DEF Unspent
    <3> QED
      BY <3>1, <3>2, OwnersAre
  <2>8. PoolsOK(p)
    BY <2>3, <2>6 DEF PoolsOK
  <2>9. A(p)!OneOwner
    BY <2>7 DEF A!OneOwner
  <2>10. A(p)!Init
    BY <2>3, <2>5, <2>7 DEF A!Init
  <2> QED
    BY <2>8, <2>9, <2>10
<1> QED
  BY <1>1, <1>2, <1>3 DEF KmemInv

(* Every instruction keeps the invariant and is a step of the abstract allocators *)
LEMMA KmemStep == KmemInv /\ [KmemNext]_kvars => KmemInv' /\ [AreasImplement]_kvars
<1> SUFFICES ASSUME KmemInv, [KmemNext]_kvars PROVE KmemInv' /\ [AreasImplement]_kvars
  OBVIOUS
<1>1. Sizes \subseteq Nat \ {0}
  BY RegionsAssumption
<1>2. ASSUME NEW p \in Procs, NEW id \in Rgids, NEW size \in Sizes, AllocVariable(p, id, size)
      PROVE  KmemInv' /\ AreasImplement
  BY <1>1, <1>2, AllocVariableStep
<1>3. ASSUME NEW p \in Procs, NEW id \in Rgids, FreeVariable(p, id)
      PROVE  KmemInv' /\ AreasImplement
  BY <1>3, FreeVariableStep
<1>4. ASSUME NEW p \in Procs, NEW id \in Rgids, NEW pool \in PoolIds, CacheAlloc(p, pool, id)
      PROVE  KmemInv' /\ AreasImplement
  BY <1>4, CacheAllocStep
<1>5. ASSUME NEW p \in Procs, NEW id \in PoolIds, NEW size \in PoolSizes, NEW align \in Aligns,
             PoolCreate(p, id, size, align)
      PROVE  KmemInv' /\ AreasImplement
  BY <1>5, PoolCreateStep
<1>6. CASE UNCHANGED kvars
  <2>1. \A p \in Procs : SameFor(p)
    BY <1>6 DEF kvars, SameFor
  <2>2. \A p \in Procs : PoolsOK(p)' /\ (A(p)!OneOwner => A(p)!OneOwner')
    BY <2>1, OthersKeep
  <2>3. MmInv'
    BY <1>6 DEF kvars, KmemInv, MmInv
  <2> QED
    BY <1>6, <2>2, <2>3 DEF KmemInv, kvars
<1> QED
  BY <1>2, <1>3, <1>4, <1>5, <1>6 DEF KmemNext

(* The invariant that the theorems below rest on: beside the areas, pools end
   inside the area of their process and no address has two owners. *)
LEMMA KmemInductive == KmemSpec => [](KmemInv)
<1>1. KmemInit => KmemInv
  BY KmemInvInit
<1>2. KmemInv /\ [KmemNext]_kvars => KmemInv'
  BY KmemStep
<1> QED
  BY <1>1, <1>2, PTL DEF KmemSpec

(* TLC checks it as the type invariant of the memory instructions *)
THEOREM KmemTypes == KmemSpec => []KmemTypeOK
<1>1. KmemInv => KmemTypeOK
  BY MmTypeIs DEF KmemInv, KmemTypeOK, MmInv, Pools
<1> QED
  BY <1>1, KmemInductive, PTL

(* After every __alloc and __free the free regions are sorted and do not touch:
   merge_free_regions has joined the neighbours, so that no allocation fails
   because a gap is split between two of them. *)
THEOREM FreeListStaysMerged == KmemSpec => []FreeListSeparated
<1>1. KmemInv => FreeListSeparated
  BY MmInvIs DEF KmemInv
<1> QED
  BY <1>1, KmemInductive, PTL

(* __alloc, __kmalloc, libkmem_cache_pool_create and __kmem_cache_alloc hand out
   addresses that no variable and no pool of the process has, and that are not
   on its free list, as long as the program does not free a variable that a pool
   lies in. *)
THEOREM OwnersStayDisjoint == KmemSpec => []OwnersDisjoint
<1>1. KmemInv => OwnersDisjoint
  <2> SUFFICES ASSUME KmemInv, NEW p \in Procs \ misused
               PROVE  /\ A(p)!OneOwner
                      /\ \A o \in Owners : \A a \in Holds(p, o) : a < mm[p].sbrk
                      /\ \A rg \in ToSet(mm[p].freerg) : rg.end <= mm[p].sbrk
                      /\ mm[p].sbrk <= mm[p].vm_end
    BY DEF OwnersDisjoint
  <2>1. A(p)!OneOwner
    BY DEF KmemInv
  <2>2. ASSUME NEW o \in Owners, NEW a \in Holds(p, o) PROVE a < mm[p].sbrk
    <3>1. mm[p].sbrk \in Nat /\ a \in 0..(mm[p].sbrk - 1)
      BY BelowBreak
    <3> QED
      BY <3>1
  <2>3. AreaOK(mm[p])
    BY DEF KmemInv, MmInv
  <2> QED
    BY <2>1, <2>2, <2>3 DEF AreaOK
<1> QED
  BY <1>1, KmemInductive, PTL

(* The areas, free lists and symbol tables of libmem.c implement Allocator.tla:
   every instruction is, for the one process that runs it, a step of the abstract
   allocator or none that it can tell. *)
THEOREM AreasImplementAllocator == KmemSpec => ImplementsAllocator
<1>1. KmemInit => \A p \in Procs : A(p)!Init
  BY KmemInvInit
<1>2. KmemInv /\ [KmemNext]_kvars
      => [\A p \in Procs \ misused' : [A(p)!Next]_(A(p)!vars)]_kvars
  BY KmemStep DEF AreasImplement
<1> QED
  BY <1>1, <1>2, KmemInductive, PTL DEF KmemSpec, ImplementsAllocator
-----------------------------------------------------------------------------
(* Copies *)

(* Both regions have byte j of the copy, and paging can reach it *)
CanMove(p, source, destination, offset, unreachable, j) ==
  /\ Reaches(p, source, offset + j)
  /\ Reaches(p, destination, offset + j)
  /\ Address(p, source, offset + j) \notin unreachable
  /\ Address(p, destination, offset + j) \notin unreachable

Moved(p, source, destination, offset, size, unreachable) ==
  {k \in 0..(size - 1) : \A j \in 0..k :
     CanMove(p, source, destination, offset, unreachable, j)}

(* The memory after the bytes in moved were copied from start a to start b *)
Shifted(moved, a, b, offset) ==
  [x \in 0..MaxBrk |-> IF \E k \in moved : x = b + (offset + k) THEN x + a - b ELSE x]

(* The address that byte n is read from is not one that an earlier byte went to *)
NotYet(a, b, offset, n) ==
  \A k \in 0..(n - 1) : a # b => a + (offset + n) # b + (offset + k)

MoveByte(bytes, from, to) == [bytes EXCEPT ![to] = bytes[from]]

(* A byte that can be moved is moved *)
LEMMA ShiftOne ==
    ASSUME NEW a \in Nat, NEW b \in Nat, NEW offset \in Nat, NEW n \in Nat,
           a + (offset + n) <= MaxBrk, b + (offset + n) <= MaxBrk,
           NotYet(a, b, offset, n)
    PROVE  MoveByte(Shifted(0..(n - 1), a, b, offset), a + (offset + n), b + (offset + n))
           = Shifted(0..n, a, b, offset)
<1> DEFINE old == Shifted(0..(n - 1), a, b, offset)
           new == Shifted(0..n, a, b, offset)
           from == a + (offset + n)
           to == b + (offset + n)
<1>1. MaxBrk \in Nat /\ from \in 0..MaxBrk /\ to \in 0..MaxBrk
  BY RegionsAssumption
<1>2. old[from] = from
  <2>1. CASE \E k \in 0..(n - 1) : from = b + (offset + k)
    <3>1. a = b
      BY <2>1 DEF NotYet
    <3> QED
      BY <1>1, <3>1 DEF Shifted
  <2>2. CASE ~ \E k \in 0..(n - 1) : from = b + (offset + k)
    BY <1>1, <2>2 DEF Shifted
  <2> QED
    BY <2>1, <2>2
<1>3. new[to] = from
  <2>1. n \in 0..n /\ to + a - b = from
    OBVIOUS
  <2> QED
    BY <1>1, <2>1 DEF Shifted
<1>4. ASSUME NEW x \in 0..MaxBrk, x # to PROVE new[x] = old[x]
  <2>1. (\E k \in 0..n : x = b + (offset + k)) <=> (\E k \in 0..(n - 1) : x = b + (offset + k))
    BY <1>4
  <2> QED
    BY <2>1 DEF Shifted
<1>5. DOMAIN old = 0..MaxBrk /\ old = [x \in 0..MaxBrk |-> old[x]]
      /\ new = [x \in 0..MaxBrk |-> new[x]]
  BY DEF Shifted
<1> HIDE DEF old, new, from, to
<1>6. MoveByte(old, from, to) = new
  BY <1>1, <1>2, <1>3, <1>4, <1>5 DEF MoveByte
<1> QED
  BY <1>6 DEF old, new, from, to

(* The regions of a copy: they are the same or share no address *)
CopyRegions(p, source, destination) ==
  /\ mm[p].symrg[source] \in Region /\ mm[p].symrg[source].end <= MaxBrk
  /\ mm[p].symrg[destination] \in Region /\ mm[p].symrg[destination].end <= MaxBrk
  /\ \/ source = destination
     \/ Bytes(mm[p].symrg[source]) \cap Bytes(mm[p].symrg[destination]) = {}

(* The record of a copy: memory and whether no byte has failed *)
Memory(bytes, ok) == [bytes |-> bytes, ok |-> ok]
Memories(X) == [bytes : X, ok : BOOLEAN]
WithBytes(at, bytes) == [at EXCEPT !.bytes = bytes]
WithOk(at, ok) == [at EXCEPT !.ok = ok]

LEMMA MemoryIs ==
    ASSUME NEW X, NEW at \in Memories(X)
    PROVE  /\ at = Memory(at.bytes, at.ok) /\ at.bytes \in X /\ at.ok \in BOOLEAN
           /\ \A bytes : WithBytes(at, bytes) = Memory(bytes, at.ok)
           /\ WithOk(at, FALSE) = Memory(at.bytes, FALSE)
<1>1. PICK x \in X, y \in BOOLEAN : at = [bytes |-> x, ok |-> y]
  BY DEF Memories
<1>2. \A z : WithBytes(at, z) = [bytes |-> z, ok |-> y]
  BY ONLY <1>1, SMT DEF WithBytes
<1>3. \A z : WithOk(at, z) = [bytes |-> x, ok |-> z]
  BY ONLY <1>1, SMT DEF WithOk
<1>4. at.bytes = x /\ at.ok = y
  BY <1>1
<1>5. WithOk(at, FALSE) = [bytes |-> x, ok |-> FALSE]
  BY <1>3
<1> QED
  BY <1>1, <1>2, <1>4, <1>5 DEF Memory

(* One turn of the loop, with the address of its two bytes *)
LEMMA CopyByteIs ==
    ASSUME NEW p, NEW source, NEW destination, NEW unreachable, NEW at, NEW offset, NEW n
    PROVE  CopyByte(p, source, destination, unreachable, at, offset + n)
           = IF at.ok /\ CanMove(p, source, destination, offset, unreachable, n)
             THEN WithBytes(at, MoveByte(at.bytes, Address(p, source, offset + n),
                                         Address(p, destination, offset + n)))
             ELSE WithOk(at, FALSE)
<1> DEFINE k == offset + n
           from == Address(p, source, k)
           to == Address(p, destination, k)
           able == at.ok /\ CanMove(p, source, destination, offset, unreachable, n)
<1> HIDE DEF k
<1>1. able <=> /\ at.ok /\ Reaches(p, source, k) /\ Reaches(p, destination, k)
               /\ {from, to} \cap unreachable = {}
  BY DEF CanMove, k
<1> HIDE DEF able, from, to
<1>2. CASE able
  <2>1. CopyByte(p, source, destination, unreachable, at, k)
        = [at EXCEPT !.bytes = [at.bytes EXCEPT ![to] = at.bytes[from]]]
    BY <1>1, <1>2 DEF CopyByte, from, to
  <2>2. CopyByte(p, source, destination, unreachable, at, k)
        = WithBytes(at, MoveByte(at.bytes, from, to))
    BY <2>1, Zenon DEF WithBytes, MoveByte
  <2> QED
    BY <1>2, <2>2 DEF able, from, to, k
<1>3. CASE ~able
  <2>1. CopyByte(p, source, destination, unreachable, at, k) = [at EXCEPT !.ok = FALSE]
    BY <1>1, <1>3 DEF CopyByte, from, to
  <2>2. CopyByte(p, source, destination, unreachable, at, k) = WithOk(at, FALSE)
    BY <2>1, Zenon DEF WithOk
  <2> QED
    BY <1>3, <2>2 DEF able, k
<1> QED
  BY <1>2, <1>3

Copied(p, source, destination, offset, size, unreachable) ==
  LET moved == Moved(p, source, destination, offset, size, unreachable)
  IN Memory(Shifted(moved, mm[p].symrg[source].start, mm[p].symrg[destination].start, offset),
            moved = 0..(size - 1))

(* copy_from_user, copy_to_user: one byte more *)
LEMMA CopyMore ==
    ASSUME NEW p, NEW source, NEW destination, CopyRegions(p, source, destination),
           NEW offset \in Nat, NEW unreachable, NEW n \in Nat
    PROVE  CopyByte(p, source, destination, unreachable,
                    Copied(p, source, destination, offset, n, unreachable), offset + n)
           = Copied(p, source, destination, offset, n + 1, unreachable)
<1> DEFINE a == mm[p].symrg[source].start
           b == mm[p].symrg[destination].start
           Can(j) == CanMove(p, source, destination, offset, unreachable, j)
           M(k) == Moved(p, source, destination, offset, k, unreachable)
           at == Copied(p, source, destination, offset, n, unreachable)
           X == {Shifted(M(n), a, b, offset)}
<1>1. /\ a \in Nat /\ b \in Nat /\ MaxBrk \in Nat
      /\ mm[p].symrg[source].end \in Nat /\ mm[p].symrg[destination].end \in Nat
  BY RegionIs, RegionsAssumption DEF CopyRegions
<1>2. /\ at.bytes = Shifted(M(n), a, b, offset) /\ (at.ok <=> M(n) = 0..(n - 1))
      /\ at \in Memories(X)
  BY DEF Copied, Memory, Memories
<1>3. /\ Address(p, source, offset + n) = a + (offset + n)
      /\ Address(p, destination, offset + n) = b + (offset + n)
  BY <1>1 DEF Address
<1>4. /\ \A bytes : WithBytes(at, bytes) = Memory(bytes, at.ok)
      /\ WithOk(at, FALSE) = Memory(at.bytes, FALSE)
  <2> HIDE DEF at, X
  <2> QED
    BY <1>2, MemoryIs
<1>5. (n + 1) - 1 = n /\ \A k \in 0..n : \A j \in 0..k : j \in 0..n
  <2>1. ASSUME NEW k \in 0..n, NEW j \in 0..k PROVE j \in 0..n
    OBVIOUS
  <2> QED
    BY <2>1
<1>6. CASE at.ok /\ Can(n)
  <2>1. M(n) = 0..(n - 1)
    BY <1>2, <1>6
  <2>2. \A j \in 0..n : Can(j)
    <3>1. ASSUME NEW j \in 0..(n - 1) PROVE Can(j)
      <4>1. j \in M(n) /\ j \in 0..j
        BY <2>1
      <4> QED
        BY <4>1 DEF Moved
    <3>2. \A j \in 0..n : j \in 0..(n - 1) \/ j = n
      OBVIOUS
    <3> HIDE DEF Can
    <3> QED
      BY <1>6, <3>1, <3>2
  <2>3. M(n + 1) = 0..n
    BY <1>5, <2>2 DEF Moved
  <2>4. /\ a + (offset + n) <= MaxBrk /\ b + (offset + n) <= MaxBrk
        /\ a + (offset + n) < mm[p].symrg[source].end
    BY <1>1, <1>6 DEF CanMove, Reaches, CopyRegions
  <2>5. ASSUME NEW k \in 0..(n - 1), a # b PROVE a + (offset + n) # b + (offset + k)
    <3>1. source # destination
      BY <2>5
    <3>2. b + (offset + k) < mm[p].symrg[destination].end
      <4>1. Can(k)
        BY <2>2
      <4> QED
        BY <1>1, <4>1 DEF CanMove, Reaches
    <3>3. a + (offset + n) \in Bytes(mm[p].symrg[source])
      BY <1>1, <2>4 DEF Bytes
    <3>4. b + (offset + k) \in Bytes(mm[p].symrg[destination])
      BY <1>1, <3>2 DEF Bytes
    <3> QED
      BY <3>1, <3>3, <3>4 DEF CopyRegions
  <2>6. MoveByte(at.bytes, a + (offset + n), b + (offset + n)) = Shifted(0..n, a, b, offset)
    <3>1. at.bytes = Shifted(0..(n - 1), a, b, offset)
      BY <1>2, <2>1
    <3>2. NotYet(a, b, offset, n)
      BY <2>5 DEF NotYet
    <3> HIDE DEF a, b, at
    <3> QED
      BY <1>1, <2>4, <3>1, <3>2, ShiftOne
  <2>7. CopyByte(p, source, destination, unreachable, at, offset + n)
        = WithBytes(at, Shifted(0..n, a, b, offset))
    <3> HIDE DEF a, b, at
    <3> QED
      BY <1>3, <1>6, <2>6, CopyByteIs
  <2>8. CopyByte(p, source, destination, unreachable, at, offset + n)
        = Memory(Shifted(0..n, a, b, offset), TRUE)
    <3>1. at.ok = TRUE
      BY <1>6 DEF Copied, Memory
    <3> HIDE DEF a, b, at
    <3> QED
      BY <1>4, <2>7, <3>1
  <2>9. Copied(p, source, destination, offset, n + 1, unreachable)
        = Memory(Shifted(0..n, a, b, offset), TRUE)
    BY <1>5, <2>3 DEF Copied
  <2> QED
    BY <2>8, <2>9
<1>7. CASE ~(at.ok /\ Can(n))
  <2>1. \E j \in 0..n : ~Can(j)
    <3>1. CASE ~Can(n)
      BY <3>1
    <3>2. CASE ~at.ok
      <4>1. PICK k \in 0..(n - 1) : k \notin M(n)
        BY <1>2, <3>2 DEF Moved
      <4>2. PICK j \in 0..k : ~Can(j)
        BY <4>1 DEF Moved
      <4> QED
        BY <4>2
    <3> QED
      BY <1>7, <3>1, <3>2
  <2>2. n \notin M(n + 1)
    BY <2>1 DEF Moved
  <2>3. M(n + 1) = M(n)
    <3>1. \A k : k \in M(n + 1) <=> k \in 0..n /\ \A j \in 0..k : Can(j)
      BY <1>5 DEF Moved
    <3>2. \A k : k \in M(n) <=> k \in 0..(n - 1) /\ \A j \in 0..k : Can(j)
      BY DEF Moved
    <3>3. \A k : k \in 0..n <=> k \in 0..(n - 1) \/ k = n
      OBVIOUS
    <3> HIDE DEF M, Can
    <3> QED
      BY <2>2, <3>1, <3>2, <3>3
  <2>4. M(n + 1) # 0..((n + 1) - 1)
    <3>1. n \in 0..n
      OBVIOUS
    <3> QED
      BY <1>5, <2>2, <3>1
  <2>5. Copied(p, source, destination, offset, n + 1, unreachable) = Memory(at.bytes, FALSE)
    <3>1. (M(n + 1) = 0..((n + 1) - 1)) = FALSE
      BY <2>4
    <3>2. Shifted(M(n + 1), a, b, offset) = at.bytes
      BY <1>2, <2>3
    <3> HIDE DEF at
    <3> QED
      BY <3>1, <3>2 DEF Copied
  <2>6. CopyByte(p, source, destination, unreachable, at, offset + n) = Memory(at.bytes, FALSE)
    <3> HIDE DEF at
    <3> QED
      BY <1>4, <1>7, CopyByteIs
  <2> QED
    BY <2>5, <2>6
<1> QED
  BY <1>6, <1>7

(* The copy moves exactly the bytes before the first that cannot move *)
CopyMovesPrefix(p, source, destination, offset, size, unreachable) ==
    Copy(p, source, destination, offset, size, unreachable, [x \in 0..MaxBrk |-> x])
    = Copied(p, source, destination, offset, size, unreachable)

(* The loop over the bytes of a copy *)
LEMMA CopyIs ==
    ASSUME NEW p, NEW source, NEW destination, CopyRegions(p, source, destination),
           NEW offset \in Nat, NEW size \in Nat, NEW unreachable
    PROVE  CopyMovesPrefix(p, source, destination, offset, size, unreachable)
<1> DEFINE X == [0..MaxBrk -> 0..MaxBrk]
           T == Memories(X)
           memory == [x \in 0..MaxBrk |-> x]
           base == [bytes |-> memory, ok |-> TRUE]
           Step(at, i) == CopyByte(p, source, destination, unreachable, at, offset + i - 1)
           E == Nat \ {0}
           f == [x \in T \X E |-> Step(x[1], x[2])]
           list == [i \in 1..size |-> i]
           D == DOMAIN list
           Is(g) == g = [S \in SUBSET D |-> IF S = {} THEN base
                                            ELSE Step(g[S \ {Max(S)}], list[Max(S)])]
           iter == CHOOSE g : Is(g)
           R(n) == Copied(p, source, destination, offset, n, unreachable)
<1>1. Copy(p, source, destination, offset, size, unreachable, memory) = iter[D]
  BY Zenon DEF Copy, FoldLeft, MapThenFoldSet
<1>2. /\ D = 1..size /\ list \in Seq(E) /\ Len(list) = size
      /\ \A i \in 1..size : list[i] = i /\ i \in E
  OBVIOUS
<1>3. base \in T
  BY DEF Memories
<1>4. ASSUME NEW at, NEW i \in E
      PROVE  Step(at, i) = CopyByte(p, source, destination, unreachable, at, offset + (i - 1))
  <2>1. offset + i - 1 = offset + (i - 1)
    OBVIOUS
  <2> QED
    BY <2>1
<1>5. f \in [T \X E -> T]
  <2>1. ASSUME NEW at \in T, NEW i \in E PROVE Step(at, i) \in T
    <3> DEFINE n == i - 1
               from == Address(p, source, offset + n)
               to == Address(p, destination, offset + n)
               new == MoveByte(at.bytes, from, to)
    <3>1. n \in Nat /\ offset + n \in Nat
      OBVIOUS
    <3>2. Step(at, i) = CopyByte(p, source, destination, unreachable, at, offset + n)
      BY <1>4
    <3> HIDE DEF Step, T, n, from, to, new
    <3>3. /\ at = Memory(at.bytes, at.ok) /\ at.bytes \in X /\ at.ok \in BOOLEAN
          /\ \A bytes : WithBytes(at, bytes) = Memory(bytes, at.ok)
          /\ WithOk(at, FALSE) = Memory(at.bytes, FALSE)
      <4> HIDE DEF X
      <4> QED
        BY MemoryIs DEF T
    <3>4. \A bytes \in X, ok \in BOOLEAN : Memory(bytes, ok) \in T
      BY DEF Memory, Memories, T
    <3>5. CASE at.ok /\ CanMove(p, source, destination, offset, unreachable, n)
      <4>1. Step(at, i) = Memory(new, at.ok)
        BY <3>2, <3>3, <3>5, CopyByteIs DEF new, from, to
      <4>2. from \in 0..MaxBrk
        <5>1. /\ mm[p].symrg[source].start \in Nat /\ MaxBrk \in Nat
              /\ mm[p].symrg[source].end \in Nat /\ mm[p].symrg[source].end <= MaxBrk
          BY RegionIs, RegionsAssumption DEF CopyRegions
        <5>2. Reaches(p, source, offset + n)
          BY <3>5 DEF CanMove
        <5> QED
          BY <3>1, <5>1, <5>2 DEF Reaches, Address, from
      <4>3. new \in X
        BY <3>3, <4>2 DEF MoveByte, new
      <4> QED
        BY <3>3, <3>4, <4>1, <4>3
    <3>6. CASE ~(at.ok /\ CanMove(p, source, destination, offset, unreachable, n))
      <4>1. Step(at, i) = Memory(at.bytes, FALSE)
        <5>1. CopyByte(p, source, destination, unreachable, at, offset + n) = WithOk(at, FALSE)
          BY <3>6, CopyByteIs
        <5> QED
          BY <3>2, <3>3, <5>1
      <4> QED
        BY <3>3, <3>4, <4>1
    <3> QED
      BY <3>5, <3>6
  <2> HIDE DEF Step, T, E
  <2> QED
    BY <2>1
<1> HIDE DEF T, X
<1>6. PICK g \in [SUBSET (1..size) -> T] : FoldOn(g, size, f, base, list)
  <2> HIDE DEF f, list, base, E
  <2> QED
    BY <1>2, <1>3, <1>5, FoldExists DEF HasFold
<1> HIDE DEF Step, base, E
<1>7. Is(g)
  <2>1. ASSUME NEW S \in SUBSET (1..size), S # {}
        PROVE  g[S] = Step(g[S \ {Max(S)}], list[Max(S)])
    <3>1. Max(S) \in 1..size
      BY <2>1, MaxIsIn
    <3>2. S \ {Max(S)} \in SUBSET (1..size) /\ g[S] = f[<<g[S \ {Max(S)}], list[Max(S)]>>]
      BY <1>6, <2>1 DEF FoldOn
    <3>3. g[S \ {Max(S)}] \in T /\ list[Max(S)] \in E
      BY <1>2, <1>6, <3>1, <3>2
    <3> QED
      BY <3>2, <3>3
  <2>2. \A S \in SUBSET (1..size) :
           g[S] = IF S = {} THEN base ELSE Step(g[S \ {Max(S)}], list[Max(S)])
    BY <1>6, <2>1 DEF FoldOn
  <2> HIDE DEF list
  <2> QED
    BY <1>2, <1>6, <2>2
<1>8. Is(iter)
  BY <1>7, ZenonT(30)
<1> DEFINE w == [k \in 0..size |-> iter[1..k]]
<1>9. w[0] = base
  <2>1. 1..0 = {} /\ {} \in SUBSET D /\ 0 \in 0..size
    BY <1>2
  <2> HIDE DEF iter
  <2> QED
    BY <1>8, <2>1
<1>10. ASSUME NEW k \in 1..size PROVE w[k] = Step(w[k - 1], k)
  <2>1. /\ k \in 0..size /\ k - 1 \in 0..size /\ 1..k \in SUBSET D
        /\ Max(1..k) = k /\ (1..k) \ {k} = 1..(k - 1) /\ 1..k # {} /\ list[k] = k
    BY <1>2, Initials
  <2>2. iter[1..k] = Step(iter[(1..k) \ {Max(1..k)}], list[Max(1..k)])
    <3> HIDE DEF iter, list
    <3> QED
      BY <1>8, <2>1
  <2> HIDE DEF iter, list
  <2> QED
    BY <2>1, <2>2
<1>11. w[size] = iter[D]
  BY <1>2
<1> HIDE DEF w, list, iter
<1> DEFINE G == {k \in 0..size : w[k] = R(k)}
<1>12. 0 \in G
  <2>1. base = R(0)
    <3>1. Moved(p, source, destination, offset, 0, unreachable) = {} /\ 0..(0 - 1) = {}
      BY DEF Moved
    <3>2. Shifted({}, mm[p].symrg[source].start, mm[p].symrg[destination].start, offset) = memory
      BY DEF Shifted
    <3> HIDE DEF memory
    <3> QED
      BY <3>1, <3>2 DEF Copied, Memory, base
  <2> QED
    BY <1>9, <2>1
<1>13. ASSUME NEW k \in 1..size, k - 1 \in G PROVE k \in G
  <2> DEFINE n == k - 1
  <2>1. w[k] = Step(R(n), k)
    BY <1>10, <1>13
  <2>2. n \in Nat /\ k = n + 1 /\ k \in E
    BY DEF E
  <2>3. Step(R(n), k) = R(n + 1)
    <3>1. Step(R(n), k) = CopyByte(p, source, destination, unreachable, R(n), offset + n)
      BY <1>4, <2>2
    <3> HIDE DEF n
    <3> QED
      BY <2>2, <3>1, CopyMore
  <2> HIDE DEF R
  <2> QED
    BY <2>1, <2>2, <2>3
<1>14. size \in G
  <2> HIDE DEF G
  <2>1. 0..size \subseteq G
    BY <1>12, <1>13, UpTo
  <2> QED
    BY <2>1
<1> QED
  BY <1>1, <1>11, <1>14, Zenon DEF CopyMovesPrefix

(* copy_from_user and copy_to_user *)
THEOREM CopiesArePrefixes == KmemSpec => []CopyIsPrefix
<1>1. ASSUME KmemInv, NEW p \in Procs \ misused,
             NEW source \in Rgids \ handles[p], NEW destination \in Rgids \ handles[p]
      PROVE  CopyRegions(p, source, destination)
  <2>1. AreaOK(mm[p]) /\ mm[p].symrg \in [Rgids -> Region]
    BY <1>1 DEF KmemInv, MmInv, Areas
  <2>2. mm[p].sbrk \in 0..MaxBrk /\ MaxBrk \in Nat
    BY <1>1, RegionsAssumption DEF KmemInv, MmInv, Areas
  <2>3. ASSUME NEW id \in Rgids
        PROVE  mm[p].symrg[id] \in Region /\ mm[p].symrg[id].end <= MaxBrk
    <3>1. mm[p].symrg[id] \in Region /\ mm[p].symrg[id].end <= mm[p].sbrk
      BY <2>1 DEF AreaOK
    <3> QED
      BY <2>2, <3>1, RegionIs
  <2>4. CASE source # destination
    <3>1. Holds(p, <<"variable", source>>) \cap Holds(p, <<"variable", destination>>) = {}
      <4>1. A(p)!OneOwner
        BY <1>1 DEF KmemInv
      <4>2. /\ <<"variable", source>> \in Owners /\ <<"variable", destination>> \in Owners
            /\ <<"variable", source>> # <<"variable", destination>>
        BY <2>4, OwnersAre
      <4> QED
        BY <4>1, <4>2 DEF A!OneOwner
    <3> QED
      BY <2>3, <3>1, HoldsIs DEF CopyRegions
  <2> QED
    BY <2>3, <2>4 DEF CopyRegions
<1>2. KmemInv => CopyIsPrefix
  <2> SUFFICES ASSUME KmemInv, NEW p \in Procs \ misused,
                      NEW source \in Rgids \ handles[p], NEW destination \in Rgids \ handles[p],
                      NEW offset \in 0..1, NEW unreachable \in {{}, {MaxBrk - 1}}
               PROVE  LET size == 2
                          moved == Moved(p, source, destination, offset, size, unreachable)
                      IN Copy(p, source, destination, offset, size, unreachable,
                              [a \in 0..MaxBrk |-> a])
                         = [bytes |-> [a \in 0..MaxBrk |->
                              IF \E k \in moved : a = Address(p, destination, offset + k)
                              THEN a + Address(p, source, 0) - Address(p, destination, 0)
                              ELSE a],
                            ok |-> moved = 0..(size - 1)]
    BY Zenon DEF CopyIsPrefix, Moved, CanMove
  <2> DEFINE s == mm[p].symrg[source].start
             d == mm[p].symrg[destination].start
             moved == Moved(p, source, destination, offset, 2, unreachable)
  <2>1. CopyRegions(p, source, destination)
    BY <1>1
  <2>2. s \in Nat /\ d \in Nat
    BY <2>1, RegionIs DEF CopyRegions
  <2>3. Copy(p, source, destination, offset, 2, unreachable, [a \in 0..MaxBrk |-> a])
        = Copied(p, source, destination, offset, 2, unreachable)
    <3>1. offset \in Nat /\ 2 \in Nat
      OBVIOUS
    <3>2. CopyMovesPrefix(p, source, destination, offset, 2, unreachable)
      BY <2>1, <3>1, CopyIs
    <3> QED
      BY <3>2, Zenon DEF CopyMovesPrefix
  <2>4. Address(p, source, 0) = s /\ Address(p, destination, 0) = d
    BY <2>2 DEF Address
  <2>5. \A k : Address(p, destination, offset + k) = d + (offset + k)
    BY DEF Address
  <2>6. Shifted(moved, s, d, offset)
        = [a \in 0..MaxBrk |->
             IF \E k \in moved : a = Address(p, destination, offset + k)
             THEN a + Address(p, source, 0) - Address(p, destination, 0)
             ELSE a]
    <3> HIDE DEF s, d, moved
    <3> QED
      BY <2>4, <2>5 DEF Shifted
  <2> QED
    BY <2>3, <2>6 DEF Copied, Memory
<1> QED
  BY <1>2, KmemInductive, PTL

-----------------------------------------------------------------------------
(* The abstract allocator itself *)

(* Everything held or spare lies below the top: what Extend hands out is new *)
BelowTop(held, spare, top) ==
  /\ top \in Nat
  /\ held \in [Owners -> SUBSET (0..(top - 1))]
  /\ spare \in SUBSET (0..(top - 1))

Apart(held, spare) ==
  /\ \A o \in Owners : held[o] \cap spare = {}
  /\ \A o, other \in Owners : o # other => held[o] \cap held[other] = {}

(* BelowTop makes OneOwner inductive: without it a new region could overlap one
   handed out before *)
AllocatorInv(held, spare, top) == BelowTop(held, spare, top) /\ Apart(held, spare)

(* New addresses are above the old top and below the new one *)
LEMMA NewAddresses ==
    ASSUME NEW low \in Nat, NEW high \in Nat, NEW S \in SUBSET (low..(high - 1)), S # {}
    PROVE  /\ S \in SUBSET (0..(high - 1))
           /\ 0..(low - 1) \subseteq 0..(high - 1)
           /\ S \cap (0..(low - 1)) = {}
<1>1. PICK a : a \in S
  OBVIOUS
<1>2. low <= high
  <2>1. a \in low..(high - 1)
    BY <1>1
  <2> QED
    BY <2>1
<1>3. S \in SUBSET (0..(high - 1))
  OBVIOUS
<1>4. 0..(low - 1) \subseteq 0..(high - 1)
  BY <1>2
<1>5. S \cap (0..(low - 1)) = {}
  OBVIOUS
<1> QED
  BY <1>3, <1>4, <1>5

(* A step that gives S to o and takes nothing from others that it does not give
   up, as Hand has it *)
LEMMA HandKeeps ==
    ASSUME NEW h, NEW s, NEW t, NEW k, NEW z, NEW u, AllocatorInv(h, s, t),
           NEW o \in Owners, NEW r \in Owners,
           k = [h EXCEPT ![r] = {}, ![o] = k[o]], z \subseteq s, u \in Nat, t <= u,
           k[o] \subseteq 0..(u - 1), k[o] \cap z = {},
           k[o] \subseteq s \/ k[o] \cap (0..(t - 1)) = {}
    PROVE  AllocatorInv(k, z, u)
<1>1. t \in Nat /\ h \in [Owners -> SUBSET (0..(t - 1))] /\ s \subseteq 0..(t - 1)
      /\ Apart(h, s)
  BY DEF AllocatorInv, BelowTop
<1>2. 0..(t - 1) \subseteq 0..(u - 1)
  BY <1>1
<1>3. \A x \in Owners : x # o => k[x] \subseteq h[x]
  BY <1>1
<1>4. \A x \in Owners : h[x] \subseteq 0..(t - 1)
  BY <1>1
<1>5. k \in [Owners -> SUBSET (0..(u - 1))]
  <2>1. k = [h EXCEPT ![r] = {}, ![o] = k[o]] /\ DOMAIN k = Owners
    BY <1>1
  <2>2. \A x \in Owners : k[x] \in SUBSET (0..(u - 1))
    BY <1>2, <1>3, <1>4
  <2>3. k = [x \in Owners |-> k[x]]
    BY <1>1, <2>1
  <2> QED
    BY <2>2, <2>3, Zenon
<1>6. \A x \in Owners : x # o => k[o] \cap k[x] = {}
  BY <1>1, <1>3, <1>4 DEF Apart
<1>7. Apart(k, z)
  BY <1>1, <1>3, <1>6 DEF Apart
<1> QED
  BY <1>1, <1>2, <1>5, <1>7 DEF AllocatorInv, BelowTop

LEMMA AllocatorStep ==
    ASSUME NEW p \in Procs,
           AllocatorInv([o \in Owners |-> Holds(p, o)], FreeBytes(p), mm[p].sbrk),
           [A(p)!Next]_(A(p)!vars)
    PROVE  AllocatorInv([o \in Owners |-> Holds(p, o)], FreeBytes(p), mm[p].sbrk)'
<1> DEFINE h == [o \in Owners |-> Holds(p, o)]
           k == [o \in Owners |-> Holds(p, o)']
           s == FreeBytes(p)
           z == FreeBytes(p)'
           t == mm[p].sbrk
           u == mm'[p].sbrk
<1> SUFFICES AllocatorInv(k, z, u)
  OBVIOUS
<1>1. \/ k = h /\ z = s /\ u = t
      \/ \E o, r \in Owners :
           \/ /\ k[o] # {} /\ k = [h EXCEPT ![r] = {}, ![o] = k[o]]
              /\ k[o] \subseteq s /\ z = s \ k[o] /\ u = t
           \/ /\ k[o] # {} /\ k = [h EXCEPT ![r] = {}, ![o] = k[o]]
              /\ u \in Nat /\ k[o] \subseteq t..(u - 1) /\ z = s
           \/ /\ r # o /\ k[o] # {} /\ k[o] \subseteq h[r]
              /\ k = [h EXCEPT ![r] = @ \ k[o], ![o] = k[o]]
              /\ z = s /\ u = t
      \/ \E o \in Owners : /\ h[o] # {} /\ k = [h EXCEPT ![o] = {}]
                           /\ z = s \cup h[o] /\ u = t
  BY DEF A!Next, A!Reuse, A!Extend, A!Carve, A!Free, A!Hand, A!vars
<1>2. AllocatorInv(h, s, t)
  OBVIOUS
<1> HIDE DEF h, k, s, z, t, u
<1>3. t \in Nat /\ h \in [Owners -> SUBSET (0..(t - 1))] /\ s \subseteq 0..(t - 1)
      /\ Apart(h, s)
  BY <1>2 DEF AllocatorInv, BelowTop
<1>4. CASE k = h /\ z = s /\ u = t
  BY <1>2, <1>4
<1>5. ASSUME NEW o \in Owners, NEW r \in Owners,
             k = [h EXCEPT ![r] = {}, ![o] = k[o]], k[o] \subseteq s, z = s \ k[o], u = t
      PROVE  AllocatorInv(k, z, u)
  <2>1. z \subseteq s /\ k[o] \cap z = {}
    BY <1>5
  <2>2. u \in Nat /\ t <= u
    <3>1. u = t
      BY <1>5
    <3> QED
      BY <1>3, <3>1
  <2>3. k[o] \subseteq 0..(u - 1)
    BY <1>3, <1>5, Zenon
  <2> QED
    BY <1>2, <1>5, <2>1, <2>2, <2>3, HandKeeps
<1>6. ASSUME NEW o \in Owners, NEW r \in Owners, k[o] # {},
             k = [h EXCEPT ![r] = {}, ![o] = k[o]], u \in Nat, k[o] \subseteq t..(u - 1), z = s
      PROVE  AllocatorInv(k, z, u)
  <2>1. /\ k[o] \in SUBSET (0..(u - 1)) /\ 0..(t - 1) \subseteq 0..(u - 1)
        /\ k[o] \cap (0..(t - 1)) = {}
    BY <1>3, <1>6, NewAddresses
  <2>2. t <= u
    BY <1>3, <1>6
  <2>3. z \subseteq s /\ k[o] \cap z = {}
    BY <1>3, <1>6, <2>1
  <2> QED
    BY <1>2, <1>6, <2>1, <2>2, <2>3, HandKeeps
<1>7. ASSUME NEW o \in Owners, NEW r \in Owners, r # o, k[o] \subseteq h[r],
             k = [h EXCEPT ![r] = @ \ k[o], ![o] = k[o]], z = s, u = t
      PROVE  AllocatorInv(k, z, u)
  <2>1. k[r] = h[r] \ k[o] /\ \A x \in Owners : x # o => k[x] \subseteq h[x]
    BY <1>3, <1>7
  <2>2. BelowTop(k, z, u)
    BY <1>3, <1>7, <2>1 DEF BelowTop
  <2>3. \A x \in Owners : x # o => k[x] \cap k[o] = {}
    BY <1>3, <1>7, <2>1 DEF Apart
  <2>4. Apart(k, z)
    BY <1>3, <1>7, <2>1, <2>3 DEF Apart
  <2> QED
    BY <2>2, <2>4 DEF AllocatorInv
<1>8. ASSUME NEW o \in Owners, k = [h EXCEPT ![o] = {}], z = s \cup h[o], u = t
      PROVE  AllocatorInv(k, z, u)
  <2>1. \A x \in Owners : k[x] = IF x = o THEN {} ELSE h[x]
    BY <1>3, <1>8
  <2>2. BelowTop(k, z, u)
    BY <1>3, <1>8 DEF BelowTop
  <2>3. Apart(k, z)
    BY <1>3, <1>8, <2>1 DEF Apart
  <2> QED
    BY <2>2, <2>3 DEF AllocatorInv
<1> QED
  BY <1>1, <1>4, <1>5, <1>6, <1>7, <1>8

(* No address has two owners or is owned and spare, whatever is allocated,
   carved from pools, replaced and freed in whatever order: the promise of
   libmem.c's allocators to the variables of a process. *)
THEOREM AddressesHaveOneOwner ==
    ASSUME NEW p \in Procs PROVE A(p)!Spec => []A(p)!OneOwner
<1> DEFINE Inv == AllocatorInv([o \in Owners |-> Holds(p, o)], FreeBytes(p), mm[p].sbrk)
<1>1. A(p)!Init => Inv
  BY DEF A!Init, AllocatorInv, BelowTop, Apart
<1>2. Inv /\ [A(p)!Next]_(A(p)!vars) => Inv'
  BY AllocatorStep
<1>3. Inv => A(p)!OneOwner
  BY DEF A!OneOwner, AllocatorInv, Apart
<1> QED
  BY <1>1, <1>2, <1>3, PTL DEF A!Spec

-----------------------------------------------------------------------------
(* Paging: the frames of RAM *)

Entry == [present : BOOLEAN, swapped : BOOLEAN, low : Nat]
Tables == [Procs -> [Pages -> Entry]]
RamFrameNumbers == 0..(RamFrames - 1)

(* Resident and FramesOwnedOnce of any page tables and free list *)
ResidentIn(t) == {page \in Procs \X Pages : InRam(t[page[1]][page[2]])}

OwnedOnce(t, free) ==
  /\ free \in Seq(RamFrameNumbers) /\ IsInjective(free)
  /\ \A p \in Procs : \A pgn \in Pages :
        InRam(t[p][pgn]) => Fpn(t[p][pgn]) \in RamFrameNumbers \ ToSet(free)
  /\ \A p, q \in Procs : \A pgn, other \in Pages :
        /\ InRam(t[p][pgn]) /\ InRam(t[q][other])
        /\ Fpn(t[p][pgn]) = Fpn(t[q][other])
        => p = q /\ pgn = other
  /\ IsFiniteSet(ResidentIn(t))
  /\ Len(free) + Cardinality(ResidentIn(t)) = RamFrames

(* Pages with a frame, as pairs of a process and a page *)
LEMMA ResidentPages ==
    ASSUME NEW t
    PROVE  /\ \A p \in Procs : \A pgn \in Pages : <<p, pgn>> \in ResidentIn(t) <=> InRam(t[p][pgn])
           /\ \A page \in ResidentIn(t) :
                 /\ page = <<page[1], page[2]>> /\ page[1] \in Procs /\ page[2] \in Pages
                 /\ InRam(t[page[1]][page[2]])
  BY DEF ResidentIn

(* OwnedOnce is the property that the runs check *)
LEMMA FramesOwnedOnceIs == OwnedOnce(pte, ramFree) => FramesOwnedOnce
<1> SUFFICES ASSUME OwnedOnce(pte, ramFree) PROVE FramesOwnedOnce
  OBVIOUS
<1>1. Resident = ResidentIn(pte)
  BY DEF Resident, ResidentIn, EntryOf
<1>2. \A page \in Resident : Frame(page) \notin ToSet(ramFree)
  BY <1>1, ResidentPages DEF OwnedOnce, Frame, EntryOf
<1>3. ASSUME NEW page \in Resident, NEW other \in Resident, Frame(page) = Frame(other)
      PROVE  page = other
  <2>1. page[1] = other[1] /\ page[2] = other[2]
    BY <1>1, <1>3, ResidentPages DEF OwnedOnce, Frame, EntryOf
  <2> QED
    BY <1>1, <2>1, ResidentPages
<1> QED
  BY <1>1, <1>2, <1>3 DEF OwnedOnce, FramesOwnedOnce

(* Arithmetic of the frame's bits *)
LEMMA FrameBits ==
    ASSUME NEW l \in Nat PROVE l % FpnSpan \in 0..(FpnSpan - 1) /\ l % FpnSpan <= l
  BY DEF FpnSpan

LEMMA FrameBitsNat == \A l \in Nat : l % FpnSpan \in Nat
  BY DEF FpnSpan

LEMMA RamFramesFit == RamFrameNumbers \subseteq 0..(FpnSpan - 1)
  BY PagingAssumption, SMTT(30) DEF RamFrameNumbers, FpnSpan

(* Setting the frame number of an entry *)
LEMMA FrameBitsSet ==
    ASSUME NEW l \in Nat, NEW fpn \in 0..(FpnSpan - 1)
    PROVE  ((l - (l % FpnSpan)) + fpn) % FpnSpan = fpn
  BY DEF FpnSpan

(* What setting an entry makes of its frame *)
LEMMA EntryFacts ==
    ASSUME NEW e \in Entry
    PROVE  /\ Fpn(e) \in 0..(FpnSpan - 1)
           /\ \A fpn \in 0..(FpnSpan - 1) :
                 SetFpn(e, fpn) \in Entry /\ InRam(SetFpn(e, fpn)) /\ Fpn(SetFpn(e, fpn)) = fpn
           /\ \A swp \in Nat : SetSwap(e, swp) \in Entry /\ ~InRam(SetSwap(e, swp))
                               /\ SetSwap(e, swp).present
<1>1. e.low \in Nat /\ Fpn(e) \in 0..(FpnSpan - 1) /\ Fpn(e) <= e.low /\ Fpn(e) \in Nat
  BY FrameBits, FrameBitsNat DEF Entry, Fpn
<1>2. ASSUME NEW fpn \in 0..(FpnSpan - 1)
      PROVE  SetFpn(e, fpn) \in Entry /\ InRam(SetFpn(e, fpn)) /\ Fpn(SetFpn(e, fpn)) = fpn
  <2>1. fpn % FpnSpan = fpn
    BY DEF FpnSpan
  <2> DEFINE l == (e.low - Fpn(e)) + fpn
  <2>2. l \in Nat
    <3>1. \A a, b \in Nat : b <= a => (a - b) + fpn \in Nat
      BY DEF FpnSpan
    <3> QED
      BY <1>1, <3>1, Zenon
  <2>3. l % FpnSpan = fpn
    BY <1>1, FrameBitsSet DEF Fpn
  <2>4. SetFpn(e, fpn) = [present |-> TRUE, swapped |-> FALSE, low |-> l]
    BY <2>1 DEF SetFpn
  <2> HIDE DEF l
  <2> QED
    BY <2>2, <2>3, <2>4 DEF Entry, InRam, Fpn
<1>3. ASSUME NEW swp \in Nat
      PROVE  /\ SetSwap(e, swp) \in Entry /\ ~InRam(SetSwap(e, swp))
             /\ SetSwap(e, swp).present
  BY DEF SetSwap, Entry, InRam, SwpUnit
<1> QED
  BY <1>1, <1>2, <1>3
-----------------------------------------------------------------------------
(* vmap_page_range: count free frames go to as many pages of p without one *)
LEMMA MapKeepsOwnership ==
    ASSUME NEW t \in Tables, NEW free, OwnedOnce(t, free), NEW p \in Procs,
           NEW first \in Nat, NEW count \in Nat, first + count <= MaxBrk, count <= Len(free),
           \A pgn \in first..(first + count - 1) : ~InRam(t[p][pgn]),
           NEW u \in Tables, \A q \in Procs \ {p} : u[q] = t[q],
           \A pgn \in Pages :
              u[p][pgn] = IF pgn \in first..(first + count - 1)
                          THEN SetFpn(t[p][pgn], free[pgn - first + 1]) ELSE t[p][pgn]
    PROVE  OwnedOnce(u, SubSeq(free, count + 1, Len(free)))
<1> DEFINE rest == SubSeq(free, count + 1, Len(free))
           new == {p} \X (first..(first + count - 1))
<1>1. /\ free \in Seq(RamFrameNumbers) /\ Len(free) \in Nat
      /\ \A k \in 1..Len(free) : free[k] \in RamFrameNumbers
      /\ DOMAIN free = 1..Len(free) /\ ToSet(free) = {free[k] : k \in 1..Len(free)}
  BY LenProperties, ElementOfSeq DEF OwnedOnce, ToSet
<1>2. /\ rest \in Seq(RamFrameNumbers) /\ Len(rest) = Len(free) - count
      /\ DOMAIN rest = 1..(Len(free) - count)
      /\ \A k \in 1..(Len(free) - count) : rest[k] = free[count + k]
  <2>1. \A k \in (count + 1)..Len(free) : free[k] \in RamFrameNumbers
    BY <1>1
  <2>2. /\ rest \in Seq(RamFrameNumbers)
        /\ Len(rest) = IF count + 1 <= Len(free) THEN (Len(free) - (count + 1)) + 1 ELSE 0
        /\ \A k \in 1..(Len(free) - (count + 1) + 1) : rest[k] = free[(count + 1) + k - 1]
    BY <1>1, <2>1, SubSeqProperties
  <2> HIDE DEF rest
  <2>3. Len(rest) = Len(free) - count
    <3>1. \A n \in Nat : count <= n =>
             (IF count + 1 <= n THEN (n - (count + 1)) + 1 ELSE 0) = n - count
      OBVIOUS
    <3> QED
      BY <1>1, <2>2, <3>1, Zenon
  <2>4. DOMAIN rest = 1..(Len(free) - count)
    BY <2>2, <2>3, LenProperties
  <2>5. ASSUME NEW k \in 1..(Len(free) - count) PROVE rest[k] = free[count + k]
    <3>1. k \in 1..(Len(free) - (count + 1) + 1) /\ (count + 1) + k - 1 = count + k
      BY <1>1
    <3> QED
      BY <2>2, <3>1
  <2> QED
    BY <2>2, <2>3, <2>4, <2>5
<1> HIDE DEF rest
<1>3. ToSet(rest) = {free[k] : k \in (count + 1)..Len(free)}
  <2>1. \A k \in 1..(Len(free) - count) : count + k \in (count + 1)..Len(free)
    BY <1>1
  <2>2. \A k \in (count + 1)..Len(free) :
           k - count \in 1..(Len(free) - count) /\ count + (k - count) = k
    BY <1>1
  <2>3. ToSet(rest) = {rest[k] : k \in 1..(Len(free) - count)}
    BY <1>2 DEF ToSet
  <2>4. ASSUME NEW k \in 1..(Len(free) - count)
        PROVE  rest[k] \in {free[j] : j \in (count + 1)..Len(free)}
    BY <1>2, <2>1
  <2>5. ASSUME NEW k \in (count + 1)..Len(free)
        PROVE  free[k] \in {rest[j] : j \in 1..(Len(free) - count)}
    <3>1. free[k] = rest[k - count]
      BY <1>2, <2>2
    <3> QED
      BY <2>2, <3>1
  <2> QED
    BY <2>3, <2>4, <2>5
<1>4. IsInjective(rest)
  <2>1. ASSUME NEW a \in 1..(Len(free) - count), NEW b \in 1..(Len(free) - count), rest[a] = rest[b]
        PROVE  a = b
    <3>1. free[count + a] = free[count + b] /\ count + a \in 1..Len(free) /\ count + b \in 1..Len(free)
      BY <1>1, <1>2, <2>1
    <3>2. count + a = count + b
      BY <1>1, <3>1 DEF OwnedOnce, IsInjective
    <3> QED
      BY <3>2
  <2> QED
    BY <1>2, <2>1 DEF IsInjective
<1>5. \A q \in Procs : \A pgn \in Pages : t[q][pgn] \in Entry
  BY DEF Tables
<1>6. ASSUME NEW pgn \in first..(first + count - 1)
      PROVE  /\ pgn \in Pages /\ pgn - first + 1 \in 1..count
             /\ InRam(u[p][pgn]) /\ Fpn(u[p][pgn]) = free[pgn - first + 1]
  <2>1. pgn \in Pages /\ pgn - first + 1 \in 1..count /\ pgn - first + 1 \in 1..Len(free)
    BY <1>1, RegionsAssumption DEF Pages
  <2>2. free[pgn - first + 1] \in 0..(FpnSpan - 1)
    BY <1>1, <2>1, RamFramesFit
  <2>3. u[p][pgn] = SetFpn(t[p][pgn], free[pgn - first + 1])
    BY <2>1
  <2>4. t[p][pgn] \in Entry
    BY <1>5, <2>1
  <2> DEFINE e == t[p][pgn]
             fpn == free[pgn - first + 1]
  <2>5. InRam(SetFpn(e, fpn)) /\ Fpn(SetFpn(e, fpn)) = fpn
    <3> HIDE DEF e, fpn
    <3> QED
      BY <2>2, <2>4, EntryFacts DEF e, fpn
  <2> QED
    BY <2>1, <2>3, <2>5
<1>7. /\ \A q \in Procs : \A pgn \in Pages :
            ~(q = p /\ pgn \in first..(first + count - 1)) => u[q][pgn] = t[q][pgn]
      /\ \A pgn \in first..(first + count - 1) : \E k \in 1..count :
            Fpn(u[p][pgn]) = free[k] /\ k = pgn - first + 1
  BY <1>6
<1>8. \A k \in 1..count : /\ k \in 1..Len(free) /\ free[k] \in ToSet(free)
                          /\ free[k] \in RamFrameNumbers \ ToSet(rest)
  BY <1>1, <1>3 DEF OwnedOnce, IsInjective
<1>9. ASSUME NEW q \in Procs, NEW pgn \in Pages, InRam(u[q][pgn])
      PROVE  Fpn(u[q][pgn]) \in RamFrameNumbers \ ToSet(rest)
  <2>1. CASE q = p /\ pgn \in first..(first + count - 1)
    BY <1>7, <1>8, <2>1
  <2>2. CASE ~(q = p /\ pgn \in first..(first + count - 1))
    BY <1>1, <1>3, <1>7, <1>9, <2>2 DEF OwnedOnce
  <2> QED
    BY <2>1, <2>2
<1>10. ASSUME NEW q \in Procs, NEW pgn \in Pages, InRam(u[q][pgn]),
              ~(q = p /\ pgn \in first..(first + count - 1)),
              NEW k \in 1..count
       PROVE  Fpn(u[q][pgn]) # free[k]
  BY <1>7, <1>8, <1>10 DEF OwnedOnce
<1>11. ASSUME NEW q \in Procs, NEW r \in Procs, NEW pgn \in Pages, NEW other \in Pages,
              InRam(u[q][pgn]), InRam(u[r][other]), Fpn(u[q][pgn]) = Fpn(u[r][other])
       PROVE  q = r /\ pgn = other
  <2>1. CASE q = p /\ pgn \in first..(first + count - 1)
    <3>1. r = p /\ other \in first..(first + count - 1)
      BY <1>7, <1>10, <1>11, <2>1
    <3>2. PICK k \in 1..count : Fpn(u[p][pgn]) = free[k] /\ k = pgn - first + 1
      BY <1>7, <2>1
    <3>3. PICK j \in 1..count : Fpn(u[p][other]) = free[j] /\ j = other - first + 1
      BY <1>7, <3>1
    <3>4. k = j
      <4>1. free[k] = free[j] /\ k \in 1..Len(free) /\ j \in 1..Len(free)
        BY <1>8, <1>11, <2>1, <3>1, <3>2, <3>3
      <4> QED
        BY <1>1, <4>1 DEF OwnedOnce, IsInjective
    <3> QED
      BY <2>1, <3>1, <3>2, <3>3, <3>4
  <2>2. CASE ~(q = p /\ pgn \in first..(first + count - 1))
    <3>1. ~(r = p /\ other \in first..(first + count - 1))
      BY <1>7, <1>10, <1>11, <2>2, SMTT(30)
    <3> QED
      BY <1>7, <1>11, <2>2, <3>1 DEF OwnedOnce
  <2> QED
    BY <2>1, <2>2
<1>12. ResidentIn(u) = ResidentIn(t) \cup new /\ ResidentIn(t) \cap new = {}
  <2>1. ASSUME NEW page \in ResidentIn(t) PROVE page \in ResidentIn(u) /\ page \notin new
    <3>1. PICK q \in Procs, pgn \in Pages : page = <<q, pgn>> /\ InRam(t[q][pgn])
      BY ResidentPages
    <3>2. ~(q = p /\ pgn \in first..(first + count - 1))
      BY <3>1
    <3> QED
      BY <1>7, <3>1, <3>2, ResidentPages
  <2>2. ASSUME NEW page \in new PROVE page \in ResidentIn(u)
    <3>1. PICK pgn \in first..(first + count - 1) : page = <<p, pgn>>
      OBVIOUS
    <3> QED
      BY <1>6, <3>1, ResidentPages
  <2>3. ASSUME NEW page \in ResidentIn(u), page \notin new PROVE page \in ResidentIn(t)
    <3>1. PICK q \in Procs, pgn \in Pages : page = <<q, pgn>> /\ InRam(u[q][pgn])
      BY ResidentPages
    <3>2. ~(q = p /\ pgn \in first..(first + count - 1))
      BY <2>3, <3>1
    <3> QED
      BY <1>7, <3>1, <3>2, ResidentPages
  <2> QED
    BY <2>1, <2>2, <2>3
<1>13. IsFiniteSet(new) /\ Cardinality(new) = count
  <2> DEFINE last == first + count - 1
             range == first..last
  <2>1. last \in Int /\ count = IF first > last THEN 0 ELSE last - first + 1
    OBVIOUS
  <2> HIDE DEF last
  <2>2. IsFiniteSet(range) /\ Cardinality(range) = count
    <3>1. /\ IsFiniteSet(range)
          /\ Cardinality(range) = IF first > last THEN 0 ELSE last - first + 1
      <4>1. first \in Int
        OBVIOUS
      <4> QED
        BY ONLY <2>1, <4>1, FS_Interval
    <3> QED
      BY <2>1, <3>1, Zenon
  <2> HIDE DEF range
  <2>3. IsFiniteSet({p}) /\ Cardinality({p}) = 1
    BY FS_Singleton
  <2>4. IsFiniteSet({p} \X range) /\ Cardinality({p} \X range) = 1 * count
    BY <2>2, <2>3, FS_Product
  <2> QED
    BY <2>4 DEF range, last
<1> HIDE DEF new
<1>14. /\ IsFiniteSet(ResidentIn(u))
       /\ Cardinality(ResidentIn(u)) = Cardinality(ResidentIn(t)) + count
  <2>1. IsFiniteSet(ResidentIn(t)) /\ Cardinality(ResidentIn(t)) \in Nat
    BY FS_CardinalityType DEF OwnedOnce
  <2>2. /\ IsFiniteSet(ResidentIn(t) \cup new)
        /\ Cardinality(ResidentIn(t) \cup new) =
             Cardinality(ResidentIn(t)) + Cardinality(new) - Cardinality(ResidentIn(t) \cap new)
    BY <1>13, <2>1, FS_Union
  <2>3. Cardinality(ResidentIn(t) \cap new) = 0
    BY <1>12, FS_EmptySet
  <2>4. \A a, b \in Nat : a + b - 0 = a + b
    OBVIOUS
  <2> QED
    BY <1>12, <1>13, <2>1, <2>2, <2>3, <2>4, Zenon
<1>15. Len(rest) + Cardinality(ResidentIn(u)) = RamFrames
  BY <1>1, <1>2, <1>14, FS_CardinalityType DEF OwnedOnce
<1> QED
  BY <1>2, <1>4, <1>9, <1>11, <1>14, <1>15 DEF OwnedOnce, rest

(* pg_getpage: the frame of the victim becomes that of a page without one *)
Evicted(t, p, pgn, victim, swp) ==
  [t EXCEPT ![p][victim] = SetSwap(@, swp),
            ![p][pgn] = SetFpn(@, Fpn(t[p][victim]))]

LEMMA EvictKeepsOwnership ==
    ASSUME NEW t \in Tables, NEW free, OwnedOnce(t, free), NEW p \in Procs,
           NEW pgn \in Pages, NEW victim \in Pages, NEW swp \in Nat,
           InRam(t[p][victim]), ~InRam(t[p][pgn]),
           NEW u, u = Evicted(t, p, pgn, victim, swp)
    PROVE  /\ u \in Tables /\ OwnedOnce(u, free)
           /\ \A q \in Procs \ {p} : u[q] = t[q]
           /\ \A other \in Pages \ {pgn, victim} : u[p][other] = t[p][other]
           /\ InRam(u[p][pgn]) /\ ~InRam(u[p][victim]) /\ u[p][victim].present
<1>1. pgn # victim /\ t[p][pgn] \in Entry /\ t[p][victim] \in Entry
  BY DEF Tables
<1> DEFINE fpn == Fpn(t[p][victim])
           e == SetFpn(t[p][pgn], fpn)
           v == SetSwap(t[p][victim], swp)
<1>2. e \in Entry /\ InRam(e) /\ Fpn(e) = fpn /\ v \in Entry /\ ~InRam(v) /\ v.present
  <2>1. fpn \in 0..(FpnSpan - 1)
    BY <1>1, EntryFacts
  <2> HIDE DEF fpn
  <2> QED
    BY <1>1, <2>1, EntryFacts
<1>3. u = [t EXCEPT ![p] = [t[p] EXCEPT ![victim] = v, ![pgn] = e]]
  <2>1. u = [t EXCEPT ![p][victim] = SetSwap(@, swp),
                      ![p][pgn] = SetFpn(@, Fpn(t[p][victim]))]
    BY DEF Evicted
  <2> QED
    BY <1>1, <2>1, Zenon DEF Tables
<1>f. fpn = Fpn(t[p][victim])
  OBVIOUS
<1> HIDE DEF e, v, fpn
<1>o. /\ \A q \in Procs : \A a \in Pages :
            InRam(t[q][a]) => Fpn(t[q][a]) \in RamFrameNumbers \ ToSet(free)
      /\ \A q, r \in Procs : \A a, b \in Pages :
            InRam(t[q][a]) /\ InRam(t[r][b]) /\ Fpn(t[q][a]) = Fpn(t[r][b]) => q = r /\ a = b
  BY DEF OwnedOnce
<1>4. /\ u \in Tables /\ \A q \in Procs \ {p} : u[q] = t[q]
      /\ u[p][pgn] = e /\ u[p][victim] = v
      /\ \A other \in Pages \ {pgn, victim} : u[p][other] = t[p][other]
  BY <1>1, <1>2, <1>3 DEF Tables
<1>5. ASSUME NEW q \in Procs, NEW other \in Pages, InRam(u[q][other])
      PROVE  \/ q = p /\ other = pgn
             \/ /\ u[q][other] = t[q][other] /\ ~(q = p /\ other = victim)
                /\ ~(q = p /\ other = pgn)
  BY <1>1, <1>2, <1>4, <1>5
<1>6. ASSUME NEW q \in Procs, NEW other \in Pages, InRam(u[q][other])
      PROVE  Fpn(u[q][other]) \in RamFrameNumbers \ ToSet(free)
  <2>1. CASE q = p /\ other = pgn
    <3>1. Fpn(t[p][victim]) \in RamFrameNumbers \ ToSet(free)
      BY <1>o
    <3> QED
      BY <1>2, <1>4, <1>f, <2>1, <3>1
  <2>2. CASE ~(q = p /\ other = pgn)
    BY <1>5, <1>6, <1>o, <2>2
  <2> QED
    BY <2>1, <2>2
<1>7. ASSUME NEW q \in Procs, NEW a \in Pages, InRam(u[q][a]), ~(q = p /\ a = pgn)
      PROVE  Fpn(u[q][a]) # Fpn(u[p][pgn])
  <2>1. u[q][a] = t[q][a] /\ ~(q = p /\ a = victim)
    BY <1>5, <1>7
  <2>2. Fpn(u[p][pgn]) = Fpn(t[p][victim])
    BY <1>2, <1>4, <1>f
  <2> QED
    BY <1>7, <1>o, <2>1, <2>2
<1>c. ASSUME NEW q \in Procs, NEW r \in Procs, NEW a \in Pages, NEW b \in Pages,
             InRam(u[q][a]), InRam(u[r][b]), Fpn(u[q][a]) = Fpn(u[r][b])
      PROVE  q = r /\ a = b
  <2>1. CASE q = p /\ a = pgn
    BY <1>7, <1>c, <2>1
  <2>2. CASE r = p /\ b = pgn
    BY <1>7, <1>c, <2>2
  <2>3. CASE ~(q = p /\ a = pgn) /\ ~(r = p /\ b = pgn)
    <3>1. u[q][a] = t[q][a] /\ u[r][b] = t[r][b]
      BY <1>5, <1>c, <2>3
    <3> QED
      BY <1>c, <1>o, <3>1
  <2> QED
    BY <2>1, <2>2, <2>3
<1> DEFINE old == <<p, victim>>
           new == <<p, pgn>>
<1>8. /\ ResidentIn(u) = (ResidentIn(t) \ {old}) \cup {new}
      /\ old \in ResidentIn(t) /\ new \notin ResidentIn(t)
  <2>1. old \in ResidentIn(t) /\ new \notin ResidentIn(t) /\ new \in ResidentIn(u)
    BY <1>2, <1>4, ResidentPages
  <2>2. ASSUME NEW page \in ResidentIn(u), page # new PROVE page \in ResidentIn(t) \ {old}
    <3>1. PICK q \in Procs, a \in Pages : page = <<q, a>> /\ InRam(u[q][a])
      BY ONLY <2>2, ResidentPages
    <3>2. ~(q = p /\ a = pgn)
      BY <2>2, <3>1
    <3>3. u[q][a] = t[q][a] /\ ~(q = p /\ a = victim)
      BY <1>5, <3>1, <3>2
    <3>4. page # old
      BY <3>1, <3>3
    <3>5. page \in ResidentIn(t)
      BY <3>1, <3>3, ResidentPages
    <3> QED
      BY <3>4, <3>5
  <2>3. ASSUME NEW page \in ResidentIn(t), page # old PROVE page \in ResidentIn(u)
    <3>1. PICK q \in Procs, a \in Pages : page = <<q, a>> /\ InRam(t[q][a])
      BY ResidentPages
    <3>2. ~(q = p /\ a = victim) /\ ~(q = p /\ a = pgn)
      BY <2>3, <3>1
    <3>3. u[q][a] = t[q][a]
      BY <1>4, <3>2
    <3> QED
      BY <3>1, <3>3, ResidentPages
  <2> QED
    BY <2>1, <2>2, <2>3
<1> HIDE DEF old, new
<1>9. /\ IsFiniteSet(ResidentIn(u)) /\ Cardinality(ResidentIn(u)) = Cardinality(ResidentIn(t))
  <2> DEFINE R == ResidentIn(t) \ {old}
  <2>1. IsFiniteSet(ResidentIn(t)) /\ Cardinality(ResidentIn(t)) \in Nat
    BY FS_CardinalityType DEF OwnedOnce
  <2>2. IsFiniteSet(R) /\ Cardinality(R) = Cardinality(ResidentIn(t)) - 1
    BY <1>8, <2>1, FS_RemoveElement
  <2>3. new \notin R
    BY <1>8
  <2> HIDE DEF R
  <2>4. IsFiniteSet(R \cup {new}) /\ Cardinality(R \cup {new}) = Cardinality(R) + 1
    BY <2>2, <2>3, FS_AddElement
  <2>5. \A n \in Nat : (n - 1) + 1 = n
    OBVIOUS
  <2>6. ResidentIn(u) = R \cup {new}
    BY <1>8 DEF R
  <2> QED
    BY <2>1, <2>2, <2>4, <2>5, <2>6, Zenon
<1>10. OwnedOnce(u, free)
  <2>1. /\ free \in Seq(RamFrameNumbers) /\ IsInjective(free)
        /\ Len(free) + Cardinality(ResidentIn(t)) = RamFrames
    BY DEF OwnedOnce
  <2> QED
    BY ONLY <1>6, <1>9, <1>c, <2>1 DEF OwnedOnce
<1> QED
  BY <1>2, <1>4, <1>10
-----------------------------------------------------------------------------
(* find_victim_page takes the last element of the FIFO *)
LEMMA FrontIs ==
    ASSUME NEW S, NEW s \in Seq(S), IsInjective(s), s # <<>>
    PROVE  /\ Last(s) \in ToSet(s) /\ Front(s) \in Seq(S) /\ IsInjective(Front(s))
           /\ ToSet(Front(s)) = ToSet(s) \ {Last(s)}
<1> DEFINE t == Front(s)
           n == Len(s)
<1>1. /\ n \in Nat \ {0} /\ DOMAIN s = 1..n /\ ToSet(s) = {s[k] : k \in 1..n}
      /\ \A k \in 1..n : s[k] \in S
  BY LenProperties, EmptySeq, ElementOfSeq DEF ToSet
<1>2. /\ t \in Seq(S) /\ Len(t) = n - 1 /\ \A k \in 1..(n - 1) : t[k] = s[k]
  <2>1. /\ SubSeq(s, 1, n - 1) \in Seq(S)
        /\ Len(SubSeq(s, 1, n - 1)) = IF 1 <= n - 1 THEN (n - 1) - 1 + 1 ELSE 0
        /\ \A k \in 1..((n - 1) - 1 + 1) : SubSeq(s, 1, n - 1)[k] = s[1 + k - 1]
    BY <1>1, SubSeqProperties
  <2> QED
    BY <1>1, <2>1 DEF Front
<1> HIDE DEF t
<1>3. DOMAIN t = 1..(n - 1) /\ ToSet(t) = {t[k] : k \in 1..(n - 1)}
  BY <1>2, LenProperties DEF ToSet
<1>4. \A a, b \in 1..n : s[a] = s[b] => a = b
  BY <1>1 DEF IsInjective
<1>5. IsInjective(t)
  BY <1>1, <1>2, <1>3, <1>4 DEF IsInjective
<1>6. Last(s) = s[n]
  BY DEF Last
<1>7. ToSet(t) = ToSet(s) \ {s[n]}
  BY <1>1, <1>2, <1>3, <1>4
<1> QED
  BY <1>1, <1>2, <1>5, <1>6, <1>7 DEF t

(* Frames put back one by one *)
LEMMA ReverseIs ==
    ASSUME NEW S, NEW s \in Seq(S), IsInjective(s)
    PROVE  /\ Reverse(s) \in Seq(S) /\ IsInjective(Reverse(s))
           /\ Len(Reverse(s)) = Len(s) /\ ToSet(Reverse(s)) = ToSet(s)
<1> DEFINE t == Reverse(s)
           n == Len(s)
<1>1. /\ n \in Nat /\ DOMAIN s = 1..n /\ ToSet(s) = {s[k] : k \in 1..n}
      /\ \A k \in 1..n : s[k] \in S /\ (n - k) + 1 \in 1..n
      /\ \A k \in 1..n : (n - ((n - k) + 1)) + 1 = k
  BY LenProperties, ElementOfSeq DEF ToSet
<1>2. t = [k \in 1..n |-> s[(n - k) + 1]]
  BY DEF Reverse
<1> HIDE DEF t, n
<1>3. t \in Seq(S) /\ Len(t) = n /\ DOMAIN t = 1..n
  BY <1>1, <1>2
<1>4. ToSet(t) = {t[k] : k \in 1..n}
  BY <1>3 DEF ToSet
<1>5. \A k \in 1..n : t[k] = s[(n - k) + 1] /\ s[k] = t[(n - k) + 1]
  BY <1>1, <1>2
<1>6. ToSet(t) = ToSet(s)
  BY <1>1, <1>4, <1>5
<1>7. ASSUME NEW a \in 1..n, NEW b \in 1..n, t[a] = t[b] PROVE a = b
  <2>1. (n - a) + 1 = (n - b) + 1
    BY <1>1, <1>5, <1>7 DEF IsInjective
  <2> QED
    BY <1>1, <2>1
<1>8. IsInjective(t)
  BY <1>3, <1>7 DEF IsInjective
<1> QED
  BY <1>3, <1>6, <1>8 DEF t, n
-----------------------------------------------------------------------------
(* What a step may make of an entry: a page without one gets a frame, a page
   with a frame is swapped out, and that is all. *)
Turned(e, f) ==
  \/ f = e
  \/ ~e.present /\ InRam(f)
  \/ InRam(e) /\ f.present /\ f.swapped

EntriesTurn == \A p \in Procs : \A pgn \in Pages : Turned(pte[p][pgn], pte'[p][pgn])

(* The page table, FIFO and free frames m that p maps pages with: its pages
   from n on have no entry yet *)
MapRecords == [ramFree : Seq(RamFrameNumbers), pte : [Pages -> Entry], fifo : Seq(Pages)]

MapInv(p, m, n) ==
  /\ m \in MapRecords
  /\ OwnedOnce([pte EXCEPT ![p] = m.pte], m.ramFree)
  /\ IsInjective(m.fifo)
  /\ \A pgn \in ToSet(m.fifo) : InRam(m.pte[pgn])
  /\ \A pgn \in Pages : m.pte[pgn].present => pgn < n
  /\ \A pgn \in Pages : Turned(pte[p][pgn], m.pte[pgn])

(* The order in which frames are free does not matter *)
LEMMA ReverseKeepsOwnership ==
    ASSUME NEW t, NEW free, OwnedOnce(t, free) PROVE OwnedOnce(t, Reverse(free))
<1>1. free \in Seq(RamFrameNumbers) /\ IsInjective(free)
  BY DEF OwnedOnce
<1>2. /\ Reverse(free) \in Seq(RamFrameNumbers) /\ IsInjective(Reverse(free))
      /\ Len(Reverse(free)) = Len(free) /\ ToSet(Reverse(free)) = ToSet(free)
  BY <1>1, ReverseIs
<1> QED
  BY <1>2 DEF OwnedOnce

(* The pages that vmap_page_range enlists *)
LEMMA EnlistedPages ==
    ASSUME NEW n \in Nat, NEW count \in Nat, n + count <= MaxBrk
    PROVE  LET w == [k \in 1..count |-> n + count - k]
           IN  /\ w \in Seq(Pages) /\ IsInjective(w)
               /\ ToSet(w) = n..(n + count - 1) /\ n..(n + count - 1) \subseteq Pages
<1> DEFINE w == [k \in 1..count |-> n + count - k]
<1>1. \A k \in 1..count : n + count - k \in n..(n + count - 1)
  OBVIOUS
<1>2. n..(n + count - 1) \subseteq Pages
  BY RegionsAssumption DEF Pages
<1>3. w \in Seq(Pages) /\ DOMAIN w = 1..count
  BY <1>1, <1>2
<1>4. \A k \in 1..count : w[k] = n + count - k
  OBVIOUS
<1> HIDE DEF w
<1>5. IsInjective(w)
  BY <1>3, <1>4 DEF IsInjective
<1>6. ToSet(w) = {w[k] : k \in 1..count}
  BY <1>3 DEF ToSet
<1>7. ASSUME NEW pgn \in n..(n + count - 1) PROVE pgn \in ToSet(w)
  <2>1. n + count - pgn \in 1..count /\ n + count - (n + count - pgn) = pgn
    OBVIOUS
  <2> QED
    BY <1>4, <1>6, <2>1
<1>8. ToSet(w) = n..(n + count - 1)
  BY <1>1, <1>4, <1>6, <1>7
<1> QED
  BY <1>2, <1>3, <1>5, <1>8 DEF w

(* vm_map_ram for the pages of a grown area: as many get frames as there are,
   in alloc_pages_range, or none *)
LEMMA MapRamKeeps ==
    ASSUME pte \in Tables, NEW p \in Procs, NEW m, NEW n \in Nat, NEW count \in Nat,
           n + count <= MaxBrk, MapInv(p, m, n)
    PROVE  MapInv(p, MapRam(m, n, count), n + count)
<1> DEFINE free == m.ramFree
           table == m.pte
           fifo == m.fifo
<1>0. /\ m = [ramFree |-> free, pte |-> table, fifo |-> fifo]
      /\ free \in Seq(RamFrameNumbers) /\ table \in [Pages -> Entry] /\ fifo \in Seq(Pages)
      /\ OwnedOnce([pte EXCEPT ![p] = table], free) /\ IsInjective(fifo)
      /\ \A pgn \in ToSet(fifo) : InRam(table[pgn])
      /\ \A pgn \in Pages : table[pgn].present => pgn < n
      /\ \A pgn \in Pages : Turned(pte[p][pgn], table[pgn])
  BY DEF MapInv, MapRecords
<1> HIDE DEF free, table, fifo
<1>1. CASE Len(free) < count
  <2>1. MapRam(m, n, count) = [ramFree |-> Reverse(free), pte |-> table, fifo |-> fifo]
    BY <1>0, <1>1, SMTT(10) DEF MapRam, free
  <2>2. /\ OwnedOnce([pte EXCEPT ![p] = table], Reverse(free))
        /\ Reverse(free) \in Seq(RamFrameNumbers)
    <3>1. OwnedOnce([pte EXCEPT ![p] = table], Reverse(free))
      BY <1>0, ReverseKeepsOwnership, Zenon
    <3> QED
      BY <3>1, Zenon DEF OwnedOnce
  <2>3. \A pgn \in Pages : pgn < n => pgn < n + count
    BY RegionsAssumption DEF Pages
  <2> DEFINE after == [ramFree |-> Reverse(free), pte |-> table, fifo |-> fifo]
  <2>4. /\ after \in MapRecords /\ after.pte = table
        /\ after.fifo = fifo /\ after.ramFree = Reverse(free)
    BY <1>0, <2>2 DEF MapRecords
  <2>5. MapRam(m, n, count) = after
    BY <2>1
  <2> HIDE DEF after
  <2> QED
    BY <1>0, <2>2, <2>3, <2>4, <2>5 DEF MapInv
<1>2. CASE ~(Len(free) < count)
  <2> DEFINE rest == SubSeq(free, count + 1, Len(free))
             table2 == [pgn \in Pages |-> IF pgn \in n..(n + count - 1)
                                          THEN SetFpn(table[pgn], free[pgn - n + 1]) ELSE table[pgn]]
             w == [k \in 1..count |-> n + count - k]
             fifo2 == w \o fifo
             t == [pte EXCEPT ![p] = table]
             u == [pte EXCEPT ![p] = table2]
  <2>1. MapRam(m, n, count) = [ramFree |-> rest, pte |-> table2, fifo |-> fifo2]
    BY <1>2 DEF MapRam, Mapped, free, table, fifo
  <2>2. /\ free \in Seq(RamFrameNumbers) /\ Len(free) \in Nat /\ count <= Len(free)
        /\ \A k \in 1..Len(free) : free[k] \in 0..(FpnSpan - 1)
    <3>1. free \in Seq(RamFrameNumbers)
      BY <1>0
    <3>2. Len(free) \in Nat /\ \A k \in 1..Len(free) : free[k] \in RamFrameNumbers
      BY <3>1, LenProperties, ElementOfSeq
    <3>3. \A k \in 1..Len(free) : free[k] \in 0..(FpnSpan - 1)
      BY <3>2, RamFramesFit, Zenon
    <3>4. count <= Len(free)
      BY <1>2, <3>2
    <3> QED
      BY <3>1, <3>2, <3>3, <3>4
  <2>3. /\ w \in Seq(Pages) /\ IsInjective(w)
        /\ ToSet(w) = n..(n + count - 1) /\ n..(n + count - 1) \subseteq Pages
    BY EnlistedPages
  <2>4. ASSUME NEW pgn \in n..(n + count - 1)
        PROVE  /\ SetFpn(table[pgn], free[pgn - n + 1]) \in Entry
               /\ InRam(SetFpn(table[pgn], free[pgn - n + 1]))
    <3> DEFINE e == table[pgn]
               fpn == free[pgn - n + 1]
    <3>1. e \in Entry
      BY <1>0, <2>3
    <3>2. fpn \in 0..(FpnSpan - 1)
      <4>1. pgn - n + 1 \in 1..Len(free)
        BY <2>2
      <4> QED
        BY <2>2, <4>1
    <3> HIDE DEF e, fpn
    <3>3. SetFpn(e, fpn) \in Entry /\ InRam(SetFpn(e, fpn))
      BY <3>1, <3>2, EntryFacts
    <3> QED
      BY <3>3 DEF e, fpn
  <2>5. table2 \in [Pages -> Entry]
    BY <1>0, <2>4
  <2>6. /\ t \in Tables /\ u \in Tables /\ t[p] = table /\ u[p] = table2
        /\ \A q \in Procs \ {p} : u[q] = t[q]
    <3> HIDE DEF table2
    <3> QED
      BY <1>0, <2>5 DEF Tables
  <2>7. \A pgn \in Pages :
           table2[pgn] = IF pgn \in n..(n + count - 1)
                         THEN SetFpn(table[pgn], free[pgn - n + 1]) ELSE table[pgn]
    OBVIOUS
  <2> HIDE DEF table2, rest, w, t, u
  <2>8. \A pgn \in n..(n + count - 1) : pgn \in Pages /\ ~table[pgn].present
    BY <1>0, <2>3, RegionsAssumption DEF Pages
  <2>9. OwnedOnce(u, rest)
    <3>1. OwnedOnce(t, free)
      BY <1>0 DEF t
    <3>2. \A pgn \in n..(n + count - 1) : ~InRam(t[p][pgn])
      BY <2>6, <2>8 DEF InRam
    <3>3. \A pgn \in Pages :
             u[p][pgn] = IF pgn \in n..(n + count - 1)
                         THEN SetFpn(t[p][pgn], free[pgn - n + 1]) ELSE t[p][pgn]
      BY <2>6, <2>7
    <3> QED
      BY <2>2, <2>6, <3>1, <3>2, <3>3, MapKeepsOwnership, ZenonT(30) DEF rest
  <2>10. fifo2 \in Seq(Pages) /\ IsInjective(fifo2) /\ ToSet(fifo2) = ToSet(w) \cup ToSet(fifo)
    <3>1. fifo \in Seq(Pages) /\ IsInjective(fifo)
      BY <1>0
    <3>2. ToSet(w) \cap ToSet(fifo) = {}
      BY <1>0, <2>3, <2>8 DEF InRam
    <3> QED
      BY <2>3, <3>1, <3>2, ConcatIs
  <2>11. ASSUME NEW pgn \in ToSet(fifo2) PROVE InRam(table2[pgn])
    <3>1. CASE pgn \in ToSet(w)
      BY <2>3, <2>4, <2>7, <3>1
    <3>2. CASE pgn \in ToSet(fifo)
      <4>1. InRam(table[pgn]) /\ pgn \in Pages
        <5>1. pgn \in Pages
          BY <1>0, <3>2, LenProperties, ElementOfSeq DEF ToSet
        <5> QED
          BY <1>0, <3>2, <5>1
      <4> QED
        BY <2>7, <2>8, <4>1 DEF InRam
    <3> QED
      BY <2>10, <2>11, <3>1, <3>2
  <2>12. ASSUME NEW pgn \in Pages, table2[pgn].present PROVE pgn < n + count
    <3>1. CASE pgn \in n..(n + count - 1)
      BY <3>1
    <3>2. CASE pgn \notin n..(n + count - 1)
      BY <1>0, <2>7, <2>12, <3>2, RegionsAssumption DEF Pages
    <3> QED
      BY <3>1, <3>2
  <2> HIDE DEF fifo2
  <2>13. rest \in Seq(RamFrameNumbers)
    BY <2>9 DEF OwnedOnce
  <2>14. ASSUME NEW pgn \in Pages PROVE Turned(pte[p][pgn], table2[pgn])
    <3>1. CASE pgn \in n..(n + count - 1)
      <4>1. ~table[pgn].present /\ InRam(table2[pgn])
        BY <2>4, <2>7, <2>8, <3>1
      <4>2. Turned(pte[p][pgn], table[pgn])
        BY <1>0
      <4>3. ~pte[p][pgn].present
        BY <4>1, <4>2 DEF Turned, InRam
      <4> QED
        BY <4>1, <4>3 DEF Turned
    <3>2. CASE pgn \notin n..(n + count - 1)
      <4>1. table2[pgn] = table[pgn]
        BY <2>7, <3>2
      <4> QED
        BY <1>0, <4>1
    <3> QED
      BY <3>1, <3>2
  <2> QED
    BY <2>1, <2>5, <2>9, <2>10, <2>11, <2>12, <2>13, <2>14 DEF MapInv, MapRecords, u
<1> QED
  BY <1>1, <1>2
-----------------------------------------------------------------------------
(* Arithmetic of pages *)
LEMMA PageBound ==
    ASSUME NEW n \in Nat, NEW addr \in Nat
    PROVE  /\ Page(n * PAGESZ) = n /\ n * PAGESZ \in Nat
           /\ addr < n * PAGESZ => Page(addr) \in Nat /\ Page(addr) < n
           /\ addr < n => addr * PAGESZ < n * PAGESZ
<1>1. PAGESZ \in Nat \ {0}
  BY RegionsAssumption
<1>2. Page(n * PAGESZ) = n /\ n * PAGESZ \in Nat
  BY <1>1 DEF Page
<1>3. addr < n * PAGESZ => Page(addr) \in Nat /\ Page(addr) < n
  BY <1>1 DEF Page
<1>4. addr < n => addr * PAGESZ < n * PAGESZ
  BY <1>1
<1> QED
  BY <1>2, <1>3, <1>4

(* An aligned size is a number of whole pages *)
LEMMA AlignedIs ==
    ASSUME NEW size \in Nat \ {0}
    PROVE  \E k \in 1..size : Aligned(size) = k * PAGESZ /\ Aligned(size) \div PAGESZ = k
<1> DEFINE k == (size + PAGESZ - 1) \div PAGESZ
<1>1. PAGESZ \in Nat \ {0}
  BY RegionsAssumption
<1>2. k \in 1..size
  BY <1>1
<1>3. Aligned(size) = k * PAGESZ
  BY DEF Aligned
<1> HIDE DEF k
<1>4. k \in Nat /\ (k * PAGESZ) \div PAGESZ = k
  BY <1>2, PageBound DEF Page
<1> QED
  BY <1>2, <1>3, <1>4
-----------------------------------------------------------------------------
SwpFrameNumbers == 0..(SwpFrames - 1)
MissRecords == [pgn : Pages, victim : Pages, swp : SwpFrameNumbers, rest : Seq(SwpFrameNumbers)]

FramesTypeOK ==
  /\ pte \in Tables
  /\ fifo_pgn \in [Procs -> Seq(Pages)]
  /\ swpFree \in Seq(SwpFrameNumbers)
  /\ miss \in [Procs -> {NoMiss} \cup MissRecords]

(* The area is n pages long and no page from n on has an entry, or is about
   to get one *)
AreaInv(p) ==
  \E n \in 0..mm[p].sbrk :
     /\ mm[p].vm_end = n * PAGESZ
     /\ \A pgn \in Pages : pte[p][pgn].present => pgn < n
     /\ miss[p] # NoMiss => miss[p].pgn < n

QueueInv(p) ==
  /\ IsInjective(fifo_pgn[p])
  /\ \A pgn \in ToSet(fifo_pgn[p]) : InRam(pte[p][pgn])
  /\ miss[p] # NoMiss =>
       /\ InRam(pte[p][miss[p].victim])
       /\ miss[p].victim \notin ToSet(fifo_pgn[p])
       /\ ~pte[p][miss[p].pgn].present

IInv ==
  /\ FramesTypeOK
  /\ OwnedOnce(pte, ramFree)
  /\ \A p \in Procs : AreaInv(p) /\ QueueInv(p)

(* What the steps of paging need of the areas, which MmInv has *)
AllocatorOK == MmTypeOK /\ RegionsInArea

LEMMA NotNoMiss == \A record \in MissRecords : record # NoMiss /\ record.pgn \in Pages
<1>1. MaxBrk \notin Pages /\ NoMiss.pgn = MaxBrk
  BY RegionsAssumption DEF Pages, NoMiss
<1>2. \A record \in MissRecords : record.pgn \in Pages
  BY DEF MissRecords
<1> QED
  BY <1>1, <1>2

LEMMA QueuedPagesResidentIs == MmTypeOK /\ IInv => QueuedPagesResident
<1> SUFFICES ASSUME MmTypeOK, IInv, NEW p \in Procs
             PROVE  /\ IsInjective(fifo_pgn[p])
                    /\ \A pgn \in ToSet(fifo_pgn[p]) :
                          InRam(pte[p][pgn]) /\ pgn * PAGESZ < mm[p].vm_end
                    /\ miss[p] # NoMiss =>
                         /\ InRam(pte[p][miss[p].victim])
                         /\ miss[p].victim \notin ToSet(fifo_pgn[p])
                         /\ ~pte[p][miss[p].pgn].present
  BY DEF QueuedPagesResident
<1>1. QueueInv(p) /\ AreaInv(p)
  BY DEF IInv
<1>2. ASSUME NEW pgn \in ToSet(fifo_pgn[p]) PROVE pgn * PAGESZ < mm[p].vm_end
  <2>1. pgn \in Pages /\ InRam(pte[p][pgn])
    <3>1. fifo_pgn[p] \in Seq(Pages)
      BY DEF IInv, FramesTypeOK
    <3>2. pgn \in Pages
      BY <3>1, LenProperties, ElementOfSeq DEF ToSet
    <3> QED
      BY <1>1, <3>2 DEF QueueInv
  <2>2. PICK n \in 0..mm[p].sbrk : mm[p].vm_end = n * PAGESZ /\ pgn < n
    BY <1>1, <2>1 DEF AreaInv, InRam
  <2>3. n \in Nat /\ pgn \in Nat
    <3>1. mm[p].sbrk \in Nat
      BY RegionsAssumption DEF MmTypeOK
    <3> QED
      BY <2>1, <3>1 DEF Pages
  <2> QED
    BY <2>2, <2>3, PageBound
<1> QED
  BY <1>1, <1>2 DEF QueueInv

(* No page has a frame at first *)
LEMMA NoResidents ==
    ASSUME NEW t, \A p \in Procs : \A pgn \in Pages : ~InRam(t[p][pgn])
    PROVE  ResidentIn(t) = {}
  BY DEF ResidentIn

(* The initial state: every frame is free, no page has one *)
LEMMA InitIInv == PagingInit => IInv
<1> SUFFICES ASSUME PagingInit PROVE IInv
  OBVIOUS
<1>0. /\ \A p \in Procs : \A pgn \in Pages : pte[p][pgn] = NoEntry
      /\ pte = [p \in Procs |-> [pgn \in Pages |-> NoEntry]]
      /\ fifo_pgn = [p \in Procs |-> <<>>] /\ miss = [p \in Procs |-> NoMiss]
      /\ swpFree = [k \in 1..SwpFrames |-> k - 1] /\ ramFree = [k \in 1..RamFrames |-> k - 1]
      /\ \A p \in Procs : mm[p].vm_end = 0 /\ mm[p].sbrk = 0
  BY DEF PagingInit, MmInit
<1>1. NoEntry \in Entry /\ ~NoEntry.present /\ ~InRam(NoEntry)
  BY DEF NoEntry, Entry, InRam
<1>2. FramesTypeOK
  <2>1. pte \in Tables
    BY <1>0, <1>1 DEF Tables
  <2>2. fifo_pgn \in [Procs -> Seq(Pages)]
    BY <1>0, EmptySeq
  <2>3. swpFree \in Seq(SwpFrameNumbers)
    <3>1. SwpFrames \in Nat /\ \A k \in 1..SwpFrames : k - 1 \in SwpFrameNumbers
      BY PagingAssumption DEF SwpFrameNumbers
    <3>2. swpFree = [k \in 1..SwpFrames |-> k - 1]
      BY <1>0
    <3> QED
      BY ONLY <3>1, <3>2
  <2>4. miss \in [Procs -> {NoMiss} \cup MissRecords]
    BY <1>0
  <2> QED
    BY <2>1, <2>2, <2>3, <2>4 DEF FramesTypeOK
<1>3. OwnedOnce(pte, ramFree)
  <2>1. \A p \in Procs : \A pgn \in Pages : ~InRam(pte[p][pgn])
    BY <1>0, <1>1, Zenon
  <2>2. ResidentIn(pte) = {}
    BY <2>1, NoResidents, Zenon
  <2>3. IsFiniteSet(ResidentIn(pte)) /\ Cardinality(ResidentIn(pte)) = 0
    BY <2>2, FS_EmptySet, Zenon
  <2>4. ramFree \in Seq(RamFrameNumbers) /\ Len(ramFree) = RamFrames
    <3>1. RamFrames \in Nat /\ \A k \in 1..RamFrames : k - 1 \in RamFrameNumbers
      BY PagingAssumption DEF RamFrameNumbers
    <3>2. ramFree = [k \in 1..RamFrames |-> k - 1]
      BY <1>0
    <3> QED
      BY ONLY <3>1, <3>2
  <2>5. IsInjective(ramFree)
    BY <1>0, PagingAssumption DEF IsInjective
  <2>6. Len(ramFree) + Cardinality(ResidentIn(pte)) = RamFrames
    <3>1. RamFrames \in Nat
      BY PagingAssumption
    <3> QED
      BY ONLY <2>3, <2>4, <3>1
  <2> QED
    BY <2>1, <2>3, <2>4, <2>5, <2>6, Zenon DEF OwnedOnce
<1>4. ASSUME NEW p \in Procs PROVE AreaInv(p) /\ QueueInv(p)
  <2>1. mm[p].vm_end = 0 * PAGESZ /\ 0 \in 0..mm[p].sbrk
    <3>1. mm[p].vm_end = 0 /\ mm[p].sbrk = 0
      BY <1>0
    <3>2. 0 * PAGESZ = 0
      BY RegionsAssumption
    <3> QED
      BY ONLY <3>1, <3>2
  <2>2. AreaInv(p)
    <3>1. (\A pgn \in Pages : ~pte[p][pgn].present) /\ miss[p] = NoMiss
      BY <1>0, <1>1
    <3> QED
      BY ONLY <2>1, <3>1 DEF AreaInv
  <2>3. QueueInv(p)
    BY <1>0 DEF QueueInv, IsInjective, ToSet
  <2> QED
    BY <2>2, <2>3
<1> QED
  BY <1>2, <1>3, <1>4 DEF IInv
-----------------------------------------------------------------------------
(* A step is one of one process *)
LEMMA OneProcess ==
    ASSUME IInv, NEW p \in Procs, FramesTypeOK', OwnedOnce(pte', ramFree'),
           \A q \in Procs \ {p} :
              /\ mm'[q].vm_end = mm[q].vm_end /\ mm'[q].sbrk = mm[q].sbrk
              /\ pte'[q] = pte[q] /\ fifo_pgn'[q] = fifo_pgn[q] /\ miss'[q] = miss[q],
           AreaInv(p)', QueueInv(p)'
    PROVE  IInv'
<1>1. ASSUME NEW q \in Procs PROVE AreaInv(q)' /\ QueueInv(q)'
  <2>1. CASE q = p
    BY <2>1
  <2>2. CASE q # p
    <3>1. AreaInv(q) /\ QueueInv(q)
      BY DEF IInv
    <3> QED
      BY <2>2, <3>1 DEF AreaInv, QueueInv
  <2> QED
    BY <2>1, <2>2
<1>2. OwnedOnce(pte, ramFree)'
  BY DEF OwnedOnce, ResidentIn
<1> QED
  BY <1>1, <1>2 DEF IInv

(* __alloc from the free list and __free leave the area as it is *)
LEMMA AreaKept ==
    ASSUME MmTypeOK, NEW p \in Procs, NEW id \in Rgids,
           Free(p, id) \/ \E size \in Sizes : AllocFit(p, id, size)
    PROVE  \A q \in Procs : mm'[q].vm_end = mm[q].vm_end /\ mm'[q].sbrk = mm[q].sbrk
<1>1. CASE Free(p, id)
  BY <1>1 DEF Free, MmTypeOK
<1>2. CASE \E size \in Sizes : AllocFit(p, id, size)
  <2>1. PICK list, table : mm' = [mm EXCEPT ![p].freerg = list, ![p].symrg[id] = table]
    BY <1>2, Zenon DEF AllocFit
  <2> QED
    BY <2>1 DEF MmTypeOK
<1> QED
  BY <1>1, <1>2

(* Allocation from the free list and __free touch no page *)
LEMMA RegionStep ==
    ASSUME IInv, MmTypeOK, NEW p \in Procs, NEW id \in Rgids,
           FreeRegion(p, id) \/ \E size \in Sizes : AllocReuse(p, id, size)
    PROVE  IInv'
<1>1. UNCHANGED <<frames, miss>>
  BY DEF FreeRegion, AllocReuse
<1>2. \A q \in Procs : mm'[q].vm_end = mm[q].vm_end /\ mm'[q].sbrk = mm[q].sbrk
  <2>1. Free(p, id) \/ \E size \in Sizes : AllocFit(p, id, size)
    BY DEF FreeRegion, AllocReuse
  <2> QED
    BY <2>1, AreaKept
<1>3. AreaInv(p) /\ QueueInv(p)
  BY DEF IInv
<1>4. AreaInv(p)' /\ QueueInv(p)'
  BY <1>1, <1>2, <1>3 DEF AreaInv, QueueInv, frames
<1>5. FramesTypeOK' /\ OwnedOnce(pte', ramFree')
  BY <1>1 DEF IInv, FramesTypeOK, frames
<1> QED
  BY <1>1, <1>2, <1>4, <1>5, OneProcess DEF frames

(* The area of n pages grows by those of one or two calls *)
LEMMA GrowthIs ==
    ASSUME MmTypeOK, NEW p \in Procs, AreaInv(p), NEW id \in Rgids, NEW size \in Sizes,
           NEW calls \in 1..2, AllocGrow(p, id, size, calls)
    PROVE  \E n, k \in Nat :
              /\ Page(mm[p].vm_end) = n /\ Aligned(size) \div PAGESZ = k
              /\ \A pgn \in Pages : pte[p][pgn].present => pgn < n
              /\ mm'[p].vm_end = (n + calls * k) * PAGESZ
              /\ n + calls * k <= mm'[p].sbrk /\ n + calls * k <= MaxBrk
              /\ \A q \in Procs \ {p} : mm'[q] = mm[q]
<1>1. /\ mm[p].sbrk \in Nat /\ mm[p].vm_end \in Nat
      /\ mm[p].sbrk + calls * size <= MaxBrk
      /\ mm'[p].sbrk = mm[p].sbrk + calls * size
      /\ mm'[p].vm_end = mm[p].vm_end + calls * Aligned(size)
      /\ \A q \in Procs \ {p} : mm'[q] = mm[q]
  BY RegionsAssumption DEF MmTypeOK, AllocGrow
<1>2. size \in Nat \ {0} /\ PAGESZ \in Nat \ {0} /\ MaxBrk \in Nat
  BY RegionsAssumption
<1>3. PICK k \in 1..size : Aligned(size) = k * PAGESZ /\ Aligned(size) \div PAGESZ = k
  BY <1>2, AlignedIs
<1>4. PICK n \in 0..mm[p].sbrk :
        /\ mm[p].vm_end = n * PAGESZ
        /\ \A pgn \in Pages : pte[p][pgn].present => pgn < n
  BY DEF AreaInv
<1>5. n \in Nat /\ k \in Nat /\ n <= mm[p].sbrk /\ k <= size
  BY <1>1, <1>2, <1>3, <1>4
<1>6. Page(mm[p].vm_end) = n
  BY <1>4, <1>5, PageBound
<1>7. mm'[p].vm_end = (n + calls * k) * PAGESZ
  <2>1. \A a, b \in Nat : a * PAGESZ + calls * (b * PAGESZ) = (a + calls * b) * PAGESZ
    BY ONLY <1>2, SMT
  <2> QED
    BY <1>1, <1>3, <1>4, <1>5, <2>1
<1>8. n + calls * k <= mm'[p].sbrk /\ n + calls * k <= MaxBrk
  <2>1. CASE calls = 1
    BY <1>1, <1>2, <1>5, <2>1
  <2>2. CASE calls = 2
    BY <1>1, <1>2, <1>5, <2>2
  <2> QED
    BY <2>1, <2>2
<1> QED
  BY <1>1, <1>3, <1>4, <1>5, <1>6, <1>7, <1>8

(* inc_vma_limit and vm_map_ram, called once, or twice as the code does it when
   the first call has failed *)
LEMMA GrowStep ==
    ASSUME IInv, MmTypeOK, NEW p \in Procs, NEW id \in Rgids, NEW size \in Sizes,
           NEW calls \in 1..2, miss[p] = NoMiss, AllocExtend(p, id, size, calls)
    PROVE  IInv' /\ EntriesTurn
<1>1. /\ pte \in Tables /\ fifo_pgn \in [Procs -> Seq(Pages)]
      /\ swpFree \in Seq(SwpFrameNumbers) /\ miss \in [Procs -> {NoMiss} \cup MissRecords]
      /\ OwnedOnce(pte, ramFree) /\ AreaInv(p) /\ QueueInv(p)
  BY DEF IInv, FramesTypeOK
<1>2. PICK n \in Nat, k \in Nat :
        /\ Page(mm[p].vm_end) = n /\ Aligned(size) \div PAGESZ = k
        /\ \A pgn \in Pages : pte[p][pgn].present => pgn < n
        /\ mm'[p].vm_end = (n + calls * k) * PAGESZ
        /\ n + calls * k <= mm'[p].sbrk /\ n + calls * k <= MaxBrk
        /\ \A q \in Procs \ {p} : mm'[q] = mm[q]
  <2>1. AllocGrow(p, id, size, calls)
    BY DEF AllocExtend
  <2> QED
    BY <1>1, <2>1, GrowthIs
<1> DEFINE before == [ramFree |-> ramFree, pte |-> pte[p], fifo |-> fifo_pgn[p]]
           once == MapRam(before, n, k)
           after == IF calls = 1 THEN once ELSE MapRam(once, n + k, k)
<1>3. /\ ramFree' = after.ramFree
      /\ pte' = [pte EXCEPT ![p] = after.pte]
      /\ fifo_pgn' = [fifo_pgn EXCEPT ![p] = after.fifo]
      /\ swpFree' = swpFree /\ miss' = miss
  BY <1>2, Zenon DEF AllocExtend
<1>4. MapInv(p, before, n)
  <2>1. [pte EXCEPT ![p] = pte[p]] = pte
    BY <1>1 DEF Tables
  <2>2. pte[p] \in [Pages -> Entry] /\ fifo_pgn[p] \in Seq(Pages) /\ ramFree \in Seq(RamFrameNumbers)
    BY <1>1 DEF Tables, OwnedOnce
  <2>3. /\ before \in MapRecords /\ before.pte = pte[p]
        /\ before.fifo = fifo_pgn[p] /\ before.ramFree = ramFree
    BY <2>2 DEF MapRecords
  <2> HIDE DEF before
  <2>4. \A pgn \in Pages : Turned(pte[p][pgn], before.pte[pgn])
    BY <2>3 DEF Turned
  <2> QED
    BY <1>1, <1>2, <2>1, <2>3, <2>4 DEF MapInv, QueueInv
<1> HIDE DEF before
<1>5. MapInv(p, once, n + k)
  <2>1. n + k <= MaxBrk
    BY <1>2, RegionsAssumption
  <2> QED
    BY <1>1, <1>4, <2>1, MapRamKeeps
<1> HIDE DEF once
<1>6. MapInv(p, after, n + calls * k)
  <2>1. CASE calls = 1
    <3>1. after = once /\ n + calls * k = n + k
      BY <1>2, <2>1
    <3> QED
      BY <1>5, <3>1, Zenon
  <2>2. CASE calls # 1
    <3>1. /\ after = MapRam(once, n + k, k)
          /\ n + calls * k = (n + k) + k /\ n + k \in Nat
      BY <2>2
    <3>2. (n + k) + k <= MaxBrk
      BY <1>2, <3>1
    <3>3. MapInv(p, MapRam(once, n + k, k), (n + k) + k)
      BY <1>1, <1>5, <3>1, <3>2, MapRamKeeps
    <3> QED
      BY <3>1, <3>3, Zenon
  <2> QED
    BY <2>1, <2>2
<1> HIDE DEF after
<1> DEFINE table2 == after.pte
           fifo2 == after.fifo
<1>7. /\ table2 \in [Pages -> Entry] /\ OwnedOnce([pte EXCEPT ![p] = table2], after.ramFree)
      /\ fifo2 \in Seq(Pages) /\ IsInjective(fifo2)
      /\ \A pgn \in ToSet(fifo2) : InRam(table2[pgn])
      /\ \A pgn \in Pages : table2[pgn].present => pgn < n + calls * k
      /\ \A pgn \in Pages : Turned(pte[p][pgn], table2[pgn])
  BY <1>6 DEF MapInv, MapRecords
<1>8. pte' = [pte EXCEPT ![p] = table2] /\ fifo_pgn' = [fifo_pgn EXCEPT ![p] = fifo2]
  BY <1>3
<1> HIDE DEF table2, fifo2
<1>10. /\ pte'[p] = table2 /\ fifo_pgn'[p] = fifo2
       /\ \A q \in Procs \ {p} : pte'[q] = pte[q] /\ fifo_pgn'[q] = fifo_pgn[q]
       /\ pte' \in Tables /\ fifo_pgn' \in [Procs -> Seq(Pages)]
  BY <1>1, <1>7, <1>8 DEF Tables
<1>11. FramesTypeOK' /\ OwnedOnce(pte', ramFree')
  BY <1>1, <1>3, <1>7, <1>8, <1>10 DEF FramesTypeOK
<1>12. AreaInv(p)'
  <2>1. n + calls * k \in 0..mm'[p].sbrk
    BY <1>2
  <2>2. miss'[p] = NoMiss
    BY <1>3
  <2> QED
    BY <1>2, <1>7, <1>10, <2>1, <2>2 DEF AreaInv
<1>13. QueueInv(p)'
  BY <1>3, <1>7, <1>10 DEF QueueInv
<1>14. EntriesTurn
  BY <1>7, <1>10 DEF EntriesTurn, Turned
<1> QED
  BY <1>2, <1>3, <1>10, <1>11, <1>12, <1>13, <1>14, OneProcess
-----------------------------------------------------------------------------
(* What __read and __write find: an accepted address is on a page of the area *)
LEMMA AcceptedPage ==
    ASSUME AllocatorOK, NEW p \in Procs, AreaInv(p), NEW id \in Rgids, NEW addr \in Addresses,
           Accepts(p, id, addr)
    PROVE  /\ miss[p] = NoMiss
           /\ \E n \in 0..mm[p].sbrk :
                 /\ mm[p].vm_end = n * PAGESZ /\ Page(addr) < n /\ Page(addr) \in Pages
                 /\ \A pgn \in Pages : pte[p][pgn].present => pgn < n
<1>1. /\ mm[p].sbrk \in 0..MaxBrk /\ mm[p].symrg[id] \in Region
      /\ mm[p].symrg[id].end <= mm[p].vm_end
  BY DEF AllocatorOK, MmTypeOK, RegionsInArea
<1>2. PICK n \in 0..mm[p].sbrk :
        /\ mm[p].vm_end = n * PAGESZ
        /\ \A pgn \in Pages : pte[p][pgn].present => pgn < n
  BY DEF AreaInv
<1>3. n \in Nat /\ n <= MaxBrk /\ n * PAGESZ \in Nat
  BY <1>1, <1>2, PageBound, RegionsAssumption
<1>4. addr \in Nat /\ addr < n * PAGESZ
  <2>1. mm[p].symrg[id].start \in Nat /\ mm[p].symrg[id].end \in Nat
    BY <1>1 DEF Region
  <2>2. addr \in mm[p].symrg[id].start..(mm[p].symrg[id].end - 1)
    BY DEF Accepts, Bytes
  <2> QED
    BY <1>1, <1>2, <1>3, <2>1, <2>2
<1>5. Page(addr) \in Nat /\ Page(addr) < n
  BY <1>3, <1>4, PageBound
<1>6. Page(addr) \in Pages
  BY <1>3, <1>5, RegionsAssumption DEF Pages
<1> QED
  BY <1>2, <1>5, <1>6 DEF Accepts

(* The victim of a process with pages *)
LEMMA VictimIs ==
    ASSUME IInv, NEW p \in Procs, fifo_pgn[p] # <<>>
    PROVE  /\ Last(fifo_pgn[p]) \in Pages /\ InRam(pte[p][Last(fifo_pgn[p])])
           /\ Front(fifo_pgn[p]) \in Seq(Pages) /\ IsInjective(Front(fifo_pgn[p]))
           /\ ToSet(Front(fifo_pgn[p])) = ToSet(fifo_pgn[p]) \ {Last(fifo_pgn[p])}
<1>1. fifo_pgn[p] \in Seq(Pages) /\ QueueInv(p)
  BY DEF IInv, FramesTypeOK
<1>2. /\ Last(fifo_pgn[p]) \in ToSet(fifo_pgn[p])
      /\ Front(fifo_pgn[p]) \in Seq(Pages) /\ IsInjective(Front(fifo_pgn[p]))
      /\ ToSet(Front(fifo_pgn[p])) = ToSet(fifo_pgn[p]) \ {Last(fifo_pgn[p])}
  BY <1>1, FrontIs DEF QueueInv
<1>3. Last(fifo_pgn[p]) \in Pages
  BY <1>1, <1>2, LenProperties, ElementOfSeq DEF ToSet
<1> QED
  BY <1>1, <1>2, <1>3 DEF QueueInv

(* A page that enters a FIFO that it is not in *)
LEMMA EnqueueIs ==
    ASSUME NEW s \in Seq(Pages), IsInjective(s), NEW pgn \in Pages, pgn \notin ToSet(s)
    PROVE  /\ <<pgn>> \o s \in Seq(Pages) /\ IsInjective(<<pgn>> \o s)
           /\ ToSet(<<pgn>> \o s) = {pgn} \cup ToSet(s)
<1> DEFINE w == <<pgn>>
<1>1. w \in Seq(Pages) /\ IsInjective(w) /\ ToSet(w) = {pgn}
  BY DEF IsInjective, ToSet
<1> HIDE DEF w
<1>2. ToSet(w) \cap ToSet(s) = {}
  BY <1>1
<1>3. w \o s \in Seq(Pages) /\ IsInjective(w \o s) /\ ToSet(w \o s) = {pgn} \cup ToSet(s)
  BY <1>1, <1>2, ConcatIs
<1> QED
  BY <1>3 DEF w

(* The page pgn gets the frame of victim and enters the rest s of the FIFO *)
LEMMA EvictStep ==
    ASSUME IInv, NEW p \in Procs, NEW pgn \in Pages, NEW victim \in Pages, NEW swp \in SwpFrameNumbers,
           InRam(pte[p][victim]), ~pte[p][pgn].present, Evict(p, pgn, victim, swp),
           NEW s \in Seq(Pages), IsInjective(s), victim \notin ToSet(s),
           \A other \in ToSet(s) : InRam(pte[p][other]),
           fifo_pgn' = [fifo_pgn EXCEPT ![p] = <<pgn>> \o s],
           NEW n \in 0..mm[p].sbrk, mm[p].vm_end = n * PAGESZ, pgn < n,
           \A other \in Pages : pte[p][other].present => other < n,
           swpFree' \in Seq(SwpFrameNumbers), UNCHANGED <<mm, ramFree>>,
           miss' \in [Procs -> {NoMiss} \cup MissRecords], miss'[p] = NoMiss,
           \A q \in Procs \ {p} : miss'[q] = miss[q]
    PROVE  IInv' /\ EntriesTurn /\ InRam(pte'[p][pgn])
<1>1. pte \in Tables /\ OwnedOnce(pte, ramFree) /\ fifo_pgn \in [Procs -> Seq(Pages)]
  BY DEF IInv, FramesTypeOK
<1>2. ~InRam(pte[p][pgn])
  BY DEF InRam
<1>3. /\ pte' \in Tables /\ OwnedOnce(pte', ramFree)
      /\ \A q \in Procs \ {p} : pte'[q] = pte[q]
      /\ \A other \in Pages \ {pgn, victim} : pte'[p][other] = pte[p][other]
      /\ InRam(pte'[p][pgn]) /\ ~InRam(pte'[p][victim]) /\ pte'[p][victim].present
  <2>1. pte' = Evicted(pte, p, pgn, victim, swp) /\ swp \in Nat
    BY DEF Evict, Evicted, SwpFrameNumbers
  <2> QED
    BY <1>1, <1>2, <2>1, EvictKeepsOwnership
<1>4. pgn \notin ToSet(s) /\ \A other \in ToSet(s) : other \in Pages
  BY <1>2, LenProperties, ElementOfSeq DEF ToSet
<1> DEFINE r == <<pgn>> \o s
<1>5. r \in Seq(Pages) /\ IsInjective(r) /\ ToSet(r) = {pgn} \cup ToSet(s)
  BY <1>4, EnqueueIs
<1>6. fifo_pgn' = [fifo_pgn EXCEPT ![p] = r]
  OBVIOUS
<1> HIDE DEF r
<1>7. /\ fifo_pgn' \in [Procs -> Seq(Pages)] /\ fifo_pgn'[p] = r
      /\ \A q \in Procs \ {p} : fifo_pgn'[q] = fifo_pgn[q]
  BY <1>1, <1>5, <1>6
<1>8. FramesTypeOK' /\ OwnedOnce(pte', ramFree')
  BY <1>3, <1>7 DEF FramesTypeOK
<1>9. AreaInv(p)'
  <2>1. \A other \in Pages : pte'[p][other].present => other < n
    <3>1. victim < n
      BY DEF InRam
    <3> QED
      BY <1>3, <3>1
  <2> QED
    BY <2>1 DEF AreaInv
<1>10. QueueInv(p)'
  <2>1. ASSUME NEW other \in ToSet(r) PROVE InRam(pte'[p][other])
    <3>1. CASE other = pgn
      BY <1>3, <3>1
    <3>2. CASE other # pgn
      <4>1. other \in ToSet(s) /\ other \in Pages /\ other # victim
        BY <1>4, <1>5, <3>2
      <4> QED
        BY <1>3, <3>2, <4>1
    <3> QED
      BY <3>1, <3>2
  <2> QED
    BY <1>5, <1>7, <2>1 DEF QueueInv
<1>11. EntriesTurn
  BY <1>3 DEF EntriesTurn, Turned, InRam
<1> QED
  BY <1>3, <1>7, <1>8, <1>9, <1>10, <1>11, OneProcess

(* __write to a page that is not in RAM evicts the victim of find_victim_page *)
LEMMA WriteMissStep ==
    ASSUME IInv, AllocatorOK, NEW p \in Procs, NEW id \in Rgids, NEW addr \in Addresses,
           Accepts(p, id, addr), WriteMiss(p, addr)
    PROVE  IInv' /\ EntriesTurn /\ InRam(pte'[p][Page(addr)])
<1> DEFINE pgn == Page(addr)
           victim == Last(fifo_pgn[p])
           s == Front(fifo_pgn[p])
<1>1. /\ ~pte[p][pgn].present /\ fifo_pgn[p] # <<>> /\ swpFree # <<>>
      /\ Evict(p, pgn, victim, Head(swpFree))
      /\ swpFree' = Tail(swpFree) /\ fifo_pgn' = [fifo_pgn EXCEPT ![p] = <<pgn>> \o s]
      /\ UNCHANGED <<mm, ramFree, miss>>
  BY DEF WriteMiss, Requeue
<1>2. /\ miss \in [Procs -> {NoMiss} \cup MissRecords]
      /\ Head(swpFree) \in SwpFrameNumbers /\ Tail(swpFree) \in Seq(SwpFrameNumbers)
      /\ AreaInv(p) /\ QueueInv(p) /\ fifo_pgn[p] \in Seq(Pages)
  BY <1>1, HeadTailProperties DEF IInv, FramesTypeOK
<1>3. /\ miss[p] = NoMiss
      /\ \E n \in 0..mm[p].sbrk :
            /\ mm[p].vm_end = n * PAGESZ /\ pgn < n /\ pgn \in Pages
            /\ \A other \in Pages : pte[p][other].present => other < n
  BY <1>2, AcceptedPage
<1>4. /\ victim \in Pages /\ InRam(pte[p][victim]) /\ s \in Seq(Pages) /\ IsInjective(s)
      /\ ToSet(s) = ToSet(fifo_pgn[p]) \ {victim}
  BY <1>1, VictimIs
<1> HIDE DEF pgn, victim, s
<1>5. victim \notin ToSet(s) /\ \A other \in ToSet(s) : InRam(pte[p][other])
  BY <1>2, <1>4 DEF QueueInv
<1>6. PICK n \in 0..mm[p].sbrk :
        /\ mm[p].vm_end = n * PAGESZ /\ pgn < n /\ pgn \in Pages
        /\ \A other \in Pages : pte[p][other].present => other < n
  BY <1>3
<1>7. swpFree' \in Seq(SwpFrameNumbers) /\ miss' \in [Procs -> {NoMiss} \cup MissRecords] /\ miss'[p] = NoMiss
  BY <1>1, <1>2, <1>3
<1> QED
  BY <1>1, <1>2, <1>4, <1>5, <1>6, <1>7, EvictStep DEF pgn

(* pg_getpage when no frame of the swap device is free: the victim is lost from
   the FIFO and keeps its frame *)
LEMMA SwapFullStep ==
    ASSUME IInv, NEW p \in Procs, miss[p] = NoMiss, NEW addr \in Addresses, SwapFull(p, addr)
    PROVE  IInv'
<1> DEFINE s == Front(fifo_pgn[p])
<1>1. /\ fifo_pgn[p] # <<>> /\ fifo_pgn' = [fifo_pgn EXCEPT ![p] = s]
      /\ UNCHANGED <<mm, pte, ramFree, swpFree, miss>>
  BY DEF SwapFull
<1>2. /\ s \in Seq(Pages) /\ IsInjective(s)
      /\ ToSet(s) = ToSet(fifo_pgn[p]) \ {Last(fifo_pgn[p])}
  BY <1>1, VictimIs
<1> HIDE DEF s
<1>3. /\ fifo_pgn' \in [Procs -> Seq(Pages)] /\ fifo_pgn'[p] = s
      /\ \A q \in Procs \ {p} : fifo_pgn'[q] = fifo_pgn[q]
  BY <1>1, <1>2 DEF IInv, FramesTypeOK
<1>4. FramesTypeOK' /\ OwnedOnce(pte', ramFree')
  BY <1>1, <1>3 DEF IInv, FramesTypeOK
<1>5. AreaInv(p)' /\ QueueInv(p)'
  BY <1>1, <1>2, <1>3 DEF IInv, AreaInv, QueueInv
<1> QED
  BY <1>1, <1>3, <1>4, <1>5, OneProcess

(* __read of a page that is not in RAM: the lookup, before the page is fetched *)
LEMMA ReadMissStep ==
    ASSUME IInv, AllocatorOK, NEW p \in Procs, NEW id \in Rgids, NEW addr \in Addresses,
           Accepts(p, id, addr), ReadMiss(p, addr)
    PROVE  IInv'
<1> DEFINE pgn == Page(addr)
           victim == Last(fifo_pgn[p])
           s == Front(fifo_pgn[p])
           record == [pgn |-> pgn, victim |-> victim, swp |-> Head(swpFree), rest |-> Tail(swpFree)]
<1>1. /\ ~pte[p][pgn].present /\ fifo_pgn[p] # <<>> /\ swpFree # <<>>
      /\ fifo_pgn' = [fifo_pgn EXCEPT ![p] = s]
      /\ miss' = [miss EXCEPT ![p] = record]
      /\ UNCHANGED <<mm, pte, ramFree, swpFree>>
  BY DEF ReadMiss
<1>2. /\ miss \in [Procs -> {NoMiss} \cup MissRecords]
      /\ Head(swpFree) \in SwpFrameNumbers /\ Tail(swpFree) \in Seq(SwpFrameNumbers)
      /\ AreaInv(p) /\ QueueInv(p) /\ fifo_pgn \in [Procs -> Seq(Pages)]
      /\ FramesTypeOK /\ OwnedOnce(pte, ramFree)
  BY <1>1, HeadTailProperties DEF IInv, FramesTypeOK
<1>3. PICK n \in 0..mm[p].sbrk :
        /\ mm[p].vm_end = n * PAGESZ /\ pgn < n /\ pgn \in Pages
        /\ \A other \in Pages : pte[p][other].present => other < n
  BY <1>2, AcceptedPage
<1>4. /\ victim \in Pages /\ InRam(pte[p][victim]) /\ s \in Seq(Pages) /\ IsInjective(s)
      /\ ToSet(s) = ToSet(fifo_pgn[p]) \ {victim}
  BY <1>1, VictimIs
<1> HIDE DEF pgn, victim, s
<1>5. record \in MissRecords /\ record.pgn = pgn /\ record.victim = victim
  BY <1>2, <1>3, <1>4 DEF MissRecords
<1> HIDE DEF record
<1>6. /\ fifo_pgn' \in [Procs -> Seq(Pages)] /\ fifo_pgn'[p] = s
      /\ miss' \in [Procs -> {NoMiss} \cup MissRecords] /\ miss'[p] = record
      /\ \A q \in Procs \ {p} : fifo_pgn'[q] = fifo_pgn[q] /\ miss'[q] = miss[q]
  BY <1>1, <1>2, <1>4, <1>5
<1>7. FramesTypeOK' /\ OwnedOnce(pte', ramFree')
  BY <1>1, <1>2, <1>6 DEF FramesTypeOK
<1>8. AreaInv(p)'
  BY <1>1, <1>3, <1>5, <1>6 DEF AreaInv
<1>9. QueueInv(p)'
  BY <1>1, <1>2, <1>4, <1>5, <1>6 DEF QueueInv
<1> QED
  BY <1>1, <1>6, <1>7, <1>8, <1>9, OneProcess

(* __read goes on: the page gets the frame of the victim *)
LEMMA ReadFillStep ==
    ASSUME IInv, NEW p \in Procs, ReadFill(p)
    PROVE  IInv' /\ EntriesTurn
<1> DEFINE pgn == miss[p].pgn
           victim == miss[p].victim
           swp == miss[p].swp
           s == fifo_pgn[p]
<1>1. /\ miss[p] # NoMiss /\ swpFree' = miss[p].rest
      /\ Evict(p, pgn, victim, swp)
      /\ fifo_pgn' = [fifo_pgn EXCEPT ![p] = <<pgn>> \o s]
      /\ miss' = [miss EXCEPT ![p] = NoMiss]
      /\ UNCHANGED <<mm, ramFree>>
  BY DEF ReadFill
<1>2. /\ miss \in [Procs -> {NoMiss} \cup MissRecords]
      /\ AreaInv(p) /\ QueueInv(p) /\ s \in Seq(Pages)
  BY DEF IInv, FramesTypeOK
<1>3. /\ pgn \in Pages /\ victim \in Pages /\ swp \in SwpFrameNumbers /\ miss[p].rest \in Seq(SwpFrameNumbers)
  <2>1. miss[p] \in MissRecords
    BY <1>1, <1>2
  <2> QED
    BY <2>1 DEF MissRecords
<1>4. PICK n \in 0..mm[p].sbrk :
        /\ mm[p].vm_end = n * PAGESZ /\ pgn < n
        /\ \A other \in Pages : pte[p][other].present => other < n
  BY <1>1, <1>2 DEF AreaInv
<1>5. /\ InRam(pte[p][victim]) /\ ~pte[p][pgn].present
      /\ IsInjective(s) /\ victim \notin ToSet(s)
      /\ \A other \in ToSet(s) : InRam(pte[p][other])
  BY <1>1, <1>2 DEF QueueInv
<1>6. /\ miss' \in [Procs -> {NoMiss} \cup MissRecords] /\ miss'[p] = NoMiss
      /\ \A q \in Procs \ {p} : miss'[q] = miss[q]
  BY <1>1, <1>2
<1>7. swpFree' \in Seq(SwpFrameNumbers)
  BY <1>1, <1>3
<1> HIDE DEF pgn, victim, swp, s
<1> QED
  BY <1>1, <1>2, <1>3, <1>4, <1>5, <1>6, <1>7, EvictStep

(* __write to a page in RAM changes no entry *)
LEMMA WriteHitStep ==
    ASSUME IInv, NEW p \in Procs, NEW addr \in Addresses, WriteHit(p, addr)
    PROVE  IInv'
  BY DEF WriteHit, frames, IInv, FramesTypeOK, OwnedOnce, ResidentIn, AreaInv, QueueInv
-----------------------------------------------------------------------------
(* The areas under the steps that paging adds *)
LEMMA AllocatorIsOK == MmInv => AllocatorOK
  BY MmInvIs DEF AllocatorOK, RegionsInArea

(* The steps of paging are those of the allocator or leave the areas alone *)
LEMMA StepMmInv == MmInv /\ [Next]_vars => MmInv'
<1> SUFFICES ASSUME MmInv, [Next]_vars PROVE MmInv'
  OBVIOUS
<1>1. ASSUME mm' = mm PROVE MmInv'
  BY <1>1 DEF MmInv
<1>2. ASSUME NEW p \in Procs, NEW id \in Rgids, NEW size \in Sizes, AllocReuse(p, id, size)
      PROVE  MmInv'
  <2>1. AllocFit(p, id, size) /\ size \in Nat \ {0}
    BY <1>2, RegionsAssumption DEF AllocReuse
  <2> QED
    BY <2>1, AllocFitIs
<1>3. ASSUME NEW p \in Procs, NEW id \in Rgids, NEW size \in Sizes, NEW calls \in 1..2,
             AllocExtend(p, id, size, calls)
      PROVE  MmInv'
  <2>1. AllocGrow(p, id, size, calls) /\ size \in Nat \ {0}
    BY <1>3, RegionsAssumption DEF AllocExtend
  <2> QED
    BY <2>1, AllocGrowIs
<1>4. ASSUME NEW p \in Procs, NEW id \in Rgids, FreeRegion(p, id) PROVE MmInv'
  BY <1>4, FreeIs DEF FreeRegion
<1>5. ASSUME NEW p \in Procs, ReadFill(p) PROVE mm' = mm
  BY <1>5 DEF ReadFill
<1>6. ASSUME NEW p \in Procs, NEW id \in Rgids, NEW addr \in Addresses, Access(p, id, addr)
      PROVE  mm' = mm
  BY <1>6 DEF Access, WriteHit, WriteMiss, SwapFull, ReadMiss
<1>7. CASE UNCHANGED vars
  BY <1>1, <1>7 DEF vars
<1> QED
  BY <1>1, <1>2, <1>3, <1>4, <1>5, <1>6, <1>7 DEF Next

(* IInv is inductive under the steps of paging *)
LEMMA StepIInv == IInv /\ AllocatorOK /\ [Next]_vars => IInv' /\ EntriesTurn
<1> SUFFICES ASSUME IInv, AllocatorOK, [Next]_vars PROVE IInv' /\ EntriesTurn
  OBVIOUS
<1>1. MmTypeOK
  BY DEF AllocatorOK
<1>2. ASSUME pte' = pte PROVE EntriesTurn
  BY <1>2 DEF EntriesTurn, Turned
<1>3. CASE UNCHANGED vars
  <2>1. IInv'
    BY <1>3 DEF vars, frames, IInv, FramesTypeOK, OwnedOnce, ResidentIn, AreaInv, QueueInv
  <2> QED
    BY <1>2, <1>3, <2>1 DEF vars, frames
<1>4. ASSUME NEW p \in Procs, ReadFill(p) PROVE IInv' /\ EntriesTurn
  BY <1>4, ReadFillStep
<1>5. ASSUME NEW p \in Procs, NEW id \in Rgids, NEW size \in Sizes, AllocReuse(p, id, size)
      PROVE  IInv' /\ EntriesTurn
  <2>1. IInv'
    BY <1>1, <1>5, RegionStep
  <2> QED
    BY <1>2, <1>5, <2>1 DEF AllocReuse, frames
<1>6. ASSUME NEW p \in Procs, NEW id \in Rgids, NEW size \in Sizes, NEW calls \in 1..2,
             miss[p] = NoMiss, AllocExtend(p, id, size, calls)
      PROVE  IInv' /\ EntriesTurn
  BY <1>1, <1>6, GrowStep
<1>7. ASSUME NEW p \in Procs, NEW id \in Rgids, FreeRegion(p, id) PROVE IInv' /\ EntriesTurn
  <2>1. IInv'
    BY <1>1, <1>7, RegionStep
  <2> QED
    BY <1>2, <1>7, <2>1 DEF FreeRegion, frames
<1>8. ASSUME NEW p \in Procs, NEW id \in Rgids, NEW addr \in Addresses, Access(p, id, addr)
      PROVE  IInv' /\ EntriesTurn
  <2>1. Accepts(p, id, addr) /\ miss[p] = NoMiss
    BY <1>8 DEF Access, Accepts
  <2>2. CASE WriteHit(p, addr)
    <3>1. IInv'
      BY <2>2, WriteHitStep
    <3> QED
      BY <1>2, <2>2, <3>1 DEF WriteHit, frames
  <2>3. CASE WriteMiss(p, addr)
    BY <2>1, <2>3, WriteMissStep
  <2>4. CASE SwapFull(p, addr)
    <3>1. IInv'
      BY <2>1, <2>4, SwapFullStep
    <3> QED
      BY <1>2, <2>4, <3>1 DEF SwapFull
  <2>5. CASE ReadMiss(p, addr)
    <3>1. IInv'
      BY <2>1, <2>5, ReadMissStep
    <3> QED
      BY <1>2, <2>5, <3>1 DEF ReadMiss
  <2> QED
    BY <1>8, <2>2, <2>3, <2>4, <2>5 DEF Access
<1> QED
  BY <1>3, <1>4, <1>5, <1>6, <1>7, <1>8 DEF Next

-----------------------------------------------------------------------------
(* The bytes of RAM *)

(* An address of a device has one frame and one offset *)
LEMMA FrameAndOffset ==
    ASSUME NEW x \in Nat, NEW y \in Nat, NEW i \in 0..(PAGESZ - 1), NEW j \in 0..(PAGESZ - 1)
    PROVE  /\ x * PAGESZ + i = y * PAGESZ + j => x = y /\ i = j
           /\ x < y => x * PAGESZ + i < y * PAGESZ /\ x * PAGESZ + i \in Nat
<1>1. PAGESZ \in Nat \ {0}
  BY RegionsAssumption
<1>2. \A a, b \in Nat : a < b => (a + 1) * PAGESZ <= b * PAGESZ
  BY ONLY <1>1, SMT
<1>3. \A a \in Nat : (a + 1) * PAGESZ = a * PAGESZ + PAGESZ /\ a * PAGESZ \in Nat
  BY ONLY <1>1, SMT
<1>4. \A a, b \in Nat, k \in 0..(PAGESZ - 1) : a < b => a * PAGESZ + k < b * PAGESZ
  <2>1. ASSUME NEW a \in Nat, NEW b \in Nat, NEW k \in 0..(PAGESZ - 1), a < b
        PROVE  a * PAGESZ + k < b * PAGESZ
    <3> DEFINE A1 == a * PAGESZ
               B1 == b * PAGESZ
    <3>1. A1 \in Nat /\ B1 \in Nat /\ A1 + PAGESZ <= B1
      BY <1>2, <1>3, <2>1
    <3> HIDE DEF A1, B1
    <3>2. A1 + k < B1
      BY <1>1, <3>1
    <3> QED
      BY <3>2 DEF A1, B1
  <2> QED
    BY <2>1
<1> DEFINE X == x * PAGESZ
           Y == y * PAGESZ
<1>5. /\ X \in Nat /\ Y \in Nat
      /\ x < y => X + i < Y
      /\ y < x => Y + j < X
      /\ x = y => X = Y
  BY <1>3, <1>4
<1> HIDE DEF X, Y
<1>6. /\ X + i = Y + j => x = y /\ i = j
      /\ x < y => X + i < Y /\ X + i \in Nat
  BY <1>1, <1>5
<1> QED
  BY <1>6 DEF X, Y

(* An address has one page and one offset *)
LEMMA PageAndOffset ==
    ASSUME NEW a \in Addresses
    PROVE  /\ Page(a) \in Pages /\ a % PAGESZ \in 0..(PAGESZ - 1)
           /\ a = Page(a) * PAGESZ + (a % PAGESZ)
<1>1. PAGESZ \in Nat \ {0} /\ a \in Nat /\ MaxBrk \in Nat /\ a < MaxBrk
  BY RegionsAssumption DEF Addresses
<1>2. a % PAGESZ \in 0..(PAGESZ - 1)
  BY <1>1
<1>3. a = (a \div PAGESZ) * PAGESZ + (a % PAGESZ)
  BY <1>1
<1>4. a \div PAGESZ \in Nat /\ a \div PAGESZ <= a
  BY <1>1
<1>5. Page(a) \in Pages
  BY <1>1, <1>4 DEF Page, Pages
<1> QED
  BY <1>2, <1>3, <1>5 DEF Page

HistoryOK ==
  /\ store \in [RamAddresses -> {Zero} \cup (Procs \X Addresses)]
  /\ written \in [Procs -> SUBSET Addresses]

(* The frame of the entry e is not named by the entry of a swapped page *)
Unmistaken(t, e) ==
  \A p \in Procs : \A pgn \in Pages :
    t[p][pgn].present /\ t[p][pgn].swapped => Fpn(t[p][pgn]) # Fpn(e)

(* What was written is on pages that have an entry, and is there *)
DataInv ==
  /\ HistoryOK
  /\ \A p \in Procs : \A addr \in written[p] :
       LET entry == pte[p][Page(addr)]
       IN /\ entry.present
          /\ InRam(entry) /\ Unmistaken(pte, entry)
             => store[PhysAddr(entry, addr)] = Byte(p, addr)

(* An address and the entry of its page give one physical address *)
LEMMA PhysAddrIs ==
    ASSUME NEW e, Fpn(e) \in Nat, NEW a \in Addresses
    PROVE  /\ Fpn(e) \in RamFrameNumbers => PhysAddr(e, a) \in RamAddresses
           /\ \A f : \A b \in Addresses :
                Fpn(f) \in Nat /\ PhysAddr(e, a) = PhysAddr(f, b)
                => Fpn(e) = Fpn(f) /\ (a % PAGESZ) = (b % PAGESZ)
<1>1. a % PAGESZ \in 0..(PAGESZ - 1)
  BY PageAndOffset
<1>2. ASSUME Fpn(e) \in RamFrameNumbers PROVE PhysAddr(e, a) \in RamAddresses
  <2> DEFINE x == Fpn(e)
             i == a % PAGESZ
  <2>1. RamFrames \in Nat /\ x \in Nat /\ x < RamFrames
    BY <1>2, PagingAssumption DEF RamFrameNumbers
  <2>2. i \in 0..(PAGESZ - 1)
    BY <1>1
  <2> HIDE DEF x, i
  <2>3. x * PAGESZ + i < RamFrames * PAGESZ /\ x * PAGESZ + i \in Nat
    BY ONLY <2>1, <2>2, FrameAndOffset
  <2> DEFINE top == RamFrames * PAGESZ
             at == x * PAGESZ + i
  <2>4. top \in Nat
    BY <2>1, RegionsAssumption
  <2>5. at < top /\ at \in Nat
    BY <2>3
  <2> HIDE DEF top, at
  <2>6. at \in 0..(top - 1)
    BY <2>4, <2>5
  <2> QED
    BY <2>6 DEF PhysAddr, RamAddresses, top, at, x, i
<1>3. ASSUME NEW f, NEW b \in Addresses, Fpn(f) \in Nat, PhysAddr(e, a) = PhysAddr(f, b)
      PROVE  Fpn(e) = Fpn(f) /\ (a % PAGESZ) = (b % PAGESZ)
  <2> DEFINE x == Fpn(e)
             y == Fpn(f)
             i == a % PAGESZ
             j == b % PAGESZ
  <2>1. x \in Nat /\ y \in Nat /\ i \in 0..(PAGESZ - 1) /\ j \in 0..(PAGESZ - 1)
    BY <1>3, PageAndOffset
  <2>2. x * PAGESZ + i = y * PAGESZ + j
    BY <1>3 DEF PhysAddr
  <2> HIDE DEF x, y, i, j
  <2>3. x = y /\ i = j
    BY ONLY <2>1, <2>2, FrameAndOffset
  <2> QED
    BY <2>3 DEF x, y, i, j
<1> QED
  BY <1>2, <1>3

LEMMA FrameNumbersNat == 0..(FpnSpan - 1) \subseteq Nat
  BY DEF FpnSpan

(* An entry of the page table, and its frame number *)
LEMMA EntryIs ==
    ASSUME FramesTypeOK, NEW p \in Procs, NEW pgn \in Pages
    PROVE  pte[p][pgn] \in Entry /\ Fpn(pte[p][pgn]) \in Nat
<1>1. pte[p][pgn] \in Entry
  BY DEF FramesTypeOK, Tables
<1>2. Fpn(pte[p][pgn]) \in 0..(FpnSpan - 1)
  BY <1>1, EntryFacts
<1> QED
  BY <1>1, <1>2, FrameNumbersNat, Zenon

(* DataInv is stronger than the property that the runs check *)
LEMMA ResidentDataKeptIs == IInv /\ DataInv => ResidentDataKept
<1> SUFFICES ASSUME IInv, DataInv, NEW p \in Procs, NEW addr \in written[p],
                    InRam(pte[p][Page(addr)]),
                    \A page \in Swapped : Frame(page) # Fpn(pte[p][Page(addr)])
             PROVE  RamRead(pte[p][Page(addr)], addr) = Byte(p, addr)
  BY DEF ResidentDataKept
<1> DEFINE e == pte[p][Page(addr)]
<1>1. addr \in Addresses /\ Page(addr) \in Pages
  BY PageAndOffset DEF DataInv, HistoryOK
<1>2. Unmistaken(pte, e)
  <2>1. ASSUME NEW q \in Procs, NEW pgn \in Pages, pte[q][pgn].present, pte[q][pgn].swapped
        PROVE  Fpn(pte[q][pgn]) # Fpn(e)
    <3> DEFINE page == <<q, pgn>>
    <3>1. page \in Procs \X Pages /\ EntryOf(page) = pte[q][pgn]
      BY DEF EntryOf
    <3> HIDE DEF page
    <3>2. page \in Swapped /\ Frame(page) = Fpn(pte[q][pgn])
      BY <2>1, <3>1 DEF Swapped, Frame
    <3> QED
      BY <3>2
  <2> QED
    BY <2>1 DEF Unmistaken
<1>3. store[PhysAddr(e, addr)] = Byte(p, addr)
  BY <1>2 DEF DataInv
<1>4. Fpn(e) \in RamFrameNumbers /\ Fpn(e) \in Nat
  BY <1>1, EntryIs DEF IInv, OwnedOnce
<1>5. PhysAddr(e, addr) \in RamAddresses
  BY <1>1, <1>4, PhysAddrIs
<1> QED
  BY <1>3, <1>5 DEF RamRead

(* An entry that is in RAM after the step and was present before is as it was,
   and what can be mistaken for its frame only becomes more. *)
LEMMA OldEntries ==
    ASSUME EntriesTurn, NEW p \in Procs, NEW pgn \in Pages, pte[p][pgn].present
    PROVE  /\ pte'[p][pgn].present
           /\ InRam(pte'[p][pgn]) => pte'[p][pgn] = pte[p][pgn]
           /\ \A e : Unmistaken(pte', e) => Unmistaken(pte, e)
<1>1. ASSUME NEW q \in Procs, NEW a \in Pages, pte[q][a].present
      PROVE  /\ pte'[q][a].present
             /\ InRam(pte'[q][a]) \/ pte[q][a].swapped => pte'[q][a] = pte[q][a]
  BY <1>1 DEF EntriesTurn, Turned, InRam
<1>2. ASSUME NEW e, Unmistaken(pte', e) PROVE Unmistaken(pte, e)
  BY <1>1, <1>2 DEF Unmistaken
<1> QED
  BY <1>1, <1>2

(* Steps that do not write to RAM *)
LEMMA DataKept ==
    ASSUME DataInv, EntriesTurn, UNCHANGED <<store, written>> PROVE DataInv'
<1>1. HistoryOK /\ HistoryOK'
  BY DEF DataInv, HistoryOK
<1>2. ASSUME NEW p \in Procs, NEW addr \in written'[p]
      PROVE  /\ pte'[p][Page(addr)].present
             /\ InRam(pte'[p][Page(addr)]) /\ Unmistaken(pte', pte'[p][Page(addr)])
                => store'[PhysAddr(pte'[p][Page(addr)], addr)] = Byte(p, addr)
  <2> DEFINE pgn == Page(addr)
  <2>1. addr \in written[p] /\ addr \in Addresses /\ pgn \in Pages
    BY <1>1, PageAndOffset DEF HistoryOK
  <2>2. pte[p][pgn].present
    BY <2>1 DEF DataInv
  <2>3. pte'[p][pgn].present
    BY <2>1, <2>2, OldEntries
  <2>4. ASSUME InRam(pte'[p][pgn]), Unmistaken(pte', pte'[p][pgn])
        PROVE  store'[PhysAddr(pte'[p][pgn], addr)] = Byte(p, addr)
    <3>1. pte'[p][pgn] = pte[p][pgn] /\ Unmistaken(pte, pte[p][pgn])
      BY <2>1, <2>2, <2>4, OldEntries
    <3>2. store[PhysAddr(pte[p][pgn], addr)] = Byte(p, addr)
      BY <2>1, <2>4, <3>1 DEF DataInv
    <3> QED
      BY <3>1, <3>2
  <2> QED
    BY <2>3, <2>4
<1> QED
  BY <1>1, <1>2 DEF DataInv, PhysAddr, Fpn, InRam, Unmistaken

(* __write: the byte goes to the frame that the entry names. When that is a
   page in RAM, no other page in RAM has the frame. *)
LEMMA DataWritten ==
    ASSUME DataInv, EntriesTurn, IInv', NEW p \in Procs, NEW addr \in Addresses,
           pte'[p][Page(addr)].present,
           store' = Stored(pte'[p][Page(addr)], p, addr),
           written' = [written EXCEPT ![p] = @ \cup {addr}]
    PROVE  DataInv'
<1> DEFINE w == pte'[p][Page(addr)]
<1>1. HistoryOK
  BY DEF DataInv
<1>2. /\ store' \in [RamAddresses -> {Zero} \cup (Procs \X Addresses)]
      /\ \A a \in RamAddresses : store'[a] = IF a = PhysAddr(w, addr) THEN Byte(p, addr) ELSE store[a]
  <2> DEFINE b == Byte(p, addr)
             at == PhysAddr(w, addr)
  <2>1. b \in Procs \X Addresses
    BY DEF Byte
  <2>2. store' = [a \in RamAddresses |-> IF a = at THEN b ELSE store[a]]
    BY DEF Stored
  <2>3. \A a \in RamAddresses : store[a] \in {Zero} \cup (Procs \X Addresses)
    BY <1>1 DEF HistoryOK
  <2> HIDE DEF b, at
  <2>4. /\ store' \in [RamAddresses -> {Zero} \cup (Procs \X Addresses)]
        /\ \A a \in RamAddresses : store'[a] = IF a = at THEN b ELSE store[a]
    BY <2>1, <2>2, <2>3
  <2> QED
    BY <2>4 DEF b, at
<1>3. written' \in [Procs -> SUBSET Addresses]
      /\ \A q \in Procs : \A a \in written'[q] : a \in written[q] \/ (q = p /\ a = addr)
  BY <1>1 DEF HistoryOK
<1>4. /\ Page(addr) \in Pages /\ w.present /\ w \in Entry /\ Fpn(w) \in Nat
      /\ \A q \in Procs : \A pgn \in Pages :
            /\ Fpn(pte'[q][pgn]) \in Nat
            /\ InRam(pte'[q][pgn]) => Fpn(pte'[q][pgn]) \in RamFrameNumbers
      /\ \A q, r \in Procs : \A a, b \in Pages :
            InRam(pte'[q][a]) /\ InRam(pte'[r][b]) /\ Fpn(pte'[q][a]) = Fpn(pte'[r][b])
            => q = r /\ a = b
  <2>1. Page(addr) \in Pages
    BY PageAndOffset
  <2>2. FramesTypeOK' /\ OwnedOnce(pte', ramFree')
    BY DEF IInv, OwnedOnce, ResidentIn
  <2>3. pte' \in Tables
    BY <2>2 DEF FramesTypeOK
  <2>4. ASSUME NEW q \in Procs, NEW pgn \in Pages
        PROVE  pte'[q][pgn] \in Entry /\ Fpn(pte'[q][pgn]) \in Nat
    <3>1. pte'[q][pgn] \in Entry
      BY <2>3 DEF Tables
    <3>2. Fpn(pte'[q][pgn]) \in 0..(FpnSpan - 1)
      BY <3>1, EntryFacts
    <3> QED
      BY <3>1, <3>2, FrameNumbersNat, Zenon
  <2> QED
    BY <2>1, <2>2, <2>4 DEF OwnedOnce
<1>5. ASSUME NEW q \in Procs, NEW a \in written'[q]
      PROVE  /\ pte'[q][Page(a)].present
             /\ InRam(pte'[q][Page(a)]) /\ Unmistaken(pte', pte'[q][Page(a)])
                => store'[PhysAddr(pte'[q][Page(a)], a)] = Byte(q, a)
  <2> DEFINE pgn == Page(a)
             e == pte'[q][pgn]
  <2>1. a \in Addresses /\ pgn \in Pages
    BY <1>3, PageAndOffset
  <2>2. CASE q = p /\ a = addr
    <3>1. ASSUME InRam(w) PROVE store'[PhysAddr(w, addr)] = Byte(p, addr)
      <4>1. Fpn(w) \in RamFrameNumbers
        BY <1>4, <3>1
      <4>2. PhysAddr(w, addr) \in RamAddresses
        BY <1>4, <4>1, PhysAddrIs
      <4> QED
        BY <1>2, <4>2
    <3> QED
      BY <1>4, <2>2, <3>1
  <2>3. CASE ~(q = p /\ a = addr)
    <3>1. a \in written[q] /\ pte[q][pgn].present
      BY <1>3, <2>3 DEF DataInv
    <3>2. /\ e.present
          /\ InRam(e) => e = pte[q][pgn]
          /\ Unmistaken(pte', e) => Unmistaken(pte, e)
      BY <2>1, <3>1, OldEntries
    <3>3. ASSUME InRam(e), Unmistaken(pte', e)
          PROVE  store'[PhysAddr(e, a)] = Byte(q, a)
      <4>1. store[PhysAddr(e, a)] = Byte(q, a)
        BY <3>1, <3>2, <3>3 DEF DataInv
      <4>2. Fpn(e) \in RamFrameNumbers /\ Fpn(e) \in Nat
        BY <1>4, <2>1, <3>3
      <4>3. PhysAddr(e, a) \in RamAddresses
        BY <2>1, <4>2, PhysAddrIs
      <4>4. ASSUME PhysAddr(e, a) = PhysAddr(w, addr) PROVE FALSE
        <5>1. Fpn(e) = Fpn(w) /\ (a % PAGESZ) = (addr % PAGESZ)
          BY <1>4, <2>1, <4>2, <4>4, PhysAddrIs
        <5>2. ~w.swapped
          BY <1>4, <3>3, <5>1 DEF Unmistaken
        <5>3. InRam(w)
          BY <1>4, <5>2 DEF InRam
        <5>4. q = p /\ pgn = Page(addr)
          BY <1>4, <2>1, <3>3, <5>1, <5>3
        <5>5. a = addr
          BY <2>1, <5>1, <5>4, PageAndOffset
        <5> QED
          BY <2>3, <5>4, <5>5
      <4> QED
        BY <1>2, <4>1, <4>3, <4>4
    <3> QED
      BY <3>2, <3>3
  <2> QED
    BY <2>2, <2>3
<1>6. HistoryOK'
  BY <1>2, <1>3 DEF HistoryOK
<1> QED
  BY <1>5, <1>6 DEF DataInv, PhysAddr, Fpn, InRam, Unmistaken

(* What was written stays: a step writes to one address of a page that has the
   frame, or gives a frame to a page on which nothing was written *)
LEMMA StepDataInv == DataInv /\ IInv /\ AllocatorOK /\ [Next]_vars => DataInv'
<1> SUFFICES ASSUME DataInv, IInv, AllocatorOK, [Next]_vars PROVE DataInv'
  OBVIOUS
<1>1. IInv' /\ EntriesTurn
  BY StepIInv
<1>2. ASSUME UNCHANGED <<store, written>> PROVE DataInv'
  BY <1>1, <1>2, DataKept
<1>3. ASSUME NEW p \in Procs, NEW id \in Rgids, NEW addr \in Addresses,
             Access(p, id, addr) PROVE DataInv'
  <2>1. Accepts(p, id, addr)
    BY <1>3 DEF Access
  <2>2. CASE WriteHit(p, addr)
    <3>1. /\ pte' = pte /\ pte[p][Page(addr)].present
          /\ store' = Stored(pte[p][Page(addr)], p, addr)
          /\ written' = [written EXCEPT ![p] = @ \cup {addr}]
      BY <2>2 DEF WriteHit, frames
    <3> QED
      BY <1>1, <3>1, DataWritten
  <2>3. CASE WriteMiss(p, addr)
    <3>1. /\ store' = Stored(pte'[p][Page(addr)], p, addr)
          /\ written' = [written EXCEPT ![p] = @ \cup {addr}]
      BY <2>3 DEF WriteMiss
    <3>2. pte'[p][Page(addr)].present
      BY <2>1, <2>3, WriteMissStep DEF InRam
    <3> QED
      BY <1>1, <3>1, <3>2, DataWritten
  <2>4. CASE SwapFull(p, addr) \/ ReadMiss(p, addr)
    BY <1>2, <2>4 DEF SwapFull, ReadMiss
  <2> QED
    BY <1>3, <2>2, <2>3, <2>4 DEF Access
<1>4. CASE UNCHANGED vars
  BY <1>2, <1>4 DEF vars
<1>5. ASSUME NEW p \in Procs, ReadFill(p) PROVE DataInv'
  BY <1>2, <1>5 DEF ReadFill
<1>6. ASSUME NEW p \in Procs, NEW id \in Rgids, NEW size \in Sizes,
             AllocReuse(p, id, size) \/ \E calls \in 1..2 : AllocExtend(p, id, size, calls)
      PROVE  DataInv'
  BY <1>2, <1>6 DEF AllocReuse, AllocExtend
<1>7. ASSUME NEW p \in Procs, NEW id \in Rgids, FreeRegion(p, id) PROVE DataInv'
  BY <1>2, <1>7 DEF FreeRegion
<1> QED
  BY <1>3, <1>4, <1>5, <1>6, <1>7 DEF Next

(* Nothing was written at first *)
LEMMA InitDataInv == PagingInit => DataInv
<1> SUFFICES ASSUME PagingInit PROVE DataInv
  OBVIOUS
<1>1. \A p \in Procs : written[p] = {}
  BY DEF PagingInit
<1>2. HistoryOK
  BY DEF PagingInit, HistoryOK
<1> QED
  BY <1>1, <1>2 DEF DataInv

(* The types follow from the invariants of areas, entries and bytes *)
LEMMA TypeOKIs == MmTypeOK /\ IInv /\ DataInv => TypeOK
<1> SUFFICES ASSUME MmTypeOK, IInv, DataInv PROVE TypeOK
  OBVIOUS
<1>1. FramesTypeOK /\ OwnedOnce(pte, ramFree) /\ HistoryOK
  BY DEF IInv, DataInv
<1>2. ramFree \in Seq(0..(RamFrames - 1))
  BY <1>1 DEF OwnedOnce, RamFrameNumbers
<1>3. ASSUME NEW p \in Procs, miss[p] # NoMiss
      PROVE  /\ miss[p].pgn \in Pages /\ miss[p].victim \in Pages
             /\ miss[p].swp \in 0..(SwpFrames - 1)
             /\ miss[p].rest \in Seq(0..(SwpFrames - 1))
  <2>1. miss[p] \in MissRecords
    BY <1>1, <1>3 DEF FramesTypeOK
  <2> QED
    BY <2>1 DEF MissRecords, SwpFrameNumbers
<1> QED
  BY <1>1, <1>2, <1>3 DEF TypeOK, FramesTypeOK, HistoryOK, Tables, Entry, SwpFrameNumbers
-----------------------------------------------------------------------------
(* Whatever is allocated from the free list, by growing the area or by halves of
   it, and whatever is freed and merged, the list of free regions stays sorted,
   inside the area and without regions that touch (__alloc, __free and
   merge_free_regions of libmem.c). *)
THEOREM AreasStayWellFormed == Spec => []MmInv
<1>1. PagingInit => MmInv
  BY MmInvInit DEF PagingInit
<1> QED
  BY <1>1, StepMmInv, PTL DEF Spec

(* No region in the symbol table of a process reaches past its area: what
   pg_getpage maps for an address of a variable is a page that the area already
   has. *)
THEOREM RegionsStayInArea == Spec => []RegionsInArea
<1>1. MmInv => RegionsInArea
  BY AllocatorIsOK DEF AllocatorOK
<1> QED
  BY <1>1, AreasStayWellFormed, PTL

(* The invariant that the theorems below rest on: together with ownership of
   frames it says that no page past the end of an area has an entry, which is
   why vmap_page_range never overwrites the frame of a page, and that a page
   miss that __read has in progress names a page with a frame and one without. *)
THEOREM Inductive == Spec => []IInv
<1>1. PagingInit => IInv
  BY InitIInv
<1>2. IInv /\ MmInv /\ [Next]_vars => IInv'
  BY StepIInv, AllocatorIsOK
<1> QED
  BY <1>1, <1>2, AreasStayWellFormed, PTL DEF Spec

(* Frames of RAM are neither lost nor given out twice, whatever number of
   processes map pages, run out of frames half way or evict while another
   does: pg_getpage, vm_map_ram and the two halves of __read keep each frame
   on the free list or with one page. *)
THEOREM FramesAreOwnedOnce == Spec => []FramesOwnedOnce
<1>1. IInv => FramesOwnedOnce
  BY FramesOwnedOnceIs DEF IInv
<1> QED
  BY <1>1, Inductive, PTL

(* find_victim_page always yields a page with a frame, and the page that a
   __read in progress is about to evict is not found again meanwhile. *)
THEOREM QueuedPagesAreResident == Spec => []QueuedPagesResident
<1>1. MmInv /\ IInv => QueuedPagesResident
  BY QueuedPagesResidentIs, AllocatorIsOK DEF AllocatorOK
<1> QED
  BY <1>1, Inductive, AreasStayWellFormed, PTL

(* Page tables, FIFOs, free lists and storage keep their types, whatever the
   size of RAM and swap: a free list never holds the number of a frame that
   the device does not have, also when two reads restore the list of swap
   frames that they have loaded. *)
THEOREM PagingTypes == Spec => []TypeOK
<1>1. PagingInit => DataInv
  BY InitDataInv
<1>2. DataInv /\ IInv /\ MmInv /\ [Next]_vars => DataInv'
  BY StepDataInv, AllocatorIsOK
<1>3. MmInv /\ IInv /\ DataInv => TypeOK
  BY TypeOKIs, AllocatorIsOK DEF AllocatorOK
<1> QED
  BY <1>1, <1>2, <1>3, Inductive, AreasStayWellFormed, PTL DEF Spec

(* What was written to a page in RAM is there, unless a swapped page's entry is
   taken for its frame: an eviction takes the frame from a page that is not
   read from it again, and a new page in it has no data yet. *)
THEOREM ResidentDataIsKept == Spec => []ResidentDataKept
<1>1. PagingInit => DataInv
  BY InitDataInv
<1>2. DataInv /\ IInv /\ MmInv /\ [Next]_vars => DataInv'
  BY StepDataInv, AllocatorIsOK
<1>3. IInv /\ DataInv => ResidentDataKept
  BY ResidentDataKeptIs
<1> QED
  BY <1>1, <1>2, <1>3, Inductive, AreasStayWellFormed, PTL DEF Spec

(* An entry changes in two ways only: a page without one gets a frame, by a
   mapping or in place of the victim, and the victim of pg_getpage goes to
   swap. In particular no step brings a page back from swap or takes an entry
   away, so the frames that a program has filled stay as they are. *)
THEOREM EntriesOnlyTurn == Spec => [][EntriesTurn]_vars
<1>1. IInv /\ MmInv /\ [Next]_vars => EntriesTurn
  BY StepIInv, AllocatorIsOK
<1> QED
  BY <1>1, Inductive, AreasStayWellFormed, PTL DEF Spec
=============================================================================
