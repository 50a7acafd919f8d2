--------------------------- MODULE PageTableProofs ---------------------------
(***************************************************************************)
(* The page tables for any number of levels, words and processes: the trees *)
(* behave as a map from pages to entries, and no table is lost or freed     *)
(* twice. The proof describes the heap by the walks of all pages: where a   *)
(* table is on two of them, it is at the same level, on the way to pages    *)
(* with the same number from that level up.                                 *)
(***************************************************************************)
EXTENDS PageTable, QueueProofs

(* Quotients *)

(* A number by m, and the rest *)
LEMMA Quotient ==
    ASSUME NEW x \in Nat, NEW m \in Nat \ {0}
    PROVE  /\ x \div m \in Nat /\ x % m \in 0..(m - 1)
           /\ x = m * (x \div m) + (x % m)
  OBVIOUS

(* Quotient and rest are the only numbers with q * m + r, r below m *)
LEMMA QuotientIs ==
    ASSUME NEW m \in Nat \ {0}, NEW q \in Nat, NEW r \in 0..(m - 1)
    PROVE  (m * q + r) \div m = q /\ (m * q + r) % m = r
<1> DEFINE x == m * q + r
           a == x \div m
           b == x % m
<1>1. m * q \in Nat /\ x \in Nat
  OBVIOUS
<1>2. a \in Nat /\ b \in 0..(m - 1) /\ x = m * a + b
  <2> HIDE DEF x
  <2> QED
    BY <1>1, Quotient
<1> HIDE DEF a, b
<1>3. m * q + r = m * a + b
  BY <1>2
<1>4. ~(q >= a + 1)
  <2> SUFFICES ASSUME q >= a + 1 PROVE FALSE
    OBVIOUS
  <2>1. m * q >= m * (a + 1)
    BY <1>2
  <2>2. m * (a + 1) = m * a + m
    BY <1>2
  <2> QED
    BY <1>1, <1>2, <1>3, <2>1, <2>2
<1>5. ~(a >= q + 1)
  <2> SUFFICES ASSUME a >= q + 1 PROVE FALSE
    OBVIOUS
  <2>1. m * a >= m * (q + 1)
    BY <1>2
  <2>2. m * (q + 1) = m * q + m
    OBVIOUS
  <2> QED
    BY <1>1, <1>2, <1>3, <2>1, <2>2
<1>6. a = q
  BY <1>2, <1>4, <1>5
<1>7. b = r
  BY <1>1, <1>2, <1>3, <1>6
<1> QED
  BY <1>6, <1>7 DEF a, b

(* Dividing twice is dividing by the product *)
LEMMA QuotientOfQuotient ==
    ASSUME NEW x \in Nat, NEW m \in Nat \ {0}, NEW n \in Nat \ {0}
    PROVE  x \div (n * m) = (x \div m) \div n
<1> DEFINE a == x \div m
           b == x % m
           c == a \div n
           d == a % n
<1>1. a \in Nat /\ b \in 0..(m - 1) /\ x = m * a + b
  BY Quotient
<1> HIDE DEF a, b
<1>2. c \in Nat /\ d \in 0..(n - 1) /\ a = n * c + d
  BY <1>1, Quotient
<1> HIDE DEF c, d
<1>3. n * m \in Nat \ {0} /\ m * d \in Nat
  BY <1>2
<1>4. m * a = (n * m) * c + m * d
  BY <1>1, <1>2
<1>5. m * d <= m * (n - 1) /\ m * (n - 1) = n * m - m
  BY <1>2
<1> DEFINE N == n * m
           r == m * d + b
<1>6. r \in 0..(N - 1)
  BY <1>1, <1>3, <1>5
<1>7. x = N * c + r
  <2>1. x = (m * a) + b /\ m * a = N * c + m * d
    BY <1>1, <1>4
  <2>2. N * c \in Nat
    BY <1>2, <1>3
  <2> HIDE DEF N
  <2> QED
    BY <1>1, <1>3, <2>1, <2>2
<1> HIDE DEF N, r
<1>8. N \in Nat \ {0}
  BY <1>3 DEF N
<1>9. x \div N = c
  BY <1>2, <1>6, <1>7, <1>8, QuotientIs
<1> QED
  BY <1>9 DEF N, a, c
-----------------------------------------------------------------------------
(* The indexes of a page *)

HasWeights(k) ==
  \E w \in [0..k -> Nat \ {0}] : w[0] = 1 /\ \A l \in 1..k : w[l] = FANOUT * w[l - 1]

(* The weight of a level is that of the one below times FANOUT *)
LEMMA WeightIs ==
    /\ Weight[0] = 1
    /\ \A l \in 0..LEVELS : Weight[l] \in Nat \ {0}
    /\ \A l \in 1..LEVELS : l - 1 \in 0..LEVELS /\ Weight[l] = FANOUT * Weight[l - 1]
<1> USE PageTableAssumption
<1> DEFINE Q == {k \in Nat : HasWeights(k)}
<1>1. 0 \in Q
  <2> DEFINE w == [l \in 0..0 |-> 1]
  <2>1. w \in [0..0 -> Nat \ {0}] /\ w[0] = 1 /\ \A l \in 1..0 : w[l] = FANOUT * w[l - 1]
    OBVIOUS
  <2> QED
    BY <2>1 DEF HasWeights
<1>2. ASSUME NEW k \in Nat, k \in Q PROVE k + 1 \in Q
  <2>1. PICK v \in [0..k -> Nat \ {0}] : v[0] = 1 /\ \A l \in 1..k : v[l] = FANOUT * v[l - 1]
    BY <1>2 DEF HasWeights
  <2> DEFINE w == [l \in 0..(k + 1) |-> IF l = k + 1 THEN FANOUT * v[k] ELSE v[l]]
  <2>2. v[k] \in Nat \ {0} /\ FANOUT * v[k] \in Nat \ {0}
    <3>1. v[k] \in Nat \ {0}
      OBVIOUS
    <3> QED
      BY <3>1
  <2>3. w \in [0..(k + 1) -> Nat \ {0}]
    BY <2>2
  <2>4. w[0] = 1
    BY <2>1
  <2>5. ASSUME NEW l \in 1..(k + 1) PROVE w[l] = FANOUT * w[l - 1]
    <3>1. CASE l = k + 1
      <4>1. w[l] = FANOUT * v[k] /\ w[l - 1] = v[k]
        BY <3>1
      <4> QED
        BY <4>1
    <3>2. CASE l # k + 1
      <4>1. w[l] = v[l] /\ w[l - 1] = v[l - 1] /\ l \in 1..k
        BY <3>2
      <4> QED
        BY <2>1, <4>1
    <3> QED
      BY <3>1, <3>2
  <2> HIDE DEF w
  <2>6. \A l \in 1..(k + 1) : w[l] = FANOUT * w[l - 1]
    BY <2>5
  <2>7. HasWeights(k + 1)
    BY ONLY <2>3, <2>4, <2>6, Zenon DEF HasWeights
  <2> QED
    BY <2>7
<1>3. Nat \subseteq Q
  <2> HIDE DEF Q
  <2> QED
    BY <1>1, <1>2, NatSteps
<1>4. PICK w \in [0..LEVELS -> Nat \ {0}] :
        w[0] = 1 /\ \A l \in 1..LEVELS : w[l] = FANOUT * w[l - 1]
  BY <1>3 DEF HasWeights
<1> DEFINE Is(v) == v = [l \in 0..LEVELS |-> IF l = 0 THEN 1 ELSE FANOUT * v[l - 1]]
<1>5. Is(w)
  BY <1>4
<1>6. Is(Weight)
  BY <1>5, Zenon DEF Weight
<1>7. Weight[0] = 1 /\ \A l \in 1..LEVELS : l - 1 \in 0..LEVELS /\ Weight[l] = FANOUT * Weight[l - 1]
  <2>1. \A l \in 1..LEVELS : l # 0 /\ l \in 0..LEVELS /\ l - 1 \in 0..LEVELS
    OBVIOUS
  <2> QED
    BY <1>6, <2>1
<1> DEFINE G == {l \in 0..LEVELS : Weight[l] \in Nat \ {0}}
<1>8. 0 \in G
  BY <1>7
<1>9. ASSUME NEW l \in 1..LEVELS, l - 1 \in G PROVE l \in G
  <2>1. Weight[l - 1] \in Nat \ {0} /\ Weight[l] = FANOUT * Weight[l - 1]
    BY <1>7, <1>9
  <2> QED
    BY <2>1
<1>10. 0..LEVELS \subseteq G
  <2> HIDE DEF G
  <2> QED
    BY <1>8, <1>9, UpTo
<1> QED
  BY <1>7, <1>10

(* The number of the page's table, of those that the level may have *)
High(q, l) == q \div Weight[l]

(* Two pages have the same tables from level l up *)
Same(l, q, r) == High(q, l) = High(r, l)

LEMMA HighType == \A q \in Nat, l \in 0..LEVELS : High(q, l) \in Nat
  BY WeightIs, Quotient DEF High

(* One level up, the number of the table is divided by FANOUT; the rest is the
   index that get_pd_from_address finds for the level *)
LEMMA HighStep ==
    ASSUME NEW q \in Nat, NEW l \in 1..LEVELS
    PROVE  /\ Index(q, l) = High(q, l - 1) % FANOUT
           /\ Index(q, l) \in Words
           /\ High(q, l) = High(q, l - 1) \div FANOUT
           /\ High(q, l - 1) = FANOUT * High(q, l) + Index(q, l)
<1> USE PageTableAssumption
<1> DEFINE h == High(q, l - 1)
<1>1. Index(q, l) = h % FANOUT
  BY DEF Index, High
<1>2. h \in Nat
  BY HighType, WeightIs
<1>3. High(q, l) = h \div FANOUT
  <2> DEFINE W == Weight[l - 1]
  <2>1. W \in Nat \ {0} /\ Weight[l] = FANOUT * W
    BY WeightIs
  <2> HIDE DEF W
  <2>2. q \div (FANOUT * W) = (q \div W) \div FANOUT
    BY <2>1, QuotientOfQuotient
  <2> QED
    BY <2>1, <2>2 DEF High, W
<1> HIDE DEF h
<1>4. h % FANOUT \in Words /\ h = FANOUT * (h \div FANOUT) + (h % FANOUT)
  BY <1>2, Quotient DEF Words
<1> QED
  BY <1>1, <1>3, <1>4 DEF h

(* At level 0 a page has its own number, at the root all pages have the same *)
LEMMA HighEnds ==
    ASSUME NEW q \in Nat
    PROVE  High(q, 0) = q /\ (q \in Pages <=> High(q, LEVELS) = 0)
<1> USE PageTableAssumption
<1>2. High(q, 0) = q
  BY WeightIs DEF High
<1>3. (q \in Pages) <=> (High(q, LEVELS) = 0)
  <2> DEFINE W == Weight[LEVELS]
  <2>1. W \in Nat \ {0}
    BY WeightIs
  <2> HIDE DEF W
  <2>2. q \div W \in Nat /\ q % W \in 0..(W - 1) /\ q = W * (q \div W) + (q % W)
    BY <2>1, Quotient
  <2>3. CASE q \in 0..(W - 1)
    <3>1. W * 0 + q = q
      BY <2>1
    <3>2. (W * 0 + q) \div W = 0
      BY <2>1, <2>3, QuotientIs
    <3> QED
      BY <2>3, <3>1, <3>2 DEF W, Pages, High
  <2>4. CASE q \notin 0..(W - 1)
    <3>1. q \div W # 0
      BY <2>1, <2>2, <2>4
    <3> QED
      BY <2>4, <3>1 DEF W, Pages, High
  <2> QED
    BY <2>3, <2>4
<1> QED
  BY <1>2, <1>3

LEMMA PagesAreNumbers == \A q \in Pages : q \in Nat
<1> DEFINE W == Weight[LEVELS]
<1>1. W \in Nat \ {0} /\ Pages = 0..(W - 1)
  BY WeightIs, PageTableAssumption DEF Pages
<1> HIDE DEF W
<1> QED
  BY <1>1

(* Two pages have the same tables from a level down by one when they have the
   same above and the same index there *)
LEMMA SameIs ==
    ASSUME NEW q \in Pages, NEW r \in Pages
    PROVE  /\ Same(LEVELS, q, r)
           /\ Same(0, q, r) => q = r
           /\ \A l \in 1..LEVELS : Same(l - 1, q, r) <=> Same(l, q, r) /\ Index(q, l) = Index(r, l)
<1>1. q \in Nat /\ r \in Nat
  BY PagesAreNumbers
<1>2. Same(LEVELS, q, r) /\ (Same(0, q, r) => q = r)
  BY <1>1, HighEnds DEF Same
<1>3. ASSUME NEW l \in 1..LEVELS
      PROVE  Same(l - 1, q, r) <=> (Same(l, q, r) /\ Index(q, l) = Index(r, l))
  <2>1. /\ Index(q, l) = High(q, l - 1) % FANOUT /\ High(q, l) = High(q, l - 1) \div FANOUT
        /\ High(q, l - 1) = FANOUT * High(q, l) + Index(q, l)
    BY <1>1, HighStep
  <2>2. /\ Index(r, l) = High(r, l - 1) % FANOUT /\ High(r, l) = High(r, l - 1) \div FANOUT
        /\ High(r, l - 1) = FANOUT * High(r, l) + Index(r, l)
    BY <1>1, HighStep
  <2> QED
    BY ONLY <2>1, <2>2, Zenon DEF Same
<1> QED
  BY <1>2, <1>3

(* Every word of a table is the word of a page *)
LEMMA PageOfWord ==
    ASSUME NEW q \in Pages, NEW l \in 1..LEVELS, NEW w \in Words
    PROVE  \E r \in Pages : Same(l, q, r) /\ Index(r, l) = w
<1> USE PageTableAssumption
<1> DEFINE W == Weight[l - 1]
           h == FANOUT * High(q, l) + w
           r == W * h + 0
<1>1. W \in Nat \ {0} /\ q \in Nat /\ High(q, l) \in Nat /\ w \in 0..(FANOUT - 1)
  <2>1. q \in Nat
    BY PagesAreNumbers
  <2>2. W \in Nat \ {0}
    BY WeightIs
  <2>3. l \in 0..LEVELS
    OBVIOUS
  <2> QED
    BY <2>1, <2>2, <2>3, HighType DEF Words
<1> HIDE DEF W
<1>2. h \in Nat /\ h \div FANOUT = High(q, l) /\ h % FANOUT = w
  <2> DEFINE g == High(q, l)
  <2>1. g \in Nat
    BY <1>1
  <2> HIDE DEF g
  <2>2. FANOUT * g + w \in Nat /\ (FANOUT * g + w) \div FANOUT = g /\ (FANOUT * g + w) % FANOUT = w
    BY <1>1, <2>1, QuotientIs
  <2> QED
    BY <2>2 DEF g
<1> HIDE DEF h
<1>3. r \in Nat /\ r \div W = h
  <2>1. 0 \in 0..(W - 1) /\ W * h \in Nat
    BY <1>1, <1>2
  <2> QED
    BY <1>1, <1>2, <2>1, QuotientIs
<1> HIDE DEF r
<1>4. High(r, l - 1) = h
  BY <1>3 DEF High, W
<1>5. Index(r, l) = w /\ High(r, l) = High(q, l)
  <2>1. /\ Index(r, l) = High(r, l - 1) % FANOUT
        /\ High(r, l) = High(r, l - 1) \div FANOUT
    BY <1>3, HighStep
  <2> QED
    BY <1>2, <1>4, <2>1
<1> DEFINE G == {k \in 0..(LEVELS - l) : High(r, l + k) = High(q, l + k)}
<1>6. 0 \in G
  BY <1>5
<1>7. ASSUME NEW k \in 1..(LEVELS - l), k - 1 \in G PROVE k \in G
  <2>1. l + k \in 1..LEVELS /\ (l + k) - 1 = l + (k - 1)
    OBVIOUS
  <2>2. High(r, (l + k) - 1) = High(q, (l + k) - 1)
    BY <1>7, <2>1
  <2> DEFINE n == l + k
  <2> HIDE DEF n
  <2>3. n \in 1..LEVELS /\ High(r, n - 1) = High(q, n - 1)
    BY <2>1, <2>2 DEF n
  <2>4. High(r, n) = High(r, n - 1) \div FANOUT /\ High(q, n) = High(q, n - 1) \div FANOUT
    BY <1>1, <1>3, <2>3, HighStep
  <2>5. High(r, n) = High(q, n)
    BY <2>3, <2>4
  <2> QED
    BY <2>5 DEF n
<1>8. LEVELS - l \in G
  <2> DEFINE n == LEVELS - l
  <2>1. n \in Nat
    OBVIOUS
  <2> HIDE DEF G, n
  <2>2. 0..n \subseteq G
    BY <1>6, <1>7, <2>1, UpTo DEF n
  <2> QED
    BY <2>1, <2>2 DEF n
<1>9. High(r, LEVELS) = High(q, LEVELS)
  <2>1. l + (LEVELS - l) = LEVELS
    OBVIOUS
  <2> QED
    BY <1>8, <2>1
<1>10. r \in Pages
  BY <1>1, <1>3, <1>9, HighEnds
<1> QED
  BY <1>5, <1>10 DEF Same
-----------------------------------------------------------------------------
(* Memory for new tables *)

(* calloc finds a k-th free table, whatever is on the heap *)
LEMMA FreeTable ==
    ASSUME NEW D, IsFiniteSet(D), NEW k \in Nat \ {0}
    PROVE  \E t \in (1..(Cardinality(D) + k)) \ D : Cardinality((1..t) \ D) = k
<1> DEFINE C(t) == Cardinality((1..t) \ D)
           n == Cardinality(D) + k
           S == {t \in Nat : C(t) >= k}
<1>1. Cardinality(D) \in Nat /\ n \in Nat
  BY FS_CardinalityType
<1>2. ASSUME NEW t \in Nat
      PROVE  IsFiniteSet(1..t) /\ IsFiniteSet((1..t) \ D) /\ C(t) \in Nat
  <2>1. IsFiniteSet(1..t)
    BY FS_Interval
  <2> QED
    BY <2>1, FS_Difference, FS_CardinalityType
<1>3. C(n) >= k
  <2>1. Cardinality(1..n) = n /\ IsFiniteSet(1..n)
    <3>1. 1 \in Int /\ n \in Int /\ n - 1 + 1 = n /\ (1 > n => n = 0)
      BY <1>1
    <3> HIDE DEF n
    <3> QED
      BY <3>1, FS_Interval
  <2>2. C(n) = Cardinality(1..n) - Cardinality((1..n) \cap D)
    BY <2>1, FS_Difference
  <2>3. Cardinality((1..n) \cap D) <= Cardinality(D) /\ Cardinality((1..n) \cap D) \in Nat
    <3>1. (1..n) \cap D \in SUBSET D
      OBVIOUS
    <3> HIDE DEF n
    <3> QED
      BY <3>1, FS_Subset, FS_CardinalityType
  <2> HIDE DEF C
  <2> QED
    BY <1>1, <2>1, <2>2, <2>3
<1>4. S \subseteq Nat /\ S # {}
  BY <1>1, <1>3
<1>5. PICK t \in S : \A u \in S : t <= u
  <2> HIDE DEF S
  <2> QED
    BY <1>4, LeastOf
<1>6. t \in Nat /\ C(t) >= k /\ t <= n
  BY <1>1, <1>3, <1>5
<1>7. t # 0
  <2>1. (1..0) \ D = {}
    OBVIOUS
  <2>2. C(0) = 0
    BY <2>1, FS_EmptySet
  <2> HIDE DEF C
  <2> QED
    BY <1>6, <2>2
<1>8. C(t - 1) < k /\ t - 1 \in Nat
  <2>1. t - 1 \in Nat /\ ~(t <= t - 1)
    BY <1>6, <1>7
  <2>2. t - 1 \notin S
    BY <1>5, <2>1
  <2>3. C(t - 1) \in Nat
    BY <1>2, <2>1
  <2> HIDE DEF C
  <2> QED
    BY <2>1, <2>2, <2>3
<1>9. t \notin D
  <2> SUFFICES ASSUME t \in D PROVE FALSE
    OBVIOUS
  <2>1. (1..t) \ D = (1..(t - 1)) \ D
    BY <1>6, <1>7
  <2>2. C(t) = C(t - 1)
    BY <2>1
  <2>3. C(t) \in Nat
    BY <1>2, <1>6
  <2> HIDE DEF C
  <2> QED
    BY <1>6, <1>8, <2>2, <2>3
<1>10. C(t) = k
  <2> DEFINE U == (1..(t - 1)) \ D
  <2>1. (1..t) \ D = U \cup {t} /\ t \notin U
    BY <1>6, <1>7, <1>9
  <2>2. IsFiniteSet(U) /\ C(t - 1) = Cardinality(U) /\ Cardinality(U) \in Nat
    BY <1>2, <1>8
  <2> HIDE DEF U
  <2>3. Cardinality(U \cup {t}) = Cardinality(U) + 1
    BY <2>1, <2>2, FS_AddElement
  <2>4. C(t) = Cardinality(U) + 1
    BY <2>1, <2>3
  <2> HIDE DEF C
  <2> QED
    BY <1>6, <1>8, <2>2, <2>4
<1>11. t \in 1..n
  BY <1>1, <1>6, <1>7
<1> HIDE DEF n
<1> QED
  BY <1>9, <1>10, <1>11 DEF n

(* The tables that calloc returns are new, and different from each other *)
LEMMA CallocIs ==
    ASSUME NEW heap, IsFiniteSet(DOMAIN heap), NEW k \in Nat \ {0}
    PROVE  /\ Calloc(heap, k) \in Nat \ {0}
           /\ Calloc(heap, k) \notin DOMAIN heap
           /\ \A j \in Nat \ {0} : Calloc(heap, j) = Calloc(heap, k) => j = k
<1> DEFINE D == DOMAIN heap
<1>1. ASSUME NEW j \in Nat \ {0}
      PROVE  /\ Calloc(heap, j) \in (1..(Cardinality(D) + j)) \ D
             /\ Cardinality((1..Calloc(heap, j)) \ D) = j
  <2>1. \E t \in (1..(Cardinality(D) + j)) \ D : Cardinality((1..t) \ D) = j
    BY FreeTable
  <2> QED
    BY <2>1, Zenon DEF Calloc
<1>2. Cardinality(D) \in Nat
  BY FS_CardinalityType
<1>3. Calloc(heap, k) \in (1..(Cardinality(D) + k)) \ D
  BY <1>1
<1>4. Calloc(heap, k) \in Nat \ {0} /\ Calloc(heap, k) \notin D
  BY <1>2, <1>3
<1> QED
  BY <1>1, <1>4
-----------------------------------------------------------------------------
(* Walks *)

(* f holds the tables on the way from level n to the entry's, from the table
   it has at level n *)
Steps(f, heap, pgn, low, n) ==
  \A l \in low..(n - 1) :
     f[l] = IF f[l + 1] = 0 THEN 0 ELSE heap[f[l + 1]][Index(pgn, l + 1)]

HasWalk(heap, root, pgn, k) ==
  \E f : /\ f = [l \in (LEVELS - k)..LEVELS |-> f[l]]
         /\ f[LEVELS] = root /\ Steps(f, heap, pgn, LEVELS - k, LEVELS)

(* The recursive function of a walk is defined *)
LEMMA WalkExists ==
    ASSUME NEW heap, NEW root, NEW pgn
    PROVE  \A k \in Nat : HasWalk(heap, root, pgn, k)
<1> USE PageTableAssumption
<1> DEFINE Q == {k \in Nat : HasWalk(heap, root, pgn, k)}
<1>1. 0 \in Q
  <2> DEFINE f == [l \in (LEVELS - 0)..LEVELS |-> root]
  <2>1. f = [l \in (LEVELS - 0)..LEVELS |-> f[l]] /\ f[LEVELS] = root
    OBVIOUS
  <2>2. Steps(f, heap, pgn, LEVELS - 0, LEVELS)
    BY DEF Steps
  <2> HIDE DEF f
  <2> QED
    BY <2>1, <2>2 DEF HasWalk
<1>2. ASSUME NEW k \in Nat, k \in Q PROVE k + 1 \in Q
  <2>1. PICK g : /\ g = [l \in (LEVELS - k)..LEVELS |-> g[l]]
                 /\ g[LEVELS] = root /\ Steps(g, heap, pgn, LEVELS - k, LEVELS)
    BY <1>2 DEF HasWalk
  <2> DEFINE n == LEVELS - (k + 1)
             f == [l \in n..LEVELS |->
                     IF l = n THEN (IF g[n + 1] = 0 THEN 0 ELSE heap[g[n + 1]][Index(pgn, n + 1)])
                     ELSE g[l]]
  <2>2. n \in Int /\ n + 1 = LEVELS - k /\ n < LEVELS
    OBVIOUS
  <2> HIDE DEF n
  <2>3. f[LEVELS] = root
    BY <2>1, <2>2
  <2>4. ASSUME NEW l \in n..(LEVELS - 1)
        PROVE  f[l] = IF f[l + 1] = 0 THEN 0 ELSE heap[f[l + 1]][Index(pgn, l + 1)]
    <3>1. f[l + 1] = g[l + 1] /\ l \in n..LEVELS
      BY <2>2
    <3>2. CASE l = n
      BY <3>1, <3>2
    <3>3. CASE l # n
      <4>1. l \in (LEVELS - k)..(LEVELS - 1) /\ f[l] = g[l]
        BY <2>2, <3>3
      <4> QED
        BY <2>1, <3>1, <4>1 DEF Steps
    <3> QED
      BY <3>2, <3>3
  <2>5. f = [l \in n..LEVELS |-> f[l]]
    OBVIOUS
  <2> HIDE DEF f
  <2>6. Steps(f, heap, pgn, n, LEVELS)
    BY <2>4 DEF Steps
  <2> QED
    BY <2>3, <2>5, <2>6 DEF HasWalk, n
<1> HIDE DEF Q
<1>3. Nat \subseteq Q
  BY <1>1, <1>2, NatSteps
<1> QED
  BY <1>3 DEF Q

(* The walk from the root *)
LEMMA WalkSteps ==
    ASSUME NEW heap, NEW root, NEW pgn
    PROVE  /\ Walk(heap, root, pgn) = [l \in 1..LEVELS |-> Walk(heap, root, pgn)[l]]
           /\ Walk(heap, root, pgn)[LEVELS] = root
           /\ \A l \in 1..(LEVELS - 1) :
                Walk(heap, root, pgn)[l]
                = IF Walk(heap, root, pgn)[l + 1] = 0 THEN 0
                  ELSE heap[Walk(heap, root, pgn)[l + 1]][Index(pgn, l + 1)]
<1> USE PageTableAssumption
<1> DEFINE Is(f) == f = [l \in 1..LEVELS |->
                           IF l = LEVELS THEN root
                           ELSE IF f[l + 1] = 0 THEN 0
                           ELSE heap[f[l + 1]][Index(pgn, l + 1)]]
           walk == Walk(heap, root, pgn)
<1>1. LEVELS - 1 \in Nat /\ LEVELS - (LEVELS - 1) = 1
  OBVIOUS
<1>2. HasWalk(heap, root, pgn, LEVELS - 1)
  BY <1>1, WalkExists
<1>3. PICK f : f = [l \in 1..LEVELS |-> f[l]] /\ f[LEVELS] = root /\ Steps(f, heap, pgn, 1, LEVELS)
  BY <1>1, <1>2 DEF HasWalk
<1>4. \A l \in 1..LEVELS : l # LEVELS => l \in 1..(LEVELS - 1)
  OBVIOUS
<1>5. Is(f)
  <2>1. \A l \in 1..LEVELS : f[l] = IF l = LEVELS THEN root
                           ELSE IF f[l + 1] = 0 THEN 0
                           ELSE heap[f[l + 1]][Index(pgn, l + 1)]
    BY <1>3, <1>4 DEF Steps
  <2> QED
    BY <1>3, <2>1
<1>6. Is(walk)
  BY <1>5, Zenon DEF Walk
<1> HIDE DEF walk
<1>7. walk = [l \in 1..LEVELS |-> walk[l]] /\ walk[LEVELS] = root
  <2>1. LEVELS \in 1..LEVELS
    OBVIOUS
  <2> QED
    BY <1>6, <2>1
<1>8. ASSUME NEW l \in 1..(LEVELS - 1)
      PROVE  walk[l] = IF walk[l + 1] = 0 THEN 0 ELSE heap[walk[l + 1]][Index(pgn, l + 1)]
  <2>1. l \in 1..LEVELS /\ l # LEVELS
    OBVIOUS
  <2> QED
    BY <1>6, <2>1
<1> QED
  BY <1>7, <1>8 DEF walk

(* There is no other *)
LEMMA WalkIs ==
    ASSUME NEW heap, NEW root, NEW pgn, NEW f, f[LEVELS] = root,
           Steps(f, heap, pgn, 1, LEVELS)
    PROVE  \A l \in 1..LEVELS : Walk(heap, root, pgn)[l] = f[l]
<1> USE PageTableAssumption
<1> DEFINE walk == Walk(heap, root, pgn)
           G == {k \in 0..(LEVELS - 1) : walk[LEVELS - k] = f[LEVELS - k]}
           n == LEVELS - 1
<1>1. 0 \in G
  BY WalkSteps
<1>2. ASSUME NEW k \in 1..n, k - 1 \in G PROVE k \in G
  <2> DEFINE l == LEVELS - k
  <2>1. l \in 1..(LEVELS - 1) /\ l + 1 = LEVELS - (k - 1) /\ k \in 0..(LEVELS - 1)
    OBVIOUS
  <2>2. walk[l + 1] = f[l + 1]
    BY <1>2, <2>1
  <2> HIDE DEF l
  <2>3. walk[l] = IF walk[l + 1] = 0 THEN 0 ELSE heap[walk[l + 1]][Index(pgn, l + 1)]
    BY <2>1, WalkSteps
  <2>4. f[l] = IF f[l + 1] = 0 THEN 0 ELSE heap[f[l + 1]][Index(pgn, l + 1)]
    BY <2>1 DEF Steps
  <2>5. walk[l] = f[l]
    BY <2>2, <2>3, <2>4
  <2> QED
    BY <2>1, <2>5 DEF l
<1>3. 0..n \subseteq G
  <2>1. n \in Nat
    OBVIOUS
  <2> HIDE DEF G, n
  <2> QED
    BY <1>1, <1>2, <2>1, UpTo
<1>4. ASSUME NEW l \in 1..LEVELS PROVE walk[l] = f[l]
  <2>1. LEVELS - l \in 0..n /\ LEVELS - (LEVELS - l) = l
    OBVIOUS
  <2> HIDE DEF n
  <2>2. LEVELS - l \in G
    BY <1>3, <2>1
  <2> QED
    BY <2>1, <2>2
<1> QED
  BY <1>4
-----------------------------------------------------------------------------
(* The heap *)

Levels == 1..LEVELS

(* The table of process p at level l on the way to page q, 0 if there is none *)
T(heap, roots, p, q, l) == Walk(heap, roots[p], q)[l]

(* A word of the table at a level, 0 in a table that is missing *)
WordOf(heap, root, q, l) ==
  IF Walk(heap, root, q)[l] = 0 THEN 0 ELSE heap[Walk(heap, root, q)[l]][Index(q, l)]

(* What pte_get_entry finds *)
Found(heap, root, q) == WordOf(heap, root, q, 1)

(* f is a function *)
IsFunction(f) == f = [t \in DOMAIN f |-> f[t]]

WordsOK(heap) ==
  /\ IsFiniteSet(DOMAIN heap) /\ DOMAIN heap \subseteq Nat \ {0}
  /\ IsFunction(heap)
  /\ \A t \in DOMAIN heap : heap[t] \in [Words -> Nat]

(* A table has one place, in one process *)
TreesOK(heap, roots) ==
  /\ \A p \in Procs, q \in Pages, l \in Levels :
       T(heap, roots, p, q, l) # 0 => T(heap, roots, p, q, l) \in DOMAIN heap
  /\ \A p \in Procs, q \in Pages, l \in Levels : \A s \in Procs, r \in Pages, k \in Levels :
       T(heap, roots, p, q, l) # 0 /\ T(heap, roots, p, q, l) = T(heap, roots, s, r, k)
       => p = s /\ l = k /\ Same(l, q, r)

(* t is a directory that stays empty, in no tree *)
Empty(heap, roots, t) ==
  t # 0 => /\ t \in DOMAIN heap /\ heap[t] = Zeroed
           /\ \A p \in Procs, q \in Pages, l \in Levels : T(heap, roots, p, q, l) # t

(* There is no other table *)
Complete(heap, roots, krnl, os) ==
  \A t \in DOMAIN heap :
    \/ t = os \/ \E p \in Procs : t = krnl[p]
    \/ \E p \in Procs, q \in Pages, l \in Levels : t = T(heap, roots, p, q, l)

HeapOK(heap, roots, krnl, os) ==
  /\ roots \in [Procs -> Nat] /\ krnl \in [Procs -> Nat] /\ os \in Nat
  /\ WordsOK(heap) /\ TreesOK(heap, roots)
  /\ Empty(heap, roots, os)
  /\ \A p \in Procs : Empty(heap, roots, krnl[p]) /\ (krnl[p] # 0 => krnl[p] # os)
  /\ \A p, s \in Procs : krnl[p] # 0 /\ krnl[p] = krnl[s] => p = s
  /\ Complete(heap, roots, krnl, os)
-----------------------------------------------------------------------------
(* Setting an entry *)

TableAt(heap, root, pgn, l) ==
  IF Walk(heap, root, pgn)[l] # 0 THEN Walk(heap, root, pgn)[l] ELSE Calloc(heap, l)

WordsAt(heap, root, pgn, l) ==
  IF Walk(heap, root, pgn)[l] # 0 THEN heap[Walk(heap, root, pgn)[l]] ELSE Zeroed

LinkedAt(heap, root, pgn, value, l) ==
  [WordsAt(heap, root, pgn, l) EXCEPT ![Index(pgn, l)] =
     IF l = 1 THEN value ELSE TableAt(heap, root, pgn, l - 1)]

Tables(heap, root, pgn) == {TableAt(heap, root, pgn, l) : l \in Levels}

(* The tables of the levels are different *)
Apart(heap, root, pgn) ==
  \A l, k \in Levels : TableAt(heap, root, pgn, l) = TableAt(heap, root, pgn, k) => l = k

(* new has the tables D also, and those outside D keep their words *)
Keeps(heap, new, D) ==
  DOMAIN new = DOMAIN heap \cup D /\ \A t \in DOMAIN heap \ D : new[t] = heap[t]

(* The tables after an entry is set: those on the way, with the links, and the
   others as they were *)
LEMMA WithEntryIs ==
    ASSUME NEW heap, NEW root, NEW pgn, NEW value, Apart(heap, root, pgn)
    PROVE  /\ IsFunction(WithEntry(heap, root, pgn, value))
           /\ \A l \in Levels : WithEntry(heap, root, pgn, value)[TableAt(heap, root, pgn, l)]
                                = LinkedAt(heap, root, pgn, value, l)
           /\ Keeps(heap, WithEntry(heap, root, pgn, value), Tables(heap, root, pgn))
<1> USE PageTableAssumption
<1> DEFINE found == Walk(heap, root, pgn)
           table == [level \in 1..LEVELS |->
                       IF found[level] # 0 THEN found[level] ELSE Calloc(heap, level)]
           words(level) == IF found[level] # 0 THEN heap[found[level]] ELSE Zeroed
           linked(level) ==
             [words(level) EXCEPT ![Index(pgn, level)] =
                IF level = 1 THEN value ELSE table[level - 1]]
           new == [t \in DOMAIN heap \cup {table[level] : level \in 1..LEVELS} |->
                     IF \E level \in 1..LEVELS : t = table[level]
                     THEN linked(CHOOSE level \in 1..LEVELS : t = table[level])
                     ELSE heap[t]]
           D == DOMAIN heap \cup Tables(heap, root, pgn)
<1>1. WithEntry(heap, root, pgn, value) = new
  BY Zenon DEF WithEntry
<1>2. \A l \in Levels : table[l] = TableAt(heap, root, pgn, l)
  BY DEF TableAt, Levels
<1>3. ASSUME NEW l \in Levels PROVE linked(l) = LinkedAt(heap, root, pgn, value, l)
  <2>1. l # 1 => l - 1 \in Levels
    BY DEF Levels
  <2>2. (IF l = 1 THEN value ELSE table[l - 1])
        = IF l = 1 THEN value ELSE TableAt(heap, root, pgn, l - 1)
    BY <1>2, <2>1
  <2> HIDE DEF table
  <2> QED
    BY <2>2, Zenon DEF LinkedAt, WordsAt
<1>4. {table[level] : level \in 1..LEVELS} = Tables(heap, root, pgn)
  BY <1>2 DEF Tables, Levels
<1> HIDE DEF table, linked
<1>5. new = [t \in D |-> IF \E level \in Levels : t = table[level]
                         THEN linked(CHOOSE level \in Levels : t = table[level])
                         ELSE heap[t]]
  BY <1>4, Zenon DEF Levels
<1> HIDE DEF new
<1>6. ASSUME NEW l \in Levels PROVE new[table[l]] = linked(l)
  <2>1. table[l] \in D
    BY <1>2 DEF Tables
  <2>2. \A k \in Levels : table[l] = table[k] => k = l
    BY <1>2 DEF Apart
  <2>3. (CHOOSE level \in Levels : table[l] = table[level]) = l
    BY <2>2
  <2>4. new[table[l]] = linked(CHOOSE level \in Levels : table[l] = table[level])
    BY <1>5, <2>1
  <2> QED
    BY <2>3, <2>4
<1>7. ASSUME NEW t \in DOMAIN heap \ Tables(heap, root, pgn) PROVE new[t] = heap[t]
  <2>1. t \in D /\ ~(\E level \in Levels : t = table[level])
    BY <1>2 DEF Tables
  <2> QED
    BY <1>5, <2>1
<1>8. DOMAIN new = D /\ IsFunction(new)
  <2>1. DOMAIN new = D /\ new = [t \in D |-> new[t]]
    BY <1>5
  <2> QED
    BY <2>1, Zenon DEF IsFunction
<1>9. Keeps(heap, new, Tables(heap, root, pgn))
  BY <1>7, <1>8 DEF Keeps
<1> QED
  BY <1>1, <1>2, <1>3, <1>6, <1>8, <1>9

LEMMA SetTable ==
    ASSUME NEW heap, NEW root, NEW pgn, NEW value, Apart(heap, root, pgn), NEW l \in Levels
    PROVE  WithEntry(heap, root, pgn, value)[TableAt(heap, root, pgn, l)]
           = LinkedAt(heap, root, pgn, value, l)
  BY WithEntryIs
-----------------------------------------------------------------------------
(* The tables of a page and of the pages near it *)

(* Pages with the same number of table have the same table *)
LEMMA SharedWalk ==
    ASSUME NEW heap, NEW root, NEW q \in Pages, NEW r \in Pages
    PROVE  \A l \in Levels : Same(l, q, r) => Walk(heap, root, q)[l] = Walk(heap, root, r)[l]
<1> USE PageTableAssumption
<1> DEFINE a == Walk(heap, root, q)
           b == Walk(heap, root, r)
           G == {k \in 0..(LEVELS - 1) : Same(LEVELS - k, q, r) => a[LEVELS - k] = b[LEVELS - k]}
           n == LEVELS - 1
<1>1. 0 \in G
  BY WalkSteps
<1>2. ASSUME NEW k \in 1..n, k - 1 \in G PROVE k \in G
  <2> DEFINE l == LEVELS - k
  <2>1. l \in 1..(LEVELS - 1) /\ l + 1 = LEVELS - (k - 1) /\ k \in 0..(LEVELS - 1)
    OBVIOUS
  <2>2. Same(l + 1, q, r) => a[l + 1] = b[l + 1]
    BY <1>2, <2>1
  <2> HIDE DEF l
  <2>3. Same(l, q, r) => Same(l + 1, q, r) /\ Index(q, l + 1) = Index(r, l + 1)
    <3>1. l + 1 \in 1..LEVELS /\ (l + 1) - 1 = l
      BY <2>1
    <3> QED
      BY <3>1, SameIs
  <2>4. Same(l, q, r) => a[l] = b[l]
    BY <2>1, <2>2, <2>3, WalkSteps, SMTT(30)
  <2> QED
    BY <2>1, <2>4 DEF l
<1>3. 0..n \subseteq G
  <2>1. n \in Nat
    OBVIOUS
  <2> HIDE DEF G, n
  <2> QED
    BY <1>1, <1>2, <2>1, UpTo
<1>4. ASSUME NEW l \in Levels, Same(l, q, r) PROVE a[l] = b[l]
  <2>1. LEVELS - l \in 0..n /\ LEVELS - (LEVELS - l) = l
    BY DEF Levels
  <2> HIDE DEF n
  <2>2. LEVELS - l \in G
    BY <1>3, <2>1
  <2> QED
    BY <1>4, <2>1, <2>2
<1> QED
  BY <1>4

(* What is the same from a level up is the same above it *)
LEMMA SameAbove ==
    ASSUME NEW q \in Pages, NEW r \in Pages, NEW l \in 0..LEVELS, Same(l, q, r)
    PROVE  \A k \in l..LEVELS : Same(k, q, r)
<1> USE PageTableAssumption
<1> DEFINE n == LEVELS - l
           G == {k \in 0..n : Same(l + k, q, r)}
<1>1. 0 \in G
  OBVIOUS
<1>2. ASSUME NEW k \in 1..n, k - 1 \in G PROVE k \in G
  <2> DEFINE m == l + k
  <2>1. m \in 1..LEVELS /\ m - 1 = l + (k - 1)
    OBVIOUS
  <2> HIDE DEF m
  <2>2. Same(m - 1, q, r)
    BY <1>2, <2>1
  <2>3. Same(m, q, r)
    BY <2>1, <2>2, SameIs
  <2> QED
    BY <2>3 DEF m
<1>3. 0..n \subseteq G
  <2>1. n \in Nat
    OBVIOUS
  <2> HIDE DEF G, n
  <2> QED
    BY <1>1, <1>2, <2>1, UpTo
<1>4. ASSUME NEW k \in l..LEVELS PROVE Same(k, q, r)
  <2>1. k - l \in 0..n /\ l + (k - l) = k
    OBVIOUS
  <2> HIDE DEF n
  <2>2. k - l \in G
    BY <1>3, <2>1
  <2> QED
    BY <2>1, <2>2
<1> QED
  BY <1>4

(* Below a missing table all are missing *)
LEMMA MissingBelow ==
    ASSUME NEW heap, NEW root, NEW q, NEW l \in Levels, Walk(heap, root, q)[l] = 0
    PROVE  \A k \in 1..l : Walk(heap, root, q)[k] = 0
<1> USE PageTableAssumption
<1> DEFINE a == Walk(heap, root, q)
           n == l - 1
           G == {k \in 0..n : a[l - k] = 0}
<1>1. 0 \in G
  BY DEF Levels
<1>2. ASSUME NEW k \in 1..n, k - 1 \in G PROVE k \in G
  <2> DEFINE m == l - k
  <2>1. m \in 1..(LEVELS - 1) /\ m + 1 = l - (k - 1)
    BY DEF Levels
  <2> HIDE DEF m
  <2>2. a[m + 1] = 0
    BY <1>2, <2>1
  <2>3. a[m] = 0
    BY <2>1, <2>2, WalkSteps
  <2> QED
    BY <2>3 DEF m
<1>3. 0..n \subseteq G
  <2>1. n \in Nat
    BY DEF Levels
  <2> HIDE DEF G, n
  <2> QED
    BY <1>1, <1>2, <2>1, UpTo
<1>4. ASSUME NEW k \in 1..l PROVE a[k] = 0
  <2>1. l - k \in 0..n /\ l - (l - k) = k
    BY DEF Levels
  <2> HIDE DEF n
  <2>2. l - k \in G
    BY <1>3, <2>1
  <2> QED
    BY <2>1, <2>2
<1> QED
  BY <1>4

(* The word that a walk reads at a level *)
LEMMA WalkDown ==
    ASSUME NEW heap, NEW root, NEW q, NEW l \in Levels, l # 1, Walk(heap, root, q)[l] # 0
    PROVE  /\ l - 1 \in Levels
           /\ Walk(heap, root, q)[l - 1] = heap[Walk(heap, root, q)[l]][Index(q, l)]
<1> USE PageTableAssumption
<1>1. l - 1 \in 1..(LEVELS - 1) /\ (l - 1) + 1 = l /\ l - 1 \in Levels
  BY DEF Levels
<1> DEFINE m == l - 1
<1> HIDE DEF m
<1>2. m \in 1..(LEVELS - 1) /\ m + 1 = l
  BY <1>1 DEF m
<1>3. Walk(heap, root, q)[m] = heap[Walk(heap, root, q)[l]][Index(q, l)]
  BY <1>2, WalkSteps
<1> QED
  BY <1>1, <1>3 DEF m

(* A function with the steps of the walk is the walk *)
Descends(f, heap, pgn) ==
  \A l \in Levels : l # 1 => f[l - 1] = IF f[l] = 0 THEN 0 ELSE heap[f[l]][Index(pgn, l)]

(* A function that goes down as a walk does is the walk *)
LEMMA WalkBy ==
    ASSUME NEW heap, NEW root, NEW pgn, NEW f, f[LEVELS] = root, Descends(f, heap, pgn)
    PROVE  \A l \in Levels : Walk(heap, root, pgn)[l] = f[l]
<1>1. Steps(f, heap, pgn, 1, LEVELS)
  <2> SUFFICES ASSUME NEW l \in 1..(LEVELS - 1)
               PROVE  f[l] = IF f[l + 1] = 0 THEN 0 ELSE heap[f[l + 1]][Index(pgn, l + 1)]
    BY DEF Steps
  <2> DEFINE m == l + 1
  <2>1. m \in Levels /\ m # 1 /\ m - 1 = l
    BY PageTableAssumption DEF Levels
  <2> HIDE DEF m
  <2>2. f[m - 1] = IF f[m] = 0 THEN 0 ELSE heap[f[m]][Index(pgn, m)]
    BY <2>1 DEF Descends
  <2> QED
    BY <2>1, <2>2 DEF m
<1> QED
  BY <1>1, WalkIs DEF Levels
-----------------------------------------------------------------------------
(* The tables that an entry is set in *)

(* The heap after an entry of process p is set, and the tables on its way *)
After(heap, roots, p, pgn, value) == WithEntry(heap, roots[p], pgn, value)
At(heap, roots, p, pgn, l) == TableAt(heap, roots[p], pgn, l)

(* The tables on the way to an entry are old or new, and different from each other *)
LEMMA TablesOfEntry ==
    ASSUME NEW heap, NEW roots, WordsOK(heap), TreesOK(heap, roots),
           NEW p \in Procs, roots[p] # 0, NEW pgn \in Pages
    PROVE  /\ \A l \in Levels :
                /\ At(heap, roots, p, pgn, l) \in Nat \ {0}
                /\ T(heap, roots, p, pgn, l) # 0
                   => /\ At(heap, roots, p, pgn, l) = T(heap, roots, p, pgn, l)
                      /\ T(heap, roots, p, pgn, l) \in DOMAIN heap
                /\ T(heap, roots, p, pgn, l) = 0
                   => At(heap, roots, p, pgn, l) \notin DOMAIN heap
           /\ Apart(heap, roots[p], pgn)
           /\ At(heap, roots, p, pgn, LEVELS) = roots[p]
           /\ LEVELS \in Levels
<1> USE PageTableAssumption
<1> DEFINE t(l) == T(heap, roots, p, pgn, l)
           at(l) == At(heap, roots, p, pgn, l)
<1>1. \A l \in Levels : at(l) = IF t(l) # 0 THEN t(l) ELSE Calloc(heap, l)
  BY DEF T, At, TableAt
<1>2. \A l \in Levels : t(l) # 0 => t(l) \in DOMAIN heap
  BY DEF TreesOK
<1>3. DOMAIN heap \subseteq Nat \ {0} /\ IsFiniteSet(DOMAIN heap)
  BY DEF WordsOK
<1>4. \A l \in Levels : l \in Nat \ {0}
  BY DEF Levels
<1>5. \A l, k \in Levels : t(l) # 0 /\ t(l) = t(k) => l = k
  BY DEF TreesOK
<1>6. \A l \in Levels : /\ Calloc(heap, l) \in Nat \ {0}
                        /\ Calloc(heap, l) \notin DOMAIN heap
                        /\ \A k \in Levels : Calloc(heap, k) = Calloc(heap, l) => k = l
  BY <1>3, <1>4, CallocIs
<1>7. LEVELS \in Levels /\ t(LEVELS) = roots[p]
  BY WalkSteps DEF T, Levels
<1> HIDE DEF t, at
<1>8. \A l, k \in Levels : at(l) = at(k) => l = k
  <2> SUFFICES ASSUME NEW l \in Levels, NEW k \in Levels, at(l) = at(k) PROVE l = k
    OBVIOUS
  <2>1. CASE t(l) # 0 /\ t(k) # 0
    BY <1>1, <1>5, <2>1
  <2>2. CASE t(l) = 0 /\ t(k) = 0
    BY <1>1, <1>6, <2>2
  <2>3. CASE t(l) # 0 /\ t(k) = 0
    BY <1>1, <1>2, <1>6, <2>3
  <2>4. CASE t(l) = 0 /\ t(k) # 0
    BY <1>1, <1>2, <1>6, <2>4
  <2> QED
    BY <2>1, <2>2, <2>3, <2>4
<1>9. \A l \in Levels : /\ at(l) \in Nat \ {0}
                        /\ t(l) # 0 => at(l) = t(l) /\ t(l) \in DOMAIN heap
                        /\ t(l) = 0 => at(l) \notin DOMAIN heap
  BY <1>1, <1>2, <1>3, <1>6
<1>10. at(LEVELS) = roots[p]
  BY <1>1, <1>7
<1> QED
  BY <1>7, <1>8, <1>9, <1>10 DEF t, at, Apart, At

(* The words of the tables that an entry is set in: a page that shares the table
   reads what was set where it shares the word, and what was there elsewhere *)
LEMMA WordsOfEntry ==
    ASSUME NEW heap, NEW roots, WordsOK(heap), TreesOK(heap, roots),
           NEW p \in Procs, roots[p] # 0, NEW pgn \in Pages, NEW value,
           NEW q \in Pages, NEW l \in Levels, Same(l, q, pgn)
    PROVE  After(heap, roots, p, pgn, value)[At(heap, roots, p, pgn, l)][Index(q, l)]
           = IF Same(l - 1, q, pgn)
             THEN IF l = 1 THEN value ELSE At(heap, roots, p, pgn, l - 1)
             ELSE WordOf(heap, roots[p], q, l)
<1> DEFINE root == roots[p]
           new == After(heap, roots, p, pgn, value)
           words == WordsAt(heap, root, pgn, l)
           link == IF l = 1 THEN value ELSE At(heap, roots, p, pgn, l - 1)
<1>1. new[At(heap, roots, p, pgn, l)] = [words EXCEPT ![Index(pgn, l)] = link]
  <2>1. Apart(heap, root, pgn)
    BY TablesOfEntry
  <2>2. new[At(heap, roots, p, pgn, l)] = LinkedAt(heap, root, pgn, value, l)
    BY <2>1, SetTable DEF After, At
  <2> QED
    BY <2>2, Zenon DEF LinkedAt, At
<1>2. Walk(heap, root, q)[l] = Walk(heap, root, pgn)[l]
  BY SharedWalk
<1>3. q \in Nat /\ pgn \in Nat /\ l \in 1..LEVELS
  BY PagesAreNumbers DEF Levels
<1>4. Index(q, l) \in Words /\ Index(pgn, l) \in Words
  BY <1>3, HighStep
<1>5. DOMAIN words = Words
  <2>1. Walk(heap, root, pgn)[l] # 0 => Walk(heap, root, pgn)[l] \in DOMAIN heap
    BY DEF TreesOK, T
  <2>2. \A t \in DOMAIN heap : DOMAIN heap[t] = Words
    BY DEF WordsOK
  <2> QED
    BY <2>1, <2>2 DEF WordsAt, Zeroed
<1>6. Same(l - 1, q, pgn) <=> (Index(q, l) = Index(pgn, l))
  BY <1>3, SameIs
<1>7. words[Index(q, l)] = WordOf(heap, root, q, l)
  BY <1>2, <1>4 DEF WordsAt, WordOf, Zeroed
<1> HIDE DEF new, words, link
<1>8. new[At(heap, roots, p, pgn, l)][Index(q, l)]
      = IF Index(q, l) = Index(pgn, l) THEN link ELSE words[Index(q, l)]
  BY <1>1, <1>4, <1>5
<1> QED
  BY <1>6, <1>7, <1>8 DEF new, link

(* The other tables keep their words *)
LEMMA OtherTables ==
    ASSUME NEW heap, NEW roots, WordsOK(heap), TreesOK(heap, roots),
           NEW p \in Procs, roots[p] # 0, NEW pgn \in Pages, NEW value,
           NEW s \in Procs, NEW q \in Pages, NEW l \in Levels, ~(s = p /\ Same(l, q, pgn)),
           T(heap, roots, s, q, l) # 0
    PROVE  /\ T(heap, roots, s, q, l) \in DOMAIN heap \ Tables(heap, roots[p], pgn)
           /\ After(heap, roots, p, pgn, value)[T(heap, roots, s, q, l)]
              = heap[T(heap, roots, s, q, l)]
<1> DEFINE root == roots[p]
           t == T(heap, roots, s, q, l)
<1>1. t \in DOMAIN heap
  BY DEF TreesOK
<1>2. ASSUME NEW k \in Levels PROVE t # At(heap, roots, p, pgn, k)
  <2>1. CASE T(heap, roots, p, pgn, k) = 0
    BY <1>1, <2>1, TablesOfEntry
  <2>2. CASE T(heap, roots, p, pgn, k) # 0
    <3>1. At(heap, roots, p, pgn, k) = T(heap, roots, p, pgn, k)
      BY <2>2, TablesOfEntry
    <3>2. t = T(heap, roots, p, pgn, k) => s = p /\ l = k /\ Same(l, q, pgn)
      BY DEF TreesOK
    <3> QED
      BY <3>1, <3>2
  <2> QED
    BY <2>1, <2>2
<1>3. t \in DOMAIN heap \ Tables(heap, root, pgn)
  BY <1>1, <1>2 DEF Tables, At
<1> HIDE DEF t
<1>4. After(heap, roots, p, pgn, value)[t] = heap[t]
  <2>1. Apart(heap, root, pgn)
    BY TablesOfEntry
  <2> QED
    BY <1>3, <2>1, WithEntryIs, ZenonT(30) DEF After, Keeps
<1> QED
  BY <1>3, <1>4 DEF t

(* The table at a level when an entry is set *)
TableAfter(heap, roots, p, pgn, s, q, l) ==
  IF s = p /\ Same(l, q, pgn) THEN At(heap, roots, p, pgn, l) ELSE T(heap, roots, s, q, l)

(* The walks of all pages of all processes after an entry is set: on the common
   part of the way there are no missing tables any more, the rest is as before *)
LEMMA WalksAfter ==
    ASSUME NEW heap, NEW roots, WordsOK(heap), TreesOK(heap, roots),
           NEW p \in Procs, roots[p] # 0, NEW pgn \in Pages, NEW value,
           NEW s \in Procs, NEW q \in Pages
    PROVE  \A l \in Levels : T(After(heap, roots, p, pgn, value), roots, s, q, l)
                             = TableAfter(heap, roots, p, pgn, s, q, l)
<1> DEFINE root == roots[p]
           new == After(heap, roots, p, pgn, value)
           f == [l \in Levels |-> TableAfter(heap, roots, p, pgn, s, q, l)]
<1>1. LEVELS \in Levels /\ At(heap, roots, p, pgn, LEVELS) = root
  BY TablesOfEntry
<1>2. f[LEVELS] = roots[s]
  BY <1>1, WalkSteps DEF TableAfter, T
<1>3. ASSUME NEW l \in Levels, l # 1
      PROVE  f[l - 1] = IF f[l] = 0 THEN 0 ELSE new[f[l]][Index(q, l)]
  <2>1. l - 1 \in Levels /\ l \in 1..LEVELS
    BY <1>3, PageTableAssumption DEF Levels
  <2>2. Same(l - 1, q, pgn) => Same(l, q, pgn)
    BY <2>1, SameIs
  <2>3. T(heap, roots, s, q, l - 1) = WordOf(heap, roots[s], q, l)
    <3>1. CASE Walk(heap, roots[s], q)[l] = 0
      <4>1. l - 1 \in 1..l
        BY <1>3, <2>1
      <4> QED
        BY <3>1, <4>1, MissingBelow DEF WordOf, T
    <3>2. CASE Walk(heap, roots[s], q)[l] # 0
      BY <1>3, <3>2, WalkDown DEF WordOf, T
    <3> QED
      BY <3>1, <3>2
  <2>4. f[l] = TableAfter(heap, roots, p, pgn, s, q, l)
        /\ f[l - 1] = TableAfter(heap, roots, p, pgn, s, q, l - 1)
    BY <2>1
  <2> HIDE DEF f, new
  <2>5. CASE s = p /\ Same(l, q, pgn)
    <3>1. f[l] = At(heap, roots, p, pgn, l) /\ f[l] # 0
      <4>1. At(heap, roots, p, pgn, l) \in Nat \ {0}
        BY TablesOfEntry
      <4> QED
        BY <2>4, <2>5, <4>1 DEF TableAfter
    <3>2. new[f[l]][Index(q, l)] = IF Same(l - 1, q, pgn) THEN At(heap, roots, p, pgn, l - 1)
                                   ELSE WordOf(heap, root, q, l)
      <4>1. new[At(heap, roots, p, pgn, l)][Index(q, l)]
            = IF Same(l - 1, q, pgn)
              THEN IF l = 1 THEN value ELSE At(heap, roots, p, pgn, l - 1)
              ELSE WordOf(heap, root, q, l)
        BY <2>5, WordsOfEntry DEF new
      <4> QED
        BY <1>3, <3>1, <4>1
    <3> QED
      BY <2>3, <2>4, <2>5, <3>1, <3>2 DEF TableAfter
  <2>6. CASE ~(s = p /\ Same(l, q, pgn))
    <3>1. f[l] = T(heap, roots, s, q, l) /\ f[l - 1] = T(heap, roots, s, q, l - 1)
      BY <2>2, <2>4, <2>6 DEF TableAfter
    <3>2. f[l] # 0 => new[f[l]] = heap[f[l]]
      BY <2>6, <3>1, OtherTables DEF new
    <3> QED
      BY <2>3, <3>1, <3>2 DEF WordOf, T
  <2> QED
    BY <2>5, <2>6
<1> HIDE DEF f, new
<1>4. \A l \in Levels : Walk(new, roots[s], q)[l] = f[l]
  <2>1. Descends(f, new, q)
    BY <1>3 DEF Descends
  <2> QED
    BY <1>2, <2>1, WalkBy
<1> QED
  BY <1>4 DEF T, f, new

(* What pte_get_entry finds after an entry is set *)
LEMMA FoundAfter ==
    ASSUME NEW heap, NEW roots, WordsOK(heap), TreesOK(heap, roots),
           NEW p \in Procs, roots[p] # 0, NEW pgn \in Pages, NEW value,
           NEW s \in Procs, NEW q \in Pages
    PROVE  Found(After(heap, roots, p, pgn, value), roots[s], q)
           = IF s = p /\ q = pgn THEN value ELSE Found(heap, roots[s], q)
<1> DEFINE root == roots[p]
           new == After(heap, roots, p, pgn, value)
<1>1. 1 \in Levels
  BY PageTableAssumption DEF Levels
<1>2. Walk(new, roots[s], q)[1] = TableAfter(heap, roots, p, pgn, s, q, 1)
  BY <1>1, WalksAfter DEF T
<1> HIDE DEF new
<1>3. CASE s = p /\ Same(1, q, pgn)
  <2>1. Walk(new, roots[s], q)[1] = At(heap, roots, p, pgn, 1)
    BY <1>2, <1>3 DEF TableAfter
  <2>2. At(heap, roots, p, pgn, 1) # 0
    BY <1>1, TablesOfEntry
  <2>3. new[At(heap, roots, p, pgn, 1)][Index(q, 1)]
        = IF Same(0, q, pgn) THEN value ELSE WordOf(heap, root, q, 1)
    <3>1. new[At(heap, roots, p, pgn, 1)][Index(q, 1)]
          = IF Same(1 - 1, q, pgn)
            THEN IF 1 = 1 THEN value ELSE At(heap, roots, p, pgn, 1 - 1)
            ELSE WordOf(heap, root, q, 1)
      BY <1>1, <1>3, WordsOfEntry DEF new
    <3>2. 1 - 1 = 0
      OBVIOUS
    <3> QED
      BY <3>1, <3>2
  <2>4. Same(0, q, pgn) <=> q = pgn
    <3>1. Same(0, q, pgn) => q = pgn
      BY SameIs
    <3> QED
      BY <3>1 DEF Same
  <2>5. WordOf(new, roots[s], q, 1) = new[At(heap, roots, p, pgn, 1)][Index(q, 1)]
    BY <2>1, <2>2 DEF WordOf
  <2>6. WordOf(new, roots[s], q, 1) = IF q = pgn THEN value ELSE WordOf(heap, roots[s], q, 1)
    BY <1>3, <2>3, <2>4, <2>5
  <2> QED
    BY <1>3, <2>6 DEF Found, new
<1>4. CASE ~(s = p /\ Same(1, q, pgn))
  <2>1. Walk(new, roots[s], q)[1] = T(heap, roots, s, q, 1)
    BY <1>2, <1>4 DEF TableAfter
  <2>2. T(heap, roots, s, q, 1) # 0
        => new[T(heap, roots, s, q, 1)] = heap[T(heap, roots, s, q, 1)]
    BY <1>1, <1>4, OtherTables DEF new
  <2>3. ~(s = p /\ q = pgn)
    BY <1>4 DEF Same
  <2>4. WordOf(new, roots[s], q, 1) = WordOf(heap, roots[s], q, 1)
    BY <2>1, <2>2 DEF WordOf, T
  <2> QED
    BY <2>3, <2>4 DEF Found, new
<1> QED
  BY <1>3, <1>4

(* The heap after an entry is set, as a function *)
LEMMA WordsAfter ==
    ASSUME NEW heap, NEW roots, WordsOK(heap), TreesOK(heap, roots),
           NEW p \in Procs, roots[p] # 0, NEW pgn \in Pages, NEW value \in Nat
    PROVE  /\ WordsOK(After(heap, roots, p, pgn, value))
           /\ Keeps(heap, After(heap, roots, p, pgn, value), Tables(heap, roots[p], pgn))
<1> USE PageTableAssumption
<1> DEFINE new == After(heap, roots, p, pgn, value)
           D == Tables(heap, roots[p], pgn)
           at == [l \in Levels |-> At(heap, roots, p, pgn, l)]
<1>1. D = {At(heap, roots, p, pgn, l) : l \in Levels}
  BY DEF Tables, At
<1>2. \A l \in Levels : /\ At(heap, roots, p, pgn, l) \in Nat \ {0}
                        /\ T(heap, roots, p, pgn, l) # 0
                           => T(heap, roots, p, pgn, l) \in DOMAIN heap
  BY TablesOfEntry
<1>3. Apart(heap, roots[p], pgn)
  BY TablesOfEntry
<1>4. IsFunction(new) /\ Keeps(heap, new, D)
  BY <1>3, WithEntryIs DEF After
<1>5. \A l \in Levels : new[At(heap, roots, p, pgn, l)] = LinkedAt(heap, roots[p], pgn, value, l)
  BY <1>3, SetTable DEF After, At
<1> HIDE DEF new
<1>6. IsFiniteSet(D) /\ D \subseteq Nat \ {0}
  <2>1. IsFiniteSet(Levels)
    <3>1. 1 \in Int /\ LEVELS \in Int
      OBVIOUS
    <3> QED
      BY <3>1, FS_Interval DEF Levels
  <2>2. at \in Surjection(Levels, D)
    BY <1>1 DEF Surjection
  <2> HIDE DEF D, at
  <2>4. IsFiniteSet(D)
    BY <2>1, <2>2, FS_Surjection
  <2> QED
    BY <1>1, <1>2, <2>4
<1> HIDE DEF D, at
<1>7. \A t \in DOMAIN heap : heap[t] \in [Words -> Nat]
  BY DEF WordsOK
<1>8. ASSUME NEW l \in Levels PROVE LinkedAt(heap, roots[p], pgn, value, l) \in [Words -> Nat]
  <2> DEFINE words == WordsAt(heap, roots[p], pgn, l)
             link == IF l = 1 THEN value ELSE TableAt(heap, roots[p], pgn, l - 1)
  <2>1. words \in [Words -> Nat]
    <3>1. Zeroed \in [Words -> Nat]
      BY DEF Zeroed
    <3> QED
      BY <1>2, <1>7, <3>1 DEF WordsAt, T
  <2>2. link \in Nat
    <3>1. l # 1 => l - 1 \in Levels
      BY DEF Levels
    <3> QED
      BY <1>2, <3>1 DEF At
  <2>3. LinkedAt(heap, roots[p], pgn, value, l) = [words EXCEPT ![Index(pgn, l)] = link]
    BY Zenon DEF LinkedAt
  <2> HIDE DEF words, link
  <2> QED
    BY <2>1, <2>2, <2>3
<1>9. \A t \in DOMAIN new : new[t] \in [Words -> Nat]
  <2> SUFFICES ASSUME NEW t \in DOMAIN new PROVE new[t] \in [Words -> Nat]
    OBVIOUS
  <2>1. CASE t \in D
    BY <1>1, <1>5, <1>8, <2>1
  <2>2. CASE t \notin D
    BY <1>4, <1>7, <2>2 DEF Keeps
  <2> QED
    BY <2>1, <2>2
<1>10. IsFiniteSet(DOMAIN heap) /\ DOMAIN heap \subseteq Nat \ {0}
  BY DEF WordsOK
<1>11. IsFiniteSet(DOMAIN new) /\ DOMAIN new \subseteq Nat \ {0}
  <2>1. IsFiniteSet(DOMAIN heap \cup D)
    BY <1>6, <1>10, FS_Union
  <2> QED
    BY <1>4, <1>6, <1>10, <2>1 DEF Keeps
<1>12. WordsOK(new)
  BY <1>4, <1>9, <1>11 DEF WordsOK
<1> QED
  BY <1>4, <1>12 DEF new, D

(* The trees of different processes stay apart when an entry is set *)
LEMMA TreesAfter ==
    ASSUME NEW heap, NEW roots, WordsOK(heap), TreesOK(heap, roots),
           NEW p \in Procs, roots[p] # 0, NEW pgn \in Pages, NEW value \in Nat
    PROVE  TreesOK(After(heap, roots, p, pgn, value), roots)
<1> DEFINE new == After(heap, roots, p, pgn, value)
           D == Tables(heap, roots[p], pgn)
           at(l) == At(heap, roots, p, pgn, l)
           old(s, q, l) == T(heap, roots, s, q, l)
           t(s, q, l) == T(new, roots, s, q, l)
<1>1. \A s \in Procs, q \in Pages, l \in Levels :
         t(s, q, l) = IF s = p /\ Same(l, q, pgn) THEN at(l) ELSE old(s, q, l)
  BY WalksAfter DEF TableAfter
<1>2. Keeps(heap, new, D)
  BY WordsAfter
<1>3. \A s \in Procs, q \in Pages, l \in Levels : old(s, q, l) # 0 => old(s, q, l) \in DOMAIN heap
  BY DEF TreesOK
<1>4. \A s \in Procs, q \in Pages, l \in Levels :
         ~(s = p /\ Same(l, q, pgn)) /\ old(s, q, l) # 0 => old(s, q, l) \notin D
  BY OtherTables
<1>5. \A l, k \in Levels : at(l) = at(k) => l = k
  <2>1. Apart(heap, roots[p], pgn)
    BY TablesOfEntry
  <2> QED
    BY <2>1 DEF Apart, At
<1>6. \A s \in Procs, q \in Pages, l \in Levels : \A u \in Procs, r \in Pages, k \in Levels :
         old(s, q, l) # 0 /\ old(s, q, l) = old(u, r, k) => s = u /\ l = k /\ Same(l, q, r)
  BY DEF TreesOK
<1>7. \A l \in Levels : at(l) \in D
  BY DEF Tables, At
<1> HIDE DEF new, D, at, old, t
<1>8. ASSUME NEW s \in Procs, NEW q \in Pages, NEW l \in Levels, t(s, q, l) # 0
      PROVE  t(s, q, l) \in DOMAIN new
  BY <1>1, <1>2, <1>3, <1>7, <1>8 DEF Keeps
<1>9. ASSUME NEW s \in Procs, NEW q \in Pages, NEW l \in Levels,
             NEW u \in Procs, NEW r \in Pages, NEW k \in Levels,
             t(s, q, l) # 0, t(s, q, l) = t(u, r, k)
      PROVE  s = u /\ l = k /\ Same(l, q, r)
  <2>1. CASE s = p /\ Same(l, q, pgn) /\ u = p /\ Same(k, r, pgn)
    <3>1. at(l) = at(k)
      BY <1>1, <1>9, <2>1
    <3>2. l = k
      BY <1>5, <3>1
    <3> QED
      BY <2>1, <3>2 DEF Same
  <2>2. CASE s = p /\ Same(l, q, pgn) /\ ~(u = p /\ Same(k, r, pgn))
    BY <1>1, <1>4, <1>7, <1>9, <2>2
  <2>3. CASE ~(s = p /\ Same(l, q, pgn)) /\ u = p /\ Same(k, r, pgn)
    BY <1>1, <1>4, <1>7, <1>9, <2>3
  <2>4. CASE ~(s = p /\ Same(l, q, pgn)) /\ ~(u = p /\ Same(k, r, pgn))
    <3>1. t(s, q, l) = old(s, q, l) /\ t(u, r, k) = old(u, r, k)
      BY <1>1, <2>4
    <3>2. old(s, q, l) # 0 /\ old(s, q, l) = old(u, r, k)
      BY <1>9, <3>1
    <3> QED
      BY <1>6, <3>2
  <2> QED
    BY <2>1, <2>2, <2>3, <2>4
<1> QED
  BY <1>8, <1>9 DEF TreesOK, t, new

(* Setting an entry keeps the heap in order *)
LEMMA HeapAfter ==
    ASSUME NEW heap, NEW roots, NEW krnl, NEW os, HeapOK(heap, roots, krnl, os),
           NEW p \in Procs, roots[p] # 0, NEW pgn \in Pages, NEW value \in Nat
    PROVE  HeapOK(After(heap, roots, p, pgn, value), roots, krnl, os)
<1> DEFINE new == After(heap, roots, p, pgn, value)
           D == Tables(heap, roots[p], pgn)
<1>0. WordsOK(heap) /\ TreesOK(heap, roots) /\ Complete(heap, roots, krnl, os)
  BY DEF HeapOK
<1>1. WordsOK(new) /\ TreesOK(new, roots)
  BY <1>0, WordsAfter, TreesAfter
<1>2. Keeps(heap, new, D)
  BY <1>0, WordsAfter
<1>9. D = {At(heap, roots, p, pgn, l) : l \in Levels}
  BY DEF Tables, At
<1>3. ASSUME NEW s \in Procs, NEW q \in Pages, NEW l \in Levels
      PROVE  T(new, roots, s, q, l) = TableAfter(heap, roots, p, pgn, s, q, l)
  BY <1>0, WalksAfter
<1>4. \A l \in Levels : At(heap, roots, p, pgn, l) \in DOMAIN heap
                        => At(heap, roots, p, pgn, l) = T(heap, roots, p, pgn, l)
  BY <1>0, TablesOfEntry
<1>5. \A l \in Levels : T(heap, roots, p, pgn, l) # 0
                        => At(heap, roots, p, pgn, l) = T(heap, roots, p, pgn, l)
  BY <1>0, TablesOfEntry
<1> HIDE DEF new, D
<1>6. ASSUME NEW t, Empty(heap, roots, t) PROVE Empty(new, roots, t)
  <2> SUFFICES ASSUME t # 0
               PROVE  /\ t \in DOMAIN new /\ new[t] = Zeroed
                      /\ \A s \in Procs, q \in Pages, l \in Levels : T(new, roots, s, q, l) # t
    BY DEF Empty
  <2>1. /\ t \in DOMAIN heap /\ heap[t] = Zeroed
        /\ \A s \in Procs, q \in Pages, l \in Levels : T(heap, roots, s, q, l) # t
    BY <1>6 DEF Empty
  <2>2. \A l \in Levels : At(heap, roots, p, pgn, l) # t
    BY <1>4, <2>1
  <2>3. t \notin D
    BY <1>9, <2>2
  <2>4. ASSUME NEW s \in Procs, NEW q \in Pages, NEW l \in Levels PROVE T(new, roots, s, q, l) # t
    BY <1>3, <2>1, <2>2 DEF TableAfter
  <2> QED
    BY <1>2, <2>1, <2>3, <2>4 DEF Keeps
<1>7. Complete(new, roots, krnl, os)
  <2> SUFFICES ASSUME NEW t \in DOMAIN new
               PROVE  \/ t = os \/ \E s \in Procs : t = krnl[s]
                      \/ \E s \in Procs, q \in Pages, l \in Levels : t = T(new, roots, s, q, l)
    BY DEF Complete
  <2>1. CASE t \in D
    <3>1. PICK l \in Levels : t = At(heap, roots, p, pgn, l)
      BY <1>9, <2>1
    <3>2. T(new, roots, p, pgn, l) = At(heap, roots, p, pgn, l)
      BY <1>3 DEF TableAfter, Same
    <3> QED
      BY <3>1, <3>2
  <2>2. CASE t \notin D
    <3>1. t \in DOMAIN heap
      BY <1>2, <2>2 DEF Keeps
    <3>2. CASE \E s \in Procs, q \in Pages, l \in Levels : t = T(heap, roots, s, q, l)
      <4>1. PICK s \in Procs, q \in Pages, l \in Levels : t = T(heap, roots, s, q, l)
        BY <3>2
      <4>2. CASE s = p /\ Same(l, q, pgn)
        <5>1. T(heap, roots, p, pgn, l) = t
          BY <4>1, <4>2, SharedWalk DEF T
        <5>2. t # 0
          BY <1>0, <3>1 DEF WordsOK
        <5>3. At(heap, roots, p, pgn, l) = t
          BY <1>5, <5>1, <5>2
        <5> QED
          BY <1>9, <2>2, <5>3
      <4>3. CASE ~(s = p /\ Same(l, q, pgn))
        <5>1. t = T(new, roots, s, q, l)
          BY <1>3, <4>1, <4>3 DEF TableAfter
        <5> QED
          BY <5>1
      <4> QED
        BY <4>2, <4>3
    <3> QED
      BY <1>0, <3>1, <3>2 DEF Complete
  <2> QED
    BY <2>1, <2>2
<1>8. HeapOK(new, roots, krnl, os)
  BY <1>1, <1>6, <1>7 DEF HeapOK
<1> QED
  BY <1>8 DEF new
-----------------------------------------------------------------------------
(* Making and freeing trees *)

(* new has the words of the tables on the way to page q *)
Agrees(heap, new, root, q) ==
  \A l \in Levels : Walk(heap, root, q)[l] # 0
                    => new[Walk(heap, root, q)[l]] = heap[Walk(heap, root, q)[l]]

(* A walk over tables that keep their words is the same *)
LEMMA SameWords ==
    ASSUME NEW heap, NEW new, NEW root, NEW q, Agrees(heap, new, root, q)
    PROVE  /\ \A l \in Levels : Walk(new, root, q)[l] = Walk(heap, root, q)[l]
           /\ Found(new, root, q) = Found(heap, root, q)
<1> DEFINE f == Walk(heap, root, q)
<1>1. ASSUME NEW l \in Levels, l # 1
      PROVE  f[l - 1] = IF f[l] = 0 THEN 0 ELSE new[f[l]][Index(q, l)]
  <2>1. CASE f[l] = 0
    <3>1. l - 1 \in 1..l
      BY <1>1 DEF Levels
    <3> QED
      BY <2>1, <3>1, MissingBelow
  <2>2. CASE f[l] # 0
    <3>1. f[l - 1] = heap[f[l]][Index(q, l)]
      BY <1>1, <2>2, WalkDown
    <3>2. new[f[l]] = heap[f[l]]
      BY <2>2 DEF Agrees
    <3> HIDE DEF f
    <3> QED
      BY <2>2, <3>1, <3>2
  <2> QED
    BY <2>1, <2>2
<1>2. f[LEVELS] = root
  BY WalkSteps
<1>3. 1 \in Levels
  BY PageTableAssumption DEF Levels
<1>4. f[1] # 0 => new[f[1]] = heap[f[1]]
  BY <1>3 DEF Agrees
<1> HIDE DEF f
<1>5. Descends(f, new, q)
  BY <1>1 DEF Descends
<1>6. \A l \in Levels : Walk(new, root, q)[l] = f[l]
  BY <1>2, <1>5, WalkBy
<1>7. Walk(new, root, q)[1] = f[1]
  BY <1>3, <1>6
<1>8. Found(new, root, q) = Found(heap, root, q)
  BY <1>4, <1>7 DEF Found, WordOf, f
<1> QED
  BY <1>6, <1>8 DEF f

(* Without a directory nothing is found *)
LEMMA NoDirectory ==
    ASSUME NEW heap, NEW q
    PROVE  (\A l \in Levels : Walk(heap, 0, q)[l] = 0) /\ Found(heap, 0, q) = 0
<1>1. LEVELS \in Levels /\ 1 \in Levels /\ Walk(heap, 0, q)[LEVELS] = 0
  BY PageTableAssumption, WalkSteps DEF Levels
<1>2. \A l \in Levels : Walk(heap, 0, q)[l] = 0
  BY <1>1, MissingBelow DEF Levels
<1> QED
  BY <1>1, <1>2 DEF Found, WordOf

(* In an empty directory nothing is found *)
LEMMA EmptyDirectory ==
    ASSUME NEW heap, NEW root, root # 0, heap[root] = Zeroed, NEW q \in Pages
    PROVE  /\ \A l \in Levels : Walk(heap, root, q)[l] = IF l = LEVELS THEN root ELSE 0
           /\ Found(heap, root, q) = 0
<1> USE PageTableAssumption
<1> DEFINE f == [l \in Levels |-> IF l = LEVELS THEN root ELSE 0]
<1>1. LEVELS \in Levels /\ 1 \in Levels
  BY DEF Levels
<1>2. ASSUME NEW l \in Levels PROVE Zeroed[Index(q, l)] = 0
  <2>1. Index(q, l) \in Words
    BY PagesAreNumbers, HighStep DEF Levels
  <2> QED
    BY <2>1 DEF Zeroed
<1>3. ASSUME NEW l \in Levels, l # 1
      PROVE  f[l - 1] = IF f[l] = 0 THEN 0 ELSE heap[f[l]][Index(q, l)]
  <2>1. l - 1 \in Levels /\ l - 1 # LEVELS
    BY <1>3 DEF Levels
  <2>2. f[l - 1] = 0
    BY <2>1
  <2>3. f[l] # 0 => heap[f[l]] = Zeroed
    OBVIOUS
  <2> HIDE DEF f
  <2> QED
    BY <1>2, <2>2, <2>3
<1>4. f[LEVELS] = root /\ \A l \in Levels : f[l] = IF l = LEVELS THEN root ELSE 0
  BY <1>1
<1> HIDE DEF f
<1>5. Descends(f, heap, q)
  BY <1>3 DEF Descends
<1>6. \A l \in Levels : Walk(heap, root, q)[l] = f[l]
  BY <1>4, <1>5, WalkBy
<1>7. Walk(heap, root, q)[1] # 0 => heap[Walk(heap, root, q)[1]] = Zeroed
  BY <1>1, <1>4, <1>6
<1>8. Found(heap, root, q) = 0
  BY <1>1, <1>2, <1>7 DEF Found, WordOf
<1> QED
  BY <1>4, <1>6, <1>8

(* new has two tables more, that are empty *)
Loaded(heap, new, k, r) ==
  /\ k \in Nat \ {0} /\ r \in Nat \ {0} /\ k # r
  /\ k \notin DOMAIN heap /\ r \notin DOMAIN heap
  /\ IsFunction(new) /\ DOMAIN new = DOMAIN heap \cup {k, r}
  /\ new[k] = Zeroed /\ new[r] = Zeroed
  /\ \A t \in DOMAIN heap : new[t] = heap[t]

LEMMA LoadedWords ==
    ASSUME NEW heap, WordsOK(heap), NEW new, NEW k, NEW r, Loaded(heap, new, k, r)
    PROVE  WordsOK(new)
<1> USE PageTableAssumption
<1>1. IsFiniteSet(DOMAIN heap) /\ DOMAIN heap \subseteq Nat \ {0}
  BY DEF WordsOK
<1>2. IsFiniteSet(DOMAIN new)
  <2>1. IsFiniteSet({k, r})
    <3>1. IsFiniteSet({k}) /\ IsFiniteSet({r}) /\ {k, r} = {k} \cup {r}
      BY FS_Singleton
    <3>2. IsFiniteSet({k} \cup {r})
      BY <3>1, FS_Union
    <3> QED
      BY <3>1, <3>2
  <2>2. IsFiniteSet(DOMAIN heap \cup {k, r})
    BY <1>1, <2>1, FS_Union
  <2> QED
    BY <2>2 DEF Loaded
<1>3. Zeroed \in [Words -> Nat]
  BY DEF Zeroed
<1>4. \A t \in DOMAIN heap : heap[t] \in [Words -> Nat]
  BY DEF WordsOK
<1>5. \A t \in DOMAIN new : new[t] \in [Words -> Nat]
  BY <1>3, <1>4 DEF Loaded
<1> QED
  BY <1>1, <1>2, <1>5 DEF WordsOK, Loaded

Puts(f, new, p, value) == new = [f EXCEPT ![p] = value]

(* In every page of every process as much is found as before, or nothing in a
   process that has no directory any more *)
FindsAll(heap, roots, new, roots2) ==
  \A s \in Procs, q \in Pages : Found(new, roots2[s], q) = Found(heap, roots[s], q)

FindsRest(heap, roots, new, roots2) ==
  \A s \in Procs, q \in Pages :
    Found(new, roots2[s], q) = IF roots2[s] = 0 THEN 0 ELSE Found(heap, roots[s], q)

(* A process is loaded with two empty tables of its own *)
LEMMA HeapLoaded ==
    ASSUME NEW heap, NEW roots, NEW krnl, NEW os, HeapOK(heap, roots, krnl, os),
           NEW p \in Procs, roots[p] = 0, krnl[p] = 0,
           NEW new, NEW k, NEW r, Loaded(heap, new, k, r),
           NEW roots2, Puts(roots, roots2, p, r),
           NEW krnl2, Puts(krnl, krnl2, p, k)
    PROVE  HeapOK(new, roots2, krnl2, os) /\ FindsAll(heap, roots, new, roots2)
<1> USE PageTableAssumption DEF Puts
<1>1. /\ WordsOK(heap) /\ TreesOK(heap, roots) /\ Complete(heap, roots, krnl, os)
      /\ roots \in [Procs -> Nat] /\ krnl \in [Procs -> Nat] /\ os \in Nat
  BY DEF HeapOK
<1>2. WordsOK(new)
  BY <1>1, LoadedWords
<1>3. /\ roots2 \in [Procs -> Nat] /\ krnl2 \in [Procs -> Nat]
      /\ roots2[p] = r /\ krnl2[p] = k
      /\ \A s \in Procs : s # p => roots2[s] = roots[s] /\ krnl2[s] = krnl[s]
  <2>1. r \in Nat /\ k \in Nat
    BY DEF Loaded
  <2> QED
    BY <1>1, <2>1
<1>4. \A s \in Procs, q \in Pages, l \in Levels :
         T(heap, roots, s, q, l) # 0 => T(heap, roots, s, q, l) \in DOMAIN heap
  BY <1>1 DEF TreesOK
<1>5. ASSUME NEW s \in Procs, NEW q \in Pages, s # p
      PROVE  /\ \A l \in Levels : T(new, roots2, s, q, l) = T(heap, roots, s, q, l)
             /\ Found(new, roots2[s], q) = Found(heap, roots[s], q)
  <2> DEFINE root == roots[s]
  <2>1. Agrees(heap, new, root, q)
    BY <1>4 DEF Agrees, T, Loaded
  <2>2. roots2[s] = root
    BY <1>3, <1>5
  <2> HIDE DEF root
  <2>3. /\ \A l \in Levels : Walk(new, root, q)[l] = Walk(heap, root, q)[l]
        /\ Found(new, root, q) = Found(heap, root, q)
    BY <2>1, SameWords
  <2> QED
    BY <2>2, <2>3 DEF T, root
<1>6. ASSUME NEW q \in Pages
      PROVE  /\ \A l \in Levels : T(new, roots2, p, q, l) = IF l = LEVELS THEN r ELSE 0
             /\ Found(new, roots2[p], q) = Found(heap, roots[p], q)
  <2>1. r # 0 /\ new[r] = Zeroed
    BY DEF Loaded
  <2>2. /\ \A l \in Levels : Walk(new, r, q)[l] = IF l = LEVELS THEN r ELSE 0
        /\ Found(new, r, q) = 0
    BY <2>1, EmptyDirectory
  <2>3. Found(heap, 0, q) = 0
    BY NoDirectory
  <2> QED
    BY <1>3, <2>2, <2>3 DEF T
<1>7. \A q \in Pages, l \in Levels : T(heap, roots, p, q, l) = 0
  BY NoDirectory DEF T
<1>8. \A s \in Procs, q \in Pages, l \in Levels :
         \/ T(new, roots2, s, q, l) = 0
         \/ s = p /\ l = LEVELS /\ T(new, roots2, s, q, l) = r
         \/ s # p /\ T(new, roots2, s, q, l) = T(heap, roots, s, q, l)
  BY <1>5, <1>6, ZenonT(30)
<1>0. /\ k # 0 /\ r # 0 /\ k # r /\ k \notin DOMAIN heap /\ r \notin DOMAIN heap
      /\ DOMAIN new = DOMAIN heap \cup {k, r}
  BY DEF Loaded
<1>16. ASSUME NEW s \in Procs, NEW q \in Pages, NEW l \in Levels, T(new, roots2, s, q, l) # 0
       PROVE  \/ T(new, roots2, s, q, l) = r
              \/ /\ T(new, roots2, s, q, l) = T(heap, roots, s, q, l)
                 /\ T(heap, roots, s, q, l) \in DOMAIN heap
  <2>1. CASE s = p
    BY <1>6, <1>16, <2>1
  <2>2. CASE s # p
    <3>1. T(new, roots2, s, q, l) = T(heap, roots, s, q, l)
      BY <1>5, <2>2
    <3> QED
      BY <1>4, <1>16, <3>1
  <2> QED
    BY <2>1, <2>2
<1>9. TreesOK(new, roots2)
  <2>1. ASSUME NEW s \in Procs, NEW q \in Pages, NEW l \in Levels, T(new, roots2, s, q, l) # 0
        PROVE  T(new, roots2, s, q, l) \in DOMAIN new
    BY <1>0, <1>16, <2>1
  <2>2. ASSUME NEW s \in Procs, NEW q \in Pages, NEW l \in Levels,
               NEW u \in Procs, NEW v \in Pages, NEW m \in Levels,
               T(new, roots2, s, q, l) # 0, T(new, roots2, s, q, l) = T(new, roots2, u, v, m)
        PROVE  s = u /\ l = m /\ Same(l, q, v)
    <3>1. CASE s = p /\ u = p
      <4>1. l = LEVELS /\ m = LEVELS
        BY <1>8, <2>2, <3>1
      <4> QED
        BY <3>1, <4>1, SameIs
    <3>2. CASE s # p /\ u # p
      <4>1. T(heap, roots, s, q, l) # 0 /\ T(heap, roots, s, q, l) = T(heap, roots, u, v, m)
        BY <1>5, <2>2, <3>2
      <4> QED
        BY <1>1, <4>1 DEF TreesOK
    <3>3. CASE s = p /\ u # p
      <4>1. T(new, roots2, s, q, l) = r
        BY <1>6, <2>2, <3>3
      <4>2. T(new, roots2, u, v, m) = T(heap, roots, u, v, m)
        BY <1>5, <3>3
      <4> QED
        BY <1>0, <1>4, <2>2, <4>1, <4>2, ZenonT(30)
    <3>4. CASE s # p /\ u = p
      <4>1. T(new, roots2, u, v, m) = r
        BY <1>6, <2>2, <3>4
      <4>2. T(new, roots2, s, q, l) = T(heap, roots, s, q, l)
        BY <1>5, <3>4
      <4> QED
        BY <1>0, <1>4, <2>2, <4>1, <4>2
    <3> QED
      BY <3>1, <3>2, <3>3, <3>4
  <2>3. \A s \in Procs, q \in Pages, l \in Levels : \A u \in Procs, v \in Pages, m \in Levels :
          T(new, roots2, s, q, l) # 0 /\ T(new, roots2, s, q, l) = T(new, roots2, u, v, m)
          => s = u /\ l = m /\ Same(l, q, v)
    BY <2>2
  <2>4. \A s \in Procs, q \in Pages, l \in Levels :
          T(new, roots2, s, q, l) # 0 => T(new, roots2, s, q, l) \in DOMAIN new
    BY <2>1
  <2> QED
    BY ONLY <2>3, <2>4, Zenon DEF TreesOK
<1>10. ASSUME NEW t, Empty(heap, roots, t) PROVE Empty(new, roots2, t)
  <2> SUFFICES ASSUME t # 0
               PROVE  /\ t \in DOMAIN new /\ new[t] = Zeroed
                      /\ \A s \in Procs, q \in Pages, l \in Levels : T(new, roots2, s, q, l) # t
    BY DEF Empty
  <2>1. /\ t \in DOMAIN heap /\ heap[t] = Zeroed
        /\ \A s \in Procs, q \in Pages, l \in Levels : T(heap, roots, s, q, l) # t
    BY <1>10 DEF Empty
  <2>2. \A s \in Procs, q \in Pages, l \in Levels : T(new, roots2, s, q, l) # t
    <3> SUFFICES ASSUME NEW s \in Procs, NEW q \in Pages, NEW l \in Levels,
                        T(new, roots2, s, q, l) = t
                 PROVE  FALSE
      OBVIOUS
    <3> QED
      BY <1>0, <1>16, <2>1, ZenonT(30)
  <2> QED
    BY <2>1, <2>2 DEF Loaded
<1>11. Empty(new, roots2, k)
  <2>1. \A s \in Procs, q \in Pages, l \in Levels : T(new, roots2, s, q, l) # k
    <3> SUFFICES ASSUME NEW s \in Procs, NEW q \in Pages, NEW l \in Levels,
                        T(new, roots2, s, q, l) = k
                 PROVE  FALSE
      OBVIOUS
    <3> QED
      BY <1>0, <1>16
  <2> QED
    BY <2>1 DEF Loaded, Empty
<1>12. /\ Empty(new, roots2, os)
       /\ \A s \in Procs : Empty(new, roots2, krnl2[s]) /\ (krnl2[s] # 0 => krnl2[s] # os)
  <2>1. /\ Empty(heap, roots, os)
        /\ \A s \in Procs : Empty(heap, roots, krnl[s]) /\ (krnl[s] # 0 => krnl[s] # os)
    BY DEF HeapOK
  <2>2. os # k
    BY <2>1 DEF Empty, Loaded
  <2> QED
    BY <1>3, <1>10, <1>11, <2>1, <2>2
<1>13. ASSUME NEW s \in Procs, NEW u \in Procs, krnl2[s] # 0, krnl2[s] = krnl2[u] PROVE s = u
  <2>1. \A v, w \in Procs : krnl[v] # 0 /\ krnl[v] = krnl[w] => v = w
    BY DEF HeapOK
  <2>2. \A v \in Procs : krnl[v] # k
    <3>1. \A v \in Procs : krnl[v] # 0 => krnl[v] \in DOMAIN heap
      BY DEF HeapOK, Empty
    <3> QED
      BY <3>1 DEF Loaded
  <2> QED
    BY <1>3, <1>13, <2>1, <2>2
<1>14. Complete(new, roots2, krnl2, os)
  <2> SUFFICES ASSUME NEW t \in DOMAIN new
               PROVE  \/ t = os \/ \E s \in Procs : t = krnl2[s]
                      \/ \E s \in Procs, q \in Pages, l \in Levels : t = T(new, roots2, s, q, l)
    BY DEF Complete
  <2>1. CASE t = k
    BY <1>3, <2>1
  <2>2. CASE t = r
    <3>1. LEVELS \in Levels
      BY DEF Levels
    <3>2. PICK q : q \in Pages
      <4>1. Weight[LEVELS] \in Nat \ {0}
        BY WeightIs
      <4>2. 0 \in Pages
        BY <4>1 DEF Pages
      <4> QED
        BY <4>2
    <3>3. T(new, roots2, p, q, LEVELS) = r
      BY <1>6, <3>1, <3>2
    <3> QED
      BY <2>2, <3>1, <3>2, <3>3
  <2>3. CASE t \in DOMAIN heap
    <3>0. t # 0
      BY <1>1, <2>3 DEF WordsOK
    <3>1. CASE \E s \in Procs : t = krnl[s]
      <4>1. PICK s \in Procs : t = krnl[s]
        BY <3>1
      <4>2. s # p
        BY <3>0, <4>1
      <4> QED
        BY <1>3, <4>1, <4>2
    <3>2. CASE \E s \in Procs, q \in Pages, l \in Levels : t = T(heap, roots, s, q, l)
      <4>1. PICK s \in Procs, q \in Pages, l \in Levels : t = T(heap, roots, s, q, l)
        BY <3>2
      <4>2. s # p
        BY <1>7, <3>0, <4>1
      <4>3. t = T(new, roots2, s, q, l)
        BY <1>5, <4>1, <4>2
      <4> QED
        BY <4>3
    <3> QED
      BY <1>1, <2>3, <3>1, <3>2 DEF Complete
  <2> QED
    BY <2>1, <2>2, <2>3 DEF Loaded
<1>15. HeapOK(new, roots2, krnl2, os)
  BY <1>1, <1>2, <1>3, <1>9, <1>12, <1>13, <1>14 DEF HeapOK
<1>17. \A s \in Procs, q \in Pages : Found(new, roots2[s], q) = Found(heap, roots[s], q)
  BY <1>5, <1>6
<1> QED
  BY <1>15, <1>17 DEF FindsAll

(* The tables of a tree *)
Own(heap, root) == {Walk(heap, root, q)[l] : q \in Pages, l \in Levels} \ {0}

Without(heap, D) == [t \in DOMAIN heap \ D |-> heap[t]]

(* Whole trees and directories are freed, and what pointed to them is cleared *)
Released(heap, roots, krnl, os, D, roots2, krnl2, os2) ==
  /\ roots2 \in [Procs -> Nat] /\ krnl2 \in [Procs -> Nat]
  /\ os2 = IF os \in D THEN 0 ELSE os
  /\ \A s \in Procs : krnl2[s] = IF krnl[s] \in D THEN 0 ELSE krnl[s]
  /\ \A s \in Procs : \/ roots2[s] = 0 /\ Own(heap, roots[s]) \subseteq D
                      \/ roots2[s] = roots[s] /\ Own(heap, roots[s]) \cap D = {}

LEMMA WithoutWords ==
    ASSUME NEW heap, WordsOK(heap), NEW D
    PROVE  WordsOK(Without(heap, D))
<1> DEFINE new == Without(heap, D)
<1>1. /\ DOMAIN new = DOMAIN heap \ D /\ new = [t \in DOMAIN new |-> new[t]]
      /\ \A t \in DOMAIN new : new[t] = heap[t]
  BY DEF Without
<1>2. IsFiniteSet(DOMAIN heap) /\ DOMAIN heap \subseteq Nat \ {0}
  BY DEF WordsOK
<1> HIDE DEF new
<1>3. IsFiniteSet(DOMAIN new)
  <2>1. DOMAIN new \subseteq DOMAIN heap
    BY <1>1
  <2> QED
    BY <1>2, <2>1, FS_Subset
<1>4. \A t \in DOMAIN new : new[t] \in [Words -> Nat]
  <2>1. \A t \in DOMAIN heap : heap[t] \in [Words -> Nat]
    BY DEF WordsOK
  <2> QED
    BY <1>1, <2>1
<1>5. IsFunction(new)
  BY <1>1, Zenon DEF IsFunction
<1>6. WordsOK(new)
  BY <1>1, <1>2, <1>3, <1>4, <1>5 DEF WordsOK
<1> QED
  BY <1>6 DEF new

(* Tables are freed, those of whole trees and directories: the other trees keep
   theirs *)
LEMMA HeapReleased ==
    ASSUME NEW heap, NEW roots, NEW krnl, NEW os, HeapOK(heap, roots, krnl, os),
           NEW D, NEW roots2, NEW krnl2, NEW os2,
           Released(heap, roots, krnl, os, D, roots2, krnl2, os2)
    PROVE  /\ HeapOK(Without(heap, D), roots2, krnl2, os2)
           /\ FindsRest(heap, roots, Without(heap, D), roots2)
<1> DEFINE new == Without(heap, D)
<1>1. /\ WordsOK(heap) /\ TreesOK(heap, roots) /\ Complete(heap, roots, krnl, os)
      /\ roots \in [Procs -> Nat] /\ krnl \in [Procs -> Nat] /\ os \in Nat
  BY DEF HeapOK
<1>2. WordsOK(new)
  BY <1>1, WithoutWords
<1>3. DOMAIN new = DOMAIN heap \ D /\ \A t \in DOMAIN heap \ D : new[t] = heap[t]
  BY DEF Without
<1>4. \A s \in Procs, q \in Pages, l \in Levels :
         T(heap, roots, s, q, l) # 0
         => T(heap, roots, s, q, l) \in DOMAIN heap /\ T(heap, roots, s, q, l) \in Own(heap, roots[s])
  BY <1>1 DEF TreesOK, Own, T
<1> HIDE DEF new
<1>5. ASSUME NEW s \in Procs, NEW q \in Pages, roots2[s] = 0
      PROVE  /\ \A l \in Levels : T(new, roots2, s, q, l) = 0
             /\ Found(new, roots2[s], q) = 0
  BY <1>5, NoDirectory DEF T
<1>6. ASSUME NEW s \in Procs, NEW q \in Pages, roots2[s] # 0
      PROVE  /\ \A l \in Levels : T(new, roots2, s, q, l) = T(heap, roots, s, q, l)
             /\ Found(new, roots2[s], q) = Found(heap, roots[s], q)
             /\ Own(heap, roots[s]) \cap D = {}
  <2> DEFINE root == roots[s]
  <2>1. roots2[s] = root /\ Own(heap, root) \cap D = {}
    BY <1>6 DEF Released
  <2>2. \A l \in Levels : T(heap, roots, s, q, l) # 0 => T(heap, roots, s, q, l) \in DOMAIN heap \ D
    BY <1>4, <2>1
  <2>3. Agrees(heap, new, root, q)
    BY <1>3, <2>2 DEF Agrees, T
  <2> HIDE DEF root
  <2>4. /\ \A l \in Levels : Walk(new, root, q)[l] = Walk(heap, root, q)[l]
        /\ Found(new, root, q) = Found(heap, root, q)
    BY <2>3, SameWords
  <2> QED
    BY <2>1, <2>4 DEF T, root
<1>7. ASSUME NEW s \in Procs, NEW q \in Pages, NEW l \in Levels, T(new, roots2, s, q, l) # 0
      PROVE  /\ T(new, roots2, s, q, l) = T(heap, roots, s, q, l)
             /\ T(heap, roots, s, q, l) \in DOMAIN heap \ D
  <2>1. roots2[s] # 0
    BY <1>5, <1>7
  <2>2. T(new, roots2, s, q, l) = T(heap, roots, s, q, l) /\ Own(heap, roots[s]) \cap D = {}
    BY <1>6, <2>1
  <2> QED
    BY <1>4, <1>7, <2>2
<1>8. TreesOK(new, roots2)
  <2>1. \A s \in Procs, q \in Pages, l \in Levels :
          T(new, roots2, s, q, l) # 0 => T(new, roots2, s, q, l) \in DOMAIN new
    <3> SUFFICES ASSUME NEW s \in Procs, NEW q \in Pages, NEW l \in Levels,
                        T(new, roots2, s, q, l) # 0
                 PROVE  T(new, roots2, s, q, l) \in DOMAIN new
      OBVIOUS
    <3> QED
      BY <1>3, <1>7
  <2>2. ASSUME NEW s \in Procs, NEW q \in Pages, NEW l \in Levels,
               NEW u \in Procs, NEW v \in Pages, NEW m \in Levels,
               T(new, roots2, s, q, l) # 0, T(new, roots2, s, q, l) = T(new, roots2, u, v, m)
        PROVE  s = u /\ l = m /\ Same(l, q, v)
    <3>1. T(heap, roots, s, q, l) # 0 /\ T(new, roots2, s, q, l) = T(heap, roots, s, q, l)
      BY <1>7, <2>2
    <3>2. T(new, roots2, u, v, m) # 0
      BY <2>2
    <3>3. T(new, roots2, u, v, m) = T(heap, roots, u, v, m)
      BY <1>7, <3>2
    <3>4. T(heap, roots, s, q, l) = T(heap, roots, u, v, m)
      BY <2>2, <3>1, <3>3
    <3> QED
      BY <1>1, <3>1, <3>4 DEF TreesOK
  <2>3. \A s \in Procs, q \in Pages, l \in Levels : \A u \in Procs, v \in Pages, m \in Levels :
          T(new, roots2, s, q, l) # 0 /\ T(new, roots2, s, q, l) = T(new, roots2, u, v, m)
          => s = u /\ l = m /\ Same(l, q, v)
    BY <2>2
  <2> QED
    BY ONLY <2>1, <2>3, Zenon DEF TreesOK
<1>9. ASSUME NEW t, Empty(heap, roots, t), t \notin D PROVE Empty(new, roots2, t)
  <2> SUFFICES ASSUME t # 0
               PROVE  /\ t \in DOMAIN new /\ new[t] = Zeroed
                      /\ \A s \in Procs, q \in Pages, l \in Levels : T(new, roots2, s, q, l) # t
    BY DEF Empty
  <2>1. /\ t \in DOMAIN heap /\ heap[t] = Zeroed
        /\ \A s \in Procs, q \in Pages, l \in Levels : T(heap, roots, s, q, l) # t
    BY <1>9 DEF Empty
  <2>2. ASSUME NEW s \in Procs, NEW q \in Pages, NEW l \in Levels, T(new, roots2, s, q, l) = t
        PROVE  FALSE
    BY <1>7, <2>1, <2>2
  <2> QED
    BY <1>3, <1>9, <2>1, <2>2
<1>10. /\ os2 = IF os \in D THEN 0 ELSE os
       /\ \A s \in Procs : krnl2[s] = IF krnl[s] \in D THEN 0 ELSE krnl[s]
       /\ roots2 \in [Procs -> Nat] /\ krnl2 \in [Procs -> Nat]
  BY DEF Released
<1>11. /\ Empty(heap, roots, os)
       /\ \A s \in Procs : Empty(heap, roots, krnl[s]) /\ (krnl[s] # 0 => krnl[s] # os)
       /\ \A s, u \in Procs : krnl[s] # 0 /\ krnl[s] = krnl[u] => s = u
  BY DEF HeapOK
<1>12. \A roots3 : Empty(new, roots3, 0)
  BY DEF Empty
<1>13. Empty(new, roots2, os2)
  BY <1>9, <1>10, <1>11, <1>12
<1>14. ASSUME NEW s \in Procs PROVE Empty(new, roots2, krnl2[s]) /\ (krnl2[s] # 0 => krnl2[s] # os2)
  <2>1. CASE krnl[s] \in D
    BY <1>10, <1>12, <2>1
  <2>2. CASE krnl[s] \notin D
    <3>1. krnl2[s] = krnl[s]
      BY <1>10, <2>2
    <3>2. Empty(new, roots2, krnl[s])
      BY <1>9, <1>11, <2>2
    <3> QED
      BY <1>10, <1>11, <3>1, <3>2
  <2> QED
    BY <2>1, <2>2
<1>15. ASSUME NEW s \in Procs, NEW u \in Procs, krnl2[s] # 0, krnl2[s] = krnl2[u] PROVE s = u
  BY <1>10, <1>11, <1>15
<1>16. Complete(new, roots2, krnl2, os2)
  <2> SUFFICES ASSUME NEW t \in DOMAIN heap, t \notin D
               PROVE  \/ t = os2 \/ \E s \in Procs : t = krnl2[s]
                      \/ \E s \in Procs, q \in Pages, l \in Levels : t = T(new, roots2, s, q, l)
    BY <1>3 DEF Complete
  <2>0. t # 0
    BY <1>1 DEF WordsOK
  <2>1. CASE t = os
    BY <1>10, <2>1
  <2>2. CASE \E s \in Procs : t = krnl[s]
    BY <1>10, <2>2
  <2>3. CASE \E s \in Procs, q \in Pages, l \in Levels : t = T(heap, roots, s, q, l)
    <3>1. PICK s \in Procs, q \in Pages, l \in Levels : t = T(heap, roots, s, q, l)
      BY <2>3
    <3>2. t \in Own(heap, roots[s])
      BY <1>4, <2>0, <3>1
    <3>3. roots2[s] = roots[s] /\ Own(heap, roots[s]) \cap D = {}
      BY <3>2 DEF Released
    <3>4. roots2[s] # 0
      <4>1. T(heap, roots, s, q, l) # 0
        BY <2>0, <3>1
      <4>2. roots[s] # 0
        BY <4>1, NoDirectory DEF T
      <4> QED
        BY <3>3, <4>2
    <3>5. t = T(new, roots2, s, q, l)
      BY <1>6, <3>1, <3>4
    <3> QED
      BY <3>5
  <2> QED
    BY <1>1, <2>1, <2>2, <2>3 DEF Complete
<1>17. HeapOK(new, roots2, krnl2, os2)
  <2>1. os2 \in Nat
    BY <1>1, <1>10
  <2> QED
    BY <1>2, <1>8, <1>10, <1>13, <1>14, <1>15, <1>16, <2>1 DEF HeapOK
<1>18. ASSUME NEW s \in Procs, NEW q \in Pages
       PROVE  Found(new, roots2[s], q) = IF roots2[s] = 0 THEN 0 ELSE Found(heap, roots[s], q)
  BY <1>5, <1>6
<1> QED
  BY <1>17, <1>18, Zenon DEF new, FindsRest
-----------------------------------------------------------------------------
(* Sequences without repetition *)

(* Sequences of different elements, of which no two share one *)
Disjoint(S, ss) ==
  /\ ss \in Seq(Seq(S))
  /\ \A i \in 1..Len(ss) : IsInjective(ss[i])
  /\ \A i, j \in 1..Len(ss) : i # j => ToSet(ss[i]) \cap ToSet(ss[j]) = {}

Union(ss, k) == UNION {ToSet(ss[i]) : i \in 1..k}

(* f holds the first sequences one after another *)
Chain(f, ss, k) ==
  /\ f = [i \in 1..k |-> f[i]]
  /\ \A i \in 1..k : f[i] = IF i = 1 THEN ss[i] ELSE f[i - 1] \o ss[i]

HasChain(ss, k) == \E f : Chain(f, ss, k)

(* What FlattenSeq computes is defined *)
LEMMA ChainExists == ASSUME NEW ss PROVE \A k \in Nat : HasChain(ss, k)
<1> DEFINE Q == {k \in Nat : HasChain(ss, k)}
<1>1. 0 \in Q
  <2> DEFINE f == [i \in 1..0 |-> ss]
  <2>1. f = [i \in 1..0 |-> f[i]] /\ \A i \in 1..0 : f[i] = IF i = 1 THEN ss[i] ELSE f[i - 1] \o ss[i]
    OBVIOUS
  <2> HIDE DEF f
  <2> QED
    BY <2>1 DEF HasChain, Chain
<1>2. ASSUME NEW k \in Nat, k \in Q PROVE k + 1 \in Q
  <2>1. PICK g : Chain(g, ss, k)
    BY <1>2 DEF HasChain
  <2> DEFINE last == IF k = 0 THEN ss[k + 1] ELSE g[k] \o ss[k + 1]
             f == [i \in 1..(k + 1) |-> IF i = k + 1 THEN last ELSE g[i]]
  <2>2. \A i \in 1..k : f[i] = g[i]
    OBVIOUS
  <2>3. f[k + 1] = last
    OBVIOUS
  <2>4. f = [i \in 1..(k + 1) |-> f[i]]
    OBVIOUS
  <2> HIDE DEF f
  <2>5. ASSUME NEW i \in 1..(k + 1) PROVE f[i] = IF i = 1 THEN ss[i] ELSE f[i - 1] \o ss[i]
    <3>1. CASE i = k + 1
      <4>1. CASE k = 0
        BY <2>3, <3>1, <4>1
      <4>2. CASE k # 0
        <5>1. k \in 1..k /\ i - 1 = k /\ i # 1
          BY <3>1, <4>2
        <5>2. f[i - 1] = g[k]
          BY <2>2, <5>1
        <5> QED
          BY <2>3, <3>1, <4>2, <5>1, <5>2
      <4> QED
        BY <4>1, <4>2
    <3>2. CASE i # k + 1
      <4>1. i \in 1..k /\ (i # 1 => i - 1 \in 1..k)
        BY <3>2
      <4>2. g[i] = IF i = 1 THEN ss[i] ELSE g[i - 1] \o ss[i]
        BY <2>1, <4>1 DEF Chain
      <4> QED
        BY <2>2, <4>1, <4>2
    <3> QED
      BY <3>1, <3>2
  <2>6. Chain(f, ss, k + 1)
    BY <2>4, <2>5 DEF Chain
  <2> QED
    BY <2>6 DEF HasChain
<1> HIDE DEF Q
<1>3. Nat \subseteq Q
  BY <1>1, <1>2, NatSteps
<1> QED
  BY <1>3 DEF Q

(* Sequences of different elements one after the other *)
LEMMA FlattenIs ==
    ASSUME NEW S, NEW ss, Disjoint(S, ss)
    PROVE  /\ FlattenSeq(ss) \in Seq(S) /\ IsInjective(FlattenSeq(ss))
           /\ ToSet(FlattenSeq(ss)) = Union(ss, Len(ss))
<1> DEFINE n == Len(ss)
           flat == FlattenSeq(ss)
           Is(f) == f = [i \in 1..n |-> IF i = 1 THEN ss[i] ELSE f[i - 1] \o ss[i]]
           iter == CHOOSE f : Is(f)
<1>1. n \in Nat /\ DOMAIN ss = 1..n /\ \A i \in 1..n : ss[i] \in Seq(S)
  BY LenProperties, ElementOfSeq DEF Disjoint
<1>2. CASE n = 0
  <2>1. ss = <<>>
    BY <1>2, EmptySeq DEF Disjoint
  <2>2. flat = ss
    BY <1>2, Zenon DEF FlattenSeq
  <2>3. Union(ss, 0) = {} /\ ToSet(<<>>) = {} /\ IsInjective(<<>>)
    BY DEF Union, ToSet, IsInjective
  <2> QED
    BY <1>2, <2>1, <2>2, <2>3, EmptySeq
<1>3. CASE n # 0
  <2>1. flat = iter[n]
    BY <1>3, Zenon DEF FlattenSeq
  <2>2. PICK f : Chain(f, ss, n)
    BY <1>1, ChainExists DEF HasChain
  <2>3. Is(f)
    BY <2>2 DEF Chain
  <2>4. Is(iter)
    BY <2>3, Zenon
  <2> HIDE DEF iter, n
  <2>5. \A i \in 1..n : iter[i] = IF i = 1 THEN ss[i] ELSE iter[i - 1] \o ss[i]
    BY <2>4
  <2> HIDE DEF Is
  <2> DEFINE G == {k \in 0..n : k # 0 => /\ iter[k] \in Seq(S) /\ IsInjective(iter[k])
                                         /\ ToSet(iter[k]) = Union(ss, k)}
  <2>6. 0 \in G
    BY <1>1
  <2>7. ASSUME NEW k \in 1..n, k - 1 \in G PROVE k \in G
    <3> SUFFICES /\ iter[k] \in Seq(S) /\ IsInjective(iter[k])
                 /\ ToSet(iter[k]) = Union(ss, k)
      BY <1>1
    <3>1. ss[k] \in Seq(S) /\ IsInjective(ss[k])
      BY <1>1 DEF Disjoint, n
    <3>2. CASE k = 1
      <4>1. iter[k] = ss[k] /\ Union(ss, k) = ToSet(ss[k])
        BY <2>5, <3>2 DEF Union
      <4> QED
        BY <3>1, <4>1
    <3>3. CASE k # 1
      <4> DEFINE j == k - 1
                 a == iter[j]
      <4>1. j \in 1..n /\ j # 0 /\ iter[k] = a \o ss[k]
        <5>1. j \in 1..n /\ j # 0
          BY <1>1, <3>3
        <5>2. iter[k] = a \o ss[k]
          BY <2>5, <3>3, Zenon
        <5> QED
          BY <5>1, <5>2
      <4>2. a \in Seq(S) /\ IsInjective(a) /\ ToSet(a) = Union(ss, j)
        BY <2>7, <4>1
      <4>3. 1..k = 1..j \cup {k} /\ \A i \in 1..j : i \in 1..n /\ i # k
        BY <1>1, <3>3
      <4> HIDE DEF a, j
      <4>4. Union(ss, k) = Union(ss, j) \cup ToSet(ss[k])
        BY <4>3 DEF Union
      <4>5. Union(ss, j) \cap ToSet(ss[k]) = {}
        <5>1. \A i \in 1..j : ToSet(ss[i]) \cap ToSet(ss[k]) = {}
          BY <4>3 DEF Disjoint, n
        <5> QED
          BY <5>1 DEF Union
      <4>6. a \o ss[k] \in Seq(S) /\ IsInjective(a \o ss[k])
            /\ ToSet(a \o ss[k]) = ToSet(a) \cup ToSet(ss[k])
        BY <3>1, <4>2, <4>5, ConcatIs
      <4> QED
        BY <4>1, <4>2, <4>4, <4>6
    <3> QED
      BY <3>2, <3>3
  <2> HIDE DEF G
  <2>8. 0..n \subseteq G
    BY <1>1, <2>6, <2>7, UpTo
  <2>9. n \in G
    BY <1>1, <2>8
  <2> QED
    BY <1>3, <2>1, <2>9 DEF G, n
<1> QED
  BY <1>2, <1>3

(* The elements of a finite set in some order, each one once *)
LEMMA SetToSeqIs ==
    ASSUME NEW S, IsFiniteSet(S)
    PROVE  /\ SetToSeq(S) \in Seq(S) /\ IsInjective(SetToSeq(S))
           /\ ToSet(SetToSeq(S)) = S
<1> DEFINE n == Cardinality(S)
           s == SetToSeq(S)
<1>1. n \in Nat
  BY FS_CardinalityType
<1>2. PICK m \in Nat : ExistsBijection(1..m, S)
  BY FS_NatBijection
<1>3. m = n
  BY <1>2, FS_CountingElements
<1>4. PICK f : f \in Bijection(1..n, S)
  BY <1>2, <1>3 DEF ExistsBijection
<1>5. f \in [1..n -> S] /\ IsInjective(f)
  BY <1>4 DEF Bijection, Injection
<1>6. s \in [1..n -> S] /\ IsInjective(s)
  BY <1>5, Zenon DEF SetToSeq
<1> HIDE DEF s, n
<1>7. s \in Seq(S)
  BY <1>1, <1>6
<1>8. ToSet(s) = S
  <2>1. s \in Injection(1..n, S)
    BY <1>6 DEF Injection
  <2>2. IsFiniteSet(1..n) /\ Cardinality(1..n) = n
    BY <1>1, FS_Interval
  <2>3. s \in Surjection(1..n, S)
    BY <2>1, <2>2, FS_Injection DEF n
  <2> QED
    BY <1>6, <2>3 DEF Surjection, ToSet
<1> QED
  BY <1>6, <1>7, <1>8 DEF s
-----------------------------------------------------------------------------
(* What free_pgtable_recursive frees *)

OneTree(root) ==
  /\ \A q \in Pages, l \in Levels :
       Walk(tables, root, q)[l] # 0 => Walk(tables, root, q)[l] \in DOMAIN tables
  /\ \A q \in Pages, l \in Levels : \A r \in Pages, k \in Levels :
       Walk(tables, root, q)[l] # 0 /\ Walk(tables, root, q)[l] = Walk(tables, root, r)[k]
       => l = k /\ Same(l, q, r)

(* The tables below the one of page q at level l, with that one *)
Subtree(root, q, l) ==
  {Walk(tables, root, r)[j] : r \in {r \in Pages : Same(l, q, r)}, j \in 1..l} \ {0}

LEMMA SubtreeHas ==
    ASSUME NEW root, NEW q, NEW l
    PROVE  \A x : x \in Subtree(root, q, l)
                  <=> /\ x # 0
                      /\ \E r \in Pages, j \in 1..l : Same(l, q, r) /\ x = Walk(tables, root, r)[j]
  BY DEF Subtree

(* Below a missing table there are none *)
LEMMA SubtreeEmpty ==
    ASSUME NEW root, NEW q \in Pages, NEW l \in Levels, Walk(tables, root, q)[l] = 0
    PROVE  Subtree(root, q, l) = {}
<1> SUFFICES ASSUME NEW x \in Subtree(root, q, l) PROVE FALSE
  OBVIOUS
<1>1. PICK r \in Pages, j \in 1..l : Same(l, q, r) /\ x = Walk(tables, root, r)[j] /\ x # 0
  BY SubtreeHas
<1>2. Walk(tables, root, r)[l] = 0
  BY <1>1, SharedWalk
<1>3. Walk(tables, root, r)[j] = 0
  BY <1>2, MissingBelow
<1> QED
  BY <1>1, <1>3

(* A table is below one word of a table only *)
LEMMA SubtreesApart ==
    ASSUME NEW root, OneTree(root), NEW a \in Pages, NEW b \in Pages, NEW l \in Levels,
           NEW x, x \in Subtree(root, a, l), x \in Subtree(root, b, l)
    PROVE  Same(l, a, b)
<1>1. PICK r \in Pages, j \in 1..l : Same(l, a, r) /\ x = Walk(tables, root, r)[j] /\ x # 0
  BY SubtreeHas
<1>2. PICK s \in Pages, k \in 1..l : Same(l, b, s) /\ x = Walk(tables, root, s)[k]
  BY SubtreeHas
<1>3. j \in Levels /\ k \in Levels /\ j \in 0..LEVELS /\ l \in j..LEVELS
  BY PageTableAssumption DEF Levels
<1>4. Same(j, r, s)
  BY <1>1, <1>2, <1>3 DEF OneTree
<1>5. Same(l, r, s)
  BY <1>3, <1>4, SameAbove
<1> QED
  BY <1>1, <1>2, <1>5 DEF Same

(* below holds, for the tables of level l, what is freed with each of them *)
Frees(below, root, q, l) ==
  LET t == Walk(tables, root, q)[l]
  IN t # 0 => /\ below[t] \in Seq(Nat) /\ IsInjective(below[t])
              /\ ToSet(below[t]) = Subtree(root, q, l)

(* A level from the one below it, as Freed computes it *)
Children(prev, t) ==
  [k \in 1..FANOUT |-> IF tables[t][k - 1] = 0 THEN <<>> ELSE prev[tables[t][k - 1]]]

Level(prev, level) ==
  [t \in DOMAIN tables |->
     IF level = 1 THEN <<t>> ELSE Append(FlattenSeq(Children(prev, t)), t)]

(* free_pgtable_recursive one level up: the tables below the words, then the table *)
LEMMA FreesLevel ==
    ASSUME WordsOK(tables), NEW root, OneTree(root), NEW l \in Levels, l # 1,
           NEW prev, \A r \in Pages : Frees(prev, root, r, l - 1), NEW q \in Pages
    PROVE  Frees(Level(prev, l), root, q, l)
<1> USE PageTableAssumption
<1> DEFINE t == Walk(tables, root, q)[l]
           m == l - 1
           child == [k \in 1..FANOUT |->
                       CHOOSE r \in Pages : Same(l, q, r) /\ Index(r, l) = k - 1]
           word(k) == tables[t][k - 1]
           ss == Children(prev, t)
<1> SUFFICES ASSUME t # 0
             PROVE  /\ Level(prev, l)[t] \in Seq(Nat) /\ IsInjective(Level(prev, l)[t])
                    /\ ToSet(Level(prev, l)[t]) = Subtree(root, q, l)
  BY Zenon DEF Frees
<1>1. m \in Levels /\ l \in 1..LEVELS /\ m + 1 = l
  BY DEF Levels
<1>2. t \in DOMAIN tables /\ t \in Nat
  BY DEF OneTree, WordsOK
<1>3. ASSUME NEW k \in 1..FANOUT
      PROVE  child[k] \in Pages /\ Same(l, q, child[k]) /\ Index(child[k], l) = k - 1
  <2>1. k - 1 \in Words
    BY DEF Words
  <2>2. \E r \in Pages : Same(l, q, r) /\ Index(r, l) = k - 1
    BY <1>1, <2>1, PageOfWord
  <2>3. child[k] = CHOOSE r \in Pages : Same(l, q, r) /\ Index(r, l) = k - 1
    OBVIOUS
  <2> HIDE DEF child
  <2> QED
    BY <2>2, <2>3
<1> HIDE DEF child
<1>4. ASSUME NEW k \in 1..FANOUT
      PROVE  word(k) = Walk(tables, root, child[k])[m]
  <2>1. Walk(tables, root, child[k])[l] = t
    BY <1>3, SharedWalk
  <2>2. Walk(tables, root, child[k])[m] = tables[Walk(tables, root, child[k])[l]][Index(child[k], l)]
    <3>1. Walk(tables, root, child[k])[l] # 0
      BY <2>1
    <3> QED
      BY <3>1, WalkDown
  <2> QED
    BY <1>3, <2>1, <2>2
<1>5. ASSUME NEW k \in 1..FANOUT
      PROVE  /\ ss[k] \in Seq(Nat) /\ IsInjective(ss[k])
             /\ ToSet(ss[k]) = Subtree(root, child[k], m)
  <2>0. ss[k] = IF word(k) = 0 THEN <<>> ELSE prev[word(k)]
    BY Zenon DEF Children
  <2>1. CASE word(k) = 0
    <3>1. Subtree(root, child[k], m) = {}
      BY <1>1, <1>3, <1>4, <2>1, SubtreeEmpty
    <3>2. <<>> \in Seq(Nat) /\ IsInjective(<<>>) /\ ToSet(<<>>) = {}
      BY DEF IsInjective, ToSet
    <3> QED
      BY <2>0, <2>1, <3>1, <3>2
  <2>2. CASE word(k) # 0
    <3>1. Frees(prev, root, child[k], m)
      BY <1>3
    <3>2. /\ prev[word(k)] \in Seq(Nat) /\ IsInjective(prev[word(k)])
          /\ ToSet(prev[word(k)]) = Subtree(root, child[k], m)
      BY <1>4, <2>2, <3>1 DEF Frees
    <3> QED
      BY <2>0, <2>2, <3>2
  <2> QED
    BY <2>1, <2>2
<1>6. Len(ss) = FANOUT /\ ss \in Seq(Seq(Nat))
  <2>1. ss = [k \in 1..FANOUT |-> ss[k]]
    BY DEF Children
  <2> HIDE DEF ss
  <2>2. ss \in [1..FANOUT -> Seq(Nat)]
    BY <1>5, <2>1
  <2> QED
    BY <2>2
<1> HIDE DEF ss, word, m, t
<1>7. ASSUME NEW i \in 1..FANOUT, NEW j \in 1..FANOUT, i # j
      PROVE  ToSet(ss[i]) \cap ToSet(ss[j]) = {}
  <2> SUFFICES ASSUME NEW x, x \in ToSet(ss[i]), x \in ToSet(ss[j]) PROVE FALSE
    OBVIOUS
  <2>1. x \in Subtree(root, child[i], m) /\ x \in Subtree(root, child[j], m)
    BY <1>5
  <2>2. Same(m, child[i], child[j])
    BY <1>1, <1>3, <2>1, SubtreesApart
  <2>3. Index(child[i], l) = Index(child[j], l)
    BY <1>1, <1>3, <2>2, SameIs DEF m
  <2> QED
    BY <1>3, <1>7, <2>3
<1>8. Disjoint(Nat, ss)
  BY <1>5, <1>6, <1>7 DEF Disjoint
<1> DEFINE flat == FlattenSeq(ss)
<1>9. flat \in Seq(Nat) /\ IsInjective(flat) /\ ToSet(flat) = Union(ss, FANOUT)
  BY <1>6, <1>8, FlattenIs
<1> HIDE DEF flat
<1>10. \A x : x \in ToSet(flat) <=> \E k \in 1..FANOUT : x \in Subtree(root, child[k], m)
  BY <1>5, <1>9 DEF Union
<1>11. t \notin ToSet(flat)
  <2> SUFFICES ASSUME t \in ToSet(flat) PROVE FALSE
    OBVIOUS
  <2>1. PICK k \in 1..FANOUT : t \in Subtree(root, child[k], m)
    BY <1>10
  <2>2. PICK r \in Pages, j \in 1..m : t = Walk(tables, root, r)[j] /\ t # 0
    BY <2>1, SubtreeHas
  <2>3. j \in Levels /\ j # l
    BY <1>1 DEF Levels
  <2> QED
    BY <2>2, <2>3 DEF OneTree, t
<1>12. ToSet(flat) \cup {t} = Subtree(root, q, l)
  <2>1. ASSUME NEW x \in ToSet(flat) PROVE x \in Subtree(root, q, l)
    <3>1. PICK k \in 1..FANOUT : x \in Subtree(root, child[k], m)
      BY <1>10, <2>1
    <3>2. PICK r \in Pages, j \in 1..m :
            Same(m, child[k], r) /\ x = Walk(tables, root, r)[j] /\ x # 0
      BY <3>1, SubtreeHas
    <3>3. Same(l, child[k], r)
      BY <1>1, <1>3, <3>2, SameIs DEF m
    <3>4. Same(l, q, r)
      BY <1>3, <3>3 DEF Same
    <3>5. j \in 1..l
      BY <1>1 DEF Levels
    <3> QED
      BY <3>2, <3>4, <3>5, SubtreeHas
  <2>2. t \in Subtree(root, q, l)
    <3>1. Same(l, q, q) /\ l \in 1..l
      BY <1>1 DEF Same
    <3> QED
      BY <3>1, SubtreeHas DEF t
  <2>3. ASSUME NEW x \in Subtree(root, q, l), x # t PROVE x \in ToSet(flat)
    <3>1. PICK r \in Pages, j \in 1..l : Same(l, q, r) /\ x = Walk(tables, root, r)[j] /\ x # 0
      BY SubtreeHas
    <3>2. Walk(tables, root, r)[l] = t
      BY <3>1, SharedWalk DEF t
    <3>3. j \in 1..m
      BY <1>1, <2>3, <3>1, <3>2 DEF Levels
    <3>4. r \in Nat
      BY PagesAreNumbers
    <3>5. Index(r, l) \in Words
      BY <1>1, <3>4, HighStep
    <3>6. PICK k \in 1..FANOUT : k - 1 = Index(r, l)
      <4>1. Index(r, l) + 1 \in 1..FANOUT /\ (Index(r, l) + 1) - 1 = Index(r, l)
        BY <3>5 DEF Words
      <4> QED
        BY <4>1
    <3>7. Same(m, child[k], r)
      <4>1. Same(l, child[k], r) /\ Index(child[k], l) = Index(r, l)
        BY <1>3, <3>1, <3>6 DEF Same
      <4> QED
        BY <1>1, <1>3, <4>1, SameIs DEF m
    <3>8. x \in Subtree(root, child[k], m)
      BY <3>1, <3>3, <3>7, SubtreeHas
    <3> QED
      BY <1>10, <3>8
  <2> QED
    BY <2>1, <2>2, <2>3
<1>13. Level(prev, l)[t] = Append(flat, t)
  BY <1>2, Zenon DEF Level, flat, ss
<1>14. /\ Append(flat, t) \in Seq(Nat) /\ IsInjective(Append(flat, t))
       /\ ToSet(Append(flat, t)) = ToSet(flat) \cup {t}
  BY <1>2, <1>9, <1>11, AppendIs
<1> QED
  BY <1>12, <1>13, <1>14

(* f holds what is freed with each table of the first levels *)
FreedOn(f, k) ==
  /\ f = [l \in 1..k |-> f[l]]
  /\ \A l \in 1..k : f[l] = Level(f[l - 1], l)

HasFreed(k) == \E f : FreedOn(f, k)

(* The recursion of free_pgtable_recursive is defined *)
LEMMA FreedExists == \A k \in Nat : HasFreed(k)
<1> DEFINE Q == {k \in Nat : HasFreed(k)}
<1>1. 0 \in Q
  <2> DEFINE f == [i \in 1..0 |-> 0]
  <2>1. f = [i \in 1..0 |-> f[i]] /\ \A i \in 1..0 : f[i] = Level(f[i - 1], i)
    OBVIOUS
  <2> HIDE DEF f
  <2> QED
    BY <2>1 DEF HasFreed, FreedOn
<1>2. ASSUME NEW k \in Nat, k \in Q PROVE k + 1 \in Q
  <2>1. PICK g : FreedOn(g, k)
    BY <1>2 DEF HasFreed
  <2> DEFINE last == Level(g[k], k + 1)
             f == [l \in 1..(k + 1) |-> IF l = k + 1 THEN last ELSE g[l]]
  <2>2. \A l \in 1..k : f[l] = g[l]
    OBVIOUS
  <2>3. f[k + 1] = last
    OBVIOUS
  <2>4. f = [l \in 1..(k + 1) |-> f[l]]
    OBVIOUS
  <2> HIDE DEF f
  <2>5. ASSUME NEW l \in 1..(k + 1) PROVE f[l] = Level(f[l - 1], l)
    <3>0. Level(g[l - 1], 1) = Level(f[l - 1], 1)
      BY Zenon DEF Level
    <3>1. CASE l = k + 1
      <4>1. CASE k = 0
        BY <2>3, <3>0, <3>1, <4>1
      <4>2. CASE k # 0
        <5>1. k \in 1..k /\ l - 1 = k
          BY <3>1, <4>2
        <5>2. f[l - 1] = g[k]
          BY <2>2, <5>1
        <5> QED
          BY <2>3, <3>1, <5>2
      <4> QED
        BY <4>1, <4>2
    <3>2. CASE l # k + 1
      <4>1. l \in 1..k /\ (l # 1 => l - 1 \in 1..k)
        BY <3>2
      <4>2. g[l] = Level(g[l - 1], l)
        BY <2>1, <4>1 DEF FreedOn
      <4>3. f[l] = g[l]
        BY <2>2, <4>1
      <4>4. CASE l = 1
        BY <3>0, <4>2, <4>3, <4>4
      <4>5. CASE l # 1
        <5>1. f[l - 1] = g[l - 1]
          BY <2>2, <4>1, <4>5
        <5> QED
          BY <4>2, <4>3, <5>1
      <4> QED
        BY <4>4, <4>5
    <3> QED
      BY <3>1, <3>2
  <2>6. FreedOn(f, k + 1)
    BY <2>4, <2>5 DEF FreedOn
  <2> QED
    BY <2>6 DEF HasFreed
<1> HIDE DEF Q
<1>3. Nat \subseteq Q
  BY <1>1, <1>2, NatSteps
<1> QED
  BY <1>3 DEF Q

(* free_pgtable_recursive frees the tables of the tree, each one once *)
LEMMA FreedIs ==
    ASSUME WordsOK(tables), NEW root, root # 0, OneTree(root)
    PROVE  /\ Freed(root) \in Seq(Nat) /\ IsInjective(Freed(root))
           /\ ToSet(Freed(root)) = Own(tables, root)
<1> USE PageTableAssumption
<1> DEFINE Is(f) == f = [l \in 1..LEVELS |-> [t \in DOMAIN tables |->
              IF l = 1 THEN <<t>>
              ELSE Append(FlattenSeq([k \in 1..FANOUT |->
                     IF tables[t][k - 1] = 0 THEN <<>> ELSE f[l - 1][tables[t][k - 1]]]), t)]]
           below == CHOOSE f : Is(f)
<1>1. PICK g : FreedOn(g, LEVELS)
  BY FreedExists DEF HasFreed
<1>2. g = [l \in 1..LEVELS |-> Level(g[l - 1], l)]
  BY <1>1, Zenon DEF FreedOn
<1>3. Is(g)
  BY <1>2, Zenon DEF Level, Children
<1>4. Is(below)
  BY <1>3, Zenon
<1>5. Freed(root) = below[LEVELS][root]
  BY Zenon DEF Freed
<1>6. \A l \in 1..LEVELS : below[l] = Level(below[l - 1], l)
  BY <1>4, Zenon DEF Level, Children
<1> HIDE DEF below
<1> DEFINE G == {l \in 0..LEVELS : l # 0 => \A q \in Pages : Frees(below[l], root, q, l)}
<1>7. 0 \in G
  OBVIOUS
<1>8. ASSUME NEW l \in 1..LEVELS, l - 1 \in G PROVE l \in G
  <2> SUFFICES ASSUME NEW q \in Pages PROVE Frees(below[l], root, q, l)
    OBVIOUS
  <2>0. l \in Levels /\ below[l] = Level(below[l - 1], l)
    BY <1>6 DEF Levels
  <2>1. CASE l # 1
    <3>1. \A r \in Pages : Frees(below[l - 1], root, r, l - 1)
      BY <1>8, <2>1
    <3>2. Frees(Level(below[l - 1], l), root, q, l)
      BY <2>0, <2>1, <3>1, FreesLevel
    <3> QED
      BY <2>0, <3>2
  <2>2. CASE l = 1
    <3> DEFINE t == Walk(tables, root, q)[1]
    <3> SUFFICES ASSUME t # 0
                 PROVE  /\ below[1][t] \in Seq(Nat) /\ IsInjective(below[1][t])
                        /\ ToSet(below[1][t]) = Subtree(root, q, 1)
      BY <2>2, Zenon DEF Frees
    <3>1. t \in DOMAIN tables /\ t \in Nat
      BY <2>0, <2>2 DEF OneTree, WordsOK
    <3>2. below[1][t] = <<t>>
      BY <2>0, <2>2, <3>1, Zenon DEF Level
    <3>3. Subtree(root, q, 1) = {t}
      <4>1. ASSUME NEW x \in Subtree(root, q, 1) PROVE x = t
        <5>1. PICK r \in Pages, j \in 1..1 : Same(1, q, r) /\ x = Walk(tables, root, r)[j]
          BY SubtreeHas
        <5>2. j = 1
          OBVIOUS
        <5> QED
          BY <2>0, <2>2, <5>1, <5>2, SharedWalk
      <4>2. t \in Subtree(root, q, 1)
        <5>1. Same(1, q, q) /\ 1 \in 1..1
          BY DEF Same
        <5> QED
          BY <5>1, SubtreeHas
      <4> QED
        BY <4>1, <4>2
    <3> HIDE DEF t
    <3>4. <<t>> \in Seq(Nat) /\ IsInjective(<<t>>) /\ ToSet(<<t>>) = {t}
      BY <3>1 DEF IsInjective, ToSet
    <3> QED
      BY <3>2, <3>3, <3>4
  <2> QED
    BY <2>1, <2>2
<1>9. LEVELS \in G
  <2> HIDE DEF G
  <2>1. 0..LEVELS \subseteq G
    BY <1>7, <1>8, UpTo
  <2> QED
    BY <2>1
<1>10. 0 \in Pages
  <2>1. Weight[LEVELS] \in Nat \ {0}
    BY WeightIs
  <2> QED
    BY <2>1 DEF Pages
<1>11. Walk(tables, root, 0)[LEVELS] = root
  BY WalkSteps
<1>12. /\ below[LEVELS][root] \in Seq(Nat) /\ IsInjective(below[LEVELS][root])
       /\ ToSet(below[LEVELS][root]) = Subtree(root, 0, LEVELS)
  <2>1. Frees(below[LEVELS], root, 0, LEVELS)
    BY <1>9, <1>10
  <2> QED
    BY <1>11, <2>1 DEF Frees
<1>13. Subtree(root, 0, LEVELS) = Own(tables, root)
  <2>1. \A r \in Pages : Same(LEVELS, 0, r)
    BY <1>10, HighEnds, PagesAreNumbers DEF Same
  <2>2. \A r \in Pages : r \in {s \in Pages : Same(LEVELS, 0, s)}
    BY <2>1
  <2> QED
    BY <2>1 DEF Subtree, Own, Levels
<1> QED
  BY <1>5, <1>12, <1>13
-----------------------------------------------------------------------------
(* The steps *)

(* A process has both directories or none, every table on the heap has one
   place in the trees and directories, and the trees hold the entries last set. *)
TablesInv ==
  /\ HeapOK(tables, pgd, krnl_pgd, os_pgd)
  /\ \A p \in Procs : (krnl_pgd[p] = 0) <=> (pgd[p] = 0)
  /\ entry \in [Procs -> [Pages -> Nat]]
  /\ \A p \in Procs, q \in Pages : entry[p][q] = Found(tables, pgd[p], q)

(* The directory of main is the only table at first *)
LEMMA InitTables == PageTableInit => TablesInv
<1> USE PageTableAssumption
<1> SUFFICES ASSUME PageTableInit PROVE TablesInv
  OBVIOUS
<1>1. DOMAIN tables = {1} /\ tables[1] = Zeroed /\ IsFunction(tables)
  <2>1. tables = [t \in {1} |-> Zeroed]
    BY DEF PageTableInit
  <2> QED
    BY <2>1 DEF IsFunction
<1>2. \A p \in Procs : pgd[p] = 0 /\ krnl_pgd[p] = 0
  BY DEF PageTableInit
<1>3. pgd \in [Procs -> Nat] /\ krnl_pgd \in [Procs -> Nat] /\ os_pgd \in Nat /\ os_pgd = 1
  BY DEF PageTableInit
<1>4. WordsOK(tables)
  <2>1. IsFiniteSet(DOMAIN tables)
    BY <1>1, FS_Singleton
  <2>2. Zeroed \in [Words -> Nat]
    BY DEF Zeroed
  <2> QED
    BY <1>1, <2>1, <2>2 DEF WordsOK
<1>5. \A p \in Procs, q \in Pages, l \in Levels : T(tables, pgd, p, q, l) = 0
  <2> SUFFICES ASSUME NEW p \in Procs, NEW q \in Pages, NEW l \in Levels
               PROVE  T(tables, pgd, p, q, l) = 0
    OBVIOUS
  <2> QED
    BY <1>2, NoDirectory DEF T
<1>6. TreesOK(tables, pgd)
  BY <1>5 DEF TreesOK
<1>7. Empty(tables, pgd, os_pgd) /\ \A p \in Procs : Empty(tables, pgd, krnl_pgd[p])
  BY <1>1, <1>2, <1>3, <1>5 DEF Empty
<1>8. Complete(tables, pgd, krnl_pgd, os_pgd)
  BY <1>1, <1>3 DEF Complete
<1>9. HeapOK(tables, pgd, krnl_pgd, os_pgd)
  BY <1>2, <1>3, <1>4, <1>6, <1>7, <1>8 DEF HeapOK
<1>10. entry \in [Procs -> [Pages -> Nat]] /\ \A p \in Procs, q \in Pages : entry[p][q] = 0
  BY DEF PageTableInit, Unmapped
<1>11. \A p \in Procs, q \in Pages : Found(tables, pgd[p], q) = 0
  BY <1>2, NoDirectory
<1> QED
  BY <1>2, <1>9, <1>10, <1>11 DEF TablesInv

(* ld_routine *)
LEMMA LoadTables ==
    ASSUME TablesInv, NEW p \in Procs, Load(p) PROVE TablesInv'
<1> USE PageTableAssumption
<1> DEFINE k == Calloc(tables, 1)
           r == Calloc(tables, 2)
<1>1. HeapOK(tables, pgd, krnl_pgd, os_pgd) /\ WordsOK(tables)
  BY DEF TablesInv, HeapOK
<1>2. pgd \in [Procs -> Nat] /\ krnl_pgd \in [Procs -> Nat] /\ pgd[p] = 0 /\ krnl_pgd[p] = 0
  BY DEF TablesInv, HeapOK, Load
<1>3. /\ k \in Nat \ {0} /\ r \in Nat \ {0} /\ k # r
      /\ k \notin DOMAIN tables /\ r \notin DOMAIN tables
  <2>1. IsFiniteSet(DOMAIN tables)
    BY <1>1 DEF WordsOK
  <2> QED
    BY <2>1, CallocIs
<1>4. krnl_pgd' = [krnl_pgd EXCEPT ![p] = k] /\ pgd' = [pgd EXCEPT ![p] = r] /\ os_pgd' = os_pgd
      /\ entry' = entry
  BY DEF Load
<1>5. tables' = [t \in DOMAIN tables \cup {k, r} |->
                   IF t \in DOMAIN tables THEN tables[t] ELSE Zeroed]
  BY <1>2 DEF Load
<1> HIDE DEF k, r
<1>6. Loaded(tables, tables', k, r)

  <2>1. DOMAIN tables' = DOMAIN tables \cup {k, r} /\ IsFunction(tables')
    BY <1>5 DEF IsFunction
  <2>2. tables'[k] = Zeroed /\ tables'[r] = Zeroed /\ \A t \in DOMAIN tables : tables'[t] = tables[t]
    BY <1>3, <1>5
  <2> QED
    BY <1>3, <2>1, <2>2 DEF Loaded
<1>7. /\ HeapOK(tables', pgd', krnl_pgd', os_pgd)
      /\ \A s \in Procs, q \in Pages : Found(tables', pgd'[s], q) = Found(tables, pgd[s], q)
  <2>1. HeapOK(tables, pgd, krnl_pgd, os_pgd) /\ pgd[p] = 0 /\ krnl_pgd[p] = 0
    BY <1>1, <1>2
  <2>2. Puts(krnl_pgd, krnl_pgd', p, k) /\ Puts(pgd, pgd', p, r)
    BY <1>4, Zenon DEF Puts
  <2>3. HeapOK(tables', pgd', krnl_pgd', os_pgd) /\ FindsAll(tables, pgd, tables', pgd')
    BY <1>6, <2>1, <2>2, HeapLoaded
  <2> QED
    BY <2>3 DEF FindsAll
<1>9. \A s \in Procs : (krnl_pgd'[s] = 0) <=> (pgd'[s] = 0)
  BY <1>2, <1>3, <1>4 DEF TablesInv
<1> QED
  BY <1>4, <1>7, <1>9 DEF TablesInv

(* pte_set_fpn, pte_set_swap *)
LEMMA SetTables ==
    ASSUME TablesInv, NEW p \in Procs, NEW pgn \in SetPages, NEW value \in Entries,
           Set(p, pgn, value)
    PROVE  TablesInv'
<1> USE PageTableAssumption
<1>1. /\ HeapOK(tables, pgd, krnl_pgd, os_pgd) /\ WordsOK(tables) /\ TreesOK(tables, pgd)
      /\ entry \in [Procs -> [Pages -> Nat]]
  BY DEF TablesInv, HeapOK
<1>2. pgn \in Pages /\ value \in Nat /\ pgd[p] # 0
  BY DEF Set
<1>3. /\ pgd' = pgd /\ krnl_pgd' = krnl_pgd /\ os_pgd' = os_pgd
      /\ entry' = [entry EXCEPT ![p][pgn] = value]
  BY DEF Set
<1>4. tables' = After(tables, pgd, p, pgn, value)
  BY DEF Set, After
<1>5. HeapOK(tables', pgd', krnl_pgd', os_pgd')
  BY <1>1, <1>2, <1>3, <1>4, HeapAfter
<1>6. /\ entry' \in [Procs -> [Pages -> Nat]]
      /\ \A s \in Procs, q \in Pages : entry'[s][q] = IF s = p /\ q = pgn THEN value ELSE entry[s][q]
  BY <1>1, <1>2, <1>3
<1>7. ASSUME NEW s \in Procs, NEW q \in Pages PROVE entry'[s][q] = Found(tables', pgd'[s], q)
  <2>1. Found(After(tables, pgd, p, pgn, value), pgd[s], q)
        = IF s = p /\ q = pgn THEN value ELSE Found(tables, pgd[s], q)
    BY <1>1, <1>2, FoundAfter
  <2>2. entry[s][q] = Found(tables, pgd[s], q)
    BY DEF TablesInv
  <2> QED
    BY <1>3, <1>4, <1>6, <2>1, <2>2
<1>8. \A s \in Procs : (krnl_pgd[s] = 0) <=> (pgd[s] = 0)
  BY DEF TablesInv
<1> QED
  BY <1>3, <1>5, <1>6, <1>7, <1>8 DEF TablesInv

(* A fold over two numbers *)
LEMMA FillIs ==
    ASSUME NEW p, NEW first
    PROVE  FoldLeft(LAMBDA heap, k : WithEntry(heap, pgd[p], first + k - 1, Pattern),
                    tables, [k \in 1..2 |-> k])
           = WithEntry(WithEntry(tables, pgd[p], first + 1 - 1, Pattern),
                       pgd[p], first + 2 - 1, Pattern)
<1> DEFINE E(heap, k) == WithEntry(heap, pgd[p], first + k - 1, Pattern)
           sq == [k \in 1..2 |-> k]
           Is(g) == g = [s \in SUBSET DOMAIN sq |->
                           IF s = {} THEN tables ELSE E(g[s \ {Max(s)}], sq[Max(s)])]
           g == [s \in SUBSET DOMAIN sq |->
                   IF s = {} THEN tables
                   ELSE IF 2 \in s THEN E(IF 1 \in s THEN E(tables, 1) ELSE tables, 2)
                   ELSE E(tables, 1)]
           iter == CHOOSE f : Is(f)
<1>1. DOMAIN sq = 1..2 /\ sq[1] = 1 /\ sq[2] = 2
  OBVIOUS
<1>2. ASSUME NEW s \in SUBSET (1..2)
      PROVE  g[s] = IF s = {} THEN tables ELSE E(g[s \ {Max(s)}], sq[Max(s)])
  <2>0. 1 \in Nat /\ 2 \in Nat /\ 1..2 = {1, 2} /\ 1..1 = {1}
    OBVIOUS
  <2>1. CASE 2 \in s
    <3>1. Max(s) = 2
      <4>1. s \in SUBSET (1..2)
        OBVIOUS
      <4> QED
        BY ONLY <2>0, <2>1, <4>1, MaxIs
    <3>2. s \ {2} = IF 1 \in s THEN {1} ELSE {}
      <4>1. s \subseteq {1, 2}
        BY <2>0
      <4>2. ASSUME NEW k \in s, k # 2 PROVE k = 1
        BY <4>1, <4>2
      <4> HIDE DEF sq, E
      <4>3. CASE 1 \in s
        <5>1. 1 \in s \ {2}
          BY <4>3
        <5> QED
          BY ONLY <4>2, <4>3, <5>1, Zenon
      <4>4. CASE 1 \notin s
        BY ONLY <4>2, <4>4, Zenon
      <4> QED
        BY <4>3, <4>4
    <3>3. s \ {2} \in SUBSET DOMAIN sq
      BY <1>1
    <3>4. g[s \ {2}] = IF 1 \in s THEN E(tables, 1) ELSE tables
      <4> HIDE DEF sq, E
      <4> QED
        BY <3>2, <3>3
    <3> HIDE DEF sq, E
    <3> QED
      BY <1>1, <2>1, <3>1, <3>4
  <2>2. CASE s = {1}
    <3>1. Max(s) = 1
      BY <2>0, <2>2, MaxIs
    <3>2. s \ {1} = {} /\ {} \in SUBSET DOMAIN sq /\ {1} \in SUBSET DOMAIN sq
      BY <1>1, <2>2
    <3> HIDE DEF sq, E
    <3> QED
      BY <1>1, <2>2, <3>1, <3>2
  <2>3. CASE s = {}
    <3> HIDE DEF sq, E
    <3> QED
      BY <2>3, <1>1
  <2> QED
    BY <2>0, <2>1, <2>2, <2>3
<1>3. Is(g)
  <2>1. \A s \in SUBSET DOMAIN sq :
          g[s] = IF s = {} THEN tables ELSE E(g[s \ {Max(s)}], sq[Max(s)])
    BY <1>1, <1>2
  <2>2. g = [s \in SUBSET DOMAIN sq |-> g[s]]
    OBVIOUS
  <2> HIDE DEF g, sq, E
  <2> QED
    BY <2>1, <2>2
<1> HIDE DEF g
<1>4. Is(iter)
  BY <1>3, Zenon
<1>5. FoldLeft(LAMBDA heap, k : WithEntry(heap, pgd[p], first + k - 1, Pattern), tables, sq)
      = iter[DOMAIN sq]
  BY Zenon DEF FoldLeft, MapThenFoldSet
<1> HIDE DEF iter
<1>6. iter[1..2] = E(E(tables, 1), 2)
  <2>0. 1..2 = {1, 2} /\ 1..1 = {1} /\ 1 \in Nat /\ 2 \in Nat
    OBVIOUS
  <2>1. \A s \in SUBSET (1..2) :
          iter[s] = IF s = {} THEN tables ELSE E(iter[s \ {Max(s)}], sq[Max(s)])
    <3> HIDE DEF E, sq
    <3>1. \A s \in SUBSET DOMAIN sq :
            iter[s] = IF s = {} THEN tables ELSE E(iter[s \ {Max(s)}], sq[Max(s)])
      BY <1>4
    <3> SUFFICES ASSUME NEW s \in SUBSET (1..2)
                 PROVE  iter[s] = IF s = {} THEN tables ELSE E(iter[s \ {Max(s)}], sq[Max(s)])
      OBVIOUS
    <3>2. s \in SUBSET DOMAIN sq
      BY <1>1
    <3> QED
      BY ONLY <3>1, <3>2
  <2>2. Max(1..2) = 2 /\ Max(1..1) = 1
    <3>1. 1 \in Nat \ {0} /\ 2 \in Nat \ {0}
      OBVIOUS
    <3> QED
      BY ONLY <3>1, MaxInterval, Zenon
  <2> HIDE DEF E, Is, sq
  <2>3. iter[{}] = tables
    BY <2>1
  <2>4. iter[1..1] = E(tables, 1)
    <3>1. (1..1) \ {1} = {} /\ 1..1 # {} /\ 1..1 \in SUBSET (1..2)
      BY <2>0
    <3> QED
      BY <1>1, <2>1, <2>2, <2>3, <3>1
  <2>5. (1..2) \ {2} = 1..1 /\ 1..2 # {}
    BY <2>0
  <2> QED
    BY <1>1, <2>1, <2>2, <2>4, <2>5
<1> QED
  BY <1>1, <1>5, <1>6

(* vmap_pgd_memset *)
LEMMA FillTables ==
    ASSUME TablesInv, NEW p \in Procs, NEW first \in SetPages, first + 1 \in Pages,
           Fill(p, first, 2)
    PROVE  TablesInv'
<1> USE PageTableAssumption
<1> DEFINE one == After(tables, pgd, p, first, Pattern)
           two == After(one, pgd, p, first + 1, Pattern)
<1>1. /\ HeapOK(tables, pgd, krnl_pgd, os_pgd) /\ WordsOK(tables) /\ TreesOK(tables, pgd)
      /\ entry \in [Procs -> [Pages -> Nat]]
  BY DEF TablesInv, HeapOK
<1>2. first \in Pages /\ first \in Nat /\ Pattern \in Nat /\ pgd[p] # 0
  BY PagesAreNumbers DEF Fill
<1>3. /\ pgd' = pgd /\ krnl_pgd' = krnl_pgd /\ os_pgd' = os_pgd
      /\ entry' = [entry EXCEPT ![p] = [q \in Pages |->
            IF q \in first..(first + 2 - 1) THEN Pattern ELSE @[q]]]
  BY DEF Fill
<1>4. tables' = two
  <2>1. first + 1 - 1 = first /\ first + 2 - 1 = first + 1
    BY <1>2
  <2> QED
    BY <2>1, FillIs DEF Fill, After
<1>5. HeapOK(one, pgd, krnl_pgd, os_pgd)
  BY <1>1, <1>2, HeapAfter
<1>6. WordsOK(one) /\ TreesOK(one, pgd)
  BY <1>5 DEF HeapOK
<1> HIDE DEF one
<1>7. HeapOK(two, pgd, krnl_pgd, os_pgd)
  BY <1>2, <1>5, HeapAfter
<1>8. ASSUME NEW s \in Procs, NEW q \in Pages
      PROVE  Found(two, pgd[s], q) = IF s = p /\ q \in {first, first + 1} THEN Pattern
                                     ELSE entry[s][q]
  <2>1. Found(one, pgd[s], q) = IF s = p /\ q = first THEN Pattern ELSE Found(tables, pgd[s], q)
    BY <1>1, <1>2, FoundAfter DEF one
  <2>2. Found(two, pgd[s], q) = IF s = p /\ q = first + 1 THEN Pattern ELSE Found(one, pgd[s], q)
    BY <1>2, <1>6, FoundAfter
  <2>3. entry[s][q] = Found(tables, pgd[s], q)
    BY DEF TablesInv
  <2> QED
    BY <2>1, <2>2, <2>3
<1> HIDE DEF two
<1>9. /\ entry' \in [Procs -> [Pages -> Nat]]
      /\ \A s \in Procs, q \in Pages :
           entry'[s][q] = IF s = p /\ q \in {first, first + 1} THEN Pattern ELSE entry[s][q]
  <2>1. \A q \in Pages : q \in Nat /\ (q \in first..(first + 2 - 1) <=> q \in {first, first + 1})
    BY <1>2, PagesAreNumbers
  <2> QED
    BY <1>1, <1>2, <1>3, <2>1
<1>10. \A s \in Procs : (krnl_pgd[s] = 0) <=> (pgd[s] = 0)
  BY DEF TablesInv
<1> QED
  BY <1>3, <1>4, <1>7, <1>8, <1>9, <1>10 DEF TablesInv

LEMMA OwnIs ==
    ASSUME NEW heap, NEW root
    PROVE  \A x : x \in Own(heap, root)
                  <=> x # 0 /\ \E q \in Pages, l \in Levels : x = Walk(heap, root, q)[l]
  BY DEF Own

(* What the exit of a loaded process frees *)
LEMMA ExitFreesIs ==
    ASSUME TablesInv, NEW p \in Procs, pgd[p] # 0
    PROVE  /\ ExitFrees(p) \in Seq(Nat) /\ IsInjective(ExitFrees(p))
           /\ ToSet(ExitFrees(p)) = Own(tables, pgd[p]) \cup {krnl_pgd[p]}
<1> DEFINE root == pgd[p]
<1>1. /\ HeapOK(tables, pgd, krnl_pgd, os_pgd) /\ WordsOK(tables) /\ TreesOK(tables, pgd)
      /\ Empty(tables, pgd, krnl_pgd[p]) /\ krnl_pgd[p] \in Nat \ {0}
  BY DEF TablesInv, HeapOK
<1>2. OneTree(root)
  <2>1. /\ \A q \in Pages, l \in Levels :
             T(tables, pgd, p, q, l) # 0 => T(tables, pgd, p, q, l) \in DOMAIN tables
        /\ \A q \in Pages, l \in Levels : \A r \in Pages, k \in Levels :
             T(tables, pgd, p, q, l) # 0 /\ T(tables, pgd, p, q, l) = T(tables, pgd, p, r, k)
             => l = k /\ Same(l, q, r)
    BY <1>1 DEF TreesOK
  <2> QED
    BY <2>1 DEF OneTree, T
<1>3. /\ Freed(root) \in Seq(Nat) /\ IsInjective(Freed(root))
      /\ ToSet(Freed(root)) = Own(tables, root)
  BY <1>1, <1>2, FreedIs
<1>4. krnl_pgd[p] \notin Own(tables, root)
  BY <1>1, OwnIs DEF Empty, T
<1>5. ExitFrees(p) = Append(Freed(root), krnl_pgd[p])
  BY DEF ExitFrees
<1> HIDE DEF root
<1>6. /\ ExitFrees(p) \in Seq(Nat) /\ IsInjective(ExitFrees(p))
      /\ ToSet(ExitFrees(p)) = ToSet(Freed(root)) \cup {krnl_pgd[p]}
  BY <1>1, <1>3, <1>4, <1>5, AppendIs
<1> QED
  BY <1>3, <1>6 DEF root

(* What main frees: its directory is empty *)
LEMMA ShutdownFreesIs ==
    ASSUME TablesInv, os_pgd # 0
    PROVE  /\ Freed(os_pgd) \in Seq(Nat) /\ IsInjective(Freed(os_pgd))
           /\ ToSet(Freed(os_pgd)) = {os_pgd} /\ Own(tables, os_pgd) = {os_pgd}
<1> USE PageTableAssumption
<1>1. /\ WordsOK(tables) /\ os_pgd \in DOMAIN tables /\ tables[os_pgd] = Zeroed
  BY DEF TablesInv, HeapOK, Empty
<1>2. \A q \in Pages, l \in Levels :
         Walk(tables, os_pgd, q)[l] = IF l = LEVELS THEN os_pgd ELSE 0
  <2> SUFFICES ASSUME NEW q \in Pages, NEW l \in Levels
               PROVE  Walk(tables, os_pgd, q)[l] = IF l = LEVELS THEN os_pgd ELSE 0
    OBVIOUS
  <2> QED
    BY <1>1, EmptyDirectory
<1>3. \A q, r \in Pages : Same(LEVELS, q, r)
  BY HighEnds, PagesAreNumbers DEF Same
<1>4. OneTree(os_pgd)
  BY <1>1, <1>2, <1>3 DEF OneTree
<1>5. 0 \in Pages /\ LEVELS \in Levels
  <2>1. Weight[LEVELS] \in Nat \ {0}
    BY WeightIs
  <2> QED
    BY <2>1 DEF Pages, Levels
<1>6. Own(tables, os_pgd) = {os_pgd}
  <2>1. \A x : x \in Own(tables, os_pgd) <=> x = os_pgd
    BY <1>2, <1>5, OwnIs
  <2> QED
    BY <2>1
<1> QED
  BY <1>1, <1>4, <1>6, FreedIs

(* A table is in the tree of one process *)
LEMMA OneOwner ==
    ASSUME NEW heap, NEW roots, TreesOK(heap, roots),
           NEW p \in Procs, NEW q \in Pages, NEW l \in Levels,
           NEW s \in Procs, NEW r \in Pages, NEW k \in Levels,
           T(heap, roots, p, q, l) # 0, T(heap, roots, p, q, l) = T(heap, roots, s, r, k)
    PROVE  p = s
  BY DEF TreesOK

(* free_krnl_struct *)
LEMMA ExitTables ==
    ASSUME TablesInv, NEW p \in Procs, Exit(p) PROVE TablesInv'
<1> DEFINE D == ToSet(ExitFrees(p))
<1>1. /\ HeapOK(tables, pgd, krnl_pgd, os_pgd) /\ TreesOK(tables, pgd)
      /\ pgd \in [Procs -> Nat] /\ krnl_pgd \in [Procs -> Nat]
      /\ entry \in [Procs -> [Pages -> Nat]]
      /\ Empty(tables, pgd, os_pgd)
      /\ \A s \in Procs : /\ Empty(tables, pgd, krnl_pgd[s])
                          /\ (krnl_pgd[s] # 0 => krnl_pgd[s] # os_pgd)
      /\ \A t, s \in Procs : krnl_pgd[t] # 0 /\ krnl_pgd[t] = krnl_pgd[s] => t = s
      /\ \A s \in Procs : (krnl_pgd[s] = 0) <=> (pgd[s] = 0)
  BY DEF TablesInv, HeapOK
<1>2. /\ pgd' = [pgd EXCEPT ![p] = 0] /\ krnl_pgd' = [krnl_pgd EXCEPT ![p] = 0]
      /\ os_pgd' = os_pgd /\ entry' = [entry EXCEPT ![p] = Unmapped] /\ pgd[p] # 0
      /\ tables' = Without(tables, D)
  BY DEF Exit, Without
<1>3. D = Own(tables, pgd[p]) \cup {krnl_pgd[p]} /\ krnl_pgd[p] # 0
  BY <1>1, <1>2, ExitFreesIs
<1> HIDE DEF D
<1>4. \A x : x \in D <=> \/ x = krnl_pgd[p]
                         \/ x # 0 /\ \E q \in Pages, l \in Levels : x = T(tables, pgd, p, q, l)
  BY <1>3, OwnIs DEF T
<1>5. os_pgd \notin D
  BY <1>1, <1>3, <1>4 DEF Empty
<1>6. ASSUME NEW s \in Procs PROVE krnl_pgd'[s] = IF krnl_pgd[s] \in D THEN 0 ELSE krnl_pgd[s]
  <2>1. CASE s = p
    BY <1>1, <1>2, <1>4, <2>1
  <2>2. CASE s # p
    <3>1. krnl_pgd[s] \notin D
      BY <1>1, <1>3, <1>4, <2>2 DEF Empty
    <3> QED
      BY <1>1, <1>2, <2>2, <3>1
  <2> QED
    BY <2>1, <2>2
<1>7. ASSUME NEW s \in Procs
      PROVE  \/ pgd'[s] = 0 /\ Own(tables, pgd[s]) \subseteq D
             \/ pgd'[s] = pgd[s] /\ Own(tables, pgd[s]) \cap D = {}
  <2>1. CASE s = p
    BY <1>1, <1>2, <1>3, <2>1
  <2>2. CASE s # p
    <3>1. ASSUME NEW x \in Own(tables, pgd[s]), x \in D PROVE FALSE
      <4>1. PICK q \in Pages, l \in Levels : x = T(tables, pgd, s, q, l) /\ x # 0
        BY OwnIs, <3>1 DEF T
      <4>2. CASE x = krnl_pgd[p]
        BY <1>1, <4>1, <4>2, ZenonT(30) DEF Empty
      <4>3. CASE \E r \in Pages, k \in Levels : x = T(tables, pgd, p, r, k)
        <5>1. PICK r \in Pages, k \in Levels : x = T(tables, pgd, p, r, k)
          BY <4>3
        <5>2. T(tables, pgd, s, q, l) # 0 /\ T(tables, pgd, s, q, l) = T(tables, pgd, p, r, k)
          BY <4>1, <5>1
        <5>3. s = p
          BY <1>1, <5>2, OneOwner
        <5> QED
          BY <2>2, <5>3
      <4> QED
        BY <1>4, <3>1, <4>2, <4>3
    <3> QED
      BY <1>1, <1>2, <2>2, <3>1
  <2> QED
    BY <2>1, <2>2
<1>8. pgd' \in [Procs -> Nat] /\ krnl_pgd' \in [Procs -> Nat]
  BY <1>1, <1>2
<1>9. Released(tables, pgd, krnl_pgd, os_pgd, D, pgd', krnl_pgd', os_pgd)
  BY <1>5, <1>6, <1>7, <1>8 DEF Released
<1>10. /\ HeapOK(Without(tables, D), pgd', krnl_pgd', os_pgd)
       /\ FindsRest(tables, pgd, Without(tables, D), pgd')
  BY <1>1, <1>9, HeapReleased
<1>11. ASSUME NEW s \in Procs, NEW q \in Pages PROVE entry'[s][q] = Found(tables', pgd'[s], q)
  <2>1. Found(tables', pgd'[s], q) = IF pgd'[s] = 0 THEN 0 ELSE Found(tables, pgd[s], q)
    BY <1>2, <1>10 DEF FindsRest
  <2>2. entry[s][q] = Found(tables, pgd[s], q)
    BY DEF TablesInv
  <2>3. CASE s = p
    <3>1. entry'[p][q] = 0 /\ pgd'[p] = 0
      BY <1>1, <1>2 DEF Unmapped
    <3> QED
      BY <2>1, <2>3, <3>1
  <2>4. CASE s # p
    <3>1. entry'[s] = entry[s] /\ pgd'[s] = pgd[s]
      BY <1>1, <1>2, <2>4
    <3>2. Found(tables, 0, q) = 0
      BY NoDirectory
    <3> QED
      BY <2>1, <2>2, <3>1, <3>2
  <2> QED
    BY <2>3, <2>4
<1>12. entry' \in [Procs -> [Pages -> Nat]]
  BY <1>1, <1>2 DEF Unmapped
<1>13. \A s \in Procs : (krnl_pgd'[s] = 0) <=> (pgd'[s] = 0)
  BY <1>1, <1>2
<1> QED
  BY <1>2, <1>10, <1>11, <1>12, <1>13 DEF TablesInv

(* The end of main *)
LEMMA ShutdownTables == ASSUME TablesInv, Shutdown PROVE TablesInv'
<1> DEFINE D == ToSet(Freed(os_pgd))
<1>1. /\ HeapOK(tables, pgd, krnl_pgd, os_pgd)
      /\ pgd \in [Procs -> Nat] /\ krnl_pgd \in [Procs -> Nat]
      /\ Empty(tables, pgd, os_pgd)
      /\ \A s \in Procs : krnl_pgd[s] # 0 => krnl_pgd[s] # os_pgd
      /\ \A s \in Procs, q \in Pages : entry[s][q] = Found(tables, pgd[s], q)
  BY DEF TablesInv, HeapOK
<1>2. /\ pgd' = pgd /\ krnl_pgd' = krnl_pgd /\ entry' = entry
      /\ os_pgd' = 0 /\ os_pgd # 0 /\ tables' = Without(tables, D)
  BY DEF Shutdown, Without
<1>3. D = {os_pgd}
  BY <1>2, ShutdownFreesIs
<1> HIDE DEF D
<1>4. \A s \in Procs : krnl_pgd'[s] = IF krnl_pgd[s] \in D THEN 0 ELSE krnl_pgd[s]
  BY <1>1, <1>2, <1>3
<1>5. ASSUME NEW s \in Procs
      PROVE  pgd'[s] = pgd[s] /\ Own(tables, pgd[s]) \cap D = {}
  <2>1. ASSUME NEW x \in Own(tables, pgd[s]) PROVE x # os_pgd
    <3>1. PICK q \in Pages, l \in Levels : x = T(tables, pgd, s, q, l)
      BY OwnIs, <2>1 DEF T
    <3> QED
      BY <1>1, <1>2, <3>1 DEF Empty
  <2> QED
    BY <1>2, <1>3, <2>1
<1>6. os_pgd' = IF os_pgd \in D THEN 0 ELSE os_pgd
  BY <1>2, <1>3
<1>7. Released(tables, pgd, krnl_pgd, os_pgd, D, pgd', krnl_pgd', os_pgd')
  BY <1>1, <1>2, <1>4, <1>5, <1>6 DEF Released
<1>8. /\ HeapOK(Without(tables, D), pgd', krnl_pgd', os_pgd')
      /\ FindsRest(tables, pgd, Without(tables, D), pgd')
  BY <1>1, <1>7, HeapReleased
<1>9. ASSUME NEW s \in Procs, NEW q \in Pages PROVE entry'[s][q] = Found(tables', pgd'[s], q)
  <2>1. Found(tables', pgd'[s], q) = IF pgd[s] = 0 THEN 0 ELSE Found(tables, pgd[s], q)
    BY <1>2, <1>8 DEF FindsRest
  <2>2. Found(tables, 0, q) = 0
    BY NoDirectory
  <2> QED
    BY <1>1, <1>2, <2>1, <2>2
<1>10. entry' \in [Procs -> [Pages -> Nat]] /\ \A s \in Procs : (krnl_pgd'[s] = 0) <=> (pgd'[s] = 0)
  BY <1>2 DEF TablesInv
<1> QED
  BY <1>2, <1>8, <1>9, <1>10 DEF TablesInv

(* TablesInv is inductive *)
LEMMA TablesKept == Spec => []TablesInv
<1>1. ASSUME TablesInv, [Next]_vars PROVE TablesInv'
  <2>1. ASSUME NEW p \in Procs, Load(p) PROVE TablesInv'
    BY <1>1, <2>1, LoadTables
  <2>2. ASSUME NEW p \in Procs, Exit(p) PROVE TablesInv'
    BY <1>1, <2>2, ExitTables
  <2>3. ASSUME NEW p \in Procs, NEW pgn \in SetPages, NEW value \in Entries, Set(p, pgn, value)
        PROVE  TablesInv'
    BY <1>1, <2>3, SetTables
  <2>4. ASSUME NEW p \in Procs, NEW first \in SetPages, first + 1 \in Pages, Fill(p, first, 2)
        PROVE  TablesInv'
    BY <1>1, <2>4, FillTables
  <2>5. CASE Shutdown
    BY <1>1, <2>5, ShutdownTables
  <2>6. CASE UNCHANGED vars
    <3>1. /\ tables' = tables /\ pgd' = pgd /\ krnl_pgd' = krnl_pgd
          /\ os_pgd' = os_pgd /\ entry' = entry
      BY <2>6 DEF vars
    <3> QED
      BY <1>1, <3>1 DEF TablesInv
  <2> QED
    BY <1>1, <2>1, <2>2, <2>3, <2>4, <2>5, <2>6 DEF Next
<1> QED
  BY InitTables, <1>1, PTL DEF Spec

(* What pte_get_entry finds in the tree of a process is the entry that
   pte_set_fpn, pte_set_swap or vmap_pgd_memset set last for the page; its exit
   and its load leave the other trees alone. *)
THEOREM TreesAreMaps == Spec => []BehavesAsMap
<1>1. TablesInv => BehavesAsMap
  <2> SUFFICES ASSUME TablesInv, NEW p \in Procs, NEW pgn \in Pages
               PROVE  entry[p][pgn] = IF pgd[p] = 0 THEN 0 ELSE Lookup(pgd[p], pgn)
    BY DEF BehavesAsMap
  <2>1. entry[p][pgn] = Found(tables, pgd[p], pgn)
    BY DEF TablesInv
  <2>2. Lookup(pgd[p], pgn) = Found(tables, pgd[p], pgn)
    BY DEF Lookup, Found, WordOf
  <2>3. Found(tables, 0, pgn) = 0
    BY NoDirectory
  <2> QED
    BY <2>1, <2>2, <2>3
<1> QED
  BY <1>1, TablesKept, PTL

(* No table is freed by the exits of two processes *)
LEMMA FreedApart ==
    ASSUME TablesInv,
           NEW p \in Procs, pgd[p] # 0, NEW s \in Procs, pgd[s] # 0, p # s
    PROVE  ToSet(ExitFrees(p)) \cap ToSet(ExitFrees(s)) = {}
<1>1. /\ TreesOK(tables, pgd) /\ \A t \in Procs : Empty(tables, pgd, krnl_pgd[t])
      /\ \A t, u \in Procs : krnl_pgd[t] # 0 /\ krnl_pgd[t] = krnl_pgd[u] => t = u
      /\ krnl_pgd[p] # 0 /\ krnl_pgd[s] # 0
  BY DEF TablesInv, HeapOK
<1>2. /\ ToSet(ExitFrees(p)) = Own(tables, pgd[p]) \cup {krnl_pgd[p]}
      /\ ToSet(ExitFrees(s)) = Own(tables, pgd[s]) \cup {krnl_pgd[s]}
  BY ExitFreesIs
<1>3. ASSUME NEW x \in Own(tables, pgd[p]) PROVE x \notin ToSet(ExitFrees(s))
  <2>1. PICK q \in Pages, l \in Levels : x = T(tables, pgd, p, q, l) /\ x # 0
    BY OwnIs, <1>3 DEF T
  <2>2. x # krnl_pgd[s]
    BY <1>1, <2>1 DEF Empty
  <2>3. ASSUME x \in Own(tables, pgd[s]) PROVE FALSE
    <3>1. PICK r \in Pages, k \in Levels : x = T(tables, pgd, s, r, k)
      BY OwnIs, <2>3 DEF T
    <3>2. T(tables, pgd, p, q, l) # 0 /\ T(tables, pgd, p, q, l) = T(tables, pgd, s, r, k)
      BY <2>1, <3>1
    <3> QED
      BY <1>1, <3>2, OneOwner
  <2> QED
    BY <1>2, <2>2, <2>3
<1>4. krnl_pgd[p] \notin ToSet(ExitFrees(s))
  <2>1. krnl_pgd[p] \notin Own(tables, pgd[s])
    BY <1>1, OwnIs DEF Empty, T
  <2> QED
    BY <1>1, <1>2, <2>1
<1> QED
  BY <1>1, <1>2, <1>3, <1>4

(* The directory of main is freed by no exit *)
LEMMA OsApart ==
    ASSUME TablesInv, NEW p \in Procs, pgd[p] # 0, os_pgd # 0
    PROVE  os_pgd \notin ToSet(ExitFrees(p))
<1>1. /\ Empty(tables, pgd, os_pgd) /\ (krnl_pgd[p] # 0 => krnl_pgd[p] # os_pgd)
      /\ krnl_pgd[p] # 0
  BY DEF TablesInv, HeapOK
<1>2. ToSet(ExitFrees(p)) = Own(tables, pgd[p]) \cup {krnl_pgd[p]}
  BY ExitFreesIs
<1> QED
  BY <1>1, <1>2, OwnIs DEF Empty, T

(* The tables on the heap are those that an exit frees, and that of main *)
LEMMA AllFreed ==
    ASSUME TablesInv, NEW t
    PROVE  t \in DOMAIN tables
           <=> \/ os_pgd # 0 /\ t = os_pgd
               \/ \E p \in Procs : pgd[p] # 0 /\ t \in ToSet(ExitFrees(p))
<1>1. /\ WordsOK(tables) /\ TreesOK(tables, pgd) /\ Empty(tables, pgd, os_pgd)
      /\ Complete(tables, pgd, krnl_pgd, os_pgd)
      /\ \A p \in Procs : Empty(tables, pgd, krnl_pgd[p])
      /\ \A p \in Procs : (krnl_pgd[p] = 0) <=> (pgd[p] = 0)
  BY DEF TablesInv, HeapOK
<1>2. ASSUME NEW p \in Procs, pgd[p] # 0
      PROVE  ToSet(ExitFrees(p)) = Own(tables, pgd[p]) \cup {krnl_pgd[p]}
  BY <1>2, ExitFreesIs
<1>3. ASSUME t \in DOMAIN tables, t # os_pgd
      PROVE  \E p \in Procs : pgd[p] # 0 /\ t \in ToSet(ExitFrees(p))
  <2>0. t # 0
    BY <1>1, <1>3 DEF WordsOK
  <2>1. CASE \E p \in Procs : t = krnl_pgd[p]
    BY <1>1, <1>2, <2>0, <2>1
  <2>2. CASE \E p \in Procs, q \in Pages, l \in Levels : t = T(tables, pgd, p, q, l)
    <3>1. PICK p \in Procs, q \in Pages, l \in Levels : t = T(tables, pgd, p, q, l)
      BY <2>2
    <3>2. t \in Own(tables, pgd[p])
      BY <2>0, <3>1, OwnIs DEF T
    <3>3. pgd[p] # 0
      BY <2>0, <3>1, NoDirectory DEF T
    <3> QED
      BY <1>2, <3>2, <3>3
  <2> QED
    BY <1>1, <1>3, <2>1, <2>2 DEF Complete
<1>4. ASSUME NEW p \in Procs, pgd[p] # 0, t \in ToSet(ExitFrees(p)) PROVE t \in DOMAIN tables
  <2>1. CASE t = krnl_pgd[p]
    BY <1>1, <1>4, <2>1 DEF Empty
  <2>2. CASE t \in Own(tables, pgd[p])
    <3>1. PICK q \in Pages, l \in Levels : t = T(tables, pgd, p, q, l) /\ t # 0
      BY OwnIs, <2>2 DEF T
    <3> QED
      BY <1>1, <3>1 DEF TreesOK
  <2> QED
    BY <1>2, <1>4, <2>1, <2>2
<1>5. os_pgd # 0 => os_pgd \in DOMAIN tables
  BY <1>1 DEF Empty
<1>6. t \in DOMAIN tables => t # 0
  BY <1>1 DEF WordsOK
<1> QED
  BY <1>3, <1>4, <1>5, <1>6

(* What free_krnl_struct is going to free for the loaded processes, and main in
   the end, is every table that the heap has, and each table once: none is
   freed twice by free_pgtable_recursive or free_krnl_struct, none is lost. *)
THEOREM TablesAreFreedOnce == Spec => []TablesOwnedOnce
<1> USE PageTableAssumption
<1>1. TablesInv => TablesOwnedOnce
  <2> SUFFICES ASSUME TablesInv PROVE TablesOwnedOnce
    OBVIOUS
  <2> DEFINE S == {p \in Procs : pgd[p] # 0}
             loaded == SetToSeq(S)
             ss == [k \in DOMAIN loaded |-> ExitFrees(loaded[k])]
             flat == FlattenSeq(ss)
             last == IF os_pgd = 0 THEN <<>> ELSE Freed(os_pgd)
             freed == flat \o last
  <2>1. IsFiniteSet(S)
    <3>1. S \subseteq Procs /\ IsFiniteSet(Procs)
      OBVIOUS
    <3> QED
      BY <3>1, FS_Subset
  <2>2. loaded \in Seq(S) /\ IsInjective(loaded) /\ ToSet(loaded) = S
    <3> HIDE DEF S
    <3> QED
      BY <2>1, SetToSeqIs
  <2> HIDE DEF loaded
  <2> DEFINE n == Len(loaded)
  <2>3. n \in Nat /\ DOMAIN loaded = 1..n /\ \A k \in 1..n : loaded[k] \in S
    BY <2>2, LenProperties, ElementOfSeq
  <2>4. ASSUME NEW k \in 1..n
        PROVE  /\ loaded[k] \in Procs /\ pgd[loaded[k]] # 0 /\ ss[k] = ExitFrees(loaded[k])
               /\ ss[k] \in Seq(Nat) /\ IsInjective(ss[k])
    BY <2>3, ExitFreesIs
  <2>5. ss = [k \in 1..n |-> ss[k]]
    BY <2>3
  <2> HIDE DEF n, ss
  <2>6. ss \in Seq(Seq(Nat)) /\ Len(ss) = n
    <3>1. ss \in [1..n -> Seq(Nat)]
      BY <2>4, <2>5
    <3> QED
      BY <2>3, <3>1
  <2>7. ASSUME NEW i \in 1..n, NEW j \in 1..n, i # j PROVE ToSet(ss[i]) \cap ToSet(ss[j]) = {}
    <3>1. loaded[i] # loaded[j]
      BY <2>2, <2>3, <2>7 DEF IsInjective
    <3> QED
      BY <2>4, <3>1, FreedApart
  <2>8. Disjoint(Nat, ss)
    BY <2>4, <2>6, <2>7 DEF Disjoint
  <2>9. flat \in Seq(Nat) /\ IsInjective(flat) /\ ToSet(flat) = Union(ss, n)
    BY <2>6, <2>8, FlattenIs
  <2> HIDE DEF flat
  <2>10. \A t : t \in ToSet(flat) <=> \E p \in Procs : pgd[p] # 0 /\ t \in ToSet(ExitFrees(p))
    <3>1. \A p \in Procs : pgd[p] # 0 => \E k \in 1..n : loaded[k] = p
      BY <2>2, <2>3 DEF ToSet
    <3>2. \A t : t \in ToSet(flat) <=> \E k \in 1..n : t \in ToSet(ss[k])
      BY <2>9 DEF Union
    <3> QED
      BY <2>4, <3>1, <3>2
  <2>11. /\ last \in Seq(Nat) /\ IsInjective(last)
         /\ ToSet(last) = IF os_pgd = 0 THEN {} ELSE {os_pgd}
    <3>1. CASE os_pgd = 0
      BY <3>1 DEF IsInjective, ToSet
    <3>2. CASE os_pgd # 0
      BY <3>2, ShutdownFreesIs
    <3> QED
      BY <3>1, <3>2
  <2> HIDE DEF last
  <2>12. ToSet(flat) \cap ToSet(last) = {}
    BY <2>10, <2>11, OsApart
  <2>13. freed \in Seq(Nat) /\ IsInjective(freed) /\ ToSet(freed) = ToSet(flat) \cup ToSet(last)
    BY <2>9, <2>11, <2>12, ConcatIs
  <2>14. ToSet(freed) = DOMAIN tables
    <3>1. \A t : t \in ToSet(freed) <=> t \in DOMAIN tables
      BY <2>10, <2>11, <2>13, AllFreed
    <3> QED
      BY <3>1
  <2> QED
    BY <2>13, <2>14, Zenon DEF TablesOwnedOnce, freed, flat, last, ss, loaded, S
<1> QED
  BY <1>1, TablesKept, PTL
=============================================================================
