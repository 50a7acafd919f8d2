---------------------------- MODULE QueueProofs -----------------------------
(***************************************************************************)
(* Lemmas about sequences, numbers and finite sets that all the proofs      *)
(* share. What the operations of queue.c do to a sequence of distinct       *)
(* processes: enqueue, dequeue and purgequeue as sets and lengths.          *)
(* Induction over the numbers and over the subsets of a finite set, from    *)
(* the order of the numbers being well founded; folds of a sequence, as a   *)
(* function of how far they have come; and sums over a finite set.          *)
(***************************************************************************)
EXTENDS Integers, SequencesExt, SequenceTheorems, FiniteSetTheorems,
        WellFoundedInduction, TLAPS

(* A set of positions has a least one, so RemoveFirst stays a sequence *)
LEMMA LeastOf ==
    ASSUME NEW S, S \subseteq Nat, S # {} PROVE \E x \in S : \A y \in S : x <= y
<1> DEFINE R == OpToRel(<, Nat)
<1>1. IsWellFoundedOn(R, Nat)
  BY NatLessThanWellFounded
<1>2. \A x, y \in Nat : y < x => <<y, x>> \in R
  BY DEF OpToRel
<1> HIDE DEF R
<1>3. PICK x \in S : \A y \in S : ~(<<y, x>> \in R)
  BY <1>1, WFMin
<1>4. \A y \in S : x =< y
  <2> SUFFICES ASSUME NEW y \in S PROVE x =< y
    OBVIOUS
  <2>1. x \in Nat /\ y \in Nat
    OBVIOUS
  <2>2. ~(y < x)
    BY <1>2, <1>3, <2>1
  <2> QED
    BY <2>1, <2>2
<1> QED
  BY <1>4

(* Min yields an element that no other is below *)
LEMMA MinIsIn ==
    ASSUME NEW S, S \subseteq Nat, S # {}
    PROVE  Min(S) \in S /\ \A x \in S : Min(S) <= x
  BY LeastOf DEF Min

(* purge_queue takes elements out of a queue and puts none in *)
LEMMA RemoveFirstType ==
    ASSUME NEW S, NEW s \in Seq(S), NEW e PROVE RemoveFirst(s, e) \in Seq(S)
<1> DEFINE I == {j \in 1..Len(s) : s[j] = e}
           k == Min(I)
<1>1. CASE I # {}
  <2>1. k \in 1..Len(s)
    <3>1. I \subseteq Nat
      BY LenProperties
    <3> QED
      BY <1>1, <3>1, MinIsIn
  <2>2. RemoveFirst(s, e) = SubSeq(s, 1, k - 1) \o SubSeq(s, k + 1, Len(s))
    <3>1. \E j \in 1..Len(s) : s[j] = e
      BY <1>1
    <3>2. RemoveFirst(s, e) = RemoveAt(s, SelectInSeq(s, LAMBDA v : v = e))
      BY <3>1, Zenon DEF RemoveFirst
    <3>3. SelectInSeq(s, LAMBDA v : v = e) = k
      BY <1>1, Zenon DEF SelectInSeq
    <3> QED
      BY <3>2, <3>3, Zenon DEF RemoveAt
  <2> HIDE DEF k
  <2>3. SubSeq(s, 1, k - 1) \in Seq(S) /\ SubSeq(s, k + 1, Len(s)) \in Seq(S)
    BY <2>1, SubSeqProperties, LenProperties, ElementOfSeq
  <2> QED
    BY <2>2, <2>3, ConcatProperties
<1>2. CASE I = {}
  BY <1>2, Zenon DEF RemoveFirst
<1> QED
  BY <1>1, <1>2

(* A removal takes one occurrence out and closes the gap *)
LEMMA RemoveFirstAt ==
    ASSUME NEW S, NEW s \in Seq(S), NEW e \in ToSet(s)
    PROVE  \E k \in 1..Len(s) :
             /\ s[k] = e
             /\ RemoveFirst(s, e) \in Seq(S)
             /\ Len(RemoveFirst(s, e)) = Len(s) - 1
             /\ \A j \in 1..(Len(s) - 1) :
                   RemoveFirst(s, e)[j] = IF j < k THEN s[j] ELSE s[j + 1]
<1> DEFINE I == {j \in 1..Len(s) : s[j] = e}
           k == Min(I)
           l == SubSeq(s, 1, k - 1)
           r == SubSeq(s, k + 1, Len(s))
<1>1. Len(s) \in Nat /\ \E j \in 1..Len(s) : s[j] = e
  BY LenProperties DEF ToSet
<1>2. k \in I
  <2>1. I \subseteq Nat /\ I # {}
    BY <1>1
  <2> QED
    BY <2>1, MinIsIn
<1>3. RemoveFirst(s, e) = l \o r
  <2>1. RemoveFirst(s, e) = RemoveAt(s, SelectInSeq(s, LAMBDA v : v = e))
    BY <1>1, Zenon DEF RemoveFirst
  <2>2. SelectInSeq(s, LAMBDA v : v = e) = k
    BY <1>1, Zenon DEF SelectInSeq
  <2> QED
    BY <2>1, <2>2, Zenon DEF RemoveAt
<1>4. k \in 1..Len(s) /\ s[k] = e
  BY <1>2
<1> HIDE DEF k
<1>5. /\ l \in Seq(S) /\ Len(l) = k - 1
      /\ \A j \in 1..(k - 1) : l[j] = s[j]
  <2>1. \A j \in 1..(k - 1) : s[j] \in S
    BY <1>1, <1>4, ElementOfSeq
  <2>2. /\ l \in Seq(S) /\ Len(l) = IF 1 <= k - 1 THEN (k - 1) - 1 + 1 ELSE 0
        /\ \A j \in 1..((k - 1) - 1 + 1) : l[j] = s[1 + j - 1]
    BY <1>1, <1>4, <2>1, SubSeqProperties
  <2> QED
    BY <1>1, <1>4, <2>2
<1>6. /\ r \in Seq(S) /\ Len(r) = Len(s) - k
      /\ \A j \in 1..(Len(s) - k) : r[j] = s[k + j]
  <2>1. \A j \in (k + 1)..Len(s) : s[j] \in S
    BY <1>1, <1>4, ElementOfSeq
  <2>2. /\ r \in Seq(S) /\ Len(r) = IF k + 1 <= Len(s) THEN Len(s) - (k + 1) + 1 ELSE 0
        /\ \A j \in 1..(Len(s) - (k + 1) + 1) : r[j] = s[(k + 1) + j - 1]
    BY <1>1, <1>4, <2>1, SubSeqProperties
  <2> QED
    BY <1>1, <1>4, <2>2
<1> HIDE DEF l, r
<1> DEFINE t == l \o r
<1>7. /\ t \in Seq(S) /\ Len(t) = Len(l) + Len(r)
      /\ \A j \in 1..(Len(l) + Len(r)) : t[j] = IF j <= Len(l) THEN l[j] ELSE r[j - Len(l)]
  BY <1>5, <1>6, ConcatProperties
<1> HIDE DEF t
<1>8. Len(t) = Len(s) - 1 /\ k - 1 \in Nat /\ Len(l) + Len(r) = Len(s) - 1
  BY <1>1, <1>4, <1>5, <1>6, <1>7
<1>9. ASSUME NEW j \in 1..(Len(s) - 1)
      PROVE  t[j] = IF j < k THEN s[j] ELSE s[j + 1]
  <2>1. t[j] = IF j <= k - 1 THEN l[j] ELSE r[j - (k - 1)]
    BY <1>5, <1>7, <1>8
  <2>2. CASE j < k
    BY <1>1, <1>4, <1>5, <2>1, <2>2
  <2>3. CASE ~(j < k)
    <3>1. j - (k - 1) \in 1..(Len(s) - k) /\ k + (j - (k - 1)) = j + 1 /\ ~(j <= k - 1)
      BY <1>1, <1>4, <2>3
    <3>2. r[j - (k - 1)] = s[k + (j - (k - 1))]
      BY <1>6, <3>1
    <3> QED
      BY <2>1, <2>3, <3>1, <3>2
  <2> QED
    BY <2>2, <2>3
<1> QED
  BY <1>3, <1>4, <1>7, <1>8, <1>9 DEF t

(* purgequeue *)
LEMMA RemoveFirstIs ==
    ASSUME NEW S, NEW s \in Seq(S), IsInjective(s), NEW e \in ToSet(s)
    PROVE  /\ RemoveFirst(s, e) \in Seq(S) /\ IsInjective(RemoveFirst(s, e))
           /\ Len(RemoveFirst(s, e)) = Len(s) - 1
           /\ ToSet(RemoveFirst(s, e)) = ToSet(s) \ {e}
<1> DEFINE t == RemoveFirst(s, e)
<1>1. PICK k \in 1..Len(s) :
             /\ s[k] = e /\ t \in Seq(S) /\ Len(t) = Len(s) - 1
             /\ \A j \in 1..(Len(s) - 1) : t[j] = IF j < k THEN s[j] ELSE s[j + 1]
  BY RemoveFirstAt
<1> HIDE DEF t
<1>2. /\ Len(s) \in Nat /\ DOMAIN s = 1..Len(s) /\ DOMAIN t = 1..(Len(s) - 1)
  BY <1>1, LenProperties
<1>3. \A a, b \in 1..Len(s) : s[a] = s[b] => a = b
  BY <1>2 DEF IsInjective
<1>4. IsInjective(t)
  <2> SUFFICES ASSUME NEW a \in 1..(Len(s) - 1), NEW b \in 1..(Len(s) - 1), t[a] = t[b]
               PROVE  a = b
    BY <1>2 DEF IsInjective
  <2> DEFINE u(j) == IF j < k THEN j ELSE j + 1
  <2>1. u(a) \in 1..Len(s) /\ u(b) \in 1..Len(s)
    BY <1>2
  <2>2. t[a] = s[u(a)] /\ t[b] = s[u(b)]
    BY <1>1
  <2>3. u(a) = u(b)
    BY <1>3, <2>1, <2>2
  <2> QED
    BY <1>1, <1>2, <2>3
<1>5. ASSUME NEW x \in ToSet(t) PROVE x \in ToSet(s) \ {e}
  <2>1. PICK j \in 1..(Len(s) - 1) : x = t[j]
    BY <1>2 DEF ToSet
  <2>2. PICK m \in 1..Len(s) : x = s[m] /\ m # k
    BY <1>1, <1>2, <2>1
  <2> QED
    BY <1>1, <1>2, <1>3, <2>2 DEF ToSet
<1>6. ASSUME NEW x \in ToSet(s) \ {e} PROVE x \in ToSet(t)
  <2>1. PICK m \in 1..Len(s) : x = s[m]
    BY <1>2 DEF ToSet
  <2>2. m # k
    BY <1>1, <1>6, <2>1
  <2>3. PICK j \in 1..(Len(s) - 1) : x = t[j]
    <3>1. CASE m < k
      BY <1>1, <1>2, <2>1, <3>1
    <3>2. CASE m > k
      <4>1. m - 1 \in 1..(Len(s) - 1) /\ ~(m - 1 < k) /\ (m - 1) + 1 = m
        BY <1>1, <1>2, <2>1, <3>2
      <4> QED
        BY <1>1, <2>1, <4>1
    <3> QED
      BY <1>1, <1>2, <2>1, <2>2, <3>1, <3>2
  <2> QED
    BY <1>2, <2>3 DEF ToSet
<1> QED
  BY <1>1, <1>4, <1>5, <1>6 DEF t

(* dequeue *)
LEMMA TailIs ==
    ASSUME NEW S, NEW s \in Seq(S), IsInjective(s), s # <<>>
    PROVE  /\ Head(s) \in ToSet(s) /\ Tail(s) \in Seq(S) /\ IsInjective(Tail(s))
           /\ ToSet(Tail(s)) = ToSet(s) \ {Head(s)}
<1> DEFINE t == Tail(s)
<1>1. /\ t \in Seq(S) /\ Len(t) = Len(s) - 1 /\ Len(s) \in Nat \ {0}
      /\ \A j \in 1..Len(t) : t[j] = s[j + 1]
  BY HeadTailProperties, EmptySeq
<1>2. DOMAIN s = 1..Len(s) /\ DOMAIN t = 1..Len(t) /\ Head(s) = s[1]
  BY <1>1, LenProperties
<1> HIDE DEF t
<1>3. \A a, b \in 1..Len(s) : s[a] = s[b] => a = b
  BY <1>2 DEF IsInjective
<1>4. IsInjective(t)
  BY <1>1, <1>2, <1>3 DEF IsInjective
<1>5. ASSUME NEW x \in ToSet(t) PROVE x \in ToSet(s) \ {s[1]}
  <2>1. PICK j \in 1..Len(t) : x = s[j + 1]
    BY <1>1, <1>2 DEF ToSet
  <2>2. j + 1 \in 1..Len(s) /\ 1 \in 1..Len(s) /\ j + 1 # 1
    BY <1>1
  <2>3. s[j + 1] # s[1]
    BY <1>3, <2>2
  <2> QED
    BY <1>2, <2>1, <2>2, <2>3 DEF ToSet
<1>6. ASSUME NEW x \in ToSet(s) \ {s[1]} PROVE x \in ToSet(t)
  <2>1. PICK m \in 1..Len(s) : x = s[m] /\ m # 1
    BY <1>2 DEF ToSet
  <2>2. m - 1 \in 1..Len(t) /\ (m - 1) + 1 = m
    BY <1>1, <2>1
  <2> QED
    BY <1>1, <1>2, <2>1, <2>2 DEF ToSet
<1>7. s[1] \in ToSet(s)
  BY <1>1, <1>2 DEF ToSet
<1> QED
  BY <1>1, <1>2, <1>4, <1>5, <1>6, <1>7 DEF t

(* enqueue, of a process that is not there *)
LEMMA AppendIs ==
    ASSUME NEW S, NEW s \in Seq(S), IsInjective(s), NEW e \in S, e \notin ToSet(s)
    PROVE  /\ Append(s, e) \in Seq(S) /\ IsInjective(Append(s, e))
           /\ Len(Append(s, e)) = Len(s) + 1
           /\ ToSet(Append(s, e)) = ToSet(s) \cup {e}
<1> DEFINE t == Append(s, e)
<1>1. /\ t \in Seq(S) /\ Len(t) = Len(s) + 1 /\ Len(s) \in Nat
      /\ \A j \in 1..Len(s) : t[j] = s[j]
      /\ t[Len(s) + 1] = e
  BY AppendProperties, LenProperties
<1>2. DOMAIN s = 1..Len(s) /\ DOMAIN t = 1..(Len(s) + 1)
  BY <1>1, LenProperties
<1> HIDE DEF t
<1>3. IsInjective(t)
  BY <1>1, <1>2 DEF IsInjective, ToSet
<1>4. ToSet(t) = ToSet(s) \cup {e}
  BY <1>1, <1>2 DEF ToSet
<1> QED
  BY <1>1, <1>3, <1>4 DEF t

(* Two such sequences one after the other *)
LEMMA ConcatIs ==
    ASSUME NEW S, NEW s \in Seq(S), NEW t \in Seq(S), IsInjective(s), IsInjective(t),
           ToSet(s) \cap ToSet(t) = {}
    PROVE  /\ s \o t \in Seq(S) /\ IsInjective(s \o t)
           /\ ToSet(s \o t) = ToSet(s) \cup ToSet(t)
<1> DEFINE r == s \o t
           m == Len(s)
           n == Len(t)
<1>1. /\ m \in Nat /\ DOMAIN s = 1..m /\ ToSet(s) = {s[k] : k \in 1..m}
      /\ n \in Nat /\ DOMAIN t = 1..n /\ ToSet(t) = {t[k] : k \in 1..n}
  BY LenProperties DEF ToSet
<1>2. /\ r \in Seq(S) /\ Len(r) = m + n
      /\ \A k \in 1..(m + n) : r[k] = IF k <= m THEN s[k] ELSE t[k - m]
  BY ConcatProperties
<1> HIDE DEF r, m, n
<1>3. DOMAIN r = 1..(m + n) /\ ToSet(r) = {r[k] : k \in 1..(m + n)}
  BY <1>2, LenProperties DEF ToSet
<1>4. /\ \A k \in 1..m : k \in 1..(m + n) /\ r[k] = s[k]
      /\ \A k \in 1..n : m + k \in 1..(m + n) /\ r[m + k] = t[k]
      /\ \A k \in 1..(m + n) : k > m => k - m \in 1..n /\ r[k] = t[k - m]
  <2>1. ASSUME NEW k \in 1..m PROVE k \in 1..(m + n) /\ r[k] = s[k]
    BY <1>1, <1>2
  <2>2. ASSUME NEW k \in 1..n PROVE m + k \in 1..(m + n) /\ r[m + k] = t[k]
    <3>1. m + k \in 1..(m + n) /\ ~(m + k <= m) /\ (m + k) - m = k
      BY <1>1
    <3> QED
      BY <1>2, <3>1
  <2>3. ASSUME NEW k \in 1..(m + n), k > m PROVE k - m \in 1..n /\ r[k] = t[k - m]
    <3>1. k - m \in 1..n /\ ~(k <= m)
      BY <1>1, <2>3
    <3> QED
      BY <1>2, <3>1
  <2> QED
    BY <2>1, <2>2, <2>3
<1>5. ToSet(r) = ToSet(s) \cup ToSet(t)
  <2>1. ASSUME NEW k \in 1..(m + n) PROVE r[k] \in ToSet(s) \cup ToSet(t)
    <3>1. CASE k <= m
      BY <1>1, <1>4, <3>1
    <3>2. CASE k > m
      BY <1>1, <1>4, <3>2
    <3> QED
      BY <1>1, <3>1, <3>2
  <2>2. ASSUME NEW k \in 1..m PROVE s[k] \in ToSet(r)
    BY <1>3, <1>4
  <2>3. ASSUME NEW k \in 1..n PROVE t[k] \in ToSet(r)
    BY <1>3, <1>4
  <2> QED
    BY <1>1, <1>3, <2>1, <2>2, <2>3, ZenonT(30)
<1>6. ASSUME NEW a \in 1..(m + n), NEW b \in 1..(m + n), r[a] = r[b] PROVE a = b
  <2>1. CASE a <= m /\ b <= m
    <3>1. a \in 1..m /\ b \in 1..m /\ s[a] = s[b]
      BY <1>1, <1>4, <1>6, <2>1
    <3> QED
      BY <1>1, <3>1 DEF IsInjective
  <2>2. CASE a > m /\ b > m
    <3>1. a - m \in 1..n /\ b - m \in 1..n /\ t[a - m] = t[b - m]
      BY <1>4, <1>6, <2>2
    <3>2. a - m = b - m
      BY <1>1, <3>1 DEF IsInjective
    <3> QED
      BY <1>1, <3>2
  <2>3. CASE a <= m /\ b > m
    <3>1. a \in 1..m /\ r[a] = s[a] /\ b - m \in 1..n /\ r[b] = t[b - m]
      BY <1>1, <1>4, <2>3
    <3> QED
      BY <1>1, <1>6, <3>1
  <2>4. CASE a > m /\ b <= m
    <3>1. b \in 1..m /\ r[b] = s[b] /\ a - m \in 1..n /\ r[a] = t[a - m]
      BY <1>1, <1>4, <2>4
    <3> QED
      BY <1>1, <1>6, <3>1
  <2> QED
    BY <1>1, <2>1, <2>2, <2>3, <2>4
<1>7. IsInjective(r)
  BY <1>3, <1>6, ZenonT(30) DEF IsInjective
<1> QED
  BY <1>2, <1>5, <1>7 DEF r

(* A queue of distinct processes is as long as the set of them is large *)
LEMMA DistinctLength ==
    ASSUME NEW S, NEW s \in Seq(S), IsInjective(s)
    PROVE  IsFiniteSet(ToSet(s)) /\ Cardinality(ToSet(s)) = Len(s)
<1>1. Len(s) \in Nat /\ s \in [1..Len(s) -> S] /\ DOMAIN s = 1..Len(s)
  BY LenProperties
<1>2. s \in Bijection(1..Len(s), ToSet(s))
  <2>1. s \in [1..Len(s) -> ToSet(s)]
    BY <1>1 DEF ToSet
  <2> QED
    BY <1>1, <2>1 DEF Bijection, Injection, Surjection, ToSet
<1>3. IsFiniteSet(1..Len(s)) /\ Cardinality(1..Len(s)) = Len(s)
  <2>1. 1 \in Int /\ Len(s) \in Int
    BY <1>1
  <2>2. /\ IsFiniteSet(1..Len(s))
        /\ Cardinality(1..Len(s)) = IF 1 > Len(s) THEN 0 ELSE Len(s) - 1 + 1
    BY ONLY <2>1, FS_Interval, Zenon
  <2> QED
    BY ONLY <1>1, <2>2
<1> QED
  BY <1>2, <1>3, FS_Bijection DEF ExistsBijection

-----------------------------------------------------------------------------
(* Induction over the numbers, as a statement about sets *)
LEMMA NatSteps ==
    ASSUME NEW S, 0 \in S, \A n \in Nat : n \in S => n + 1 \in S
    PROVE  Nat \subseteq S
<1> SUFFICES ASSUME Nat \ S # {} PROVE FALSE
  OBVIOUS
<1> DEFINE R == Nat \ S
<1>1. R # {} /\ R \subseteq Nat
  OBVIOUS
<1> HIDE DEF R
<1>2. PICK m \in R : \A n \in R : m <= n
  BY <1>1, LeastOf
<1>3. m \in Nat \ S /\ m # 0
  BY <1>1 DEF R
<1>4. m - 1 \in Nat /\ (m - 1) + 1 = m /\ ~(m <= m - 1)
  BY <1>3
<1>5. m - 1 \in S
  BY <1>2, <1>4 DEF R
<1>6. m \in S
  BY <1>4, <1>5
<1> QED
  BY <1>3, <1>6

(* FoldLeft takes the largest index of those that are left *)
LEMMA MaxInterval == \A n \in Nat \ {0} : Max(1..n) = n
<1> SUFFICES ASSUME NEW n \in Nat \ {0} PROVE Max(1..n) = n
  OBVIOUS
<1>1. n \in 1..n /\ \A y \in 1..n : n >= y
  OBVIOUS
<1>2. Max(1..n) \in 1..n /\ \A y \in 1..n : Max(1..n) >= y
  BY <1>1 DEF Max
<1> QED
  BY <1>1, <1>2

LEMMA MaxIs ==
    ASSUME NEW n \in Nat, NEW S \in SUBSET (1..n), n \in S PROVE Max(S) = n
<1>1. \A y \in S : n >= y /\ y \in Nat
  OBVIOUS
<1>2. Max(S) \in S /\ \A y \in S : Max(S) >= y
  BY <1>1 DEF Max
<1>3. Max(S) \in Nat /\ n >= Max(S) /\ Max(S) >= n
  BY <1>1, <1>2
<1> QED
  BY <1>3

LEMMA MaxIsIn ==
    ASSUME NEW n \in Nat, NEW S \in SUBSET (1..n), S # {} PROVE Max(S) \in S
<1> DEFINE U == {n - k : k \in S}
<1>1. U \subseteq Nat /\ U # {}
  <2>1. \A k \in S : n - k \in Nat
    OBVIOUS
  <2> QED
    BY <2>1
<1>2. PICK x \in U : \A y \in U : x <= y
  <2> HIDE DEF U
  <2> QED
    BY <1>1, LeastOf
<1>3. PICK m \in S : x = n - m
  OBVIOUS
<1>4. \A k \in S : m >= k
  BY <1>2, <1>3
<1> QED
  BY <1>4 DEF Max

(* g holds the values of a fold from left to right on the first k elements, as
   the fold computes them: for every set of positions, the largest one last *)
FoldOn(g, k, f, base, s) ==
  \A S \in SUBSET (1..k) :
     g[S] = IF S = {} THEN base ELSE f[<<g[S \ {Max(S)}], s[Max(S)]>>]

HasFold(T, k, f, base, s) == \E g \in [SUBSET (1..k) -> T] : FoldOn(g, k, f, base, s)

(* There is such a function, which a recursive definition does not say by itself *)
LEMMA FoldExists ==
    ASSUME NEW T, NEW E, NEW base \in T, NEW s \in Seq(E), NEW f \in [T \X E -> T]
    PROVE  HasFold(T, Len(s), f, base, s)
<1> DEFINE Q == {k \in Nat : k <= Len(s) => HasFold(T, k, f, base, s)}
<1>0. Len(s) \in Nat /\ \A k \in 1..Len(s) : s[k] \in E
  BY LenProperties, ElementOfSeq
<1>1. 0 \in Q
  <2> DEFINE g == [S \in SUBSET (1..0) |-> base]
  <2>1. 1..0 = {}
    OBVIOUS
  <2>2. g \in [SUBSET (1..0) -> T] /\ FoldOn(g, 0, f, base, s)
    BY <2>1 DEF FoldOn
  <2> HIDE DEF g
  <2>3. HasFold(T, 0, f, base, s)
    BY <2>2 DEF HasFold
  <2> QED
    BY <2>3
<1>2. ASSUME NEW k \in Nat, k \in Q PROVE k + 1 \in Q
  <2> SUFFICES ASSUME k + 1 <= Len(s)
               PROVE  HasFold(T, k + 1, f, base, s)
    BY <1>2
  <2>1. k <= Len(s) /\ s[k + 1] \in E
    BY <1>0, <1>2
  <2>2. PICK h \in [SUBSET (1..k) -> T] : FoldOn(h, k, f, base, s)
    BY <1>2, <2>1 DEF HasFold
  <2> DEFINE g == [S \in SUBSET (1..(k + 1)) |->
                     IF k + 1 \in S THEN f[<<h[S \ {k + 1}], s[k + 1]>>] ELSE h[S]]
  <2>3. \A S \in SUBSET (1..(k + 1)) : /\ S \ {k + 1} \in SUBSET (1..k)
                                       /\ k + 1 \notin S => S \in SUBSET (1..k)
    BY <1>2
  <2>4. ASSUME NEW S \in SUBSET (1..(k + 1)) PROVE g[S] \in T
    <3>1. CASE k + 1 \in S
      <4>1. h[S \ {k + 1}] \in T
        BY <2>3
      <4>2. f[<<h[S \ {k + 1}], s[k + 1]>>] \in T
        BY <2>1, <4>1
      <4> QED
        BY <3>1, <4>2
    <3>2. CASE k + 1 \notin S
      BY <2>3, <3>2
    <3> QED
      BY <3>1, <3>2
  <2>5. g \in [SUBSET (1..(k + 1)) -> T]
    BY <2>4
  <2>6. ASSUME NEW S \in SUBSET (1..(k + 1))
        PROVE  g[S] = IF S = {} THEN base ELSE f[<<g[S \ {Max(S)}], s[Max(S)]>>]
    <3> DEFINE rest == S \ {Max(S)}
    <3>1. CASE k + 1 \in S
      <4>1. Max(S) = k + 1 /\ S # {}
        BY <2>1, <3>1, MaxIs
      <4>2. rest = S \ {k + 1} /\ g[rest] = h[rest]
        BY <2>3, <4>1
      <4>3. g[S] = f[<<h[S \ {k + 1}], s[k + 1]>>]
        BY <3>1
      <4> HIDE DEF g, rest
      <4>4. g[S] = f[<<g[rest], s[Max(S)]>>]
        BY <4>1, <4>2, <4>3
      <4> QED
        BY <4>1, <4>4, Zenon DEF rest
    <3>2. CASE k + 1 \notin S
      <4>1. S \in SUBSET (1..k) /\ rest \in SUBSET (1..k) /\ k + 1 \notin rest
        <5>1. S \in SUBSET (1..k)
          BY <2>3, <3>2
        <5>2. rest \subseteq S
          OBVIOUS
        <5> HIDE DEF rest, g
        <5> QED
          BY <3>2, <5>1, <5>2
      <4>2. \A U \in SUBSET (1..k) : U \in SUBSET (1..(k + 1))
        OBVIOUS
      <4>3. g[S] = h[S] /\ g[rest] = h[rest]
        BY <3>2, <4>1, <4>2, Zenon
      <4>4. h[S] = IF S = {} THEN base ELSE f[<<h[rest], s[Max(S)]>>]
        BY <2>2, <4>1 DEF FoldOn
      <4> HIDE DEF g, rest
      <4> QED
        BY <4>3, <4>4 DEF rest
    <3> QED
      BY <3>1, <3>2
  <2> HIDE DEF g
  <2> QED
    BY <2>5, <2>6 DEF FoldOn, HasFold
<1>3. Nat \subseteq Q
  <2> HIDE DEF Q
  <2> QED
    BY <1>1, <1>2, NatSteps
<1> QED
  BY <1>0, <1>3

(* Induction up to n *)
LEMMA UpTo ==
    ASSUME NEW n \in Nat, NEW G, 0 \in G, \A k \in 1..n : k - 1 \in G => k \in G
    PROVE  0..n \subseteq G
<1> DEFINE S == {k \in Nat : k <= n => k \in G}
<1>1. 0 \in S
  OBVIOUS
<1>2. ASSUME NEW k \in Nat, k \in S PROVE k + 1 \in S
  <2>1. k + 1 <= n => k + 1 \in 1..n /\ (k + 1) - 1 = k /\ k <= n
    OBVIOUS
  <2> QED
    BY <1>2, <2>1
<1> HIDE DEF S
<1>3. Nat \subseteq S
  BY <1>1, <1>2, NatSteps
<1> QED
  BY <1>3 DEF S

(* The sequence of positions 1..k is folded after 1..(k - 1) *)
LEMMA Initials ==
    ASSUME NEW k \in Nat \ {0}
    PROVE  Max(1..k) = k /\ (1..k) \ {k} = 1..(k - 1) /\ 1..k # {}
<1>1. Max(1..k) = k
  BY MaxInterval, Zenon
<1>2. (1..k) \ {k} = 1..(k - 1) /\ k \in 1..k
  OBVIOUS
<1> QED
  BY <1>1, <1>2

LEMMA MaxOfTwo ==
    ASSUME NEW a \in Nat, NEW b \in Nat
    PROVE  Max({a, b}) = IF a >= b THEN a ELSE b
<1> DEFINE m == IF a >= b THEN a ELSE b
<1>1. m \in {a, b} /\ \A y \in {a, b} : m >= y
  OBVIOUS
<1>2. Max({a, b}) \in {a, b} /\ \A y \in {a, b} : Max({a, b}) >= y
  BY <1>1 DEF Max
<1> QED
  BY <1>2
-----------------------------------------------------------------------------
(* Sums over finite sets *)

Some(s) == CHOOSE x \in s : TRUE

(* g holds the sums of f over the sets of C, which has the sets without one
   element with each set, as the library's fold computes them *)
SumOn(g, f, C) ==
  \A s \in C : g[s] = IF s = {} THEN 0 ELSE f[Some(s)] + g[s \ {Some(s)}]

HasSum(f, C) == \E g \in [C -> Nat] : SumOn(g, f, C)

(* The subsets of S with at most n elements *)
Small(S, n) == {s \in SUBSET S : Cardinality(s) <= n}

LEMMA SmallIs ==
    ASSUME NEW S, IsFiniteSet(S), NEW n \in Nat
    PROVE  /\ Small(S, 0) = {{}}
           /\ \A s \in Small(S, n + 1) : s # {} => s \ {Some(s)} \in Small(S, n) /\ Some(s) \in s
           /\ Small(S, n) \subseteq Small(S, n + 1)
           /\ Small(S, Cardinality(S)) = SUBSET S
<1>1. \A s \in SUBSET S : /\ IsFiniteSet(s) /\ Cardinality(s) \in Nat
                          /\ Cardinality(s) <= Cardinality(S)
  BY FS_Subset, FS_CardinalityType
<1>2. \A s \in SUBSET S : Cardinality(s) = 0 <=> s = {}
  BY <1>1, FS_EmptySet
<1>3. Small(S, 0) = {{}}
  BY <1>1, <1>2, FS_EmptySet DEF Small
<1>4. ASSUME NEW s \in Small(S, n + 1), s # {}
      PROVE  s \ {Some(s)} \in Small(S, n) /\ Some(s) \in s
  <2>1. Some(s) \in s
    BY <1>4 DEF Some
  <2>2. IsFiniteSet(s) /\ Cardinality(s) <= n + 1 /\ Cardinality(s) \in Nat /\ s \in SUBSET S
    BY <1>1 DEF Small
  <2>3. Cardinality(s \ {Some(s)}) = Cardinality(s) - 1
    BY <2>1, <2>2, FS_RemoveElement
  <2>4. Cardinality(s \ {Some(s)}) <= n
    BY <2>2, <2>3
  <2> QED
    BY <2>1, <2>2, <2>4 DEF Small
<1>5. Small(S, n) \subseteq Small(S, n + 1)
  BY <1>1 DEF Small
<1>6. Small(S, Cardinality(S)) = SUBSET S
  BY <1>1 DEF Small
<1> QED
  BY <1>3, <1>4, <1>5, <1>6

(* Induction over the subsets of a finite set in the order of the fold *)
LEMMA SubsetSteps ==
    ASSUME NEW S, IsFiniteSet(S), NEW G, {} \in G,
           \A s \in SUBSET S : s # {} /\ s \ {Some(s)} \in G => s \in G
    PROVE  SUBSET S \subseteq G
<1> DEFINE Q == {n \in Nat : Small(S, n) \subseteq G}
<1>1. 0 \in Q
  BY SmallIs
<1>2. ASSUME NEW n \in Nat, n \in Q PROVE n + 1 \in Q
  <2> SUFFICES ASSUME NEW s \in Small(S, n + 1) PROVE s \in G
    BY <1>2
  <2>1. s \in SUBSET S
    BY DEF Small
  <2>2. s # {} => s \ {Some(s)} \in G
    BY <1>2, SmallIs
  <2> QED
    BY <2>1, <2>2
<1>3. Nat \subseteq Q
  <2> HIDE DEF Q
  <2> QED
    BY <1>1, <1>2, NatSteps
<1>4. Cardinality(S) \in Nat
  BY FS_CardinalityType
<1> QED
  BY <1>3, <1>4, SmallIs

LEMMA SumExists ==
    ASSUME NEW S, IsFiniteSet(S), NEW T, S \subseteq T, NEW f \in [T -> Nat]
    PROVE  HasSum(f, SUBSET S)
<1> DEFINE Q == {n \in Nat : HasSum(f, Small(S, n))}
<1>1. 0 \in Q
  <2> DEFINE g == [s \in {{}} |-> 0]
  <2>1. g \in [Small(S, 0) -> Nat] /\ SumOn(g, f, Small(S, 0))
    BY SmallIs DEF SumOn
  <2> HIDE DEF g
  <2> QED
    BY <2>1 DEF HasSum
<1>2. ASSUME NEW n \in Nat, n \in Q PROVE n + 1 \in Q
  <2>1. PICK h \in [Small(S, n) -> Nat] : SumOn(h, f, Small(S, n))
    BY <1>2 DEF HasSum
  <2> DEFINE g == [s \in Small(S, n + 1) |->
                     IF s = {} THEN 0 ELSE f[Some(s)] + h[s \ {Some(s)}]]
  <2>2. ASSUME NEW s \in Small(S, n + 1) PROVE g[s] \in Nat
    <3>1. CASE s # {}
      <4>1. f[Some(s)] \in Nat /\ h[s \ {Some(s)}] \in Nat
        BY <3>1, SmallIs DEF Small
      <4> QED
        BY <3>1, <4>1
    <3> QED
      BY <3>1
  <2>3. \A s \in Small(S, n) : g[s] = h[s]
    BY <2>1, SmallIs DEF SumOn
  <2>4. g \in [Small(S, n + 1) -> Nat]
    BY <2>2
  <2>5. SumOn(g, f, Small(S, n + 1))
    <3> SUFFICES ASSUME NEW s \in Small(S, n + 1)
                 PROVE  g[s] = IF s = {} THEN 0 ELSE f[Some(s)] + g[s \ {Some(s)}]
      BY DEF SumOn
    <3>1. CASE s = {}
      BY <3>1
    <3>2. CASE s # {}
      <4>1. g[s \ {Some(s)}] = h[s \ {Some(s)}]
        BY <2>3, <3>2, SmallIs
      <4>2. g[s] = f[Some(s)] + h[s \ {Some(s)}]
        BY <3>2
      <4> HIDE DEF g
      <4> QED
        BY <3>2, <4>1, <4>2
    <3> QED
      BY <3>1, <3>2
  <2> HIDE DEF g
  <2> QED
    BY <2>4, <2>5 DEF HasSum
<1>3. Nat \subseteq Q
  <2> HIDE DEF Q
  <2> QED
    BY <1>1, <1>2, NatSteps
<1>4. Cardinality(S) \in Nat
  BY FS_CardinalityType
<1> QED
  BY <1>3, <1>4, SmallIs

LEMMA SumOfNone ==
    ASSUME NEW g, NEW f, NEW S, SumOn(g, f, SUBSET S) PROVE g[{}] = 0
<1>1. \A s \in SUBSET S : s = {} => g[s] = 0
  BY DEF SumOn
<1>2. {} \in SUBSET S
  OBVIOUS
<1> QED
  BY <1>1, <1>2

(* The sum that the library computes is one of such a function *)
LEMMA SumIs ==
    ASSUME NEW S, IsFiniteSet(S), NEW T, S \subseteq T, NEW f \in [T -> Nat]
    PROVE  \E g \in [SUBSET S -> Nat] : SumOn(g, f, SUBSET S) /\ SumFunctionOnSet(f, S) = g[S]
<1> DEFINE Is(g) == g = [s \in SUBSET S |-> IF s = {} THEN 0 ELSE f[Some(s)] + g[s \ {Some(s)}]]
           iter == CHOOSE g : Is(g)
<1>1. PICK h \in [SUBSET S -> Nat] : SumOn(h, f, SUBSET S)
  BY SumExists DEF HasSum
<1>2. Is(h)
  BY <1>1 DEF SumOn
<1>3. Is(iter)
  BY <1>2
<1>4. SumFunctionOnSet(f, S) = iter[S]
  BY Zenon DEF SumFunctionOnSet, FoldFunctionOnSet, MapThenFoldSet, Some
<1> HIDE DEF iter
<1>5. SumOn(iter, f, SUBSET S)
  BY <1>3 DEF SumOn
<1>6. iter \in [SUBSET S -> Nat]
  <2> DEFINE G == {s \in SUBSET S : iter[s] \in Nat}
  <2>1. {} \in G
    BY <1>5, SumOfNone
  <2>2. ASSUME NEW s \in SUBSET S, s # {}, s \ {Some(s)} \in G PROVE s \in G
    <3>1. iter[s] = f[Some(s)] + iter[s \ {Some(s)}]
      BY <1>5, <2>2 DEF SumOn
    <3>2. f[Some(s)] \in Nat /\ iter[s \ {Some(s)}] \in Nat
      BY <2>2 DEF Some
    <3> QED
      BY <3>1, <3>2
  <2>3. SUBSET S \subseteq G
    <3> HIDE DEF G
    <3> QED
      BY <2>1, <2>2, SubsetSteps
  <2>4. iter = [s \in SUBSET S |-> iter[s]]
    BY <1>3
  <2> QED
    BY <2>3, <2>4
<1> QED
  BY <1>4, <1>5, <1>6

(* A sum is not smaller than one of smaller numbers, and larger by one if one
   of the numbers is *)
LEMMA SumGrows ==
    ASSUME NEW S, IsFiniteSet(S), NEW T, S \subseteq T, NEW f \in [T -> Nat], NEW g \in [T -> Nat],
           \A x \in S : f[x] <= g[x]
    PROVE  /\ SumFunctionOnSet(f, S) \in Nat /\ SumFunctionOnSet(g, S) \in Nat
           /\ SumFunctionOnSet(f, S) <= SumFunctionOnSet(g, S)
           /\ (\E x \in S : f[x] + 1 <= g[x])
              => SumFunctionOnSet(f, S) + 1 <= SumFunctionOnSet(g, S)
<1>1. PICK a \in [SUBSET S -> Nat] : SumOn(a, f, SUBSET S) /\ SumFunctionOnSet(f, S) = a[S]
  BY SumIs
<1>2. PICK b \in [SUBSET S -> Nat] : SumOn(b, g, SUBSET S) /\ SumFunctionOnSet(g, S) = b[S]
  BY SumIs
<1> DEFINE G == {s \in SUBSET S : /\ a[s] <= b[s]
                                  /\ (\E x \in s : f[x] + 1 <= g[x]) => a[s] + 1 <= b[s]}
<1>3. {} \in G
  <2>1. a[{}] = 0 /\ b[{}] = 0
    BY <1>1, <1>2, SumOfNone
  <2> QED
    BY <2>1
<1>4. ASSUME NEW s \in SUBSET S, s # {}, s \ {Some(s)} \in G PROVE s \in G
  <2> DEFINE rest == s \ {Some(s)}
             y == Some(s)
  <2>1. a[s] = f[y] + a[rest] /\ b[s] = g[y] + b[rest]
    BY <1>1, <1>2, <1>4 DEF SumOn
  <2>2. y \in S /\ f[y] \in Nat /\ g[y] \in Nat /\ f[y] <= g[y]
    BY <1>4 DEF Some
  <2>3. a[rest] \in Nat /\ b[rest] \in Nat /\ a[rest] <= b[rest]
    BY <1>4
  <2>4. (\E x \in rest : f[x] + 1 <= g[x]) => a[rest] + 1 <= b[rest]
    BY <1>4
  <2>5. \A x \in s : x = y \/ x \in rest
    OBVIOUS
  <2> HIDE DEF y, rest, G
  <2>6. a[s] <= b[s]
    BY <2>1, <2>2, <2>3
  <2>7. ASSUME NEW x \in s, f[x] + 1 <= g[x] PROVE a[s] + 1 <= b[s]
    <3>1. CASE x = y
      BY <2>1, <2>2, <2>3, <2>7, <3>1
    <3>2. CASE x \in rest
      <4>1. a[rest] + 1 <= b[rest]
        BY <2>4, <2>7, <3>2
      <4> QED
        BY <2>1, <2>2, <2>3, <4>1
    <3> QED
      BY <2>5, <3>1, <3>2
  <2> QED
    BY <2>6, <2>7 DEF G
<1>5. SUBSET S \subseteq G
  <2> HIDE DEF G
  <2> QED
    BY <1>3, <1>4, SubsetSteps
<1>6. S \in G /\ a[S] \in Nat /\ b[S] \in Nat
  BY <1>5
<1> QED
  BY <1>1, <1>2, <1>6
=============================================================================
